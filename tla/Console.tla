-------------------------------- MODULE Console --------------------------------
(***************************************************************************)
(* The console: two bounded buffers (myBuffer), one from the console       *)
(* interrupt to the callers of getc, one from the callers of putc to the   *)
(* console thread (myConsole), on the scheduler's ready queue.             *)
(*                                                                         *)
(* The kernel runs with interrupts masked, the console thread included,    *)
(* which is never returned to by an sret.  So a put or a get is cut in two *)
(* only where its first semaphore may suspend it: one action up to there,  *)
(* one behind it, and nothing but the running thread moves in between      *)
(* unless it was suspended.  mutexHead and mutexTail are taken and given   *)
(* back inside the second part, which does not wait, so they never keep    *)
(* anybody and are left out.  getCnt and the destructor have no caller.    *)
(*                                                                         *)
(* Where a thread is (`at`):                                               *)
(*   "outside"    in its own code, interrupts enabled                      *)
(*   "away"       asleep, or waiting on a semaphore of its own             *)
(*   "putc"       in myConsole::putcOut, called by putc                    *)
(*   "getc"       in myConsole::getcIn, called by getc                     *)
(*   "interrupt"  in myConsole::putcIn, called by the console interrupt    *)
(*   "polling"    in that interrupt, or the console thread in its loop,    *)
(*                about to look at the device's status                     *)
(*   "transmit"   the console thread, in myConsole::getcOut                *)
(***************************************************************************)
EXTENDS Integers, SequencesExt, FiniteSets, Scheduler

CONSTANTS
  User,    \* the threads but the console thread and the idle thread
  Con,     \* the console thread
  Char,    \* the characters
  NoChar,  \* what a thread carries that is not on its way to put one
  Cap      \* the capacity of the buffers

ASSUME ConsoleAssumption ==
  /\ IsFiniteSet(User) /\ User # {} /\ Con \notin User /\ Idle \notin User \cup {Con}
  /\ Cap \in Nat \ {0}
  /\ Char # {} /\ NoChar \notin Char

VARIABLES
  running, ready,  \* the thread on the hart; the ready queue
  at, ch,          \* where each thread is; the character it carries
  buffer, head, tail,           \* the cells and indices of each buffer
  space, item,                  \* val of spaceAvailable and itemAvailable
  spaceWaiters, itemWaiters,    \* their lists of waiting threads
  claimed,         \* the console interrupt is claimed and not completed
  taken            \* history: the character read last from each buffer

hartVars == <<running, ready, at>>
cellVars == <<buffer, head, tail, taken>>
semVars == <<space, item, spaceWaiters, itemWaiters>>
vars == <<hartVars, ch, cellVars, semVars, claimed>>

Threads == User \cup {Con, Idle}
Buffers == {"in", "out"}

-------------------------------------------------------------------------------
(* Mutant: put does not wait for space. *)
WaitSpaceNever(b, place) ==
  /\ at' = [at EXCEPT ![running] = place]
  /\ space' = [space EXCEPT ![b] = @ - 1]
  /\ UNCHANGED <<item, itemWaiters, spaceWaiters, running, ready>>

(* mySemaphore::wait on spaceAvailable of b by the running thread, which is *)
(* then in `place`.  A thread that has to wait is not ready: the dispatch   *)
(* takes the next one, or the idle thread, even if it is the one waiting.   *)
WaitSpace(b, place) ==
  /\ at' = [at EXCEPT ![running] = place]
  /\ space' = [space EXCEPT ![b] = @ - 1]
  /\ UNCHANGED <<item, itemWaiters>>
  /\ \/ /\ space[b] - 1 < 0
        /\ spaceWaiters' = [spaceWaiters EXCEPT ![b] = Append(@, running)]
        /\ running' = NextOf(ready)
        /\ ready' = RestOf(ready)
     \/ /\ space[b] - 1 >= 0
        /\ UNCHANGED <<spaceWaiters, running, ready>>

(* mySemaphore::wait on itemAvailable of b. *)
WaitItem(b, place) ==
  /\ at' = [at EXCEPT ![running] = place]
  /\ item' = [item EXCEPT ![b] = @ - 1]
  /\ UNCHANGED <<space, spaceWaiters>>
  /\ \/ /\ item[b] - 1 < 0
        /\ itemWaiters' = [itemWaiters EXCEPT ![b] = Append(@, running)]
        /\ running' = NextOf(ready)
        /\ ready' = RestOf(ready)
     \/ /\ item[b] - 1 >= 0
        /\ UNCHANGED <<itemWaiters, running, ready>>

(* Mutant: the first waiter stays blocked. *)
ReadyUnchanged(value, waiters) == ready

(* The ready queue after mySemaphore::signal on a semaphore with that value *)
(* and those waiters, and the waiters it leaves.                            *)
ReadyAfterSignal(value, waiters) ==
  IF value + 1 <= 0 /\ waiters # <<>> THEN Put(ready, Head(waiters)) ELSE ready
WaitersAfterSignal(value, waiters) ==
  IF value + 1 <= 0 /\ waiters # <<>> THEN Tail(waiters) ELSE waiters

(* Mutants: the index is not wrapped; no item is signalled. *)
StoreUnwrapped(b) ==
  /\ buffer' = [buffer EXCEPT ![b][tail[b]] = ch[running]]
  /\ tail' = [tail EXCEPT ![b] = @ + 1]
  /\ item' = [item EXCEPT ![b] = @ + 1]
  /\ itemWaiters' = [itemWaiters EXCEPT ![b] = WaitersAfterSignal(item[b], @)]
  /\ UNCHANGED <<head, taken, space, spaceWaiters>>
StoreSilent(b) ==
  /\ buffer' = [buffer EXCEPT ![b][tail[b]] = ch[running]]
  /\ tail' = [tail EXCEPT ![b] = (@ + 1) % Cap]
  /\ UNCHANGED <<head, taken, space, spaceWaiters, item, itemWaiters>>

(* The second part of myBuffer::put, without what it does to ready. *)
Store(b) ==
  /\ buffer' = [buffer EXCEPT ![b][tail[b]] = ch[running]]
  /\ tail' = [tail EXCEPT ![b] = (@ + 1) % Cap]
  /\ item' = [item EXCEPT ![b] = @ + 1]
  /\ itemWaiters' = [itemWaiters EXCEPT ![b] = WaitersAfterSignal(item[b], @)]
  /\ UNCHANGED <<head, taken, space, spaceWaiters>>

(* Mutant: get reads the cell behind the one it removes. *)
TakeNext(b) ==
  /\ taken' = [taken EXCEPT ![b] = buffer[b][(head[b] + 1) % Cap]]
  /\ head' = [head EXCEPT ![b] = (@ + 1) % Cap]
  /\ space' = [space EXCEPT ![b] = @ + 1]
  /\ spaceWaiters' = [spaceWaiters EXCEPT ![b] = WaitersAfterSignal(space[b], @)]
  /\ UNCHANGED <<buffer, tail, item, itemWaiters>>

(* The second part of myBuffer::get, without what it does to ready. *)
Take(b) ==
  /\ taken' = [taken EXCEPT ![b] = buffer[b][head[b]]]
  /\ head' = [head EXCEPT ![b] = (@ + 1) % Cap]
  /\ space' = [space EXCEPT ![b] = @ + 1]
  /\ spaceWaiters' = [spaceWaiters EXCEPT ![b] = WaitersAfterSignal(space[b], @)]
  /\ UNCHANGED <<buffer, tail, item, itemWaiters>>

-------------------------------------------------------------------------------
(* putc, up to the wait for space, and behind it.  No trailing dispatch. *)
Putc(c) ==
  /\ running \in User /\ at[running] = "outside"
  /\ ch' = [ch EXCEPT ![running] = c]
  /\ WaitSpace("out", "putc")
  /\ UNCHANGED <<cellVars, claimed>>

PutcEnds ==
  /\ at[running] = "putc"
  /\ Store("out")
  /\ ready' = ReadyAfterSignal(item["out"], itemWaiters["out"])
  /\ at' = [at EXCEPT ![running] = "outside"]
  /\ ch' = [ch EXCEPT ![running] = NoChar]
  /\ UNCHANGED <<running, claimed>>

(* getc, up to the wait for a character, and behind it, with the trailing   *)
(* dispatch if anybody is ready.                                            *)
Getc ==
  /\ running \in User /\ at[running] = "outside"
  /\ WaitItem("in", "getc")
  /\ UNCHANGED <<ch, cellVars, claimed>>

GetcEnds ==
  LET queue == ReadyAfterSignal(space["in"], spaceWaiters["in"])
  IN  /\ at[running] = "getc"
      /\ Take("in")
      /\ at' = [at EXCEPT ![running] = "outside"]
      /\ \/ queue # <<>> /\ running' = Head(queue) /\ ready' = Put(Tail(queue), running)
         \/ queue = <<>> /\ ready' = queue /\ UNCHANGED running
      /\ UNCHANGED <<ch, claimed>>

(* A character has arrived and interrupts the running thread, the idle      *)
(* thread too.  Bound: the idle thread is not interrupted a second time     *)
(* while it is linked into the list of waiters; by then it has already put  *)
(* a character where there was no space.                                    *)
Receives(c) ==
  /\ running = Idle => Idle \notin ToSet(spaceWaiters["in"])
  /\ ch' = [ch EXCEPT ![running] = c]
  /\ WaitSpace("in", "interrupt")

ConsoleInterrupt(c) ==
  /\ at[running] = "outside" /\ ~claimed
  /\ claimed' = TRUE
  /\ Receives(c)
  /\ UNCHANGED cellVars

InterruptStores ==
  /\ at[running] = "interrupt"
  /\ Store("in")
  /\ ready' = ReadyAfterSignal(item["in"], itemWaiters["in"])
  /\ at' = [at EXCEPT ![running] = "polling"]
  /\ ch' = [ch EXCEPT ![running] = NoChar]
  /\ UNCHANGED <<running, claimed>>

(* The loop of the interrupt: another character, or plic_complete. *)
InterruptPolls ==
  /\ running # Con /\ at[running] = "polling"
  /\ \/ /\ \E c \in Char : Receives(c)
        /\ UNCHANGED <<cellVars, claimed>>
     \/ /\ claimed' = FALSE
        /\ at' = [at EXCEPT ![running] = "outside"]
        /\ UNCHANGED <<running, ready, ch, cellVars, semVars>>

(* consoleConsumerBody: the device is ready, wait for a character; and give *)
(* it to the device.                                                        *)
ConPolls ==
  /\ running = Con /\ at[Con] = "polling"
  /\ WaitItem("out", "transmit")
  /\ UNCHANGED <<ch, cellVars, claimed>>

ConTransmits ==
  /\ running = Con /\ at[Con] = "transmit"
  /\ Take("out")
  /\ ready' = ReadyAfterSignal(space["out"], spaceWaiters["out"])
  /\ at' = [at EXCEPT ![Con] = "polling"]
  /\ UNCHANGED <<running, ch, claimed>>

(* The end of a time slice, or any other call with a trailing dispatch. *)
Preempt ==
  /\ at[running] = "outside" /\ ready # <<>>
  /\ running' = Head(ready)
  /\ ready' = Put(Tail(ready), running)
  /\ UNCHANGED <<at, ch, cellVars, semVars, claimed>>

(* A thread goes to sleep or waits on a semaphore of its own, and is put    *)
(* back by the timer or by another thread.                                  *)
Leave ==
  /\ running \in User /\ at[running] = "outside"
  /\ at' = [at EXCEPT ![running] = "away"]
  /\ running' = NextOf(ready)
  /\ ready' = RestOf(ready)
  /\ UNCHANGED <<ch, cellVars, semVars, claimed>>

Wake(t) ==
  /\ at[running] = "outside" /\ at[t] = "away"
  /\ at' = [at EXCEPT ![t] = "outside"]
  /\ ready' = Put(ready, t)
  /\ UNCHANGED <<running, ch, cellVars, semVars, claimed>>

(* The console thread has run up to its wait; the others have been started. *)
Init ==
  /\ \E q \in SetToSeqs(User) : running = Head(q) /\ ready = Tail(q)
  /\ at = [t \in Threads |-> IF t = Con THEN "transmit" ELSE "outside"]
  /\ ch = [t \in Threads |-> NoChar]
  /\ \E c \in Char :
       /\ taken = [b \in Buffers |-> c]
       /\ buffer = [b \in Buffers |-> [k \in 0..(Cap - 1) |-> c]]
  /\ head = [b \in Buffers |-> 0]
  /\ tail = [b \in Buffers |-> 0]
  /\ space = [b \in Buffers |-> Cap]
  /\ item = [b \in Buffers |-> IF b = "out" THEN -1 ELSE 0]
  /\ spaceWaiters = [b \in Buffers |-> <<>>]
  /\ itemWaiters = [b \in Buffers |-> IF b = "out" THEN <<Con>> ELSE <<>>]
  /\ claimed = FALSE

Next ==
  \/ \E c \in Char : Putc(c) \/ ConsoleInterrupt(c)
  \/ PutcEnds
  \/ Getc
  \/ GetcEnds
  \/ InterruptStores
  \/ InterruptPolls
  \/ ConPolls
  \/ ConTransmits
  \/ Preempt
  \/ Leave
  \/ \E t \in User : Wake(t)

(* The hart goes on executing the kernel, the device becomes ready to       *)
(* transmit, and the timer ends time slices.  Nobody has to call anything,  *)
(* and no thread that is away has to come back.                             *)
Fairness ==
  /\ WF_vars(PutcEnds) /\ WF_vars(GetcEnds)
  /\ WF_vars(InterruptStores) /\ WF_vars(InterruptPolls)
  /\ WF_vars(ConPolls) /\ WF_vars(ConTransmits)
  /\ WF_vars(Preempt)

Spec == Init /\ [][Next]_vars
FairSpec == Spec /\ Fairness

-------------------------------------------------------------------------------
Places ==
  {"outside", "away", "putc", "getc", "interrupt", "polling", "transmit"}

TypeOK ==
  /\ running \in Threads /\ ready \in Seq(User \cup {Con})
  /\ at \in [Threads -> Places] /\ ch \in [Threads -> Char \cup {NoChar}]
  /\ buffer \in [Buffers -> [0..(Cap - 1) -> Char]]
  /\ head \in [Buffers -> 0..(Cap - 1)] /\ tail \in [Buffers -> 0..(Cap - 1)]
  /\ space \in [Buffers -> Int] /\ item \in [Buffers -> Int]
  /\ spaceWaiters \in [Buffers -> Seq(Threads)]
  /\ itemWaiters \in [Buffers -> Seq(Threads)]
  /\ claimed \in BOOLEAN /\ taken \in [Buffers -> Char]

Putting(b) == {t \in Threads : at[t] = IF b = "in" THEN "interrupt" ELSE "putc"}
Getting(b) == {t \in Threads : at[t] = IF b = "in" THEN "getc" ELSE "transmit"}

(* The characters in b: those signalled as items and those promised to a    *)
(* thread that has not read them yet, from head on.                         *)
Contents(b) ==
  [k \in 1..(item[b] + Cardinality(Getting(b))) |-> buffer[b][(head[b] + k - 1) % Cap]]

(* The two semaphores of a buffer never disagree: what is free, what is     *)
(* stored, and what is being put and got always adds up to the capacity,    *)
(* and the indices are as far apart as the stored characters.               *)
Accounting ==
  \A b \in Buffers :
    /\ space[b] + item[b] + Cardinality(Putting(b)) + Cardinality(Getting(b)) = Cap
    /\ (head[b] + item[b] + Cardinality(Getting(b))) % Cap = tail[b]

(* Nobody is lost in the console: a thread that is neither running nor      *)
(* ready is away or linked into exactly one list of waiters, and whoever    *)
(* waits has its semaphore's value to show for it.                          *)
Found ==
  LET lists == {spaceWaiters[b] : b \in Buffers} \cup {itemWaiters[b] : b \in Buffers}
  IN  /\ \A t \in User \cup {Con} :
           \/ t = running
           \/ t \in ToSet(ready)
           \/ at[t] = "away"
           \/ \E l \in lists : t \in ToSet(l)
      /\ \A b \in Buffers :
           /\ Len(spaceWaiters[b]) = IF space[b] < 0 THEN -space[b] ELSE 0
           /\ Len(itemWaiters[b]) = IF item[b] < 0 THEN -item[b] ELSE 0

OutChannel == INSTANCE Channel WITH queue <- Contents("out"), taken <- taken["out"]
InChannel == INSTANCE Channel WITH queue <- Contents("in"), taken <- taken["in"]

(* What threads put with putc is transmitted in order, each character once. *)
OutputInOrder == OutChannel!Spec

(* What arrives is received by getc in order, each character once. *)
InputInOrder == InChannel!Spec

(* The idle thread, blocked in the interrupt for want of space, runs on     *)
(* because there is no other thread to dispatch to.                         *)
Overrun ==
  running = Idle /\ at[Idle] = "interrupt" /\ Idle \in ToSet(spaceWaiters["in"])

(* That is the only way the input goes wrong: all other steps, however fast *)
(* characters arrive and whoever is interrupted, keep it in order.          *)
InputInOrderButOverrun ==
  InChannel!Init /\ [][InChannel!Next \/ Overrun]_<<Contents("in"), taken["in"]>>

(* putc comes back to its caller, however full the output buffer is and     *)
(* whatever the other threads and the input do.                             *)
PutcReturns == \A t \in User : at[t] = "putc" ~> at[t] = "outside"

(* What is in the output buffer is transmitted: the console thread gets the *)
(* hart although no thread that runs has to give it up.                     *)
OutputTransmitted ==
  Contents("out") # <<>> ~> running = Con /\ at[Con] = "transmit"

(* A thread blocked in the console interrupt for want of space is not lost  *)
(* in there: once a getc has made room and taken it off the list, it stores *)
(* its character and comes to the end of the interrupt.                     *)
InterruptStored ==
  \A t \in User :
    at[t] = "interrupt" /\ t \notin ToSet(spaceWaiters["in"]) ~> at[t] = "polling"
===============================================================================
