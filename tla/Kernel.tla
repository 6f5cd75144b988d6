-------------------------------- MODULE Kernel --------------------------------
(***************************************************************************)
(* The threads of the kernel: the TCBs (tcb) on the scheduler's ready      *)
(* queue, semaphores (mySemaphore) and the supervisor trap handler (riscv) *)
(* that runs the system calls and the timer interrupt on them.             *)
(*                                                                         *)
(* A trap runs with interrupts masked on the only hart, so a whole pass    *)
(* through Riscv::handleSupervisorTrap up to the return into the (possibly *)
(* different) running thread is one action.  The threads are arbitrary     *)
(* programs: whoever runs may make any system call next, and the timer may *)
(* interrupt it first.                                                     *)
(*                                                                         *)
(* The linked lists (nextTCB, nextSem, nextSleep) are sequences, the three *)
(* flags of a TCB are sets of threads.  The kernel's console thread, the   *)
(* getc and putc calls and the console interrupt are not in this module.   *)
(***************************************************************************)
EXTENDS SleepList, Scheduler

CONSTANTS
  Main,       \* the thread that boots the kernel (id mainThread)
  Sem,        \* addresses a mySemaphore can be allocated at
  TimeSlice,  \* DEFAULT_TIME_SLICE, in timer ticks
  StaleId,    \* what the id field of a fresh TCB may hold before it is set
  MaxInit,    \* bound on the initial value given to sem_open
  MaxVal      \* bound on the value of a semaphore: no signal beyond it

(* enum threadNames: the third TCB created is the idle thread. *)
idleThread == 3

ASSUME KernelAssumption ==
  /\ Main \in Thread
  /\ Idle \notin Thread
  /\ TimeSlice \in Nat \ {0}
  /\ StaleId \subseteq Nat
  /\ MaxInit \in Nat
  /\ MaxVal \in Nat

VARIABLES
  running,           \* TCB::running
  ready,             \* the threads from Scheduler::head to Scheduler::tail
  created,           \* threads that have a TCB
  started,           \* history: threads their creator asked to start
  finished,          \* threads whose finished flag is set
  blocked,           \* threads whose blocked flag is set
  sleeping,          \* threads whose sleeping flag is set
  open,              \* semaphores that are allocated
  val,               \* mySemaphore::val
  waiters,           \* the threads from mySemaphore::head to tail
  timeSliceCounter   \* TCB::timeSliceCounter

threadVars == <<created, started, finished>>
semVars == <<open, val, waiters>>
vars == <<running, ready, threadVars, blocked, sleeping, semVars,
          timeSliceCounter, sleepVars>>

-------------------------------------------------------------------------------
(* Mutant: dispatch does not ask whether the thread sleeps. *)
DispatchSleeper(q) ==
  LET canRun == running \notin finished' \cup blocked'
      queue  == IF canRun THEN Put(q, running) ELSE q
  IN  /\ running' = NextOf(queue)
      /\ ready' = RestOf(queue)

(* TCB::dispatch when the ready queue is q.  The flags are those the caller *)
(* has just set.                                                            *)
Dispatch(q) ==
  LET canRun == running \notin finished' \cup blocked' \cup sleeping'
      queue  == IF canRun THEN Put(q, running) ELSE q
  IN  /\ running' = NextOf(queue)
      /\ ready' = RestOf(queue)

(* The end of the system calls that are not sem_wait, sem_signal, time_sleep *)
(* or putc: a dispatch if any thread is ready, and only then.                *)
TrailingDispatch(q) ==
  \/ /\ q # <<>>
     /\ timeSliceCounter' = 0
     /\ Dispatch(q)
  \/ /\ q = <<>>
     /\ ready' = q
     /\ UNCHANGED <<running, timeSliceCounter>>

-------------------------------------------------------------------------------
(* System calls of the running thread.  The idle thread makes one only.     *)

(* thread_dispatch; mem_alloc and mem_free treat the threads the same way.  *)
ThreadDispatch ==
  /\ UNCHANGED <<threadVars, blocked, sleeping, semVars, sleepVars>>
  /\ TrailingDispatch(ready)

(* The constructor of TCB: it puts the thread into the ready queue before   *)
(* it sets the id that Scheduler::put looks at, so put sees what happened   *)
(* to be in the memory of the new TCB.                                      *)
QueueNew(q, t, id) == IF id = idleThread THEN q ELSE Append(q, t)

(* thread_create (start) and thread_create_no_start. *)
ThreadCreate(t, start) ==
  /\ running # Idle
  /\ t \in Thread \ created
  /\ created' = created \cup {t}
  /\ started' = IF start THEN started \cup {t} ELSE started
  /\ UNCHANGED <<finished, blocked, sleeping, semVars, sleepVars>>
  /\ IF start
     THEN \E id \in StaleId : TrailingDispatch(QueueNew(ready, t, id))
     ELSE TrailingDispatch(ready)

(* thread_start, for a thread that was created and not started. *)
ThreadStart(t) ==
  /\ running # Idle
  /\ t \in created \ started
  /\ started' = started \cup {t}
  /\ UNCHANGED <<created, finished, blocked, sleeping, semVars, sleepVars>>
  /\ TrailingDispatch(Put(ready, t))

(* thread_exit.  With nobody ready it returns to the thread that called it, *)
(* which from then on executes whatever its stack holds: any call.          *)
ThreadExit ==
  /\ running # Idle
  /\ finished' = finished \cup {running}
  /\ UNCHANGED <<created, started, blocked, sleeping, semVars, sleepVars>>
  /\ TrailingDispatch(ready)

(* sem_open: the allocator may return the memory of a closed semaphore. *)
SemOpen(s, init) ==
  /\ running # Idle
  /\ s \in Sem \ open
  /\ open' = open \cup {s}
  /\ val' = [val EXCEPT ![s] = init]
  /\ waiters' = [waiters EXCEPT ![s] = <<>>]
  /\ UNCHANGED <<threadVars, blocked, sleeping, sleepVars>>
  /\ TrailingDispatch(ready)

(* sem_close signals until val is positive; each signal that leaves val at  *)
(* or below zero takes the first waiter off the list.                       *)
WokenByClose(s) ==
  IF val[s] < 0 THEN SubSeq(waiters[s], 1, -val[s]) ELSE <<>>

SemClose(s) ==
  /\ running # Idle
  /\ s \in open
  /\ open' = open \ {s}
  /\ val' = [val EXCEPT ![s] = 0]
  /\ waiters' = [waiters EXCEPT ![s] = <<>>]
  /\ blocked' = blocked \ ToSet(WokenByClose(s))
  /\ UNCHANGED <<threadVars, sleeping, sleepVars>>
  /\ TrailingDispatch(ready \o WokenByClose(s))

(* sem_wait: mySemaphore::wait and block. *)
SemWait(s) ==
  /\ running # Idle
  /\ s \in open
  /\ val' = [val EXCEPT ![s] = @ - 1]
  /\ UNCHANGED <<threadVars, sleeping, open, timeSliceCounter, sleepVars>>
  /\ \/ /\ val[s] - 1 < 0
        /\ waiters' = [waiters EXCEPT ![s] = Append(@, running)]
        /\ blocked' = blocked \cup {running}
        /\ Dispatch(ready)
     \/ /\ val[s] - 1 >= 0
        /\ UNCHANGED <<waiters, blocked, running, ready>>

(* Mutant: the last waiter is not unblocked. *)
UnblocksButOne(s) == val[s] + 1 < 0 /\ waiters[s] # <<>>

(* Whether a signal takes a thread off the list of waiters. *)
Unblocks(s) == val[s] + 1 <= 0 /\ waiters[s] # <<>>

(* sem_signal: mySemaphore::signal and unblock. *)
SemSignal(s) ==
  /\ running # Idle
  /\ s \in open
  /\ val[s] < MaxVal
  /\ val' = [val EXCEPT ![s] = @ + 1]
  /\ UNCHANGED <<running, threadVars, sleeping, open, timeSliceCounter, sleepVars>>
  /\ \/ /\ Unblocks(s)
        /\ waiters' = [waiters EXCEPT ![s] = Tail(@)]
        /\ blocked' = blocked \ {Head(waiters[s])}
        /\ ready' = Put(ready, Head(waiters[s]))
     \/ /\ ~Unblocks(s)
        /\ UNCHANGED <<waiters, blocked, ready>>

(* time_sleep for t > 0 (for t = 0 it returns at once). *)
TimeSleep(t) ==
  /\ running # Idle
  /\ PutToSleep(running, t)
  /\ sleeping' = sleeping \cup {running}
  /\ UNCHANGED <<threadVars, blocked, semVars, timeSliceCounter>>
  /\ Dispatch(ready)

-------------------------------------------------------------------------------
(* The timer interrupt: a tick for the sleepers, then, if the time slice of *)
(* the running thread is over and somebody is ready, a dispatch.            *)
Tick ==
  LET queue == ready \o Woken
  IN  /\ TimerTick
      /\ sleeping' = sleeping \ ToSet(Woken)
      /\ UNCHANGED <<threadVars, blocked, semVars>>
      /\ \/ /\ timeSliceCounter + 1 >= TimeSlice
            /\ timeSliceCounter' = 0
            /\ \/ queue # <<>> /\ Dispatch(queue)
               \/ queue = <<>> /\ ready' = queue /\ UNCHANGED running
         \/ /\ timeSliceCounter + 1 < TimeSlice
            /\ timeSliceCounter' = timeSliceCounter + 1
            /\ ready' = queue
            /\ UNCHANGED running

(* main() has booted the kernel and enabled interrupts. *)
Init ==
  /\ running = Main
  /\ ready = <<>>
  /\ created = {Main} /\ started = {Main} /\ finished = {}
  /\ blocked = {} /\ sleeping = {}
  /\ open = {}
  /\ val = [s \in Sem |-> 0]
  /\ waiters = [s \in Sem |-> <<>>]
  /\ timeSliceCounter = 0
  /\ SleepInit

Next ==
  \/ ThreadDispatch
  \/ \E t \in Thread, start \in BOOLEAN : ThreadCreate(t, start)
  \/ \E t \in Thread : ThreadStart(t)
  \/ ThreadExit
  \/ \E s \in Sem, init \in 0..MaxInit : SemOpen(s, init)
  \/ \E s \in Sem : SemClose(s) \/ SemWait(s) \/ SemSignal(s)
  \/ \E t \in 1..MaxSleep : TimeSleep(t)
  \/ Tick

Spec == Init /\ [][Next]_vars

(* The only fairness: the hardware timer keeps interrupting.  Threads owe   *)
(* the kernel nothing, they may loop for ever between two system calls.     *)
FairSpec == Spec /\ WF_vars(Tick)

-------------------------------------------------------------------------------
(* Types.  SleepTypeOK is the part about the sleep list. *)
TypeOK ==
  /\ running \in Thread \cup {Idle}
  /\ ready \in Seq(Thread)
  /\ created \subseteq Thread /\ started \subseteq created
  /\ finished \subseteq Thread
  /\ blocked \subseteq Thread /\ sleeping \subseteq Thread
  /\ open \subseteq Sem
  /\ val \in [Sem -> Int]
  /\ waiters \in [Sem -> Seq(Thread)]
  /\ timeSliceCounter \in 0..(TimeSlice - 1)
  /\ SleepTypeOK

(* A TCB is linked into at most one list, and once: the ready queue, one    *)
(* semaphore's waiting list and the sleep list share no thread, none holds  *)
(* the running one, and the flags dispatch tests say which list it is in.   *)
(* (The lists are intrusive: a thread put into two, or twice into one,      *)
(* cuts off whoever was linked behind it.)                                  *)
OnePlace ==
  /\ IsInjective(ready) /\ IsInjective(sleepList)
  /\ \A s \in Sem : IsInjective(waiters[s])
  /\ \A s, u \in Sem : s # u => ToSet(waiters[s]) \cap ToSet(waiters[u]) = {}
  /\ blocked = UNION {ToSet(waiters[s]) : s \in Sem}
  /\ sleeping = ToSet(sleepList)
  /\ blocked \cap sleeping = {}
  /\ ToSet(ready) \cap (blocked \cup sleeping) = {}
  /\ running \notin ToSet(ready) \cup blocked \cup sleeping

(* Semaphore accounting: threads wait on a semaphore exactly when its value *)
(* is negative, and then it counts them; a closed one keeps nobody.  Too    *)
(* many or too few signals in sem_close, a wakeup for a thread that does    *)
(* not wait or a waiter signal passes over would break it.                  *)
ValueCountsWaiters ==
  \A s \in Sem :
    /\ s \notin open => waiters[s] = <<>>
    /\ s \in open => Len(waiters[s]) = IF val[s] < 0 THEN -val[s] ELSE 0

(* No thread is lost: one that was started and has not called thread_exit   *)
(* runs, is ready, sleeps, or waits for a signal.                           *)
NoThreadLost ==
  started \ finished \subseteq
    {running} \cup ToSet(ready) \cup blocked \cup sleeping

Alarm == INSTANCE AlarmClock WITH remaining <- [t \in Thread |-> Remaining(t)]

(* Whatever the sleep list went through, every sleeper wakes after exactly  *)
(* the number of ticks it asked for: the differences kept by                *)
(* findPlaceToSleep, insertAfter and the timer handler add up to one        *)
(* countdown per thread, and every tick of the kernel is one of them all.   *)
ImplementsAlarmClock == Alarm!Spec /\ [][Tick => Alarm!Tick]_vars

(* A thread that has called thread_exit never runs again. *)
FinishedNeverRuns == running \notin finished

(* Round robin serves everybody: a ready thread gets the hart, although     *)
(* nobody has to yield and wakeups and signals keep adding to the queue.    *)
ReadyRuns == \A t \in Thread : t \in ToSet(ready) ~> running = t

(* A sleeping thread is woken, whatever the others do. *)
SleeperWakes == \A t \in Thread : t \in sleeping ~> t \notin sleeping
===============================================================================
