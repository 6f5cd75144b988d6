--------------------------------- MODULE Trap ---------------------------------
(***************************************************************************)
(* What a trap does to the thread it returns into: supervisorTrap.S, the   *)
(* entry and exit of Riscv::handleSupervisorTrap, TCB::contextSwitch and   *)
(* TCB::threadWrapper, on top of the threads of Kernel.tla.                *)
(*                                                                         *)
(* A trap of the running thread leaves its pc, its mode and the cause in   *)
(* the CSRs sepc, sstatus.SPP and scause of the hart.  When the handler    *)
(* switches to another thread, that thread goes on where it had been       *)
(* suspended in the handler, with the CSRs of the trap that switched to    *)
(* it.  Which of them it reads, and which it had saved, depends on where   *)
(* it was suspended:                                                       *)
(*   "new"      not at all: it starts in threadWrapper                     *)
(*   "trailing" in the dispatch at the end of a system call, with sepc,    *)
(*              sstatus and scause in local variables                      *)
(*   "waiting"  inside sem_wait or time_sleep, before sepc and sstatus are *)
(*              read into the local variables                              *)
(*   "timer"    in the dispatch of the timer interrupt, with sepc and      *)
(*              sstatus, but not scause, in local variables                *)
(* All system calls are made by one ecall instruction, in syscallWrapper,  *)
(* so sepc + 4 of any of them leads back to the caller's own code.         *)
(***************************************************************************)
EXTENDS Kernel

VARIABLES
  suspendedIn,  \* where in the handler each thread that is not running is
  code,         \* the thread whose code each thread executes after its trap
  mode,         \* the privilege mode it executes in
  a0Kept,       \* whether an interrupt gave register a0 back to it
  ssip,         \* the timer interrupt's pending bit in the CSR sip
  unserved,     \* history: the timer has fired and no tick was counted for it
  sliced        \* history: a time slice has ended with a switch

threadState == <<suspendedIn, code, mode, a0Kept>>
timerState == <<ssip, unserved, sliced>>
trapVars == <<vars, threadState, timerState>>

Threads == Thread \cup {Idle}

(* TCB's constructor: sys is true for the kernel's threads only; they are   *)
(* not sent through popSppSpie.                                             *)
StartMode(t) == IF t \in {Main, Idle} THEN "S" ELSE "U"

-------------------------------------------------------------------------------
(* Mutant: sepc of the switching trap is used by whoever waited. *)
ResumedCodeAlways(n, scause) ==
  CASE suspendedIn[n] = "new" -> n
    [] suspendedIn[n] = "waiting" -> code[running]
    [] OTHER -> code[n]

(* Whose code n returns into, when a trap of the running thread switched to *)
(* it: a waiting n reads sepc now, and only an ecall left an sepc there     *)
(* that is the same for everybody.                                          *)
ResumedCode(n, scause) ==
  CASE suspendedIn[n] = "new" -> n
    [] suspendedIn[n] = "waiting" /\ scause = "timer" -> code[running]
    [] OTHER -> code[n]

(* Mutant: sstatus is read after the dispatch in every branch. *)
ResumedModeLate(n) ==
  IF suspendedIn[n] = "new" THEN StartMode(n) ELSE mode[running]

(* The mode n returns in: a waiting n reads sstatus now. *)
ResumedMode(n) ==
  CASE suspendedIn[n] = "new" -> StartMode(n)
    [] suspendedIn[n] = "waiting" -> mode[running]
    [] OTHER -> mode[n]

(* Riscv::popA0 restores a0 unless scause says ecall; the timer branch does *)
(* not write scause back after its dispatch.                                *)
ResumedA0(n, scause) == suspendedIn[n] = "timer" => scause = "timer"

(* Mutant: the context of the old thread is not saved. *)
ReturnUnsaved(scause, place) ==
  \/ /\ running' = running
     /\ UNCHANGED threadState
  \/ LET n == running'
     IN  /\ n # running
         /\ suspendedIn' = [suspendedIn EXCEPT ![n] = "running"]
         /\ code' = [code EXCEPT ![n] = ResumedCode(n, scause)]
         /\ mode' = [mode EXCEPT ![n] = ResumedMode(n)]
         /\ a0Kept' = [a0Kept EXCEPT ![n] = ResumedA0(n, scause)]

(* The rest of a trap that entered the handler for `scause` and, if it      *)
(* switches threads, suspends the running one in `place`.                   *)
Return(scause, place) ==
  \/ /\ running' = running
     /\ UNCHANGED threadState
  \/ LET n == running'
     IN  /\ n # running
         /\ suspendedIn' = [suspendedIn EXCEPT ![running] = place, ![n] = "running"]
         /\ code' = [code EXCEPT ![n] = ResumedCode(n, scause)]
         /\ mode' = [mode EXCEPT ![n] = ResumedMode(n)]
         /\ a0Kept' = [a0Kept EXCEPT ![n] = ResumedA0(n, scause)]

(* Mutant: the timer branch does not clear the pending bit. *)
AcknowledgesNever(scause) == FALSE

(* mc_sip, the last step of the timer branch, is executed by the thread the *)
(* handler returns to: the one that was interrupted, unless its time slice  *)
(* is over, or one that was switched out in that branch before, whatever    *)
(* the trap is that now switches to it.                                     *)
Acknowledges(scause) ==
  \/ scause = "timer" /\ running' = running
  \/ running' # running /\ suspendedIn[running'] = "timer"

(* The timer's share of a trap. *)
Acknowledge(scause) ==
  /\ scause = "timer" => ssip
  /\ unserved' = (unserved /\ scause # "timer")
  /\ ssip' = (ssip /\ ~Acknowledges(scause))
  /\ sliced' = (sliced \/ (scause = "timer" /\ running' # running))

(* The hardware timer fires, between two instructions of a thread or while  *)
(* the handler runs with interrupts masked, which comes to the same.        *)
TimerFires ==
  /\ ~ssip
  /\ ssip' = TRUE /\ unserved' = TRUE
  /\ UNCHANGED <<vars, threadState, sliced>>

(* The system calls that may end in a dispatch. *)
DispatchingCall ==
  \/ ThreadDispatch
  \/ \E t \in Thread, start \in BOOLEAN : ThreadCreate(t, start)
  \/ \E t \in Thread : ThreadStart(t)
  \/ ThreadExit
  \/ \E s \in Sem, init \in 0..MaxInit : SemOpen(s, init)
  \/ \E s \in Sem : SemClose(s)

(* The system calls that may suspend their caller, and sem_signal. *)
WaitingCall ==
  \/ \E s \in Sem : SemWait(s) \/ SemSignal(s)
  \/ \E t \in 1..MaxSleep : TimeSleep(t)

TrapInit ==
  /\ Init
  /\ suspendedIn = [t \in Threads |-> IF t = Main THEN "running" ELSE "new"]
  /\ code = [t \in Threads |-> t]
  /\ mode = [t \in Threads |-> StartMode(t)]
  /\ a0Kept = [t \in Threads |-> TRUE]
  /\ ssip = FALSE /\ unserved = FALSE /\ sliced = FALSE

TrapNext ==
  \/ DispatchingCall /\ Return("ecall", "trailing") /\ Acknowledge("ecall")
  \/ WaitingCall /\ Return("ecall", "waiting") /\ Acknowledge("ecall")
  \/ Tick /\ Return("timer", "timer") /\ Acknowledge("timer")
  \/ TimerFires

TrapSpec == TrapInit /\ [][TrapNext]_trapVars

-------------------------------------------------------------------------------
(* Types, and: the one thread that is not suspended in the handler is the   *)
(* running one.                                                             *)
TrapTypeOK ==
  /\ suspendedIn \in
       [Threads -> {"new", "running", "trailing", "waiting", "timer"}]
  /\ \A t \in Threads : suspendedIn[t] = "running" <=> t = running
  /\ code \in [Threads -> Threads]
  /\ mode \in [Threads -> {"U", "S"}]
  /\ a0Kept \in [Threads -> BOOLEAN]
  /\ ssip \in BOOLEAN /\ unserved \in BOOLEAN /\ sliced \in BOOLEAN

(* Every trap returns into the code of the thread it returns to: no call    *)
(* comes back at the place where another thread was interrupted.            *)
OwnCode == \A t \in Threads : code[t] = t

(* Every thread keeps its privilege: user threads run in user mode, the     *)
(* kernel's in supervisor mode.                                             *)
OwnMode == \A t \in Threads : mode[t] = StartMode(t)

(* The idle thread makes no call that waits, so it alone comes through      *)
(* whatever happens to the others: it always returns into its own loop, in  *)
(* supervisor mode, where it must be to see interrupts enabled.             *)
IdleIntact == code[Idle] = Idle /\ mode[Idle] = "S"

(* An interrupt is transparent to the thread it interrupts: all registers,  *)
(* a0 among them, are what they were.                                       *)
RegistersKept == \A t \in Threads : a0Kept[t]

(* Every firing of the timer is counted as one tick: none is counted again  *)
(* because its pending bit outlives the switch, none is cleared unseen.     *)
OneTickPerInterrupt == ssip = unserved

(* As long as threads are switched by their own calls only, and ticks just  *)
(* wake sleepers, every trap returns into the right code, registers come    *)
(* back, and every timer interrupt is one tick: what goes wrong with the    *)
(* three needs a time slice that ends while another thread is ready.        *)
SoundUntilSliced == ~sliced => OwnCode /\ RegistersKept /\ OneTickPerInterrupt
===============================================================================
