------------------------------ MODULE ForkThreads ------------------------------
(***************************************************************************)
(* The user program the kernel runs (userMain) on the C++ interface: every *)
(* ForkThread constructs a thread object for its child and, in an array,   *)
(* as many as its id says that are never started; it starts the child,     *)
(* polls its flag `finished`, and then deletes all of them.                *)
(*                                                                         *)
(* Thread n constructs thread n + 1; 0 is userMain, whose ForkThread(1) is *)
(* a local variable.  A constructor makes three system calls: the memory   *)
(* of the object, that of the two stacks, and the TCB.  Every mem_alloc    *)
(* may fail: what the heap holds is not in this module.  Each call ends in *)
(* a dispatch if anybody is ready (Riscv::handleSupervisorTrap), and the   *)
(* timer may preempt between any two.  Nobody sleeps or waits here, so a   *)
(* thread is running, ready, not started or gone.  That a call comes back  *)
(* to its caller with its own answer is taken from the interface; what the *)
(* trap handler makes of that is in Trap.tla.  Printing is left out.       *)
(***************************************************************************)
EXTENDS Integers, SequencesExt, Scheduler

CONSTANT MaxId  \* bound: the thread with this id gets no memory for its array

ASSUME MaxIdAssumption == MaxId \in Nat \ {0}

VARIABLES
  running, ready,  \* TCB::running; the ready queue
  pc,              \* where each thread is in its run(), or userMain
  made,            \* the objects a thread has constructed and not deleted
  handle,          \* myHandle of each Thread: "unset", "null" or "set"
  object,          \* the Thread object of each: "none", "alive", "deleted"
  finished,        \* ForkThread::finished
  fault            \* thread_start was called with a handle of no thread

progVars == <<pc, made, handle, object, finished, fault>>
vars == <<running, ready, progVars>>

Threads == 0..(MaxId + 1)
Child(t) == t + 1

-------------------------------------------------------------------------------
(* The end of a system call when the ready queue is q. *)
Dispatch(q) ==
  \/ /\ q # <<>>
     /\ LET queue == IF pc'[running] = "gone" THEN q ELSE Put(q, running)
        IN  running' = NextOf(queue) /\ ready' = RestOf(queue)
  \/ q = <<>> /\ ready' = q /\ UNCHANGED running

Goto(place) == pc' = [pc EXCEPT ![running] = place]

(* A call of the running thread that only moves it on to `place`. *)
Call(place) == Goto(place) /\ Dispatch(ready)

(* The child is constructed first, then the array and what it holds. *)
OnChild == made[running] = 0

(* Mutant: the loop constructs one object more than the array holds. *)
AfterElementMore ==
  IF OnChild /\ running # 0 THEN "array"
  ELSE IF made[running] <= running THEN "object" ELSE "start"

(* userMain has its child and no array. *)
AfterElement ==
  IF OnChild /\ running # 0 THEN "array"
  ELSE IF made[running] < running THEN "object" ELSE "start"

Constructed == made' = [made EXCEPT ![running] = @ + 1]

(* operator new: with -fcheck-new no constructor runs on a null pointer. *)
NewObject ==
  /\ pc[running] = "object"
  /\ UNCHANGED <<handle, finished, fault>>
  /\ \/ /\ object' = IF OnChild THEN [object EXCEPT ![Child(running)] = "alive"] ELSE object
        /\ UNCHANGED made
        /\ Call("stacks")
     \/ /\ Constructed
        /\ UNCHANGED object
        /\ Call(AfterElement)

(* thread_create_no_start: without stacks it answers -1 and leaves the      *)
(* handle as it is; the constructor of Thread does not look at the answer.  *)
NewStacks ==
  /\ pc[running] = "stacks"
  /\ UNCHANGED <<handle, object, finished, fault>>
  /\ \/ Call("create") /\ UNCHANGED made
     \/ Constructed /\ Call(AfterElement)

CreateThread ==
  /\ pc[running] = "create"
  /\ handle' \in IF OnChild
                 THEN {[handle EXCEPT ![Child(running)] = h] : h \in {"set", "null"}}
                 ELSE {handle}
  /\ Constructed
  /\ UNCHANGED <<object, finished, fault>>
  /\ Call(AfterElement)

(* Without memory for the array the thread is done; its child is forgotten. *)
NewArray ==
  /\ pc[running] = "array"
  /\ UNCHANGED <<made, handle, object, finished, fault>>
  /\ \/ running < MaxId /\ Call("object")
     \/ Call("finish")

(* Thread::start answers 0 whatever it was given.  The model ends where     *)
(* Scheduler::put looks into a TCB that is not there.                       *)
StartChild ==
  LET child == Child(running)
  IN  /\ pc[running] = "start"
      /\ UNCHANGED <<made, handle, object, finished>>
      /\ \/ /\ object[child] = "none"
            /\ Goto("delete") /\ UNCHANGED <<running, ready, fault>>
         \/ /\ object[child] # "none" /\ handle[child] = "set"
            /\ pc' = [pc EXCEPT ![running] = "poll", ![child] = "object"]
            /\ Dispatch(Put(ready, child))
            /\ UNCHANGED fault
         \/ /\ object[child] # "none" /\ handle[child] # "set"
            /\ fault' = TRUE /\ UNCHANGED <<pc, running, ready>>

(* Mutant: the child is deleted without waiting for it. *)
PollOnce ==
  /\ pc[running] = "poll"
  /\ UNCHANGED <<made, handle, object, finished, fault>>
  /\ Call(IF running = 0 THEN "over" ELSE "delete")

(* The first rounds of dispatches, which the code counts, and the loop that *)
(* asks isFinished().                                                       *)
Poll ==
  /\ pc[running] = "poll"
  /\ UNCHANGED <<made, handle, object, finished, fault>>
  /\ \/ ~finished[Child(running)] /\ Call("poll")
     \/ /\ finished[Child(running)]
        /\ Goto(IF running = 0 THEN "over" ELSE "delete")
        /\ UNCHANGED <<running, ready>>

(* Mutant: only the array's objects are deleted. *)
DeleteElements ==
  /\ pc[running] = "delete"
  /\ made' = [made EXCEPT ![running] = @ - 1]
  /\ UNCHANGED <<handle, object, finished, fault>>
  /\ Call(IF made[running] = 1 THEN "free" ELSE "delete")

(* The child's object is deleted, then those of the array.  Nothing gives   *)
(* the TCBs and the stacks back.                                            *)
Delete ==
  /\ pc[running] = "delete"
  /\ made' = [made EXCEPT ![running] = @ - 1]
  /\ object' = IF made[running] = running + 1 /\ object[Child(running)] = "alive"
               THEN [object EXCEPT ![Child(running)] = "deleted"] ELSE object
  /\ UNCHANGED <<handle, finished, fault>>
  /\ Call(IF made[running] = 1 THEN "free" ELSE "delete")

FreeArray ==
  /\ pc[running] = "free"
  /\ UNCHANGED <<made, handle, object, finished, fault>>
  /\ Call("finish")

(* The last statement of run(): the parent may now delete the object. *)
Finish ==
  /\ pc[running] = "finish"
  /\ finished' = [finished EXCEPT ![running] = TRUE]
  /\ Goto("exit")
  /\ UNCHANGED <<running, ready, made, handle, object, fault>>

(* Thread::wrapper returns into threadWrapper, which calls thread_exit. *)
Exit ==
  /\ pc[running] = "exit"
  /\ UNCHANGED <<made, handle, object, finished, fault>>
  /\ Call("gone")

Step ==
  /\ ~fault
  /\ \/ NewObject \/ NewStacks \/ CreateThread \/ NewArray \/ StartChild
     \/ Poll \/ Delete \/ FreeArray \/ Finish \/ Exit

(* The timer ends the time slice of the running thread. *)
Timer ==
  /\ ~fault /\ pc[running] # "over"
  /\ ready # <<>>
  /\ UNCHANGED progVars
  /\ Dispatch(ready)

Init ==
  /\ running = 0 /\ ready = <<>>
  /\ pc = [t \in Threads |-> IF t = 0 THEN "stacks" ELSE "none"]
  /\ made = [t \in Threads |-> 0]
  /\ handle = [t \in Threads |-> "unset"]
  /\ object = [t \in Threads |-> IF t = 1 THEN "alive" ELSE "none"]
  /\ finished = [t \in Threads |-> FALSE]
  /\ fault = FALSE

Next == Step \/ Timer

Spec == Init /\ [][Next]_vars

(* A time slice is much longer than a step: whoever gets the hart again and *)
(* again goes on.                                                           *)
FairSpec == Spec /\ \A t \in Threads : SF_vars(running = t /\ Step)

-------------------------------------------------------------------------------
Places == {"none", "object", "stacks", "create", "array", "start", "poll",
           "delete", "free", "finish", "exit", "gone", "over"}

TypeOK ==
  /\ running \in Threads /\ ready \in Seq(Threads)
  /\ pc \in [Threads -> Places]
  /\ made \in [Threads -> Nat] /\ \A t \in Threads : made[t] <= t + 1
  /\ handle \in [Threads -> {"unset", "null", "set"}]
  /\ object \in [Threads -> {"none", "alive", "deleted"}]
  /\ finished \in [Threads -> BOOLEAN]
  /\ fault \in BOOLEAN

(* A thread that executes run() has its object: nobody deletes it before    *)
(* its last use, although the TCB lives on and the parent only looks at a   *)
(* flag in the object, between any two steps of the child.                  *)
ObjectOutlivesRun ==
  \A t \in Threads \ {0} :
    pc[t] \notin {"none", "exit", "gone"} =>
      /\ object[t] = "alive"
      /\ t = 1 => pc[0] # "over"

(* When userMain is over, every thread that was started has come to its end *)
(* and its object is deleted, userMain's own but for.  What is left are     *)
(* objects of threads never started, whose parent had no memory for the     *)
(* array.                                                                   *)
AllCollected ==
  pc[0] = "over" =>
    \A t \in Threads \ {0} :
      pc[t] # "none" => /\ finished[t]
                        /\ t # 1 => object[t] = "deleted"

(* The program comes to an end, although every parent only polls for its    *)
(* child and the timer preempts anywhere, unless memory runs out in the     *)
(* constructor of a thread that is then started: Thread's constructor hides *)
(* the failure, and start() uses a handle nobody has set.                   *)
EndsUnlessUnset == <>(pc[0] = "over" \/ fault)
===============================================================================
