------------------------------- MODULE Scheduler -------------------------------
(***************************************************************************)
(* The ready queue (myScheduler): operators on the sequence of threads     *)
(* from Scheduler::head along nextTCB to Scheduler::tail.                  *)
(***************************************************************************)
EXTENDS Sequences

CONSTANT Idle  \* the thread that runs when no other can (id idleThread)

(* Mutants: the idle thread is queued like any other; tail is not advanced; *)
(* the thread is linked in front.                                           *)
PutAll(q, t) == Append(q, t)
PutAtTail(q, t) ==
  IF t = Idle THEN q ELSE IF q = <<>> THEN <<t>> ELSE <<Head(q), t>>
PutFirst(q, t) == IF t = Idle THEN q ELSE <<t>> \o q

(* Scheduler::put on the queue q: the idle thread is never queued. *)
Put(q, t) == IF t = Idle THEN q ELSE Append(q, t)

(* Scheduler::get on the queue q: the thread it returns and what is left. *)
NextOf(q) == IF q = <<>> THEN Idle ELSE Head(q)
RestOf(q) == IF q = <<>> THEN <<>> ELSE Tail(q)
===============================================================================
