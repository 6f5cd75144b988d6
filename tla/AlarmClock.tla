------------------------------ MODULE AlarmClock ------------------------------
(***************************************************************************)
(* What time_sleep promises, without saying how: a thread that asks to     *)
(* sleep for n timer ticks is awake again after exactly n of them,         *)
(* whoever else goes to sleep or wakes up in between.                      *)
(*                                                                         *)
(* `remaining` counts down for every sleeper by itself; the kernel stores  *)
(* differences in one linked list instead (SleepList.tla), and Kernel.tla  *)
(* is shown to implement this module.                                      *)
(***************************************************************************)
EXTENDS Naturals

CONSTANTS
  Thread,     \* the threads that may go to sleep
  MaxSleep    \* bound on the argument of time_sleep

VARIABLE remaining  \* ticks each thread still has to sleep; 0 when it is awake

Asleep == {t \in Thread : remaining[t] > 0}

Init == remaining = [t \in Thread |-> 0]

GoToSleep(t, n) ==
  /\ t \notin Asleep
  /\ remaining' = [remaining EXCEPT ![t] = n]

Tick ==
  remaining' = [t \in Thread |-> IF t \in Asleep THEN remaining[t] - 1 ELSE 0]

Next ==
  \/ \E t \in Thread, n \in 1..MaxSleep : GoToSleep(t, n)
  \/ Tick

Spec == Init /\ [][Next]_remaining
===============================================================================
