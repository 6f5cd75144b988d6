-------------------------------- MODULE Channel --------------------------------
(***************************************************************************)
(* What a console buffer promises to both its ends: characters are         *)
(* received in the order they were sent, each once, and at most Cap of     *)
(* them are under way.  Console.tla is shown to implement it.              *)
(***************************************************************************)
EXTENDS Naturals, Sequences

CONSTANTS
  Char,  \* the characters
  Cap    \* the capacity

VARIABLES
  queue,  \* the characters sent and not yet received
  taken   \* the character received last

Send(c) ==
  /\ Len(queue) < Cap
  /\ queue' = Append(queue, c)
  /\ UNCHANGED taken

Receive ==
  /\ queue # <<>>
  /\ taken' = Head(queue)
  /\ queue' = Tail(queue)

Init == queue = <<>> /\ taken \in Char

Next == Receive \/ \E c \in Char : Send(c)

Spec == Init /\ [][Next]_<<queue, taken>>
===============================================================================
