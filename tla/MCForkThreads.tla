---------------------------- MODULE MCForkThreads ----------------------------
(* ForkThreads on the instance of MCForkThreads.cfg. *)
EXTENDS ForkThreads
===============================================================================
