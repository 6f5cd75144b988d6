------------------------------ MODULE MCConsole ------------------------------
(* Console on the instances of MCConsole.cfg and MCConsoleOverrun.cfg.      *)
EXTENDS Console
===============================================================================
