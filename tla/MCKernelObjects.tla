---------------------------- MODULE MCKernelObjects ----------------------------
(* KernelObjects on the instance of MCKernelObjects.cfg. *)
EXTENDS KernelObjects
===============================================================================
