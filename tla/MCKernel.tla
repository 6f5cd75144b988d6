------------------------------- MODULE MCKernel -------------------------------
EXTENDS Kernel

(* Threads and semaphores are only compared with each other; Main is told   *)
(* apart by Init.                                                           *)
Symmetry == Permutations(Thread \ {Main})
===============================================================================
