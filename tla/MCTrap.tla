-------------------------------- MODULE MCTrap --------------------------------
EXTENDS Trap

(* User threads are interchangeable. *)
Symmetry == Permutations(Thread \ {Main})
===============================================================================
