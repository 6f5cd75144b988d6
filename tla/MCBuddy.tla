-------------------------------- MODULE MCBuddy --------------------------------
EXTENDS Buddy

MCSize == [e \in 0..NSizesMax |-> 2^e]
===============================================================================
