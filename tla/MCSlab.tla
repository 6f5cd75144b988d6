-------------------------------- MODULE MCSlab --------------------------------
EXTENDS Slab
===============================================================================
