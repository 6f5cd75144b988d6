------------------------------- MODULE MCMemory -------------------------------
EXTENDS MemoryAllocator
===============================================================================
