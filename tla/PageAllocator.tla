---------------------------- MODULE PageAllocator ----------------------------
(***************************************************************************)
(* What the page allocator promises to the slab allocator above it: blocks *)
(* that nobody else holds, in naturally aligned chunks of 2^entry blocks,  *)
(* and an answer "no memory" only when no such chunk is unused.  How the   *)
(* unused blocks are found again is the business of module Buddy, which is *)
(* shown to implement this one.                                            *)
(***************************************************************************)
EXTENDS Integers

CONSTANTS
  NSizesMax,  \* NSIZES_MAX, the entry of the whole heap
  Size        \* Size[entry]: the blocks of a chunk of that entry, 2^entry

VARIABLES
  held,       \* the chunks <<address, entry>> handed out and not freed
  answer      \* what the last request was answered

vars == <<held, answer>>

Entries == 0..NSizesMax
NoMemory == -1

Blocks(c) == c[1] .. (c[1] + Size[c[2]] - 1)

Aligned(entry) ==
  {<<Size[entry] * k, entry>> : k \in 0 .. (Size[NSizesMax - entry] - 1)}

Unused(c) == \A d \in held : Blocks(c) \cap Blocks(d) = {}

(* The smallest entry whose chunks have room for n blocks. *)
Needed(n) ==
  CHOOSE e \in Entries : Size[e] >= n /\ \A f \in 0..(e - 1) : Size[f] < n

Init == held = {} /\ answer = NoMemory

Allocate(n) ==
  \/ \E c \in Aligned(Needed(n)) :
       /\ Unused(c)
       /\ held' = held \cup {c}
       /\ answer' = c[1]
  \/ /\ \A c \in Aligned(Needed(n)) : ~Unused(c)
     /\ answer' = NoMemory
     /\ UNCHANGED held

Release(c) ==
  /\ held' = held \ {c}
  /\ UNCHANGED answer

Next ==
  \/ \E n \in 1 .. Size[NSizesMax] : Allocate(n)
  \/ \E c \in held : Release(c)

Spec == Init /\ [][Next]_vars
===============================================================================
