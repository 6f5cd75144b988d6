--------------------------------- MODULE Buddy ---------------------------------
(***************************************************************************)
(* The buddy allocator (buddy, bitmap): the kernel heap in 4 KB blocks,    *)
(* one list of unused chunks for each power of two, and a bitmap with a    *)
(* bit for every chunk of every size that says whether any of it is used.  *)
(*                                                                         *)
(* Addresses are block numbers from buddy_heap_start.  A free list is the  *)
(* sequence of the addresses linked through the first word of its chunks.  *)
(* The bits are numbered as in the code, row by row from the bit of the    *)
(* whole heap (0) down to the bits of the single blocks.                   *)
(***************************************************************************)
EXTENDS Integers, Sequences, SequencesExt, FiniteSetsExt

CONSTANTS
  NSizesMax,  \* NSIZES_MAX, the entry of the whole heap
  Size        \* Size[entry]: the blocks of a chunk of that entry, 2^entry

ASSUME BuddyAssumption ==
  /\ NSizesMax \in Nat
  /\ Size \in [0..NSizesMax -> Nat]
  /\ Size[0] = 1
  /\ \A e \in 1..NSizesMax : Size[e] = 2 * Size[e - 1]

VARIABLES
  free_list,  \* the array of free lists
  bitmap,     \* one bit per chunk of every size
  held,       \* history: the chunks <<address, entry>> the callers hold
  answer      \* what the last buddy_alloc returned

vars == <<free_list, bitmap, held, answer>>

Entries == 0..NSizesMax
HeapSize == Size[NSizesMax]
NoMemory == -1

-------------------------------------------------------------------------------
(* find_power_of_two: the smallest entry with room for n blocks. *)
FindPowerOfTwo(n) == Min({e \in Entries : Size[e] >= n})

(* bitmap_get_bit_index: the bit of the chunk of that entry around address. *)
(* The rows above it have 1 + 2 + ... bits.                                 *)
BitIndex(address, entry) ==
  Size[NSizesMax - entry] - 1 + address \div Size[entry]

(* find_buddy_index. *)
FindBuddyIndex(bit) == IF bit % 2 = 1 THEN bit + 1 ELSE bit - 1

(* get_address of the buddy: one chunk to the right or to the left. *)
BuddyAddress(address, entry) ==
  LET bit == BitIndex(address, entry)
  IN  address + Size[entry] * (FindBuddyIndex(bit) - bit)

(* Mutant: buddy_free goes on with the higher of the two addresses. *)
MergedUpper(address, entry) ==
  IF entry = 0 THEN address
  ELSE (address \div Size[entry]) * Size[entry] + Size[entry - 1]

(* The address buddy_free has merged its chunk to when it reaches entry. *)
MergedAddress(address, entry) == (address \div Size[entry]) * Size[entry]

-------------------------------------------------------------------------------
(* Mutant: a chunk is split without marking what it is split into. *)
AllocMarksFirst(address, from, to) == {BitIndex(address, from)}

(* The bits buddy_alloc sets when it takes the chunk of entry `from` at     *)
(* address and splits it down to entry `to`.                                *)
AllocMarks(address, from, to) == {BitIndex(address, e) : e \in to..from}

(* buddy_alloc for n blocks: the first chunk of the smallest entry that has *)
(* one; the right half of every split becomes the only chunk of its list.   *)
Alloc(n) ==
  LET to    == FindPowerOfTwo(n)
      stock == {e \in to..NSizesMax : free_list[e] # <<>>}
      from  == Min(stock)
      chunk == Head(free_list[from])
  IN  \/ /\ stock # {}
         /\ free_list' = [e \in Entries |->
              IF e = from THEN Tail(free_list[e])
              ELSE IF e \in to..(from - 1) THEN <<chunk + Size[e]>>
              ELSE free_list[e]]
         /\ bitmap' = [bit \in DOMAIN bitmap |->
              IF bit \in AllocMarks(chunk, from, to) THEN 1 ELSE bitmap[bit]]
         /\ held' = held \cup {<<chunk, to>>}
         /\ answer' = chunk
      \/ /\ stock = {}
         /\ answer' = NoMemory
         /\ UNCHANGED <<free_list, bitmap, held>>

(* The entry buddy_free finds for an address: the first whose bit is set. *)
EntryOf(address) == Min({e \in Entries : bitmap[BitIndex(address, e)] = 1})

(* Mutant: a chunk is merged with at most one buddy. *)
MergesOnce(address, entry) ==
  Min({e \in entry..NSizesMax :
         \/ e = NSizesMax
         \/ e > entry
         \/ bitmap[FindBuddyIndex(BitIndex(address, e))] = 1})

(* The entry at which merging stops: the first whose buddy is used. *)
MergeEnd(address, entry) ==
  Min({e \in entry..NSizesMax :
         \/ e = NSizesMax
         \/ bitmap[FindBuddyIndex(BitIndex(address, e))] = 1})

(* buddy_free of a chunk its caller holds.  The bit of the whole heap stays *)
(* set: merging returns before it would clear it.                           *)
Free(address) ==
  LET entry == EntryOf(address)
      end   == MergeEnd(address, entry)
  IN  /\ free_list' = [e \in Entries |->
           IF e = end THEN Cons(MergedAddress(address, e), free_list[e])
           ELSE IF e \in entry..(end - 1)
             THEN RemoveFirst(free_list[e], BuddyAddress(MergedAddress(address, e), e))
           ELSE free_list[e]]
      /\ bitmap' = [bit \in DOMAIN bitmap |->
           IF bit # 0 /\ bit \in {BitIndex(address, e) : e \in entry..end}
           THEN 0 ELSE bitmap[bit]]
      /\ UNCHANGED answer

(* buddyInit and bitmapInit. *)
Init ==
  /\ free_list = [e \in Entries |-> IF e = NSizesMax THEN <<0>> ELSE <<>>]
  /\ bitmap = [bit \in 0 .. (2 * HeapSize - 1) |-> IF bit = 0 THEN 1 ELSE 0]
  /\ held = {}
  /\ answer = NoMemory

Next ==
  \/ \E n \in 1..HeapSize : Alloc(n)
  \/ \E c \in held : Free(c[1]) /\ held' = held \ {c}

Spec == Init /\ [][Next]_vars

-------------------------------------------------------------------------------
Blocks(c) == c[1] .. (c[1] + Size[c[2]] - 1)

(* The chunks in the free lists. *)
FreeChunks == UNION {{<<a, e>> : a \in ToSet(free_list[e])} : e \in Entries}

TypeOK ==
  /\ free_list \in [Entries -> Seq(0 .. (HeapSize - 1))]
  /\ bitmap \in [0 .. (2 * HeapSize - 1) -> {0, 1}]
  /\ held \subseteq (0 .. (HeapSize - 1)) \X Entries
  /\ answer \in 0 .. (HeapSize - 1) \cup {NoMemory}

(* The heap is the disjoint union of what the callers hold and what is in   *)
(* the free lists: no block is handed out twice, is both used and free, is  *)
(* linked twice, or is lost, whatever was split and merged before.          *)
Partition ==
  /\ \A e \in Entries : IsInjective(free_list[e])
  /\ \A c, d \in held \cup FreeChunks : c # d => Blocks(c) \cap Blocks(d) = {}
  /\ held \cap FreeChunks = {}
  /\ UNION {Blocks(c) : c \in held \cup FreeChunks} = 0 .. (HeapSize - 1)

(* A bit is set exactly when some block of its chunk is held and the chunk  *)
(* holds all of that allocation: buddy_free can tell the size of what it is *)
(* given, and whether a buddy is wholly unused, from the bits alone.  (The  *)
(* bit of the whole heap is always set.)                                    *)
BitsTellUse ==
  \A e \in Entries, k \in 0 .. (HeapSize - 1) :
    (e # NSizesMax) =>
      (bitmap[BitIndex(k, e)] = 1
         <=> \E c \in held : c[2] <= e /\ MergedAddress(c[1], e) = MergedAddress(k, e))

(* Unused buddies are always merged, so free memory is never fragmented     *)
(* more than the allocations in use make it.                                *)
Coalesced ==
  \A c \in FreeChunks :
    c[2] # NSizesMax => <<BuddyAddress(c[1], c[2]), c[2]>> \notin FreeChunks

Pages == INSTANCE PageAllocator

(* The buddy allocator implements the page allocator: what it hands out is  *)
(* unused, aligned and large enough, and it refuses a request only if no    *)
(* aligned chunk of the size is unused.                                     *)
ImplementsPageAllocator == Pages!Spec
===============================================================================
