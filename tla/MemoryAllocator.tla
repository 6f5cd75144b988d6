---------------------------- MODULE MemoryAllocator ----------------------------
(***************************************************************************)
(* The first-fit heap (MemoryAllocator): every segment, free or handed     *)
(* out, starts with a descriptor; free segments are linked through the     *)
(* descriptors' next and prev.                                             *)
(*                                                                         *)
(* Addresses are counted in blocks of MEM_BLOCK_SIZE from the start of the *)
(* heap, sizes of segments in blocks.  Pointer arithmetic on descriptors   *)
(* counts descriptors, which are shorter than a block.  Descriptors stay   *)
(* in memory when their segment is handed out and keep what they hold,     *)
(* which the list goes on using; so all of them are modelled, not just the *)
(* list.                                                                   *)
(***************************************************************************)
EXTENDS Integers, FiniteSetsExt

CONSTANTS
  HeapBlocks,  \* the blocks between heap_start and HEAP_END_ADDR
  Requests,    \* the bytes the callers ask for
  BlockSize,   \* MEM_BLOCK_SIZE, 64
  DescSize     \* sizeof(segDesc), 32

ASSUME HeapAssumption == HeapBlocks \in Nat \ {0}
ASSUME SizesAssumption ==
  /\ Requests \subseteq Nat
  /\ BlockSize \in Nat \ {0} /\ DescSize \in 1..BlockSize

VARIABLES
  freeSegHead,  \* the first free segment
  desc,         \* the descriptor at each address
  held,         \* history: <<address, size, bytes asked for>> handed out
  outcome,      \* what the last call ended with
  misplaced     \* history: a segment was linked in at a wrong place

vars == <<freeSegHead, desc, held, outcome, misplaced>>

Addresses == 0 .. (HeapBlocks - 1)
Null == -1
Unset == -2  \* what a pointer nobody has set may hold

-------------------------------------------------------------------------------
(* The k-th segment from h along next, Null behind the end. *)
PathFrom(d, h) ==
  LET path[k \in 0..HeapBlocks] ==
        IF k = 0 THEN h
        ELSE IF path[k - 1] = Null THEN Null ELSE d[path[k - 1]].next
  IN  path

Path == PathFrom(desc, freeSegHead)

Linked == LET path == Path IN {path[k] : k \in 0..HeapBlocks} \ {Null}

(* A walk from freeSegHead comes to an end. *)
Ends == \E k \in 0..HeapBlocks : Path[k] = Null

(* Mutant: the distance is counted in blocks, so neighbours do pass. *)
MergeBlocks(d, main, other) ==
  IF main + d[main].size = other
  THEN [d EXCEPT ![main].size = @ + d[other].size,
                 ![main].next = d[other].next,
                 ![d[other].next].prev = main]
  ELSE d

(* tryToMerge: main + main->size counts descriptors, not blocks, so         *)
(* neighbours do not pass the test.                                         *)
Merge(d, main, other) ==
  IF main * BlockSize + d[main].size * DescSize = other * BlockSize
  THEN [d EXCEPT ![main].size = @ + d[other].size,
                 ![main].next = d[other].next,
                 ![d[other].next].prev = main]
  ELSE d

(* Mutant: the descriptor is left out when there is nothing to round. *)
BlocksForBare(bytes) ==
  IF bytes % BlockSize = 0 THEN bytes \div BlockSize
  ELSE (bytes + DescSize) \div BlockSize + 1

(* The callers, the system call mem_alloc and the kernel's operators new,   *)
(* ask for whole blocks with room for the descriptor.                       *)
BlocksFor(bytes) ==
  LET all == bytes + DescSize
  IN  IF all % BlockSize = 0 THEN all \div BlockSize ELSE all \div BlockSize + 1

(* mem_alloc takes the first segment with room for n blocks. *)
Fits(n) ==
  LET path == Path
  IN  {k \in 0..HeapBlocks : path[k] # Null /\ n <= desc[path[k]].size}

(* Mutant: curr->size is set before the size of the rest is computed. *)
SplitLate(n, curr) ==
  [desc EXCEPT ![curr + n] = [desc[curr] EXCEPT !.size = 0], ![curr].size = n]

(* The rest of a split segment gets a descriptor of its own, with the prev  *)
(* of the one it replaces; the prev of the segment behind it is not set.    *)
Split(n, curr) ==
  [desc EXCEPT ![curr + n] = [size |-> desc[curr].size - n,
                              next |-> desc[curr].next,
                              prev |-> desc[curr].prev],
               ![curr].size = n]

(* mem_alloc for so many bytes. *)
Alloc(bytes) ==
  LET n == BlocksFor(bytes) IN
  \/ LET k     == Min(Fits(n))
         curr  == Path[k]
         rest  == IF n < desc[curr].size THEN curr + n ELSE desc[curr].next
         split == IF n < desc[curr].size THEN Split(n, curr) ELSE desc
     IN  /\ Fits(n) # {}
         /\ \/ /\ k = 0
               /\ freeSegHead' = rest
               /\ desc' = split
            \/ /\ k > 0
               /\ desc' = [split EXCEPT ![Path[k - 1]].next = rest]
               /\ UNCHANGED freeSegHead
         /\ held' = held \cup {<<curr, n, bytes>>}
         /\ outcome' = "ok"
  \/ /\ Fits(n) = {}
     /\ outcome' = IF Ends THEN "ok" ELSE "hangs"
     /\ UNCHANGED <<freeSegHead, desc, held>>

(* Mutant: the loop does not look at addresses. *)
StopsAtEnd(tmp) ==
  {k \in 0..HeapBlocks : Path[k] # Null /\ desc[Path[k]].next = Null}

(* Where the loop of mem_free stops: at a segment behind tmp, or the last. *)
Stops(tmp) ==
  LET path == Path
  IN  {k \in 0..HeapBlocks :
         path[k] # Null /\ (path[k] >= tmp \/ desc[path[k]].next = Null)}

(* The four places mem_free can link tmp into: an empty list; in front of   *)
(* the first segment, where the loop has not moved; behind the last; in     *)
(* front of curr, through the prev that curr happens to hold.               *)
IntoEmpty(tmp) ==
  /\ freeSegHead = Null
  /\ desc' = [desc EXCEPT ![tmp].next = Null, ![tmp].prev = Null]
  /\ freeSegHead' = tmp
  /\ outcome' = "ok"

AsFirst(tmp, curr) ==
  /\ curr = freeSegHead
  /\ desc' = Merge([desc EXCEPT ![curr].prev = tmp,
                                ![tmp].prev = Null, ![tmp].next = curr],
                   tmp, curr)
  /\ freeSegHead' = tmp
  /\ outcome' = "ok"

AsLast(tmp, curr) ==
  /\ curr # freeSegHead /\ tmp > curr
  /\ desc' = Merge([desc EXCEPT ![curr].next = tmp,
                                ![tmp].prev = curr, ![tmp].next = Null],
                   curr, tmp)
  /\ outcome' = "ok"
  /\ UNCHANGED freeSegHead

Between(tmp, curr) ==
  LET before == desc[curr].prev
  IN  /\ curr # freeSegHead /\ tmp <= curr
      /\ UNCHANGED freeSegHead
      /\ \/ /\ before \in Addresses
            /\ LET linked == [desc EXCEPT ![tmp].next = curr, ![tmp].prev = before,
                                          ![before].next = tmp, ![curr].prev = tmp]
                   merged == Merge(linked, tmp, curr)
               IN  desc' = Merge(merged, merged[tmp].prev, tmp)
            /\ outcome' = "ok"
         \/ /\ before \notin Addresses
            /\ outcome' = "fault"
            /\ UNCHANGED desc

(* mem_free of a segment its caller holds. *)
Free(tmp) ==
  \/ IntoEmpty(tmp)
  \/ /\ freeSegHead # Null /\ Stops(tmp) # {}
     /\ LET curr == Path[Min(Stops(tmp))]
        IN  AsFirst(tmp, curr) \/ AsLast(tmp, curr) \/ Between(tmp, curr)
  \/ /\ freeSegHead # Null /\ Stops(tmp) = {}
     /\ outcome' = "hangs"
     /\ UNCHANGED <<freeSegHead, desc>>

(* The two ways a segment gets a wrong place: in front of the only segment, *)
(* whose address is lower; or behind the segment that curr->prev names,     *)
(* which is no longer the one in front of curr.                             *)
Misplaces(tmp) ==
  /\ freeSegHead # Null /\ Stops(tmp) # {}
  /\ LET k    == Min(Stops(tmp))
         curr == Path[k]
     IN  \/ k = 0 /\ tmp > curr
         \/ k > 0 /\ tmp <= curr /\ desc[curr].prev # Path[k - 1]

(* init: one segment; its prev is never set. *)
Init ==
  /\ freeSegHead = 0
  /\ desc = [a \in Addresses |->
       IF a = 0 THEN [size |-> HeapBlocks, next |-> Null, prev |-> Unset]
       ELSE [size |-> 0, next |-> Unset, prev |-> Unset]]
  /\ held = {}
  /\ outcome = "ok"
  /\ misplaced = FALSE

Next ==
  /\ outcome \notin {"hangs", "fault"}
  /\ \/ \E bytes \in Requests : Alloc(bytes) /\ UNCHANGED misplaced
     \/ \E s \in held :
          /\ Free(s[1])
          /\ held' = held \ {s}
          /\ misplaced' = (misplaced \/ Misplaces(s[1]))

Spec == Init /\ [][Next]_vars

-------------------------------------------------------------------------------
Pointers == Addresses \cup {Null, Unset}

(* What the allocator can still read: it sets next and prev of a segment    *)
(* that is not in the list before it reads them again.                      *)
LivePart ==
  LET linked == Linked
  IN  <<freeSegHead, held, outcome, misplaced,
        [a \in Addresses |-> IF a \in linked THEN desc[a] ELSE <<desc[a].size>>]>>

TypeOK ==
  /\ freeSegHead \in Addresses \cup {Null}
  /\ desc \in [Addresses -> [size : 0..HeapBlocks, next : Pointers, prev : Pointers]]
  /\ \A a \in Linked : desc[a].size # 0
  /\ held \subseteq Addresses \X (1..HeapBlocks) \X Requests
  /\ outcome \in {"ok", "hangs", "fault"}
  /\ misplaced \in BOOLEAN

Blocks(s) == s[1] .. (s[1] + s[2] - 1)
FreeSegments == {<<a, desc[a].size>> : a \in Linked}

(* No block is handed out twice, or handed out and still in the list        *)
(* (mem_alloc takes a segment off the list, mem_free puts one back).        *)
Disjoint ==
  \A s, t \in held \cup FreeSegments : s # t => Blocks(s) \cap Blocks(t) = {}

(* Every segment has room for its descriptor and for what was asked for. *)
Roomy == \A s \in held : DescSize + s[3] <= s[2] * BlockSize

(* No memory is lost: every block is held or in the list. *)
NothingLost ==
  UNION {Blocks(s) : s \in held \cup FreeSegments} = Addresses

(* The list is in the order of the addresses. *)
Sorted ==
  \A k \in 1..HeapBlocks : Path[k] # Null => Path[k - 1] < Path[k]

(* Every call comes to an end: the loop of mem_alloc "jumps out when place  *)
(* is found or when theres no free space", the one of mem_free at the end.  *)
Returns == outcome \notin {"hangs", "fault"}

(* Until mem_free links a segment in at a wrong place, all of this holds.   *)
SoundUntilMisplaced ==
  ~misplaced => Disjoint /\ Roomy /\ NothingLost /\ Sorted /\ Returns

(* A descriptor being shorter than a block, tryToMerge leaves what is freed *)
(* apart from its neighbours, in whichever branch of mem_free and however   *)
(* the list has been linked: no segment ever grows, and a heap that has     *)
(* been cut up stays cut up.                                                *)
SegmentsOnlyCut ==
  [][\A a \in Addresses : desc[a].size # 0 => desc'[a].size \in 1..desc[a].size]_vars
===============================================================================
