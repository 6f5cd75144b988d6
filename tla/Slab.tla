---------------------------------- MODULE Slab ----------------------------------
(***************************************************************************)
(* The slab allocator (slab, list): caches of equal objects, each with its *)
(* slabs in three lists, and the small memory buffers of kmalloc, which    *)
(* are caches too.                                                         *)
(*                                                                         *)
(* A cache, a slab's struct and a slab's memory are each a chunk from the  *)
(* buddy allocator and named by it.  Of the buddy allocator only its       *)
(* promise is used (module PageAllocator): a chunk nobody holds, or no     *)
(* memory, which may come early when the chunks left are too small.  An    *)
(* object is the memory it lies in and its number there; the lists linked  *)
(* through list_t are sequences.  Constructors and destructors are left    *)
(* out: they see one object, in its caller's hands or on its way back.     *)
(***************************************************************************)
EXTENDS Integers, Sequences, SequencesExt, FiniteSetsExt

CONSTANTS
  NumChunks,   \* the chunks of the buddy allocator
  Sizes,       \* the sizes caches are created for
  Requests,    \* the sizes kmalloc is called with
  PageSize,    \* the size of the smallest slab, 4096
  MinObjects,  \* the objects a slab has room for at least, 8
  ListSize,    \* sizeof(list_t)
  MinBuffer,   \* the size of the smallest small memory buffer, 32
  NumBuffers,  \* the length of small_memory_buffers, 13
  FirstObj,    \* the index id_obj starts at, 13
  TableSize    \* the length of the table caches, 23

ASSUME SlabAssumption ==
  /\ NumChunks \in Nat
  /\ Sizes \subseteq Nat /\ Requests \subseteq Nat
  /\ {MinObjects, ListSize, MinBuffer} \subseteq Nat \ {0}
  /\ PageSize \in Nat /\ MinObjects <= PageSize
  /\ NumBuffers \in Nat \ {0} /\ NumBuffers <= FirstObj
  /\ FirstObj \in Nat /\ TableSize \in Nat /\ FirstObj <= TableSize

VARIABLES
  live,         \* the caches
  real_obj_size,
  lists,        \* for each cache: the slabs in empty, partial and full
  growth_indicator,
  memory,       \* for each slab: its memory
  free_list,    \* for each slab: the objects linked as free
  obj_counter,  \* for each slab: the objects handed out
  small_memory_buffers,
  caches,       \* the table of caches
  id_obj,
  id_buff,
  pages,        \* the chunks the buddy allocator has handed out
  held,         \* history: <<memory, object, holder>> handed out, the
                \* holder <<"cache", c>> or <<"entry", e, the bytes asked for>>
  outcome       \* what the last call ended with

slabVars  == <<lists, growth_indicator, memory, free_list, obj_counter, pages, held>>
tableVars == <<live, real_obj_size, small_memory_buffers, caches, id_obj, id_buff>>
vars      == <<slabVars, tableVars, outcome>>

Chunks  == 1..NumChunks
Buffers == 0..(NumBuffers - 1)
None    == 0  \* the null pointer

(* kmem_cache_create: an object has room for the links, and the slab is     *)
(* doubled until it has room for enough objects.                            *)
ObjSize(size) == Max({size, ListSize})

Power[k \in Nat] == IF k = 0 THEN 1 ELSE 2 * Power[k - 1]

SlabSize(size) ==
  Min({b \in {PageSize * Power[k] : k \in 0..ObjSize(size)} :
         b \div ObjSize(size) >= MinObjects})

MaximumObjects(size) == SlabSize(size) \div ObjSize(size)

(* find_adequate_small_memory_buffer with the byte kmalloc adds for its     *)
(* header; NumBuffers stands for every entry behind the last.               *)
EntryFor(bytes) ==
  Min({e \in 0..NumBuffers : bytes + 1 <= MinBuffer * Power[e] \/ e = NumBuffers})

(* buddy_alloc.  Nothing depends on which unused chunk it is: the lowest.   *)
BuddyAlloc(used) == IF Chunks \subseteq used THEN {} ELSE {Min(Chunks \ used)}

NoSlabs == [empty |-> <<>>, partial |-> <<>>, full |-> <<>>]

-------------------------------------------------------------------------------
(* list_remove from one list and list_push to another. *)
Move(l, s, from, to) == [l EXCEPT ![from] = RemoveFirst(@, s), ![to] = <<s>> \o @]

(* choose_slab pushes the new slab on the empty ones. *)
WithEmpty(l, s) == [l EXCEPT !["empty"] = <<s>> \o @]

(* choose_slab moves the slab it takes from by its counter. *)
ListsAfterTake(l, s, counter, max) ==
  LET l1 == IF counter = 0 THEN Move(l, s, "empty", "partial") ELSE l
  IN  IF counter = max - 1 THEN Move(l1, s, "partial", "full") ELSE l1

(* Mutant: kmem_cache_free leaves a slab without objects in partial. *)
ListsAfterGiveUnemptied(l, s, counter, max) ==
  IF counter = max THEN Move(l, s, "full", "partial") ELSE l

(* kmem_cache_free moves the slab it gives back to. *)
ListsAfterGive(l, s, counter, max) ==
  LET l1 == IF counter = max THEN Move(l, s, "full", "partial") ELSE l
  IN  IF counter = 1 THEN Move(l1, s, "partial", "empty") ELSE l1

(* choose_slab: the last of the most populated partial slabs, else the      *)
(* first empty one.                                                         *)
Chosen(l) ==
  IF l.partial # <<>>
  THEN LET top == Max({obj_counter[l.partial[k]] : k \in DOMAIN l.partial})
       IN  l.partial[Max({k \in DOMAIN l.partial : obj_counter[l.partial[k]] = top})]
  ELSE IF l.empty # <<>> THEN Head(l.empty) ELSE None

(* Mutant: the loop of slabInit starts at 0. *)
NewFreeListLonger(max) == [k \in 1..(max + 1) |-> k]

(* slabInit links all objects of the slab, max of them. *)
NewFreeList(max) == [k \in 1..max |-> k]

(* Mutant: slabInit forgets the struct when there is no memory. *)
PagesAfterFailureLeaked(used, s) == used \cup {s}

(* slabInit gives the struct back when there is no memory for the objects. *)
PagesAfterFailure(used, s) == (used \cup {s}) \ {s}

(* kmem_cache_alloc from cache c, whose slabs have room for max objects,    *)
(* when ls are the lists and used the chunks so far: from a slab there is,  *)
(* from a new one, or not at all.  In the last case choose_slab returns     *)
(* null and its free_list is popped.                                        *)
TakeFrom(c, max, ls, used, holder) ==
  LET s == Chosen(ls[c])
  IN  /\ s # None
      /\ lists' = [ls EXCEPT ![c] = ListsAfterTake(@, s, obj_counter[s], max)]
      /\ held' = held \cup {<<memory[s], Head(free_list[s]), holder>>}
      /\ free_list' = [free_list EXCEPT ![s] = Tail(@)]
      /\ obj_counter' = [obj_counter EXCEPT ![s] = @ + 1]
      /\ pages' = used
      /\ outcome' = "ok"
      /\ UNCHANGED <<growth_indicator, memory>>

Grow(c, max, ls, used, holder) ==
  /\ Chosen(ls[c]) = None
  /\ \E s \in BuddyAlloc(used) : \E m \in BuddyAlloc(used \cup {s}) :
       /\ lists' = [ls EXCEPT ![c] =
            ListsAfterTake(WithEmpty(ls[c], s), s, 0, max)]
       /\ memory' = [memory EXCEPT ![s] = m]
       /\ held' = held \cup {<<m, Head(NewFreeList(max)), holder>>}
       /\ free_list' = [free_list EXCEPT ![s] = Tail(NewFreeList(max))]
       /\ obj_counter' = [obj_counter EXCEPT ![s] = 1]
       /\ pages' = used \cup {s, m}
  /\ growth_indicator' = [growth_indicator EXCEPT ![c] = 1]
  /\ outcome' = "ok"

FailToGrow(c, ls, used) ==
  /\ Chosen(ls[c]) = None
  /\ \/ pages' = used
     \/ \E s \in BuddyAlloc(used) : pages' = PagesAfterFailure(used, s)
  /\ lists' = ls
  /\ growth_indicator' = [growth_indicator EXCEPT ![c] = 1]
  /\ outcome' = "fault"
  /\ UNCHANGED <<memory, free_list, obj_counter, held>>

AllocFrom(c, holder) ==
  LET max == MaximumObjects(real_obj_size[c])
  IN  \/ TakeFrom(c, max, lists, pages, holder)
      \/ Grow(c, max, lists, pages, holder)
      \/ FailToGrow(c, lists, pages)

(* The caches whose pointers users have. *)
UserCaches == live \ {small_memory_buffers[e] : e \in Buffers}

Alloc(c) == AllocFrom(c, <<"cache", c>>) /\ UNCHANGED tableVars

-------------------------------------------------------------------------------
(* kmem_cache_create, with or without a constructor: it counts the caches   *)
(* of both kinds and never looks at the length of the table.                *)
Create(size, hasCtor) ==
  /\ \E c \in BuddyAlloc(pages) :
       LET i == IF hasCtor THEN id_obj ELSE id_buff
       IN  /\ i < TableSize
           /\ live' = live \cup {c}
           /\ real_obj_size' = [real_obj_size EXCEPT ![c] = size]
           /\ lists' = [lists EXCEPT ![c] = NoSlabs]
           /\ growth_indicator' = [growth_indicator EXCEPT ![c] = -1]
           /\ caches' = [caches EXCEPT ![i] = c]
           /\ pages' = pages \cup {c}
  /\ IF hasCtor THEN id_obj' = id_obj + 1 /\ UNCHANGED id_buff
                ELSE id_buff' = id_buff + 1 /\ UNCHANGED id_obj
  /\ UNCHANGED <<small_memory_buffers, memory, free_list, obj_counter, held, outcome>>

CreateOverruns ==
  /\ TableSize \in {id_obj, id_buff} /\ BuddyAlloc(pages) # {}
  /\ outcome' = "overrun"
  /\ UNCHANGED <<slabVars, tableVars>>

(* kmalloc: the cache of the entry is created on the first request and put  *)
(* into the table a second time, whatever is there.  A request that is too  *)
(* large reads behind small_memory_buffers.                                 *)
Kmalloc(bytes) ==
  LET e      == EntryFor(bytes)
      size   == MinBuffer * Power[e]
      holder == <<"entry", e, bytes>>
  IN
  \/ /\ e \in Buffers /\ small_memory_buffers[e] # None
     /\ AllocFrom(small_memory_buffers[e], holder)
     /\ UNCHANGED tableVars
  \/ /\ e \in Buffers /\ small_memory_buffers[e] = None /\ id_buff < TableSize
     /\ \E c \in BuddyAlloc(pages) :
          /\ live' = live \cup {c}
          /\ real_obj_size' = [real_obj_size EXCEPT ![c] = size]
          /\ small_memory_buffers' = [small_memory_buffers EXCEPT ![e] = c]
          /\ caches' = [caches EXCEPT ![id_buff] = c, ![e] = c]
          /\ LET ls == [lists EXCEPT ![c] = NoSlabs]
             IN  \/ Grow(c, MaximumObjects(size), ls, pages \cup {c}, holder)
                 \/ FailToGrow(c, ls, pages \cup {c})
     /\ id_buff' = id_buff + 1
     /\ UNCHANGED id_obj
  \/ /\ e \in Buffers /\ small_memory_buffers[e] = None
     /\ caches' = [caches EXCEPT ![e] = None]
     /\ outcome' = "fault"
     /\ UNCHANGED <<slabVars, live, real_obj_size, small_memory_buffers, id_obj, id_buff>>
  \/ /\ e \notin Buffers
     /\ outcome' = "overrun"
     /\ UNCHANGED <<slabVars, tableVars>>

(* kmem_cache_free: the slab in partial or full whose memory the object     *)
(* lies in.                                                                 *)
Slabs(l) == ToSet(l.empty) \cup ToSet(l.partial) \cup ToSet(l.full)

FreeTo(c, h) ==
  /\ \E s \in ToSet(lists[c].partial) \cup ToSet(lists[c].full) :
       /\ memory[s] = h[1]
       /\ lists' = [lists EXCEPT ![c] = ListsAfterGive(@, s, obj_counter[s],
                                                    MaximumObjects(real_obj_size[c]))]
       /\ obj_counter' = [obj_counter EXCEPT ![s] = @ - 1]
       /\ free_list' = [free_list EXCEPT ![s] = <<h[2]>> \o @]
  /\ held' = held \ {h}
  /\ UNCHANGED <<growth_indicator, memory, pages, tableVars, outcome>>

(* kmem_cache_free by the cache, kfree by the entry in front of the object. *)
Free(h)  == h[3][1] = "cache" /\ FreeTo(h[3][2], h)
Kfree(h) == h[3][1] = "entry" /\ FreeTo(small_memory_buffers[h[3][2]], h)

(* kmem_cache_shrink frees the empty slabs. *)
WithoutEmpty(l) == [l EXCEPT !["empty"] = <<>>]

Shrink(c) ==
  /\ pages' = pages \ UNION {{s, memory[s]} : s \in ToSet(lists[c].empty)}
  /\ lists' = [lists EXCEPT ![c] = WithoutEmpty(@)]
  /\ growth_indicator' = [growth_indicator EXCEPT ![c] = IF @ = 1 THEN 1 ELSE 0]
  /\ UNCHANGED <<memory, free_list, obj_counter, held, tableVars, outcome>>

(* Mutant: kmem_cache_destroy leaves the table as it is. *)
CachesWithoutListed(c) == caches

(* kmem_cache_destroy clears the first entry of the table that names it. *)
CachesWithout(c) ==
  LET at == {i \in DOMAIN caches : caches[i] = c}
  IN  IF at = {} THEN caches ELSE [caches EXCEPT ![Min(at)] = None]

(* kmem_cache_destroy frees all slabs, with the objects still held. *)
Destroy(c) ==
  /\ caches' = CachesWithout(c)
  /\ pages' = pages \ ({c} \cup UNION {{s, memory[s]} : s \in Slabs(lists[c])})
  /\ live' = live \ {c}
  /\ held' = {h \in held : h[3] # <<"cache", c>>}
  /\ UNCHANGED <<lists, growth_indicator, memory, free_list, obj_counter, real_obj_size,
                 small_memory_buffers, id_obj, id_buff, outcome>>

(* The slabs of a cache as kmem_cache_info meets them, and what it counts. *)
InOrder(c) == lists[c].empty \o lists[c].partial \o lists[c].full

ObjNum(c) ==
  LET slabs == InOrder(c)
      obj_num[k \in 0..Len(slabs)] ==
        IF k = 0 THEN 0 ELSE obj_num[k - 1] + obj_counter[slabs[k]]
  IN  obj_num[Len(slabs)]

SlabNum(c) == Len(InOrder(c))

(* Mutant: the capacity is that of one slab. *)
PercentOfOne(c) == (100 * ObjNum(c)) \div MaximumObjects(real_obj_size[c])

(* kmem_cache_info: how much of the cache is used.  Without a slab the      *)
(* division is by zero.                                                     *)
Percent(c) ==
  LET size == real_obj_size[c]
  IN  (100 * ObjNum(c)) \div ((SlabNum(c) * SlabSize(size)) \div ObjSize(size))

Init ==
  /\ live = {} /\ pages = {} /\ held = {}
  /\ real_obj_size = [c \in Chunks |-> 0]
  /\ lists = [c \in Chunks |-> NoSlabs]
  /\ growth_indicator = [c \in Chunks |-> -1]
  /\ memory = [s \in Chunks |-> None]
  /\ free_list = [s \in Chunks |-> <<>>]
  /\ obj_counter = [s \in Chunks |-> 0]
  /\ small_memory_buffers = [e \in Buffers |-> None]
  /\ caches = [i \in 0..(TableSize - 1) |-> None]
  /\ id_obj = FirstObj /\ id_buff = 0
  /\ outcome = "ok"

Next ==
  /\ outcome = "ok"
  /\ \/ \E size \in Sizes, hasCtor \in BOOLEAN : Create(size, hasCtor)
     \/ CreateOverruns
     \/ \E c \in UserCaches : Alloc(c) \/ Shrink(c) \/ Destroy(c)
     \/ \E bytes \in Requests : Kmalloc(bytes)
     \/ \E h \in held : Free(h) \/ Kfree(h)

Spec == Init /\ [][Next]_vars

-------------------------------------------------------------------------------
SlabsOf(c) == Slabs(lists[c])
AllSlabs   == UNION {SlabsOf(c) : c \in live}
HeldIn(s)  == {h[2] : h \in {x \in held : x[1] = memory[s]}}
MaxIn(c)   == MaximumObjects(real_obj_size[c])

TypeOK ==
  /\ live \subseteq pages /\ pages \subseteq Chunks
  /\ real_obj_size \in [Chunks -> Nat]
  /\ lists \in [Chunks -> [empty : Seq(Chunks), partial : Seq(Chunks), full : Seq(Chunks)]]
  /\ growth_indicator \in [Chunks -> -1..1]
  /\ memory \in [Chunks -> Chunks \cup {None}]
  /\ \A c \in live : \A s \in SlabsOf(c) :
       free_list[s] \in Seq(1..MaxIn(c)) /\ obj_counter[s] \in 0..MaxIn(c)
  /\ small_memory_buffers \in [Buffers -> live \cup {None}]
  /\ caches \in [0..(TableSize - 1) -> Chunks \cup {None}]
  /\ id_obj \in FirstObj..TableSize /\ id_buff \in 0..TableSize
  /\ \A h \in held :
       h[1] \in Chunks /\ h[3] \in ({"cache"} \X live) \cup ({"entry"} \X Buffers \X Requests)
  /\ outcome \in {"ok", "fault", "overrun"}

(* Every object of a slab is handed out to one caller or free, and the      *)
(* counter, by which the slab is moved between the lists, is right          *)
(* (kmem_cache_alloc, kmem_cache_free).                                     *)
Conserved(s, max) ==
  /\ IsInjective(free_list[s])
  /\ HeldIn(s) \cap ToSet(free_list[s]) = {}
  /\ HeldIn(s) \cup ToSet(free_list[s]) = 1..max
  /\ obj_counter[s] = Cardinality({h \in held : h[1] = memory[s]})

ObjectsConserved == \A c \in live : \A s \in SlabsOf(c) : Conserved(s, MaxIn(c))

(* A slab is in one list, once: empty, full or partial as it is, so that    *)
(* shrink never frees an object in use and no free object is out of reach.  *)
ListedByCounter ==
  \A c \in live :
    /\ IsInjective(InOrder(c))
    /\ \A s \in ToSet(lists[c].empty) : obj_counter[s] = 0
    /\ \A s \in ToSet(lists[c].partial) : obj_counter[s] \in 1..(MaxIn(c) - 1)
    /\ \A s \in ToSet(lists[c].full) : obj_counter[s] = MaxIn(c)

(* Every chunk taken from the buddy allocator is one cache, one slab or the *)
(* memory of one slab, and comes back when that goes, on the way out of a   *)
(* failure too (slabInit, kmem_cache_shrink, kmem_cache_destroy).           *)
PagesAccounted ==
  /\ pages = live \cup AllSlabs \cup {memory[s] : s \in AllSlabs}
  /\ Cardinality(pages) = Cardinality(live) + 2 * Cardinality(AllSlabs)
  /\ \A c, d \in live : c # d => SlabsOf(c) \cap SlabsOf(d) = {}

(* The table never names a cache that has been destroyed.                   *)
TableLive == \A i \in DOMAIN caches : caches[i] \in live \cup {None}

(* What kmem_cache_info prints of a cache with slabs is a percentage, and a *)
(* hundred only if no object is free; when the objects do not divide the    *)
(* slab evenly, a cache without a free object may print less.               *)
InfoTellsUse ==
  \A c \in live : SlabsOf(c) # {} =>
    /\ Percent(c) \in 0..100
    /\ Percent(c) = 100 => \A s \in SlabsOf(c) : free_list[s] = <<>>

(* What tells states apart: a struct is filled in when it is taken from the *)
(* buddy allocator, and the objects of a slab are alike but for being free. *)
LivePart ==
  <<live, small_memory_buffers, caches, id_obj, id_buff, pages, outcome,
    {h[3] : h \in held},
    [c \in live |-> <<real_obj_size[c], lists[c], growth_indicator[c]>>],
    [s \in AllSlabs |->
       <<memory[s], obj_counter[s],
         IF \E c \in live : s \in SlabsOf(c) /\ Conserved(s, MaxIn(c)) THEN <<>>
         ELSE <<free_list[s], {h \in held : h[1] = memory[s]}>> >>]>>
===============================================================================
