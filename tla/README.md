# A verification project for the RISC-V teaching kernel `OS2 predaja`

The repository holds a small single-hart operating system kernel for RISC-V: threads
with a round-robin scheduler and time slices, semaphores, sleeping, a buffered console, a
first-fit heap for the user, and a buddy and a slab allocator for the kernel. This directory models
it in TLA+, checks the models with TLC on small instances, and proves the central invariants of
the thread kernel, the trap handler, the console, the allocators and the user program with TLAPS for every size. Paths below are relative to `src/OS2 predaja/`.

## The system: inventory

| component | state it keeps | operations | hard behaviour |
|---|---|---|---|
| scheduler (`src/myScheduler.cpp`) | a FIFO queue of TCBs through `nextTCB`, `head`, `tail` | `put`, `get`; `get` answers the idle thread when the queue is empty, `put` ignores it | the list is intrusive: a TCB may be in it once |
| threads (`src/tcb.cpp`, `h/tcb.h`) | per TCB: id, flags finished/blocked/sleeping, context, stacks, `sleepLeft`, three links; static: `running`, `sleepHead`, `timeSliceCounter` | create, start, exit, dispatch, sleep; the delta list of sleepers | order of construction and queueing; dispatch depends on the flags its caller has set |
| semaphores (`src/mySemaphore.cpp`) | `val`, a waiting list through `nextSem`, `dealoc` | open, close, wait, signal | close wakes everybody and frees the memory the woken return through |
| trap handler (`src/riscv.cpp`, `src/*.S`) | the CSRs sepc, sstatus, scause, sip and the thread's stacks | one entry for system calls, timer and console interrupts | a dispatch in the middle of the handler: what is read before it and what after it |
| buddy allocator (`src/buddy.cpp`, `src/bitmap.cpp`) | 13 free lists, a bitmap of chunks | alloc (split), free (merge) | long sequences of splits and merges keep lists and bitmap in step |
| slab allocator (`src/slab.cpp`, `src/list.cpp`) | caches with empty/partial/full slabs, tables of caches | create, alloc, free, shrink, destroy, kmalloc, kfree | slabs move between lists by a counter; failure of the buddy allocator |
| memory allocator (`src/MemoryAllocator.cpp`) | a list of free segments with `prev`, `next`, `size` | mem_alloc (first fit), mem_free (insert, merge) | pointers kept in the memory that is handed out |
| console (`src/myConsole.cpp`, `src/myBuffer.cpp`) | two bounded buffers with four semaphores each | putc, getc, the console thread, the console interrupt | a blocking put inside an interrupt |
| C interface (`src/syscall_c.cpp`) | none | one wrapper per system call; `mem_alloc` rounds bytes to blocks, `thread_create` allocates the stacks | `thread_create_no_start` answers -1 without memory, and 0 whatever the kernel did |
| C++ interface (`src/syscall_cpp.cpp`, `src/Thread.cpp`, ...) | a handle per object | constructors, `start`, `new`, `delete` | failures inside constructors; objects deleted while their threads run |
| boot (`src/main.cpp`) and user program (`src/userMain.cpp`) | the objects the user's threads make | sets everything up, enables interrupts, calls `userMain` | every thread makes threads, polls for them and deletes them |

Everything runs on one hart. A trap masks interrupts until `sret`, so a pass through
`Riscv::handleSupervisorTrap` is atomic up to the point where it returns to a thread - possibly
another one. All interleaving is between such passes.

### What would make each component wrong

- **Threads, scheduler, semaphores.** The lists are intrusive, so one thread in two lists cuts off
  whoever is behind it; dispatch decides by flags its caller has just set; a semaphore's value and
  its list of waiters are updated apart; the sleep list keeps differences, not times. Correct means:
  every thread is in one place and none is lost, values count waiters, sleepers wake on their tick,
  ready threads run.
- **Trap handler.** The thread that leaves the handler is not the one that entered it. Correct
  means: each returns into its own code, in its own mode, with its registers, and each timer
  interrupt is one tick.
- **User program.** A thread's object is shared with whoever made it. Correct means: nobody runs on a
  deleted object, every thread that was started is collected, the program ends.
- **Console.** A `put` inside an interrupt can block the thread that was interrupted. Correct means:
  each direction is a FIFO channel, nobody is lost in it, and callers come back.
- **Allocators.** Long sequences of legal calls. Correct means: nothing is handed out twice, nothing
  is lost, every call returns.

## The modules and the code

| module | code | state | actions |
|---|---|---|---|
| `Scheduler` | `src/myScheduler.cpp` | none: operators on a queue | `Put`, `NextOf`/`RestOf` (`get`) |
| `SleepList` | `src/tcb.cpp:42-92`, `src/riscv.cpp:88-99,140-142` | `sleepList`, `sleepLeft` | `PutToSleep`, `TimerTick` |
| `AlarmClock` | abstract | one countdown per sleeper | `Sleep`, `Tick` |
| `Kernel` | `src/riscv.cpp`, `src/tcb.cpp`, `src/mySemaphore.cpp` | `running`, `ready`, the TCB flags as sets, `val`, `waiters`, `timeSliceCounter` | one per system call, and `Tick` |
| `KernelObjects` | `src/mySemaphore.cpp`, `src/myScheduler.cpp`, `src/riscv.cpp:25-75` | `head` and `tail` of every list, `nextTCB`, `nextSem`, `dealoc`; which wait a thread has not returned from | each action of `Kernel`, with the pointers it moves and the waits that return; `MemoryWritten` |
| `KernelProofs`, `LayerProofs`, `ForkProofs`, `ConsoleProofs`, `BuddyProofs`, `SlabProofs`, `MemoryProofs` | - | - | theorems about `Kernel`, its two layers `KernelObjects` and `Trap`, `ForkThreads`, `Console`, `Buddy`, `Slab` and `MemoryAllocator` |
| `Lemmas` | - | - | lemmas about lists without repetition, least and greatest numbers, ring buffers and remainders, loops as recursive functions |
| `Trap` | `src/supervisorTrap.S`, `src/contextSwitch.S`, `src/riscv.cpp:101-152`, `src/tcb.cpp:148-154` | where each thread is suspended in the handler; whose code, mode and a0 it comes back with; the timer's pending bit | each action of `Kernel`, with its return; `TimerFires` |
| `Channel` | abstract | a FIFO queue, the character taken last | send, receive |
| `Console` | `src/myBuffer.cpp`, `src/myConsole.cpp`, `src/riscv.cpp:76-81,122-137,153-168` | two ring buffers with their semaphores and waiters; where each thread is in a put or get | each half of a put or get; the interrupt; the console thread; preemption |
| `PageAllocator` | abstract | the chunks handed out | `Allocate`, `Release` |
| `Buddy` | `src/buddy.cpp`, `src/bitmap.cpp` | `free_list`, `bitmap` | `Alloc`, `Free` |
| `Slab` | `src/slab.cpp`, `src/list.cpp` | caches, their three lists of slabs, each slab's free list and counter, the tables | `Create`, `Alloc`, `Free`, `Shrink`, `Destroy`, `Kmalloc`, `Kfree`; pure: the geometry of a slab, the entry of a request, `kmem_cache_info` |
| `MemoryAllocator` | `src/MemoryAllocator.cpp`, `src/syscall_c.cpp:11-21` | `freeSegHead` and every descriptor with size, next and prev | `Alloc`, `Free` |
| `ForkThreads` | `src/userMain.cpp`, `src/Thread.cpp`, `src/syscall_cpp.cpp`, `src/syscall_c.cpp:39-45` | where each thread is in its `run`, its object, handle and flag; the ready queue | each system call of the program; `Timer` |

`Kernel` is built on `Scheduler` and `SleepList`; `Trap` runs every action of `Kernel` and adds what
the trap does to registers; `KernelObjects` runs them too and adds what they do to memory; `Console` and
`ForkThreads` share `Scheduler`; `Slab` stands on the promise of
`PageAllocator`, which `Buddy` is shown to implement.

How the state corresponds:

- A linked list is the sequence of its members. Where pointers may be wrong (`MemoryAllocator`)
  they are pointers; that the pointers of the thread kernel spell its sequences is `ListsSpelled` in
  `KernelObjects`. A flag of a TCB is the set of threads that have it.
- A history variable (`started`, `held`, `unserved`, `sliced`, `taken`, `misplaced`, `cause`) records what happened
  and is read by properties only, or, for `held` and `started`, by the guard that lets callers free
  what they hold and start what they have not started.
- Threads are arbitrary programs. Whoever runs may make any call next. The exceptions are named in the
  guards: the idle thread only dispatches (`src/myScheduler.cpp:36`), and a caller starts a thread
  once and frees what it got once.
- In `Kernel` the whole pass through the handler is one action, trailing dispatch included. `Trap`
  keeps that and computes what the thread that leaves the handler takes with it.
- In `KernelObjects` `sem_wait` computes its result when its thread next runs: between the wakeup and that
  moment the semaphore may be freed, and its memory opened again as a semaphore or written by a new owner.
- In `ForkThreads` a step is one system call of the running thread with the dispatch behind it; every
  `mem_alloc` may succeed or fail. Thread 0 is the main thread inside `userMain` (`src/main.cpp:46`).
- `Slab`, `MemoryAllocator` and `Buddy` run inside the kernel with interrupts masked, so a call is one
  step; in `Console` a put or get is two steps, because the thread may be suspended in between.

## What each run checks

| run | instance | what it shows |
|---|---|---|
| `kernel` | 4 threads, 2 semaphores, slices of 2 ticks, sleeps up to 3 | types, one place per thread, values count waiters, no thread lost, the sleep list implements `AlarmClock` |
| `kernel_live` | 3 threads, 1 semaphore, fair timer | the pointers spell the queue and the waiting lists; a second `thread_start` would cut off those behind; `sem_wait` answers by what woke the thread; ready threads run, sleepers wake |
| `kernel_exit` (violated) | 3 threads | `thread_exit` with nobody ready returns to the finished thread |
| `trap` | 2 threads and idle, 1 semaphore | the idle thread always comes back to itself; everything is right until a time slice ends with a switch |
| `trap_own_code` (violated) | 3 threads | after a switch by the timer, a thread that waited returns into another one's code |
| `buddy` | 8 blocks, all 4 sizes | lists, bitmap and held chunks partition the heap, bits tell use, buddies are always joined, and the allocator implements `PageAllocator` |
| `slab` | 7 chunks, up to 3 caches, 2 and 3 objects per slab | objects are conserved, slabs are in the list of their counter, no chunk leaks, the table names no dead cache, the use that `kmem_cache_info` prints is right |
| `memory` | 5 blocks, requests of 1 and 2 bytes that take 1 and 2 blocks | until a segment gets a wrong place: nothing handed out twice or lost, every segment as large as asked for, the list sorted, calls return; whatever has happened, no segment grows (`SegmentsOnlyCut`) |
| `memory_returns` (violated) | 5 blocks | the free list becomes a cycle and `mem_alloc` does not return |
| `console` | 2 users, 2 characters, capacity 2 | the semaphores agree with the indices, nobody is lost, output is a FIFO channel, input too but for the overrun; with a fair hart and timer every putc returns, output is transmitted, and an interrupted thread that gets room stores its character |
| `console_overrun` (violated) | the same | the interrupt writes over an unread character |
| `fork_threads` | ids up to 5 | a thread that runs has its object, all started threads are collected, the program ends unless a thread without a TCB is started |

### The bounds and why they are enough

- *Kernel.* With four threads one can run while the others are in three different lists, or all
  three in the same; two semaphores exercise the reuse and the separation of waiting lists; sleeps
  up to 3 give equal, first, middle and last places in the sleep list. `MaxInit` and `MaxVal` bound
  initial values and signals; waits drive values below zero as far as there are threads.
  `StaleId` is what the id of a fresh TCB may hold before it is set (`h/tcb.h:77`); see below. The
  theorems cover every size.
- *KernelObjects.* Three threads put two behind each other in the ready queue or in one waiting list, which is
  what links, tails and a second `thread_start` need; one semaphore suffices for its memory to be freed and
  used again.
- *ForkThreads.* The thread with id `MaxId` gets no memory for its array, where a finite heap would stop it; ids up to
  5 give parents with several elements and three and more threads in the ready queue at once.
- *Trap.* Two user threads and the idle thread are the fewest that can switch in every pair of places.
- *Buddy.* Eight blocks have four sizes: splits and merges over three levels, with left and right
  buddies in each.
- *Slab.* Three objects per slab are the fewest where two partial slabs differ in population (the code
  has at least 8; it treats only 0, maximum - 1 and maximum apart), and two the fewest that can be partial.
  The sizes are scaled: a page is 6, objects of 5 double the slab and leave room over, buffers of 2 do
  neither; of the requests one fits the only entry of `kmalloc`, header included, and one is too large.
  Seven chunks are one cache with three slabs, or three caches with two. `TableSize` 2 with `FirstObj` 1 lets the counters of both kinds
  reach their ends, which 23 and 13 would only put off. The run identifies states by `LivePart`:
  structs that are not in use are not looked at, and the objects of a slab are told apart only by being free
  or held, unless they are not conserved, in which case everything counts.
- *MemoryAllocator.* Five blocks let a segment be freed in front of, between and behind two others with a
  stale `prev` on one of them; with four the heap never hangs in `mem_free`. `LivePart` leaves out the
  pointers of segments outside the list, which are set before they are read.
- *Console.* Capacity 2 makes the indices wrap and tells order; the real one differs only in size. Two
  users and the console thread fill it and wait, in both directions at once.

### Fairness

`Kernel` assumes one thing: the hardware timer keeps interrupting (weak fairness of `Tick`). Threads owe the
kernel nothing and may compute for ever. `Console` assumes the hart goes on executing the kernel (each
second half of a put or get that can run does), the device becomes ready to transmit again, and the timer
preempts threads. No thread is assumed to call anything. `ForkThreads` assumes that a thread which gets the hart
again and again executes its next statement (strong fairness of its own steps): a time slice is many instructions
long, and the timer takes the hart only from one thread to the next in the queue.

`CHECK_DEADLOCK FALSE` stands only in the runs of `Slab`, `MemoryAllocator` and `ForkThreads`, whose models stop after a
null pointer is followed, a loop does not end, or the program is over.

## What is proved

Eight modules of the model have their theorems, each for every value of the constants that the assumption of its module allows.

**The thread kernel.** `KernelProofs` proves five theorems for every set of threads and semaphores, every time slice and every bound,
from `KernelAssumption` and `SleepAssumption` alone (`PlacesApart` is `OnePlace`, and so on):

- `TypeCorrect`, `PlacesApart`, `SemaphoresCount`: `Spec` implies always `TypeOK`, `OnePlace`,
  `ValueCountsWaiters`. `TypeOK` says among other things that `sleepLeft` is never decremented below zero.
- `ThreadsKept`: if `idleThread` is not in `StaleId`, `Spec` implies always `NoThreadLost`. The hypothesis is
  needed: with it dropped, a fresh TCB whose memory holds a 3 where its id will be is not queued, and the
  thread is lost. The memory comes from the user heap, which the kernel does not clear.
- `KernelImplementsAlarmClock` (`ImplementsAlarmClock`, with the action property in it that every tick of the kernel is one of the alarm clock).

None of the first four is inductive. The invariant `IInv` is the conjunction of `SemPart` (each waiting list repeats
nobody, two lists share nobody, the blocked flag is set for exactly those in them, and their length is what
the value says), `SleepPart` (the same for the sleep list and the sleeping flag), `ThreadPart` (created, started and
finished threads), `RunPart` (the ready queue and the running thread are apart from all waiting ones),
`StartedPart` (only started threads are in any list: this keeps `ThreadStart` from queueing a thread twice) and
`CounterPart`. Each system call ends in one of three ways - a dispatch, a trailing dispatch, or staying - and
the lemmas `DispatchSwitches`, `TrailingSwitches` and `StaySwitches` reduce all of them to one relation,
`Switched(q)`: whoever runs next and the new queue are, together, the queue `q` and the old thread if it can go
on. `RunStep` and `LostStep` draw the conclusions once; each action then only has to say what `q` is and that
its own list changed correctly (`SemStep`, `NewWaiters`, ...). `Lemmas` holds the facts about sequences without
repetitions: appending, taking the head or a prefix, inserting.

The sleep list needs one more conjunct, `SleepInv`: whoever is at its head has something left to wait (`HeadWaits`). Without
it the tick would take the head's `sleepLeft` below zero; it is kept because `wakeSleepingThreads` goes on until a head
has some left, and because who goes to sleep does so for at least a tick. `PlaceFits` says why the walk of
`findPlaceToSleep` stops where neither the new difference nor what it takes off the next one is negative. That the
differences add up is about sums along a list, a recursive function: `DueOfIs` makes it from finite tables, by
the least counterexample, and `SameDifferences` says that two such functions are the same when they begin and grow alike.
With it `TimesAround` (an insertion leaves everybody's time as it was), `TickShifts`, `FrontIsDue` and `BackIsDue` (a tick is one off
everybody's) are comparisons of differences, and the refinement follows thread by thread (`PutRemaining`, `TickRemaining`).

**The lists in memory.** `LayerProofs` needs, for `KernelObjects`, `ObjectsAssumption` as well: finitely many threads, a null pointer that is nobody, and no
fresh TCB with the idle thread's id in its memory. `ObjectsTypeCorrect`, `ListsAlwaysSpelled` and `RestartAlwaysCuts` are `ObjectsTypeOK`,
`ListsSpelled` and `RestartCutsBehind` in every reachable state, and `WaitAnswers` is the action property `WaitResult`. Every step of
`KernelObjects` is one of `Kernel` (`StepOfKernel`), so `IInv` holds of it. `ObjectsInv` adds two parts. `Good` says more than that
the open lists are spelled: closed semaphores have a null `head` too, and the link of a thread that is in no list of its kind is null. The
latter makes `Link` right, which writes the link of the last thread and leaves the new one's alone; `Unlink` keeps it, because it clears the
link of the thread it takes. A stale `tail` does no harm, because only an empty list has one. `PutReady`, `GetReady`, `PutWaiter` and `TakeWaiter` show that one operation on the
pointers is one on the sequences; `DispatchMoves` and `TrailingMoves` put two together. The loops of `sem_close` and of the timer
(`SignalsMove`, `PutsMove`) are recursive functions, which `PassesExist` makes from finite tables, and `Climbs` goes from each pass to the
next; half way through, the first waiters are in one list and the others in another (`MidwayApart`). The search of `Found` is a loop of the same kind (`FoundIs`): `Leads` says what links have to do to
be followed all the way, even in a circle. `WaitPart` is about the answers: whoever is in a waiting list has had nothing happen to its wait, and whoever is awake in a
wait was signalled with the flag clear, or closed out with it set, unless the memory has been used again (`Held`). `ResumeStep` is the one lemma about
the thread that runs next, and each system call says what it did to the waits before that.

**The trap handler.** For `Trap`, `LayerProofs` needs `KernelAssumption` and `SleepAssumption` alone. `TrapRunsKernel`, `TrapSpec => Spec`, brings in
what is proved of the kernel. `TrapTypeCorrect`, `IdleReturns` and `SlicesToBlame` are `TrapTypeOK`, `IdleIntact` and `SoundUntilSliced`
in every reachable state. The strengthening `TrapInv` says in which places a thread that does not run can be
suspended: never the idle thread in a wait, and, as long as no slice has ended with a switch, nobody in the timer's
part of the handler. So whoever is returned to after a wait has been suspended behind the same `ecall`, which is why
the late reads of `sepc` and `sstatus` do no harm until the first such switch.

**The user program.** `ForkProofs` needs `MaxIdAssumption` alone. `ForkTypeCorrect`, `ObjectsOutliveRuns` and `ThreadsCollected` are
`TypeOK`, `ObjectOutlivesRun` and `AllCollected` for any number of threads and any failures of `mem_alloc`. `Inv` says how far a
thread has got and what that leaves of its child and its descendants: its place gives how many objects it has made
(`Counts`), the first thread is `userMain` and the last gets no memory for its array (`Ends`), where the parent is in its
loops says whether its child has an object, runs, or has set its flag (`Family`), whoever has set its flag is on its
way out (`Flags`), and once a thread is finished all its descendants are finished and deleted or never existed
(`Chain`). `MovesTo` describes a step of one thread, and there is one lemma for each kind of step.

**The console.** `ConsoleProofs` needs `ConsoleAssumption`: finitely many threads, at least one of them a user's, and
a capacity of at least 1. It proves

- `ConsoleTypeCorrect`, `SemaphoresAgree`, `NobodyLost`: `Spec` implies always `TypeOK`, `Accounting`, `Found`;
- `OutputIsChannel`: `Spec => OutputInOrder`, the output buffer implements `Channel`;
- `InputIsChannelButOverrun`: `Spec => InputInOrderButOverrun`, and so does the input buffer but for the one
  step that `console_overrun` shows.

The invariant `Inv` adds to the types and the account who may be where (`Roles`), that each list of waiters
repeats nobody, is as long as its semaphore's value says and holds only threads that are in that wait and not
runnable, the idle thread excepted (`Lists`), and that whoever is neither runnable nor away is in one of them (`Placed`).
Every action is a wait on one of the four semaphores, a signal of one, or neither (`Waits`, `Signals`), so the
lemmas come by these three and by the part of the invariant; the actions themselves only say which they are. For
the refinement the contents of a buffer are `Ring(Cap, buffer[b], head[b], Stored(b))`, and `RingStore` and `RingTake` say that a
store appends and a take removes the head. That there is room for a store, or something for a take,
follows by counting: whoever waits is among those that are putting or getting, so there are as many of these
as the value says, and the running thread besides (`Promised`). Counting fails for the idle thread, which goes on although
it is in the list. `InputInv` says why it alone does harm: one thread at a time is in the interrupt
(`Solo`), the idle thread can only be the first of the list (`IdleFirst`), and whoever is interrupted after it
waits behind it (`Behind`).

**The buddy allocator.** `BuddyProofs` needs `BuddyAssumption`: any number of sizes. `TypeCorrect`, `HeapPartitioned`,
`BitsAlwaysTellUse` and `AlwaysCoalesced` are `TypeOK`, `Partition`, `BitsTellUse` and `Coalesced` in every reachable state, and
`BuddyImplementsPageAllocator` is the refinement of `PageAllocator`. The invariant has four parts: held chunks are
aligned, in the heap and apart (`HeldPart`); the list of a size holds, once each, exactly the chunks that are unused and have a
used buddy, or are the heap (`ListPart`, with `MaxFree`); a bit is set when a held chunk lies in its chunk (`BitPart`); the answer
is what has just been handed out (`AnswerPart`). Saying which chunks are in the lists, rather than that those in them are fine,
makes it inductive: partition and coalescing follow, and the loops of `buddy_alloc` and `buddy_free` are each compared
with it once. `AllocInv` says what is in the lists after the splits; `EntryFound` that `buddy_free` finds the size
from the bits; `MergeFound` where the merging stops; `FreeInv` what is in the lists then. The loops are a least
size and a greatest one (`MinOfNats`, `MaxOfNats`), not recursions.

**The slab allocator.** `SlabProofs` needs `SlabAssumption`: any number of chunks, sizes, requests and buffers, a slab of at least
as many bytes as objects, and no more buffers than the table has room for. `TypeCorrect`, `ObjectsAlwaysConserved`, `AlwaysListedByCounter`,
`AlwaysPagesAccounted`, `AlwaysTableLive` and `InfoAlwaysTellsUse` are `TypeOK`, `ObjectsConserved`, `ListedByCounter`, `PagesAccounted`,
`TableLive` and `InfoTellsUse` in every reachable state. The invariant is `Sound` and `Tabled`. `Sound` says that slabs are in the list of their counter (`Listed`), that
caches, slabs and memories are different chunks (`Paged`), that the objects of a slab are free or held and its counter right
(`Stocked`), and that each holder's object lies in a slab of the holder's own cache (`Owned`): without the last,
`kmem_cache_destroy` could leave objects of others behind, and with it nothing held is lost to `kmem_cache_shrink`. `Tabled` adds
that a user's cache is in the table at most once, so that clearing one entry is enough. Both take the state as parameters: a first
`kmalloc` creates a cache, then a slab, then takes an object, and each lemma (`NewCache`, `NewSlab`, `TakeObject`, `GiveObject`,
`ShrinkCache`, `DestroyCache`) is about one of these, on states the program only passes through. That the doubling in
`kmem_cache_create` ends with a slab of enough objects is `RoomInSlab`: the doublings are a recursive function, which the prover
does not know to exist, so `TableExists` and `TablesAgree` make it from finite tables, by the least counterexample. The loop of
`kmem_cache_info` is one as well: `TotalsBound` says that its sum is at most the room of all slabs, and all of it only if
every counter is at its limit, and `RoomAdds` that the capacity it divides by is at least that.

**The memory allocator.** `MemoryProofs` needs `HeapAssumption` and `SizesAssumption`: any number of blocks, any requests, and a descriptor
of any size up to a block. `TypeCorrect` and `AlwaysSoundUntilMisplaced` are `TypeOK` and `SoundUntilMisplaced` in every reachable state;
`NeverMerged` is the action property `SegmentsOnlyCut`, for descriptors shorter than a block, as the code's are. The invariant `IInv` has
two parts, because the list does go wrong. `Laid` holds whatever has happened to the list, a cycle included: every segment lies in the
heap, and its `next` and `prev` are segments, null or never set, so that no call leaves the descriptors. It also says that segments do not
overlap if descriptors are shorter than a block, and `MergeTest` draws from it that the test of `tryToMerge` is never true then, since the
distance it adds is too short to reach the next segment, and that it is true of neighbours only if a descriptor fills
a block. `Sound` holds until a segment is misplaced: the list spells a set of addresses in increasing order (`Spelled`), and that set and the
held segments tile the heap, each as large as was asked for (`Tiled`). The set is a witness, not the range of a walk, so `Path` comes in once:
`PathIs` makes the recursive function from finite tables, and `WalkAscends` says that a walk of a list that spells a set meets all of it in
order and ends, which is why the loops of `mem_alloc` and `mem_free` do. A call is then one of three changes of the set, unlinking a
segment, replacing it by the rest of a split, and linking one in (`TakenSpelled`, `ReplacedSpelled`, `LinkedSpelled`), with what each does to the tiling
(`TakeTiled`, `SplitTiled`, `GiveTiled`), and, where descriptors fill a block, one or two merges (`MergeSound`). That
`curr->prev` is the segment in front is not part of the invariant, for it is false; `misplaced` records the step in which that matters.

## What is only model-checked

- All liveness (`ReadyRuns`, `SleeperWakes`, `PutcReturns`, `OutputTransmitted`, `InterruptStored`,
  `EndsUnlessUnset`): fairness is outside what the
  prover can do.

## What the models say about the code

Listed with runs in `PROJECT.json`:

1. `thread_exit` does not switch when nobody is ready (`src/riscv.cpp:129`).
2. `sepc` is read after `sem_wait` and `time_sleep` have switched threads (`src/riscv.cpp:127`). As long as
   only system calls switch, all of them come through one `ecall`, and the mistake has no effect: that is
   what `SoundUntilSliced` says.
3. The console interrupt blocks the interrupted thread when the input buffer is full; the idle thread cannot
   be blocked, and overwrites (`src/riscv.cpp:162`).
4. `mem_free` links segments in at wrong places, and the heap ends in a cycle
   (`src/MemoryAllocator.cpp:68`, `:87`, with `:32`).

Seen while modelling, without a run of their own:

- `sstatus` is read after the wait as well (`OwnMode` in `Trap` is violated), `scause` after the timer's dispatch
  (`RegistersKept`), and the pending bit is cleared behind it (`OneTickPerInterrupt`).
- The interrupted thread waits inside the interrupt, uncompleted, until somebody calls getc; what can be said is
  `InterruptStored`: once it has been given room, it comes out.
- `sem_wait` reads its result from a semaphore that `sem_close` has freed. The flag stays in the freed memory, so
  the answer is right unless a new owner has written there first (`WaitResult`).
- A second `thread_start` of a ready thread goes unnoticed until the next `put`, which then cuts off exactly the
  threads behind it (`RestartCutsBehind`).
- A `Thread` whose constructor got no memory has an unset handle; `start` uses it and answers 0
  (`src/Thread.cpp:15-18`, `:28-30`). `userMain` starts ever more threads and never gives a TCB or a stack back, so with a finite
  heap it ends there or without memory for an array: `EndsUnlessUnset` leaves both ends open.
- `main` dispatches once "to empty the output buffer one last time" (`src/main.cpp:52`); the thread that runs then need not
  be the console thread.
- A full cache may show less than 100% (`src/slab.cpp:368`): the room left over in its slabs is counted as objects. For a
  cache without slabs the division is by zero.
- `NoThreadLost` is violated with `StaleId = {0, 3}` (see the theorem's hypothesis).
- `tryToMerge` adds blocks to a pointer to descriptors (`src/MemoryAllocator.cpp:99`); neighbours are
  never merged, and no segment ever grows (`SegmentsOnlyCut`, which `NeverMerged` proves).
- `growth_indicator` is 1 after the first allocation from a cache that was never shrunk (`src/slab.cpp:258` against
  the comment at `h/slab.h:29`), and stays 1.
- `kmalloc` enters its cache in the table twice and over whatever is there (`src/slab.cpp:192`); the counters never
  look at the length of the table.
- When memory runs out `kmem_cache_alloc` pops the free list of a null slab (`src/slab.cpp:70`), so the test in
  `kmalloc` (`src/slab.cpp:197`) never sees a 0.

## What is not modelled, and why

- Machine mode, the boot code and `lib/`: not in the repository as source. The timer handler is assumed to set
  the pending bit, and software interrupts to be enabled.
- Instructions that move registers and stacks, formatting and printing, packing of system call arguments: no
  behaviour a property could tell apart. `Trap` keeps the registers that go wrong.
- Stack layout. The user stack of a thread ends 36864 bytes behind the start of an allocation of 8192
  (`h/tcb.h:60-64`: `uint64*` plus `DEFAULT_STACK_SIZE`); what it overwrites depends on the whole heap and on the
  depth of calls, which no module has.
- Sums of sizes that wrap around (`src/syscall_c.cpp:13`, `src/slab.cpp:183`), and what lies behind an array that is
  overrun.
- Names of caches, constructors and destructors: nobody in the repository passes a destructor.
- `Semaphore`, `Console` and `PeriodicThread` of the C++ interface: the first two forward to one system call each; the
  third is a loop without an end around `time_sleep`, whose object must never be deleted.
- The destructor and `getCnt` of `myBuffer`: no buffer is ever deleted. The operators `delete` of `TCB`: no TCB is.
- The tests: demonstration programs, and not part of the kernel.

## Plan

Modules were written in the order of the table above: the thread kernel first, because everything
runs on it, then the trap, the allocators and the console. What is left, in order:

1. `Slab` on `Buddy` itself instead of on its promise, if the states allow.
