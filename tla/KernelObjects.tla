----------------------------- MODULE KernelObjects -----------------------------
(***************************************************************************)
(* The objects in memory that stand behind the sequences of Kernel.tla:    *)
(* head and tail of Scheduler and of each mySemaphore, the links nextTCB   *)
(* and nextSem of the TCBs, and the flag dealoc of a semaphore, through    *)
(* which sem_wait answers when the semaphore may be gone.                  *)
(*                                                                         *)
(* Every action of Kernel is taken with what the code does to these; the   *)
(* result of sem_wait is computed by the thread itself once it runs again, *)
(* from memory that sem_close has freed and others may have been given.    *)
(***************************************************************************)
EXTENDS Kernel

CONSTANT Null  \* the null pointer

ASSUME ObjectsAssumption ==
  /\ IsFiniteSet(Thread)
  /\ Null \notin Thread \cup Sem \cup {Idle}
  /\ "ready" \notin Sem
  /\ idleThread \notin StaleId

VARIABLES
  links,   \* head and tail of the lists, nextTCB and nextSem of the TCBs
  dealoc,  \* mySemaphore::dealoc, whoever has the memory now
  waitIn,  \* the semaphore whose wait() a thread has not returned from
  cause    \* history: what happened to that wait: nothing yet, "signal" or
           \* "close" woke it, or the memory was "reused" since

objectVars == <<links, dealoc, waitIn, cause>>

Lists == {"ready"} \cup Sem
LinkOf(l) == IF l = "ready" THEN "nextTCB" ELSE "nextSem"

-------------------------------------------------------------------------------
(* Mutants: whether the list is empty is read off its tail; the thread is   *)
(* linked in front.                                                         *)
LinkByTail(m, l, t) ==
  IF m.tail[l] = Null
  THEN [m EXCEPT !["head"][l] = t, !["tail"][l] = t]
  ELSE [m EXCEPT ![LinkOf(l)][m.tail[l]] = t, !["tail"][l] = t]
LinkInFront(m, l, t) ==
  IF m.head[l] = Null
  THEN [m EXCEPT !["head"][l] = t, !["tail"][l] = t]
  ELSE [m EXCEPT ![LinkOf(l)][t] = m.head[l], !["head"][l] = t]

(* Scheduler::put and mySemaphore::block: t becomes the last of list l. *)
Link(m, l, t) ==
  IF m.head[l] = Null
  THEN [m EXCEPT !["head"][l] = t, !["tail"][l] = t]
  ELSE [m EXCEPT ![LinkOf(l)][m.tail[l]] = t, !["tail"][l] = t]

(* Scheduler::get and mySemaphore::unblock: the first of list l leaves it. *)
Unlink(m, l) ==
  IF m.head[l] = Null
  THEN [m EXCEPT !["tail"][l] = Null]
  ELSE [m EXCEPT !["head"][l] = m[LinkOf(l)][m.head[l]],
                 ![LinkOf(l)][m.head[l]] = Null]

(* Mutant: the idle thread is linked like any other. *)
PutLinkAll(m, t) == Link(m, "ready", t)

PutLink(m, t) == IF t = Idle THEN m ELSE Link(m, "ready", t)

(* mySemaphore::unblock, the thread it puts into the ready queue included. *)
UnblockLink(m, s) ==
  IF m.head[s] = Null THEN Unlink(m, s) ELSE PutLink(Unlink(m, s), m.head[s])

(* TCB::dispatch, and the one at the end of most system calls. *)
DispatchLink(m) ==
  IF running \in finished' \cup blocked' \cup sleeping'
  THEN Unlink(m, "ready")
  ELSE Unlink(PutLink(m, running), "ready")

TrailingLink(m) == IF m.head["ready"] = Null THEN m ELSE DispatchLink(m)

(* The loops of sem_close and of wakeSleepingThreads. *)
SignalsLink(m, s, n) ==
  LET after[k \in 0..n] == IF k = 0 THEN m ELSE UnblockLink(after[k - 1], s)
  IN  after[n]
PutsLink(m, q) ==
  LET after[k \in 0..Len(q)] == IF k = 0 THEN m ELSE PutLink(after[k - 1], q[k])
  IN  after[Len(q)]

-------------------------------------------------------------------------------
(* The running thread is not in a wait, whoever it is now: it has read      *)
(* dealoc and returned.  `w` and `c` are waitIn and cause before that.      *)
Resume(w, c) ==
  /\ waitIn' = [t \in Thread |-> IF t = running' THEN Null ELSE w[t]]
  /\ cause' = [t \in Thread |-> IF w[t] = Null THEN "none" ELSE c[t]]

Awake(t, s) == waitIn[t] = s /\ t \notin blocked'

(* The threads awake in the wait of s have had something happen to it. *)
Mark(s, what) == [t \in Thread |-> IF Awake(t, s) THEN what ELSE cause[t]]

KeepObjects == UNCHANGED dealoc /\ Resume(waitIn, cause)

Dispatched ==
  /\ ThreadDispatch \/ ThreadExit
  /\ links' = TrailingLink(links)
  /\ KeepObjects

(* The constructor of TCB clears the links before it queues the thread. *)
Created(t, start) ==
  LET m == [links EXCEPT !["nextTCB"][t] = Null, !["nextSem"][t] = Null]
  IN  /\ ThreadCreate(t, start)
      /\ links' = TrailingLink(IF start THEN PutLink(m, t) ELSE m)
      /\ KeepObjects

Started(t) ==
  /\ ThreadStart(t)
  /\ links' = TrailingLink(PutLink(links, t))
  /\ KeepObjects

(* The constructor of mySemaphore. *)
Opened(s, init) ==
  /\ SemOpen(s, init)
  /\ links' = TrailingLink([links EXCEPT !["head"][s] = Null, !["tail"][s] = Null])
  /\ dealoc' = [dealoc EXCEPT ![s] = FALSE]
  /\ Resume(waitIn, Mark(s, "reused"))

(* Mutant: sem_close does not mark the semaphore as closed. *)
ClosedUnmarked(s) ==
  /\ SemClose(s)
  /\ links' = TrailingLink(SignalsLink(links, s, IF val[s] < 0 THEN -val[s] ELSE 0))
  /\ UNCHANGED dealoc
  /\ Resume(waitIn, Mark(s, "close"))

(* sem_close marks the semaphore and then wakes who waits; the memory keeps *)
(* the mark when it is freed.                                               *)
Closed(s) ==
  /\ SemClose(s)
  /\ links' = TrailingLink(SignalsLink(links, s, IF val[s] < 0 THEN -val[s] ELSE 0))
  /\ dealoc' = [dealoc EXCEPT ![s] = TRUE]
  /\ Resume(waitIn, Mark(s, "close"))

Waited(s) ==
  /\ SemWait(s)
  /\ links' = IF running \in blocked' THEN DispatchLink(Link(links, s, running))
                                      ELSE links
  /\ UNCHANGED dealoc
  /\ Resume([waitIn EXCEPT ![running] = s], [cause EXCEPT ![running] = "waiting"])

Signalled(s) ==
  /\ SemSignal(s)
  /\ links' = IF val[s] + 1 <= 0 THEN UnblockLink(links, s) ELSE links
  /\ UNCHANGED dealoc
  /\ Resume(waitIn, [t \in Thread |->
               IF t \in blocked \ blocked' THEN "signal" ELSE cause[t]])

Slept(t) ==
  /\ TimeSleep(t)
  /\ links' = DispatchLink(links)
  /\ KeepObjects

Ticked ==
  LET m == PutsLink(links, Woken)
  IN  /\ Tick
      /\ links' = IF timeSliceCounter' = 0 THEN TrailingLink(m) ELSE m
      /\ KeepObjects

(* The memory of a closed semaphore is given out by mem_alloc and written   *)
(* over; what matters is that the flag is cleared.                          *)
MemoryWritten(s) ==
  /\ running # Idle /\ s \notin open /\ dealoc[s]
  /\ UNCHANGED <<vars, links, waitIn>>
  /\ dealoc' = [dealoc EXCEPT ![s] = FALSE]
  /\ cause' = Mark(s, "reused")

ObjectsInit ==
  /\ Init
  /\ links = [head    |-> [l \in Lists |-> Null],
              tail    |-> [l \in Lists |-> Null],
              nextTCB |-> [t \in Thread |-> Null],
              nextSem |-> [t \in Thread |-> Null]]
  /\ dealoc = [s \in Sem |-> FALSE]
  /\ waitIn = [t \in Thread |-> Null]
  /\ cause = [t \in Thread |-> "none"]

ObjectsNext ==
  \/ Dispatched
  \/ \E t \in Thread, start \in BOOLEAN : Created(t, start)
  \/ \E t \in Thread : Started(t)
  \/ \E s \in Sem, init \in 0..MaxInit : Opened(s, init)
  \/ \E s \in Sem : Closed(s) \/ Waited(s) \/ Signalled(s) \/ MemoryWritten(s)
  \/ \E t \in 1..MaxSleep : Slept(t)
  \/ Ticked

allVars == <<vars, objectVars>>

ObjectsSpec == ObjectsInit /\ [][ObjectsNext]_allVars

(* The hardware timer keeps interrupting, as in Kernel.tla. *)
ObjectsFairSpec == ObjectsSpec /\ WF_vars(Tick)

-------------------------------------------------------------------------------
ObjectsTypeOK ==
  /\ links \in [head : [Lists -> Thread \cup {Null}], tail : [Lists -> Thread \cup {Null}],
                nextTCB : [Thread -> Thread \cup {Null}],
                nextSem : [Thread -> Thread \cup {Null}]]
  /\ dealoc \in [Sem -> BOOLEAN]
  /\ waitIn \in [Thread -> Sem \cup {Null}]
  /\ cause \in [Thread -> {"none", "waiting", "signal", "close", "reused"}]

(* The pointers of list l spell the sequence q. *)
Spells(m, l, q) ==
  IF q = <<>> THEN m.head[l] = Null
  ELSE /\ m.head[l] = Head(q) /\ m.tail[l] = Last(q)
       /\ \A i \in DOMAIN q :
            m[LinkOf(l)][q[i]] = IF i = Len(q) THEN Null ELSE q[i + 1]

(* The links of the TCBs always spell the ready queue and the waiting lists *)
(* in order, ended by null: neither a stale tail, which get and unblock     *)
(* leave behind when they empty a list, nor a link from an earlier list is  *)
(* ever followed.                                                           *)
ListsSpelled ==
  /\ Spells(links, "ready", ready)
  /\ \A s \in open : Spells(links, s, waiters[s])

(* The members of list l as get would find them. *)
Found(m, l) ==
  LET reach[n \in 0..Cardinality(Thread)] ==
        IF n = 0 THEN {m.head[l]} \ {Null}
        ELSE LET found == reach[n - 1]
             IN  found \cup ({m[LinkOf(l)][t] : t \in found} \ {Null})
  IN  reach[Cardinality(Thread)]

(* What a second thread_start of a thread that is ready would do: linking   *)
(* it alone loses nobody, but the next put of another thread goes over its  *)
(* link and cuts off exactly the threads behind it.                         *)
RestartCutsBehind ==
  \A k \in DOMAIN ready :
    LET m == PutLink(links, ready[k])
    IN  /\ Found(m, "ready") = ToSet(ready)
        /\ \A u \in Thread \ ToSet(ready) :
             Found(PutLink(m, u), "ready") = {ready[i] : i \in 1..k} \cup {u}

(* sem_wait answers 0 when a signal woke the thread and -1 when sem_close   *)
(* did, or came before the thread ran again, although the flag it reads may *)
(* be in freed memory: only a new owner of the memory can make it lie.      *)
WaitResult ==
  [][\A t \in Thread :
       waitIn[t] # Null /\ waitIn'[t] = Null =>
         /\ cause'[t] \in {"signal", "close", "reused"}
         /\ cause'[t] = "signal" => ~dealoc'[waitIn[t]]
         /\ cause'[t] = "close" => dealoc'[waitIn[t]]]_allVars
===============================================================================
