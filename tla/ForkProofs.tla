------------------------------- MODULE ForkProofs -------------------------------
(***************************************************************************)
(* Theorems about ForkThreads.tla, however many threads there are: no      *)
(* thread runs on an object that has been deleted, and when userMain is    *)
(* over every thread that was started has been collected.                  *)
(*                                                                         *)
(* A parent looks at its child through one flag and touches its object     *)
(* only behind that, so the argument is about one pair of threads at a     *)
(* time (`Family`): by the place the parent is in, the child is not        *)
(* started, on its way with its object alive, or at its end.  `Counts` is  *)
(* what the loops over `made` need; `Chain` carries the pairs to all       *)
(* descendants, since a thread that has finished has none left.            *)
(***************************************************************************)
EXTENDS ForkThreads, TLAPS

Constructing == {"object", "stacks", "create"}
Before       == Constructing \cup {"array", "start"}
After        == {"free", "finish", "exit", "gone"}

(* The objects a thread has made, by where it is. *)
CountsOf(t) ==
  /\ pc[t] = "none" => made[t] = 0
  /\ pc[t] \in Constructing => made[t] <= t
  /\ pc[t] = "array" => made[t] = 1 /\ t # 0
  /\ pc[t] \in {"start", "poll"} => made[t] = t + 1
  /\ pc[t] = "delete" => made[t] >= 1

Counts == \A t \in Threads : CountsOf(t)

(* The first thread is userMain, and the last gets no memory for its array. *)
Ends ==
  /\ pc[0] \in {"stacks", "create", "start", "poll", "over"}
  /\ object[1] = "alive"
  /\ pc[MaxId] \in {"none", "array", "finish", "exit", "gone"} \cup Constructing
  /\ pc[MaxId] \in Constructing => made[MaxId] = 0
  /\ pc[MaxId + 1] = "none"
  /\ \A t \in Threads : pc[t] = "over" => t = 0

(* A parent t and its child. *)
FamilyOf(t) ==
  /\ pc[t] \in {"none"} \cup Before => pc[t + 1] = "none" /\ object[t + 1] # "deleted"
  /\ pc[t] = "poll" => pc[t + 1] # "none" /\ object[t + 1] = "alive"
  /\ pc[t] = "over" => finished[t + 1]
  /\ pc[t] \in {"delete"} \cup After /\ pc[t + 1] # "none" =>
       /\ finished[t + 1] /\ object[t + 1] # "none"
       /\ pc[t] \in After \/ made[t] <= t => object[t + 1] = "deleted"

Family == \A t \in 0..MaxId : FamilyOf(t)

(* A thread sets its flag and is on its way out. *)
Flags == \A t \in Threads : finished[t] => pc[t] \in {"exit", "gone"}

(* What has become of the descendants u of a thread t. *)
ChainOf(t, u) ==
  /\ pc[t] = "none" => pc[u] = "none"
  /\ finished[t] => pc[u] = "none" \/ (finished[u] /\ object[u] = "deleted")

Chain == \A t, u \in Threads : t < u => ChainOf(t, u)

Inv == TypeOK /\ Counts /\ Ends /\ Family /\ Flags /\ Chain

-------------------------------------------------------------------------------
(* What the pairs say of the hart and of the end of userMain. *)
LEMMA InvSafe ==
  ASSUME Inv
  PROVE  ObjectOutlivesRun /\ AllCollected
<1>0. MaxId \in Nat \ {0}
  BY MaxIdAssumption DEF MaxIdAssumption
<1>1. ASSUME NEW t \in Threads \ {0}, pc[t] \notin {"none", "exit", "gone"}
      PROVE  object[t] = "alive" /\ (t = 1 => pc[0] # "over")
  <2>1. t - 1 \in 0..MaxId /\ t - 1 \in Threads /\ (t - 1) + 1 = t
    BY <1>0 DEF Threads
  <2>2. ~finished[t]
    BY <1>1 DEF Inv, Flags
  <2>3. pc[t - 1] = "poll"
    BY <1>1, <2>1, <2>2 DEF Inv, Family, FamilyOf, TypeOK, Places, Before, Constructing, After
  <2> QED
    BY <2>1, <2>3 DEF Inv, Family, FamilyOf
<1>2. ASSUME pc[0] = "over", NEW t \in Threads \ {0}, pc[t] # "none"
      PROVE  finished[t] /\ (t # 1 => object[t] = "deleted")
  <2>1. 0 \in 0..MaxId /\ 0 + 1 = 1 /\ 1 \in Threads
    BY <1>0 DEF Threads
  <2>2. finished[1]
    BY <1>2, <2>1 DEF Inv, Family, FamilyOf
  <2>3. t = 1 \/ 1 < t
    BY <1>0 DEF Threads
  <2> QED
    BY <1>2, <2>1, <2>2, <2>3 DEF Inv, Chain, ChainOf
<1> QED
  BY <1>1, <1>2 DEF ObjectOutlivesRun, AllCollected

(* userMain has started nobody. *)
LEMMA InitInv ==
  ASSUME Init
  PROVE  Inv
<1>0. MaxId \in Nat \ {0}
  BY MaxIdAssumption DEF MaxIdAssumption
<1>1. TypeOK
  <2>1. running \in Threads /\ ready \in Seq(Threads)
    BY <1>0 DEF Init, Threads
  <2>2. pc \in [Threads -> Places]
    BY DEF Init, Places
  <2>3. made \in [Threads -> Nat] /\ \A t \in Threads : made[t] <= t + 1
    BY <1>0 DEF Init, Threads
  <2>4. /\ handle \in [Threads -> {"unset", "null", "set"}]
        /\ object \in [Threads -> {"none", "alive", "deleted"}]
        /\ finished \in [Threads -> BOOLEAN]
        /\ fault \in BOOLEAN
    BY DEF Init
  <2> QED
    BY <2>1, <2>2, <2>3, <2>4 DEF TypeOK
<1>2. Counts /\ Ends
  BY <1>0 DEF Init, Counts, CountsOf, Ends, Constructing, Threads
<1>3. Family /\ Flags /\ Chain
  BY <1>0 DEF Init, Family, FamilyOf, Flags, Chain, ChainOf, Before, Constructing, After, Threads
<1> QED
  BY <1>1, <1>2, <1>3 DEF Inv

-------------------------------------------------------------------------------
(* The hart and the ready queue keep to threads, whoever is linked. *)
LEMMA DispatchTypes ==
  ASSUME TypeOK, NEW q \in Seq(Threads), Dispatch(q)
  PROVE  running' \in Threads /\ ready' \in Seq(Threads)
<1>1. CASE q = <<>>
  BY <1>1 DEF Dispatch, TypeOK
<1>2. CASE q # <<>>
  <2> DEFINE queue == IF pc'[running] = "gone" THEN q ELSE Put(q, running)
  <2>1. queue \in Seq(Threads) /\ queue # <<>>
    <3>1. CASE queue = q
      BY <1>2, <3>1
    <3>2. CASE queue = Append(q, running)
      <4>1. running \in Threads
        BY DEF TypeOK
      <4> QED
        BY <3>2, <4>1
    <3> QED
      BY <3>1, <3>2 DEF Put
  <2>2. running' = Head(queue) /\ ready' = Tail(queue)
    BY <1>2, <2>1 DEF Dispatch, NextOf, RestOf
  <2> HIDE DEF queue
  <2> QED
    BY <2>1, <2>2
<1> QED
  BY <1>1, <1>2

(* The last thread never starts, so whoever runs has a child to look at. *)
LEMMA Runner ==
  ASSUME Inv, pc[running] # "none"
  PROVE  running \in 0..MaxId
<1>1. MaxId \in Nat
  BY MaxIdAssumption DEF MaxIdAssumption
<1>2. running \in 0..(MaxId + 1) /\ pc[MaxId + 1] = "none"
  BY DEF Inv, TypeOK, Ends, Threads
<1>3. running # MaxId + 1
  BY <1>2
<1> QED
  BY <1>1, <1>2, <1>3

(* Where the ids of a parent and its child lie. *)
LEMMA Numbers ==
  /\ MaxId \in Nat /\ MaxId # 0
  /\ \A t \in 0..MaxId : t \in Nat /\ t \in Threads /\ t + 1 \in Threads /\ t + 1 # t
  /\ 0 \in Threads /\ 1 \in Threads /\ MaxId \in Threads /\ MaxId + 1 \in Threads
  BY MaxIdAssumption DEF MaxIdAssumption, Threads

(* The running thread goes to `place` and changes what is its own. *)
MovesTo(r, place) ==
  /\ running = r /\ pc[r] # "none" /\ place \in Places \ {"none"}
  /\ pc' = [pc EXCEPT ![r] = place]
  /\ \A t \in Threads \ {r + 1} : object'[t] = object[t]
  /\ made' \in [Threads -> Nat]
  /\ \A t \in Threads \ {r} : made'[t] = made[t]
  /\ made'[r] <= r + 1
  /\ handle' \in [Threads -> {"unset", "null", "set"}]
  /\ object' \in [Threads -> {"none", "alive", "deleted"}]
  /\ finished' \in [Threads -> BOOLEAN]
  /\ fault' \in BOOLEAN
  /\ running' \in Threads /\ ready' \in Seq(Threads)

(* Nobody else moves, and nobody is started. *)
LEMMA MovePoints ==
  ASSUME Inv, NEW r \in 0..MaxId, NEW place, MovesTo(r, place)
  PROVE  /\ pc'[r] = place
         /\ \A t \in Threads \ {r} : pc'[t] = pc[t]
         /\ \A t \in Threads : pc'[t] = "none" <=> pc[t] = "none"
  BY Numbers DEF Inv, TypeOK, MovesTo

(* Such a step keeps the types. *)
LEMMA MoveTypes ==
  ASSUME Inv, NEW r \in 0..MaxId, NEW place, MovesTo(r, place)
  PROVE  TypeOK'
<1>1. pc' \in [Threads -> Places]
  BY Numbers DEF Inv, TypeOK, MovesTo
<1>2. \A t \in Threads : made'[t] <= t + 1
  BY Numbers DEF Inv, TypeOK, MovesTo
<1> QED
  BY <1>1, <1>2 DEF TypeOK, MovesTo

(* For the counters only the running thread matters. *)
LEMMA MoveCounts ==
  ASSUME Inv, NEW r \in 0..MaxId, NEW place, MovesTo(r, place), CountsOf(r)'
  PROVE  Counts'
<1> SUFFICES ASSUME NEW t \in Threads, t # r
             PROVE  CountsOf(t)'
  BY DEF Counts
<1> QED
  BY MovePoints DEF Inv, Counts, CountsOf, MovesTo

(* What the first and the last thread may go to. *)
LEMMA MoveEnds ==
  ASSUME Inv, NEW r \in 0..MaxId, NEW place, MovesTo(r, place),
         r = 0 => place \in {"stacks", "create", "start", "poll", "over"} /\ object'[1] = "alive",
         place = "over" => r = 0,
         r = MaxId => \/ place \in {"array", "finish", "exit", "gone"}
                      \/ place \in Constructing /\ made'[r] = 0
  PROVE  Ends'
<1>1. pc'[0] \in {"stacks", "create", "start", "poll", "over"} /\ object'[1] = "alive"
  <2>1. CASE r = 0
    BY <2>1, MovePoints
  <2>2. CASE r # 0
    <3>1. pc'[0] = pc[0]
      BY <2>2, MovePoints, Numbers
    <3>2. object'[1] = object[1]
      <4>1. 1 # r + 1
        BY <2>2, Numbers
      <4> QED
        BY <4>1, Numbers DEF MovesTo
    <3> QED
      BY <3>1, <3>2 DEF Inv, Ends
  <2> QED
    BY <2>1, <2>2
<1>2. /\ pc'[MaxId] \in {"none", "array", "finish", "exit", "gone"} \cup Constructing
      /\ pc'[MaxId] \in Constructing => made'[MaxId] = 0
  <2>1. CASE r = MaxId
    BY <2>1, MovePoints, Numbers DEF Constructing
  <2>2. CASE r # MaxId
    <3>1. pc'[MaxId] = pc[MaxId] /\ made'[MaxId] = made[MaxId]
      BY <2>2, MovePoints, Numbers DEF MovesTo
    <3> QED
      BY <3>1 DEF Inv, Ends
  <2> QED
    BY <2>1, <2>2
<1>3. pc'[MaxId + 1] = "none"
  BY MovePoints, Numbers DEF Inv, Ends
<1>4. \A t \in Threads : pc'[t] = "over" => t = 0
  BY MovePoints DEF Inv, Ends
<1> QED
  BY <1>1, <1>2, <1>3, <1>4 DEF Ends

(* Such a step touches the pair of the running thread and its child, and    *)
(* that in which it is the child, where it leaves what the parent relies on. *)
LEMMA MoveFamily ==
  ASSUME Inv, NEW r \in 0..MaxId, NEW place, MovesTo(r, place),
         \A t \in Threads : finished[t] => finished'[t],
         FamilyOf(r)'
  PROVE  Family'
<1> SUFFICES ASSUME NEW t \in 0..MaxId, t # r
             PROVE  FamilyOf(t)'
  BY DEF Family
<1>1. t + 1 # r + 1 /\ t \in Threads /\ t + 1 \in Threads
  BY Numbers
<1>2. pc'[t] = pc[t] /\ made'[t] = made[t] /\ object'[t + 1] = object[t + 1]
  BY <1>1, MovePoints DEF MovesTo
<1>3. (pc'[t + 1] = "none") <=> (pc[t + 1] = "none")
  BY <1>1, MovePoints
<1>4. FamilyOf(t)
  BY DEF Inv, Family
<1> QED
  BY <1>1, <1>2, <1>3, <1>4 DEF FamilyOf

(* A flag that is set stays with a thread on its way out. *)
LEMMA MoveFlags ==
  ASSUME Inv, NEW r \in 0..MaxId, NEW place, MovesTo(r, place),
         finished' = finished, finished[r] => place \in {"exit", "gone"}
  PROVE  Flags'
  BY MovePoints DEF Inv, Flags

(* No flag is set, and no object of a started thread comes back. *)
LEMMA MoveChain ==
  ASSUME Inv, NEW r \in 0..MaxId, NEW place, MovesTo(r, place), finished' = finished,
         pc[r + 1] # "none" /\ object[r + 1] = "deleted" => object'[r + 1] = "deleted"
  PROVE  Chain'
<1> SUFFICES ASSUME NEW t \in Threads, NEW u \in Threads, t < u
             PROVE  ChainOf(t, u)'
  BY DEF Chain
<1>1. pc[u] # "none" /\ object[u] = "deleted" => object'[u] = "deleted"
  BY Numbers DEF MovesTo
<1>2. ChainOf(t, u)
  BY DEF Inv, Chain
<1> QED
  BY <1>1, <1>2, MovePoints DEF ChainOf

-------------------------------------------------------------------------------
(* The running thread goes on with what it is constructing. *)
LEMMA ConstructingInv ==
  ASSUME Inv, NEW r \in 0..MaxId, NEW place, MovesTo(r, place),
         pc[r] \in Constructing, place \in Constructing, r = 0 => place # "object",
         \/ object' = object
         \/ r # 0 /\ object' = [object EXCEPT ![r + 1] = "alive"],
         UNCHANGED <<made, finished>>
  PROVE  Inv'
<1>1. Counts'
  <2>1. CountsOf(r)'
    BY MovePoints, Numbers DEF Inv, Counts, CountsOf, Constructing
  <2> QED
    BY <2>1, MoveCounts
<1>2. Ends'
  <2>1. r = 0 => place \in {"stacks", "create"} /\ object'[1] = "alive"
    BY Numbers DEF Inv, Ends, Constructing
  <2>2. r = MaxId => made'[r] = 0
    BY DEF Inv, Ends
  <2>3. place # "over"
    BY DEF Constructing
  <2> QED
    BY <2>1, <2>2, <2>3, MoveEnds
<1>3. Family'
  <2>1. pc[r + 1] = "none" /\ object[r + 1] # "deleted"
    BY DEF Inv, Family, FamilyOf, Before
  <2>2. pc'[r + 1] = "none" /\ object'[r + 1] # "deleted"
    BY <2>1, MovePoints, Numbers DEF Inv, TypeOK
  <2>3. FamilyOf(r)'
    BY <2>2, MovePoints DEF FamilyOf, Constructing, After
  <2> QED
    BY <2>3, MoveFamily
<1>4. Flags'
  <2>1. ~finished[r]
    BY Numbers DEF Inv, Flags, Constructing
  <2> QED
    BY <2>1, MoveFlags
<1>5. Chain'
  <2>1. pc[r + 1] = "none"
    BY DEF Inv, Family, FamilyOf, Before
  <2> QED
    BY <2>1, MoveChain
<1> QED
  BY <1>1, <1>2, <1>3, <1>4, <1>5, MoveTypes DEF Inv

(* One object more is constructed, with a TCB or without. *)
LEMMA ConstructedInv ==
  ASSUME Inv, NEW r \in 0..MaxId, MovesTo(r, AfterElement),
         pc[r] \in Constructing, Constructed, UNCHANGED <<object, finished>>
  PROVE  Inv'
<1>1. running = r /\ AfterElement \in {"array", "object", "start"}
  BY DEF AfterElement, MovesTo
<1>2. made[r] \in Nat /\ made[r] <= r /\ made'[r] = made[r] + 1
  BY <1>1, Numbers DEF Inv, TypeOK, Counts, CountsOf, Constructed
<1>3. Counts'
  <2>1. CountsOf(r)'
    BY <1>1, <1>2, MovePoints, Numbers DEF CountsOf, AfterElement, OnChild, Constructing
  <2> QED
    BY <2>1, MoveCounts
<1>4. Ends'
  <2>1. r = 0 => AfterElement = "start" /\ object'[1] = "alive"
    BY <1>1, <1>2 DEF AfterElement, Inv, Ends
  <2>2. r = MaxId => AfterElement = "array"
    BY <1>1, <1>2, Numbers DEF AfterElement, OnChild, Inv, Ends
  <2> QED
    BY <1>1, <2>1, <2>2, MoveEnds
<1>5. Family'
  <2>1. pc[r + 1] = "none" /\ object[r + 1] # "deleted"
    BY DEF Inv, Family, FamilyOf, Before
  <2>2. pc'[r + 1] = "none" /\ object'[r + 1] # "deleted"
    BY <2>1, MovePoints, Numbers
  <2>3. FamilyOf(r)'
    BY <1>1, <2>2, MovePoints DEF FamilyOf, After
  <2> QED
    BY <2>3, MoveFamily
<1>6. Flags'
  <2>1. ~finished[r]
    BY Numbers DEF Inv, Flags, Constructing
  <2> QED
    BY <2>1, MoveFlags
<1>7. Chain'
  BY MoveChain
<1> QED
  BY <1>3, <1>4, <1>5, <1>6, <1>7, MoveTypes DEF Inv

(* A step that changes nothing but the place of the running thread. *)
Passes(r, place) ==
  \/ pc[r] = "array" /\ place = "object" /\ r # MaxId
  \/ pc[r] = "array" /\ place = "finish"
  \/ pc[r] = "start" /\ place = "delete" /\ object[r + 1] = "none"
  \/ pc[r] = "poll" /\ place = "poll"
  \/ pc[r] = "poll" /\ finished[r + 1] /\ place = IF r = 0 THEN "over" ELSE "delete"
  \/ pc[r] = "free" /\ place = "finish"
  \/ pc[r] = "exit" /\ place = "gone"

(* Such a step keeps all parts of the invariant. *)
LEMMA PassingInv ==
  ASSUME Inv, NEW r \in 0..MaxId, NEW place, MovesTo(r, place), Passes(r, place),
         UNCHANGED <<made, object, finished>>
  PROVE  Inv'
<1>1. Counts'
  <2>1. CountsOf(r)
    BY Numbers DEF Inv, Counts
  <2>2. CountsOf(r)'
    BY <2>1, MovePoints, Numbers DEF CountsOf, Passes, Constructing
  <2> QED
    BY <2>2, MoveCounts
<1>2. Ends'
  <2>1. r = 0 => place \in {"poll", "over"} /\ object'[1] = "alive"
    BY Numbers DEF Inv, Ends, Passes
  <2>2. r = MaxId => place \in {"finish", "gone"}
    BY Numbers DEF Inv, Ends, Passes, Constructing
  <2>3. place = "over" => r = 0
    BY DEF Passes
  <2> QED
    BY <2>1, <2>2, <2>3, MoveEnds
<1>3. Family'
  <2>1. FamilyOf(r)
    BY DEF Inv, Family
  <2>2. pc'[r] = place /\ (pc'[r + 1] = "none" <=> pc[r + 1] = "none")
    BY MovePoints, Numbers
  <2>3. pc[r] = "poll" => made[r] = r + 1
    BY Numbers DEF Inv, Counts, CountsOf
  <2>4. FamilyOf(r)'
    BY <2>1, <2>2, <2>3, Numbers DEF FamilyOf, Passes, Before, Constructing, After
  <2> QED
    BY <2>4, MoveFamily
<1>4. Flags'
  <2>1. finished[r] => pc[r] = "exit" \/ pc[r] = "gone"
    BY Numbers DEF Inv, Flags
  <2>2. finished[r] => place = "gone"
    BY <2>1 DEF Passes
  <2> QED
    BY <2>2, MoveFlags
<1>5. Chain'
  BY MoveChain
<1> QED
  BY <1>1, <1>2, <1>3, <1>4, <1>5, MoveTypes DEF Inv

(* The child's object goes first, and what the array holds after it. *)
LEMMA DeleteInv ==
  ASSUME Inv, NEW r \in 0..MaxId, NEW place, MovesTo(r, place),
         place = IF made[r] = 1 THEN "free" ELSE "delete",
         Delete
  PROVE  Inv'
<1>1. running = r /\ pc[r] = "delete" /\ r # 0 /\ finished' = finished
  BY DEF Delete, MovesTo, Inv, Ends
<1>2. made[r] \in Nat /\ made[r] >= 1 /\ made[r] <= r + 1 /\ made'[r] = made[r] - 1
  BY <1>1, Numbers DEF Inv, TypeOK, Counts, CountsOf, Delete
<1>3. FamilyOf(r)
  BY DEF Inv, Family
<1>4. pc[r + 1] # "none" => object'[r + 1] = "deleted"
  <2>1. CASE made[r] <= r
    <3>1. made[r] # r + 1
      BY <1>2, <2>1
    <3> QED
      BY <1>1, <1>3, <2>1, <3>1 DEF FamilyOf, Delete
  <2>2. CASE made[r] = r + 1 /\ pc[r + 1] # "none"
    <3>1. object[r + 1] # "none"
      BY <1>1, <1>3, <2>2 DEF FamilyOf
    <3> QED
      BY <1>1, <2>2, <3>1, Numbers DEF Delete, Child, Inv, TypeOK
  <2> QED
    BY <1>2, <2>1, <2>2
<1>5. Counts'
  <2>1. CountsOf(r)'
    BY <1>1, <1>2, MovePoints, Numbers DEF CountsOf, Constructing
  <2> QED
    BY <2>1, MoveCounts
<1>6. Ends'
  <2>1. r # MaxId
    BY <1>1 DEF Inv, Ends, Constructing
  <2> QED
    BY <1>1, <2>1, MoveEnds
<1>7. Family'
  <2>1. pc'[r] = place /\ (pc'[r + 1] = "none" <=> pc[r + 1] = "none")
    BY MovePoints, Numbers
  <2>2. FamilyOf(r)'
    BY <1>1, <1>3, <1>4, <2>1 DEF FamilyOf, Before, Constructing, After
  <2> QED
    BY <1>1, <2>2, MoveFamily
<1>8. Flags'
  <2>1. ~finished[r]
    BY <1>1, Numbers DEF Inv, Flags
  <2> QED
    BY <1>1, <2>1, MoveFlags
<1>9. Chain'
  BY <1>1, <1>4, MoveChain
<1> QED
  BY <1>5, <1>6, <1>7, <1>8, <1>9, MoveTypes DEF Inv

(* Whoever finishes has no descendants left: they finished before it. *)
LEMMA FinishInv ==
  ASSUME Inv, NEW r \in 0..MaxId, MovesTo(r, "exit"), Finish
  PROVE  Inv'
<1>1. running = r /\ pc[r] = "finish" /\ UNCHANGED <<made, object>>
  BY DEF Finish, MovesTo
<1>2. finished' = [finished EXCEPT ![r] = TRUE]
  BY <1>1 DEF Finish
<1>3. \A t \in Threads : finished[t] => finished'[t]
  BY <1>2 DEF Inv, TypeOK
<1>4. Counts'
  <2>1. CountsOf(r)'
    BY MovePoints DEF CountsOf, Constructing
  <2> QED
    BY <2>1, MoveCounts
<1>5. Ends'
  BY <1>1, MoveEnds DEF Inv, Ends
<1>6. FamilyOf(r)
  BY DEF Inv, Family
<1>7. Family'
  <2>1. pc'[r] = "exit" /\ (pc'[r + 1] = "none" <=> pc[r + 1] = "none")
    BY MovePoints, Numbers
  <2>2. FamilyOf(r)'
    BY <1>1, <1>3, <1>6, <2>1, Numbers DEF FamilyOf, Before, Constructing, After
  <2> QED
    BY <1>3, <2>2, MoveFamily
<1>8. Flags'
  <2> SUFFICES ASSUME NEW t \in Threads, finished'[t]
               PROVE  pc'[t] \in {"exit", "gone"}
    BY DEF Flags
  <2>1. CASE t = r
    BY <2>1, MovePoints
  <2>2. CASE t # r
    BY <1>2, <2>2, MovePoints DEF Inv, TypeOK, Flags
  <2> QED
    BY <2>1, <2>2
<1>9. Chain'
  <2> SUFFICES ASSUME NEW t \in Threads, NEW u \in Threads, t < u
               PROVE  ChainOf(t, u)'
    BY DEF Chain
  <2>1. ChainOf(t, u)
    BY DEF Inv, Chain
  <2>2. CASE t # r
    <3>1. finished'[t] = finished[t]
      BY <1>2, <2>2 DEF Inv, TypeOK
    <3> QED
      BY <1>1, <1>3, <2>1, <3>1, MovePoints DEF ChainOf
  <2>3. CASE t = r
    <3>1. pc[r + 1] = "none" \/ (finished[r + 1] /\ object[r + 1] = "deleted")
      BY <1>1, <1>6 DEF FamilyOf, After
    <3>2. u = r + 1 \/ r + 1 < u
      BY <2>3, Numbers DEF Threads
    <3>3. r + 1 < u => ChainOf(r + 1, u)
      BY Numbers DEF Inv, Chain
    <3>4. pc[u] = "none" \/ (finished[u] /\ object[u] = "deleted")
      BY <3>1, <3>2, <3>3 DEF ChainOf
    <3> QED
      BY <1>1, <1>3, <2>1, <2>3, <3>4, MovePoints DEF ChainOf
  <2> QED
    BY <2>2, <2>3
<1> QED
  BY <1>4, <1>5, <1>7, <1>8, <1>9, MoveTypes DEF Inv

(* The child that starts has constructed nothing, and its own child is not  *)
(* started.                                                                 *)
LEMMA StartInv ==
  ASSUME Inv, NEW r \in 0..MaxId, running = r, pc[r] = "start",
         object[r + 1] # "none",
         pc' = [pc EXCEPT ![r] = "poll", ![r + 1] = "object"],
         UNCHANGED <<made, handle, object, finished, fault>>,
         running' \in Threads, ready' \in Seq(Threads)
  PROVE  Inv'
<1>1. r # MaxId /\ r + 1 \in 0..MaxId
  BY Numbers DEF Inv, Ends, Constructing
<1>2. pc[r + 1] = "none" /\ object[r + 1] = "alive"
  BY Numbers DEF Inv, TypeOK, Family, FamilyOf, Before
<1>3. /\ pc'[r] = "poll" /\ pc'[r + 1] = "object"
      /\ \A t \in Threads \ {r, r + 1} : pc'[t] = pc[t]
  BY Numbers DEF Inv, TypeOK
<1>4. TypeOK'
  <2>1. pc' \in [Threads -> Places]
    BY Numbers DEF Inv, TypeOK, Places
  <2> QED
    BY <2>1 DEF Inv, TypeOK
<1>5. Counts'
  <2>1. CountsOf(r) /\ CountsOf(r + 1)
    BY Numbers DEF Inv, Counts
  <2>2. CountsOf(r)' /\ CountsOf(r + 1)'
    BY <1>2, <1>3, <2>1, Numbers DEF CountsOf, Constructing
  <2>3. \A t \in Threads \ {r, r + 1} : CountsOf(t)'
    BY <1>3 DEF Inv, Counts, CountsOf
  <2> QED
    BY <2>2, <2>3 DEF Counts
<1>6. Ends'
  <2>1. pc'[0] \in {"stacks", "create", "start", "poll", "over"}
    <3>1. 0 # r + 1
      BY Numbers
    <3> QED
      BY <1>3, <3>1, Numbers DEF Inv, Ends
  <2>2. /\ pc'[MaxId] \in {"none", "array", "finish", "exit", "gone"} \cup Constructing
        /\ pc'[MaxId] \in Constructing => made[MaxId] = 0
    <3>1. CASE MaxId = r + 1
      BY <1>2, <1>3, <3>1, Numbers DEF Inv, Counts, CountsOf, Constructing
    <3>2. CASE MaxId # r + 1
      BY <1>1, <1>3, <3>2, Numbers DEF Inv, Ends
    <3> QED
      BY <3>1, <3>2
  <2>3. pc'[MaxId + 1] = "none"
    <3>1. MaxId + 1 # r /\ MaxId + 1 # r + 1
      BY <1>1, Numbers
    <3> QED
      BY <1>3, <3>1, Numbers DEF Inv, Ends
  <2>4. \A t \in Threads : pc'[t] = "over" => t = 0
    BY <1>3 DEF Inv, Ends
  <2> QED
    BY <2>1, <2>2, <2>3, <2>4 DEF Inv, Ends
<1>7. Family'
  <2> SUFFICES ASSUME NEW t \in 0..MaxId
               PROVE  FamilyOf(t)'
    BY DEF Family
  <2>1. FamilyOf(t)
    BY DEF Inv, Family
  <2>2. CASE t = r
    BY <1>2, <1>3, <2>2 DEF FamilyOf, Before, Constructing, After
  <2>3. CASE t = r + 1
    <3>1. pc'[t + 1] = pc[t + 1]
      <4>1. t + 1 \in Threads /\ t + 1 # r /\ t + 1 # r + 1
        BY <1>1, <2>3, Numbers
      <4> QED
        BY <1>3, <4>1
    <3> QED
      BY <1>2, <1>3, <2>1, <2>3, <3>1 DEF FamilyOf, Before, Constructing, After
  <2>4. CASE t # r /\ t # r + 1
    <3>1. pc'[t] = pc[t] /\ ((pc'[t + 1] = "none") <=> (pc[t + 1] = "none"))
      <4>1. t \in Threads /\ t + 1 \in Threads /\ t + 1 # r + 1
        BY <2>4, Numbers
      <4>2. CASE t + 1 = r
        BY <1>3, <2>4, <4>1, <4>2
      <4>3. CASE t + 1 # r
        BY <1>3, <2>4, <4>1, <4>3
      <4> QED
        BY <4>2, <4>3
    <3> QED
      BY <2>1, <3>1 DEF FamilyOf
  <2> QED
    BY <2>2, <2>3, <2>4
<1>8. ~finished[r] /\ ~finished[r + 1]
  BY <1>2, Numbers DEF Inv, Flags
<1>9. Flags'
  BY <1>3, <1>8 DEF Inv, Flags
<1>10. Chain'
  <2> SUFFICES ASSUME NEW t \in Threads, NEW u \in Threads, t < u
               PROVE  ChainOf(t, u)'
    BY DEF Chain
  <2>1. ChainOf(t, u)
    BY DEF Inv, Chain
  <2>2. CASE t = r \/ t = r + 1
    BY <1>3, <1>8, <2>2 DEF ChainOf
  <2>3. CASE t # r /\ t # r + 1 /\ u # r /\ u # r + 1
    BY <1>3, <2>1, <2>3 DEF ChainOf
  <2>4. CASE t < r
    <3>1. ChainOf(t, r)
      BY <2>4, Numbers DEF Inv, Chain
    <3>2. pc[t] # "none" /\ ~finished[t]
      BY <1>8, <3>1 DEF ChainOf
    <3> QED
      BY <1>3, <2>4, <3>2, Numbers DEF ChainOf
  <2> QED
    BY <2>2, <2>3, <2>4, Numbers DEF Threads
<1> QED
  BY <1>4, <1>5, <1>6, <1>7, <1>9, <1>10 DEF Inv

(* A step that changes at most who is running and the fault. *)
LEMMA QuietInv ==
  ASSUME Inv, UNCHANGED <<pc, made, handle, object, finished>>, fault' \in BOOLEAN,
         running' \in Threads, ready' \in Seq(Threads)
  PROVE  Inv'
<1>1. TypeOK'
  BY DEF Inv, TypeOK
<1>2. Counts' /\ Ends'
  BY DEF Inv, Counts, CountsOf, Ends
<1>3. Family'
  BY DEF Inv, Family, FamilyOf
<1>4. Flags' /\ Chain'
  BY DEF Inv, Flags, Chain, ChainOf
<1> QED
  BY <1>1, <1>2, <1>3, <1>4 DEF Inv

(* A system call that dispatches at its end. *)
LEMMA CallTypes ==
  ASSUME Inv, NEW place, Call(place)
  PROVE  /\ pc' = [pc EXCEPT ![running] = place]
         /\ running' \in Threads /\ ready' \in Seq(Threads)
  BY DispatchTypes DEF Inv, TypeOK, Call, Goto

(* The counter stays within the array and the child. *)
LEMMA ConstructedMoves ==
  ASSUME Inv, running \in 0..MaxId, pc[running] \in Constructing, Constructed,
         Call(AfterElement),
         handle' \in [Threads -> {"unset", "null", "set"}],
         UNCHANGED <<object, finished, fault>>
  PROVE  MovesTo(running, AfterElement)
<1>1. AfterElement \in Places \ {"none"} /\ pc[running] # "none"
  BY DEF AfterElement, Places, Constructing
<1>2. made[running] \in Nat /\ made[running] <= running
  BY Numbers DEF Inv, TypeOK, Counts, CountsOf
<1>3. made' \in [Threads -> Nat] /\ made'[running] <= running + 1
  <2>1. made[running] + 1 \in Nat
    BY <1>2
  <2>2. made' \in [Threads -> Nat]
    BY <2>1, Numbers DEF Inv, TypeOK, Constructed
  <2>3. made'[running] = made[running] + 1
    BY Numbers DEF Inv, TypeOK, Constructed
  <2> QED
    BY <1>2, <2>2, <2>3, Numbers
<1>4. \A t \in Threads \ {running} : made'[t] = made[t]
  BY DEF Inv, TypeOK, Constructed
<1> QED
  BY <1>1, <1>3, <1>4, CallTypes DEF Inv, TypeOK, MovesTo

-------------------------------------------------------------------------------
(* A thread that makes a step has been started. *)
LEMMA StepRunner ==
  ASSUME Inv, Step
  PROVE  pc[running] # "none" /\ running \in 0..MaxId
<1>1. pc[running] # "none"
  BY DEF Step, NewObject, NewStacks, CreateThread, NewArray, StartChild, Poll,
         Delete, FreeArray, Finish, Exit
<1> QED
  BY <1>1, Runner

(* One case for each statement of the program. *)
LEMMA StepInv ==
  ASSUME Inv, Step
  PROVE  Inv'
<1> DEFINE r == running
<1>0. pc[r] # "none" /\ r \in 0..MaxId /\ TypeOK
  BY StepRunner DEF Inv
<1>1. CASE NewObject
  <2>1. CASE Constructed /\ UNCHANGED object /\ Call(AfterElement)
    <3>1. MovesTo(r, AfterElement)
      BY <1>0, <1>1, <2>1, ConstructedMoves DEF NewObject, Constructing, TypeOK
    <3> QED
      BY <1>0, <1>1, <2>1, <3>1, ConstructedInv DEF NewObject, Constructing
  <2>2. CASE /\ object' = IF OnChild THEN [object EXCEPT ![Child(running)] = "alive"] ELSE object
             /\ UNCHANGED made
             /\ Call("stacks")
    <3>1. r # 0
      BY <1>1 DEF NewObject, Inv, Ends
    <3>2. object' = object \/ object' = [object EXCEPT ![r + 1] = "alive"]
      BY <2>2 DEF Child
    <3>3. MovesTo(r, "stacks")
      BY <1>0, <1>1, <2>2, <3>2, CallTypes, Numbers DEF MovesTo, NewObject, TypeOK, Places
    <3> QED
      BY <1>0, <1>1, <2>2, <3>1, <3>2, <3>3, ConstructingInv DEF NewObject, Constructing
  <2> QED
    BY <1>1, <2>1, <2>2 DEF NewObject
<1>2. CASE NewStacks
  <2>1. CASE Constructed /\ Call(AfterElement)
    <3>1. MovesTo(r, AfterElement)
      BY <1>0, <1>2, <2>1, ConstructedMoves DEF NewStacks, Constructing, TypeOK
    <3> QED
      BY <1>0, <1>2, <2>1, <3>1, ConstructedInv DEF NewStacks, Constructing
  <2>2. CASE Call("create") /\ UNCHANGED made
    <3>1. MovesTo(r, "create")
      BY <1>0, <1>2, <2>2, CallTypes, Numbers DEF MovesTo, NewStacks, TypeOK, Places
    <3> QED
      BY <1>0, <1>2, <2>2, <3>1, ConstructingInv DEF NewStacks, Constructing
  <2> QED
    BY <1>2, <2>1, <2>2 DEF NewStacks
<1>3. CASE CreateThread
  <2>1. handle' \in [Threads -> {"unset", "null", "set"}]
    BY <1>0, <1>3, Numbers DEF CreateThread, TypeOK
  <2>2. MovesTo(r, AfterElement)
    BY <1>0, <1>3, <2>1, ConstructedMoves DEF CreateThread, Constructing
  <2> QED
    BY <1>0, <1>3, <2>2, ConstructedInv DEF CreateThread, Constructing
<1>4. CASE NewArray
  <2>1. PICK place \in {"object", "finish"} : Call(place) /\ (place = "object" => r # MaxId)
    BY <1>0, <1>4, Numbers DEF NewArray
  <2>2. MovesTo(r, place)
    BY <1>0, <1>4, <2>1, CallTypes, Numbers DEF MovesTo, NewArray, TypeOK, Places
  <2> QED
    BY <1>0, <1>4, <2>1, <2>2, PassingInv DEF NewArray, Passes
<1>5. CASE StartChild
  <2>1. CASE object[r + 1] = "none" /\ Goto("delete") /\ UNCHANGED <<running, ready, fault>>
    <3>1. MovesTo(r, "delete")
      BY <1>0, <1>5, <2>1, Numbers DEF MovesTo, StartChild, Goto, TypeOK, Places
    <3> QED
      BY <1>0, <1>5, <2>1, <3>1, PassingInv DEF StartChild, Passes
  <2>2. CASE /\ object[r + 1] # "none"
             /\ pc' = [pc EXCEPT ![r] = "poll", ![r + 1] = "object"]
             /\ Dispatch(Put(ready, r + 1))
             /\ UNCHANGED fault
    <3>1. Put(ready, r + 1) \in Seq(Threads)
      <4>1. r + 1 \in Threads
        BY <1>0, Numbers
      <4> QED
        BY <1>0, <4>1 DEF Put, TypeOK
    <3>2. running' \in Threads /\ ready' \in Seq(Threads)
      BY <1>0, <2>2, <3>1, DispatchTypes
    <3> QED
      BY <1>0, <1>5, <2>2, <3>2, StartInv DEF StartChild
  <2>3. CASE fault' = TRUE /\ UNCHANGED <<pc, running, ready>>
    BY <1>0, <1>5, <2>3, QuietInv DEF StartChild, TypeOK
  <2> QED
    BY <1>5, <2>1, <2>2, <2>3 DEF StartChild, Child
<1>6. CASE Poll
  <2>1. PICK place : /\ Passes(r, place)
                     /\ pc' = [pc EXCEPT ![r] = place]
                     /\ running' \in Threads /\ ready' \in Seq(Threads)
    BY <1>0, <1>6, CallTypes DEF Poll, Passes, Goto, Child, TypeOK
  <2>2. place \in {"poll", "over", "delete"}
    BY <1>6, <2>1 DEF Poll, Passes
  <2>3. MovesTo(r, place)
    BY <1>0, <1>6, <2>1, <2>2, Numbers DEF MovesTo, Poll, TypeOK, Places
  <2> QED
    BY <1>0, <1>6, <2>1, <2>3, PassingInv DEF Poll
<1>7. CASE Delete
  <2> DEFINE place == IF made[r] = 1 THEN "free" ELSE "delete"
  <2>1. made[r] \in Nat /\ made[r] >= 1 /\ made[r] <= r + 1
    BY <1>0, <1>7, Numbers DEF Inv, TypeOK, Counts, CountsOf, Delete
  <2>2. made' \in [Threads -> Nat] /\ made'[r] <= r + 1
    <3>1. made[r] - 1 \in Nat /\ made[r] - 1 <= r + 1
      BY <2>1, <1>0, Numbers
    <3> QED
      BY <1>0, <1>7, <3>1, Numbers DEF Delete, TypeOK
  <2>3. /\ \A t \in Threads \ {r} : made'[t] = made[t]
        /\ object' \in [Threads -> {"none", "alive", "deleted"}]
        /\ \A t \in Threads \ {r + 1} : object'[t] = object[t]
    BY <1>0, <1>7 DEF Delete, Child, TypeOK
  <2>4. Call(place) /\ place \in Places \ {"none"}
    BY <1>7 DEF Delete, Places
  <2> HIDE DEF place
  <2>5. MovesTo(r, place)
    BY <1>0, <1>7, <2>2, <2>3, <2>4, CallTypes DEF MovesTo, Delete, TypeOK
  <2> QED
    BY <1>0, <1>7, <2>5, DeleteInv DEF place
<1>8. CASE FreeArray
  <2>1. MovesTo(r, "finish")
    BY <1>0, <1>8, CallTypes, Numbers DEF MovesTo, FreeArray, TypeOK, Places
  <2> QED
    BY <1>0, <1>8, <2>1, PassingInv DEF FreeArray, Passes
<1>9. CASE Finish
  <2>1. MovesTo(r, "exit")
    BY <1>0, <1>9, Numbers DEF MovesTo, Finish, Goto, TypeOK, Places
  <2> QED
    BY <1>0, <1>9, <2>1, FinishInv
<1>10. CASE Exit
  <2>1. MovesTo(r, "gone")
    BY <1>0, <1>10, CallTypes, Numbers DEF MovesTo, Exit, TypeOK, Places
  <2> QED
    BY <1>0, <1>10, <2>1, PassingInv DEF Exit, Passes
<1> QED
  BY <1>1, <1>2, <1>3, <1>4, <1>5, <1>6, <1>7, <1>8, <1>9, <1>10 DEF Step

(* Time slices change nothing but who runs. *)
LEMMA NextInv ==
  ASSUME Inv, [Next]_vars
  PROVE  Inv'
<1>1. CASE Step
  BY <1>1, StepInv
<1>2. CASE Timer
  <2>1. running' \in Threads /\ ready' \in Seq(Threads)
    BY <1>2, DispatchTypes DEF Timer, Inv, TypeOK
  <2> QED
    BY <1>2, <2>1, QuietInv DEF Timer, progVars, Inv, TypeOK
<1>3. CASE UNCHANGED vars
  BY <1>3, QuietInv DEF vars, progVars, Inv, TypeOK
<1> QED
  BY <1>1, <1>2, <1>3 DEF Next

-------------------------------------------------------------------------------
(* In every state a parent and its child are where `Family` has them. *)
THEOREM ForkInductive == Spec => []Inv
<1> QED
  BY InitInv, NextInv, PTL DEF Spec

(* The variables keep their types, and nobody constructs more objects than  *)
(* its array and its child need.                                            *)
THEOREM ForkTypeCorrect == Spec => []TypeOK
<1>1. Inv => TypeOK
  BY DEF Inv
<1> QED
  BY <1>1, ForkInductive, PTL

(* No thread runs in an object that has been deleted, in any interleaving   *)
(* and wherever memory runs out, although a parent only polls a flag that   *)
(* the child sets in this very object.                                      *)
THEOREM ObjectsOutliveRuns == Spec => []ObjectOutlivesRun
<1> QED
  BY InvSafe, ForkInductive, PTL

(* When userMain is over, every thread that was started has ended and been  *)
(* deleted by its parent.                                                   *)
THEOREM ThreadsCollected == Spec => []AllCollected
<1> QED
  BY InvSafe, ForkInductive, PTL
===============================================================================
