--------------------- MODULE WeightDelayingQueueProofs ---------------------
(***************************************************************************)
(* For any number of items, clients, workers and weights: the delaying     *)
(* queue delivers nothing early, never has two copies of an item, and      *)
(* implements module DelayQueue.                                           *)
(***************************************************************************)
EXTENDS WeightDelayingQueue, WellFoundedInduction, TLAPS

(* The provers that try a step whose proof names none, in this order.      *)
USE SMTT(10), ZenonT(30), SMTT(60)

-----------------------------------------------------------------------------
(* Facts on lists.                                                         *)

(* Append adds its item and keeps the others.                              *)
LEMMA AppendIn ==
  ASSUME NEW S, NEW s \in Seq(S), NEW x \in S
  PROVE  /\ Append(s, x) \in Seq(S)
         /\ Append(s, x) # <<>>
         /\ \A i : InList(Append(s, x), i) <=> (InList(s, i) \/ i = x)
         /\ NoRepeat(s) /\ ~InList(s, x) => NoRepeat(Append(s, x))
<1> DEFINE t == Append(s, x)
<1>1. /\ t \in Seq(S) /\ Len(t) = Len(s) + 1 /\ Len(s) \in Nat
      /\ DOMAIN t = 1..Len(s) + 1 /\ DOMAIN s = 1..Len(s)
      /\ t[Len(s) + 1] = x /\ \A n \in 1..Len(s) : t[n] = s[n]
  OBVIOUS
<1> HIDE DEF t
<1>2. t # <<>>
  BY <1>1
<1>3. ASSUME NEW i PROVE InList(t, i) <=> (InList(s, i) \/ i = x)
  BY <1>1 DEF InList
<1>4. ASSUME NoRepeat(s), ~InList(s, x) PROVE NoRepeat(t)
  BY <1>1, <1>4 DEF InList, NoRepeat
<1> QED BY <1>1, <1>2, <1>3, <1>4 DEF t

(* Tail takes the head away.                                               *)
LEMMA TailIn ==
  ASSUME NEW S, NEW s \in Seq(S), s # <<>>
  PROVE  /\ Tail(s) \in Seq(S)
         /\ Head(s) \in S
         /\ InList(s, Head(s))
         /\ \A i : InList(Tail(s), i) => InList(s, i)
         /\ \A i : InList(s, i) => InList(Tail(s), i) \/ i = Head(s)
         /\ NoRepeat(s) => NoRepeat(Tail(s)) /\ ~InList(Tail(s), Head(s))
<1> DEFINE t == Tail(s)
<1>1. /\ t \in Seq(S) /\ Len(t) = Len(s) - 1 /\ Len(s) \in Nat /\ Len(s) > 0
      /\ DOMAIN t = 1..Len(s) - 1 /\ DOMAIN s = 1..Len(s)
      /\ Head(s) = s[1] /\ \A n \in 1..Len(s) - 1 : t[n] = s[n + 1]
  OBVIOUS
<1> HIDE DEF t
<1>2. Head(s) \in S /\ InList(s, Head(s))
  BY <1>1 DEF InList
<1>3. ASSUME NEW i, InList(t, i) PROVE InList(s, i)
  BY <1>1, <1>3 DEF InList
<1>4. ASSUME NEW i, InList(s, i) PROVE InList(t, i) \/ i = Head(s)
  <2>1. PICK n \in 1..Len(s) : s[n] = i
    BY <1>1, <1>4 DEF InList
  <2>2. CASE n # 1
    <3>1. n - 1 \in 1..Len(s) - 1 /\ n - 1 + 1 = n
      BY <2>2, <1>1
    <3> QED BY Zenon, <3>1, <2>1, <1>1 DEF InList
  <2> QED BY <2>1, <2>2, <1>1
<1>5. ASSUME NoRepeat(s) PROVE NoRepeat(t) /\ ~InList(t, Head(s))
  <2>1. ASSUME NEW m \in 1..Len(s) - 1 PROVE m + 1 \in 1..Len(s) /\ m + 1 # 1
    BY <1>1
  <2>2. 1 \in 1..Len(s)
    BY <1>1
  <2>3. ASSUME NEW m \in 1..Len(s) - 1 PROVE t[m] # s[1]
    <3>1. t[m] = s[m + 1]
      BY <1>1
    <3> QED BY <3>1, <2>1, <2>2, <1>1, <1>5 DEF NoRepeat
  <2>4. ASSUME NEW m \in 1..Len(s) - 1, NEW n \in 1..Len(s) - 1, t[m] = t[n] PROVE m = n
    <3>1. s[m + 1] = s[n + 1]
      BY <1>1, <2>4
    <3>2. m + 1 = n + 1
      BY <3>1, <2>1, <1>1, <1>5 DEF NoRepeat
    <3> QED BY <3>2, <1>1
  <2> QED BY <2>3, <2>4, <1>1 DEF InList, NoRepeat
<1> QED BY <1>1, <1>2, <1>3, <1>4, <1>5 DEF t

(* The members of a list are items, and an empty list has none.            *)
LEMMA MembersIn ==
  ASSUME NEW S, NEW s \in Seq(S), NEW i, InList(s, i)
  PROVE  i \in S /\ s # <<>>
<1>1. /\ DOMAIN s = 1..Len(s) /\ Len(s) \in Nat
      /\ \A n \in 1..Len(s) : s[n] \in S
      /\ s = <<>> => Len(s) = 0
  OBVIOUS
<1>2. PICK n \in 1..Len(s) : s[n] = i
  BY <1>1 DEF InList
<1> QED BY <1>1, <1>2

-----------------------------------------------------------------------------
(* Facts on numbers.                                                       *)

(* A set of natural numbers that is not empty has a least member.          *)
LEMMA LeastNat ==
  ASSUME NEW S \in SUBSET Nat, S # {}
  PROVE  Least(S) \in S /\ \A y \in S : Least(S) <= y
<1>1. PICK x \in S : \A y \in S : <<y, x>> \notin OpToRel(<, Nat)
  BY Zenon, NatLessThanWellFounded, WFMin
<1>2. ASSUME NEW y \in S PROVE x <= y
  <2>1. x \in Nat /\ y \in Nat
    OBVIOUS
  <2>2. ~(<<y, x>> \in Nat \X Nat /\ <<y, x>>[1] < <<y, x>>[2])
    BY <1>1 DEF OpToRel
  <2>3. ~(y < x)
    BY <2>1, <2>2
  <2> QED BY <2>1, <2>3
<1> QED BY Zenon, <1>2 DEF Least

(* First picks one of the weights it is given.                             *)
LEMMA FirstIn ==
  ASSUME NEW ws \in SUBSET Weight, ws # {}
  PROVE  First(ws) \in ws
<1>1. CASE 0 \in ws
  BY <1>1 DEF First
<1>2. CASE 0 \notin ws
  <2> DEFINE S == {MaxWeight - w : w \in ws}
  <2>1. \A w \in ws : w \in Nat /\ MaxWeight - w \in Nat
    BY QueueAssumption DEF Weight
  <2>2. S \in SUBSET Nat /\ S # {}
    BY <2>1
  <2>3. Least(S) \in S /\ \A y \in S : Least(S) <= y
    BY Zenon, <2>2, LeastNat
  <2>4. PICK w \in ws : Least(S) = MaxWeight - w
    BY Zenon, <2>3
  <2>5. ASSUME NEW v \in ws PROVE v <= w
    <3>1. MaxWeight - w <= MaxWeight - v
      BY <2>3, <2>4
    <3> QED BY <3>1, <2>1, QueueAssumption
  <2> QED BY <1>2, <2>5 DEF First
<1> QED BY <1>1, <1>2

-----------------------------------------------------------------------------
(* What loopWorker finds at the top of a heap.                             *)
LEMMA HeadFacts ==
  ASSUME TypeOK, NEW head \in PossibleHeads, NEW w \in Weight
  PROVE  \/ head[w] = Nothing /\ \A i \in Item : heap[w][i] = 0
         \/ /\ head[w] # Nothing /\ head[w].item \in Item
            /\ head[w].key = heap[w][head[w].item] /\ head[w].key # 0
            /\ \A i \in Item : heap[w][i] # 0 => head[w].key <= heap[w][i]
<1>1. head[w] \in Heads(w)
  BY DEF PossibleHeads
<1>2. CASE Entries(w) = {}
  <2>1. head[w] = Nothing
    BY <1>1, <1>2 DEF Heads
  <2>2. \A i \in Item : heap[w][i] = 0
    BY Zenon, <1>2 DEF Entries
  <2> QED BY <2>1, <2>2
<1>3. CASE Entries(w) # {}
  <2>1. head[w] \in Entries(w) /\ \A f \in Entries(w) : head[w].key <= f.key
    BY <1>1, <1>3 DEF Heads
  <2>2. PICK i \in Item : heap[w][i] # 0 /\ head[w] = [key |-> heap[w][i], item |-> i]
    BY <2>1 DEF Entries
  <2>3. ASSUME NEW j \in Item, heap[w][j] # 0 PROVE head[w].key <= heap[w][j]
    <3>1. [key |-> heap[w][j], item |-> j] \in Entries(w)
      BY <2>3 DEF Entries
    <3> QED BY <3>1, <2>1
  <2>4. head[w] # Nothing
    <3>1. head[w].key # Nothing.key
      BY <2>2 DEF Nothing
    <3> QED BY <3>1
  <2> QED BY <2>2, <2>3, <2>4
<1> QED BY <1>2, <1>3

(* loopWorker takes an entry that is due, or it sleeps at most until the   *)
(* first entry is.                                                         *)
Takes(w, i) ==
  /\ heap[w][i] # 0 /\ heap[w][i] <= now
  /\ heap' = [heap EXCEPT ![w][i] = 0]
  /\ loop' = [pc |-> "add", item |-> i, weight |-> w, until |-> 0]

Sleeps(u) ==
  /\ heap' = heap
  /\ loop' = [pc |-> "sleep", item |-> NoItem, weight |-> 0, until |-> u]
  /\ \A w \in Weight, i \in Item : heap[w][i] # 0 => u <= heap[w][i]

LEMMA LoopNextFacts ==
  ASSUME TypeOK, LoopNext
  PROVE  \/ \E w \in Weight, i \in Item : Takes(w, i)
         \/ \E u \in Nat : Sleeps(u)
<1>1. PICK head \in PossibleHeads :
        IF Deliverable(head) # {}
        THEN LET w == First(Deliverable(head)) IN
             /\ heap' = [heap EXCEPT ![w][head[w].item] = 0]
             /\ loop' = [NoLoop EXCEPT !.pc = "add", !.item = head[w].item, !.weight = w]
        ELSE /\ loop' = [NoLoop EXCEPT !.pc = "sleep", !.until = now + Least(Waits(head))]
             /\ UNCHANGED heap
  BY Zenon DEF LoopNext
<1>2. CASE Deliverable(head) # {}
  <2> DEFINE w == First(Deliverable(head))
             i == head[w].item
  <2>1. w \in Deliverable(head)
    BY <1>2, FirstIn DEF Deliverable
  <2>2. w \in Weight /\ head[w] # Nothing /\ head[w].key <= now
    BY <2>1 DEF Deliverable
  <2>3. i \in Item /\ heap[w][i] = head[w].key /\ heap[w][i] # 0
    BY <2>2, HeadFacts
  <2>4. /\ heap' = [heap EXCEPT ![w][i] = 0]
        /\ loop' = [pc |-> "add", item |-> i, weight |-> w, until |-> 0]
    BY Zenon, <1>1, <1>2 DEF NoLoop
  <2> QED BY Zenon, <2>2, <2>3, <2>4 DEF Takes
<1>3. CASE Deliverable(head) = {}
  <2> DEFINE u == now + Least(Waits(head))
  <2>1. ASSUME NEW w \in Weight, head[w] # Nothing
        PROVE  head[w].key \in Nat /\ head[w].key > now
    <3>1. head[w].key \in Nat
      <4>1. head[w].item \in Item /\ head[w].key = heap[w][head[w].item]
        BY <2>1, HeadFacts
      <4> QED BY <4>1 DEF TypeOK
    <3>2. ~(head[w].key <= now)
      BY <2>1, <1>3 DEF Deliverable
    <3> QED BY <3>1, <3>2 DEF TypeOK
  <2>2. Waits(head) \in SUBSET Nat /\ Waits(head) # {}
    BY <2>1, QueueAssumption DEF Waits, TypeOK
  <2>3. Least(Waits(head)) \in Nat /\ \A y \in Waits(head) : Least(Waits(head)) <= y
    BY <2>2, LeastNat
  <2>4. u \in Nat
    BY <2>3 DEF TypeOK
  <2>5. ASSUME NEW w \in Weight, NEW i \in Item, heap[w][i] # 0 PROVE u <= heap[w][i]
    <3>1. head[w] # Nothing /\ head[w].key <= heap[w][i]
      BY <2>5, HeadFacts
    <3>2. head[w].key - now \in Waits(head)
      BY <3>1, <2>1 DEF Waits
    <3>3. Least(Waits(head)) <= head[w].key - now
      BY <3>2, <2>3
    <3>4. heap[w][i] \in Nat /\ now \in Nat /\ head[w].key \in Nat
      BY <3>1, <2>1 DEF TypeOK
    <3> QED BY <3>1, <3>3, <3>4, <2>3
  <2>6. loop' = [pc |-> "sleep", item |-> NoItem, weight |-> 0, until |-> u] /\ heap' = heap
    BY Zenon, <1>1, <1>3 DEF NoLoop
  <2> QED BY <2>4, <2>5, <2>6 DEF Sleeps
<1> QED BY <1>2, <1>3

-----------------------------------------------------------------------------
(* Type correctness.                                                       *)

(* What loopWorker can be.                                                 *)
LEMMA LoopStates ==
  /\ NoLoop \in LoopState
  /\ [NoLoop EXCEPT !.pc = "signal"] \in LoopState
  /\ \A w \in Weight, i \in Item :
       [pc |-> "add", item |-> i, weight |-> w, until |-> 0] \in LoopState
  /\ \A u \in Nat : [pc |-> "sleep", item |-> NoItem, weight |-> 0, until |-> u] \in LoopState
  BY QueueAssumption DEF LoopState, NoLoop, Weight

LEMMA EnlistType ==
  ASSUME TypeOK, NEW i \in Item, NEW w \in Weight, Enlist(i, w)
  PROVE  base' \in Seq(Item) /\ lanes' \in [Lane -> Seq(Item)]
<1>1. CASE w = 0
  <2>1. Append(base, i) \in Seq(Item)
    BY AppendIn DEF TypeOK
  <2> QED BY Zenon, <1>1, <2>1 DEF Enlist, TypeOK
<1>2. CASE w # 0
  <2>1. w \in Lane /\ lanes' = [lanes EXCEPT ![w] = Append(lanes[w], i)] /\ base' = base
    BY <1>2, QueueAssumption DEF Enlist, Weight, Lane
  <2>2. Append(lanes[w], i) \in Seq(Item)
    BY <2>1, AppendIn DEF TypeOK
  <2> QED BY <2>1, <2>2 DEF TypeOK
<1> QED BY <1>1, <1>2

LEMMA ClientType ==
  ASSUME TypeOK, NEW c \in Client, ClientStep(c)
  PROVE  TypeOK'
<1>1. CASE Signal(c)
  BY <1>1 DEF Signal, TypeOK, listVars, ghosts
<1>2. ASSUME NEW i \in Item, Cancel(c, i) PROVE TypeOK'
  BY <1>2 DEF Cancel, TypeOK, listVars, ghosts
<1>3. ASSUME NEW i \in Item, NEW w \in Weight, AddWeight(c, i, w) PROVE TypeOK'
  <2>1. base' \in Seq(Item) /\ lanes' \in [Lane -> Seq(Item)]
    BY <1>3, EnlistType DEF AddWeight
  <2>2. /\ client' = [client EXCEPT ![c] = "token"] /\ adds' = adds + 1
        /\ due' = [due EXCEPT ![i] = now] /\ lane' = [lane EXCEPT ![i] = w]
        /\ UNCHANGED <<token, mut, heap, kick, now, loop, worker, done>>
    BY <1>3 DEF AddWeight, Added
  <2> QED BY <2>1, <2>2 DEF TypeOK
<1>4. ASSUME NEW i \in Item, NEW w \in Weight, NEW d \in 1..MaxTime, AddWeightAfter(c, i, w, d)
      PROVE  TypeOK'
  <2>1. now + d \in Nat
    BY QueueAssumption DEF TypeOK
  <2>2. /\ client' = [client EXCEPT ![c] = "kick"] /\ adds' = adds + 1
        /\ due' = [due EXCEPT ![i] = now + d] /\ lane' = [lane EXCEPT ![i] = w]
        /\ heap' = [heap EXCEPT ![w][i] = now + d]
        /\ UNCHANGED <<base, lanes, token, mut, kick, now, loop, worker, done>>
    BY <1>4 DEF AddWeightAfter, Added, Push, listVars
  <2> QED BY <2>1, <2>2 DEF TypeOK
<1> QED BY <1>1, <1>2, <1>3, <1>4 DEF ClientStep

LEMMA LoopType ==
  ASSUME TypeOK, Loop
  PROVE  TypeOK'
<1>1. CASE LoopNext
  <2>1. UNCHANGED <<base, lanes, token, mut, kick, now, client, worker, done, adds, due, lane>>
    BY <1>1 DEF LoopNext, listVars, ghosts
  <2>2. ASSUME NEW w \in Weight, NEW i \in Item, Takes(w, i) PROVE TypeOK'
    <3>1. loop' \in LoopState
      BY <2>2, LoopStates DEF Takes
    <3>2. heap' \in [Weight -> [Item -> Nat]]
      BY <2>2 DEF Takes, TypeOK
    <3> QED BY <2>1, <3>1, <3>2 DEF TypeOK
  <2>3. ASSUME NEW u \in Nat, Sleeps(u) PROVE TypeOK'
    BY <2>1, <2>3, LoopStates DEF TypeOK, Sleeps
  <2> QED BY <1>1, <2>2, <2>3, LoopNextFacts
<1>2. CASE LoopAdd
  <2>1. loop.item \in Item /\ loop.weight \in Weight
    BY <1>2 DEF LoopAdd, TypeOK, LoopState
  <2>2. base' \in Seq(Item) /\ lanes' \in [Lane -> Seq(Item)]
    BY <1>2, <2>1, EnlistType DEF LoopAdd
  <2> QED BY <1>2, <2>2, LoopStates DEF LoopAdd, TypeOK, ghosts
<1>3. CASE LoopSignal
  BY <1>3, LoopStates DEF LoopSignal, TypeOK, listVars, ghosts
<1>4. CASE LoopTimer
  BY <1>4, LoopStates DEF LoopTimer, TypeOK, listVars, ghosts
<1>5. CASE LoopKicked
  BY Zenon, <1>5, LoopStates DEF LoopKicked, TypeOK, listVars, ghosts
<1> QED BY <1>1, <1>2, <1>3, <1>4, <1>5 DEF Loop

(* What a worker can be.                                                   *)
LEMMA WorkerStates ==
  /\ NoWorker \in WorkerState
  /\ \A x \in {"call", "again", "wait", "left"} : [NoWorker EXCEPT !.pc = x] \in WorkerState
  /\ \A i \in Item : [NoWorker EXCEPT !.pc = "hold", !.item = i] \in WorkerState
  /\ [NoWorker EXCEPT !.pc = "step", !.at = MaxWeight, !.left = MaxWeight] \in WorkerState
<1>1. 0 \in Weight /\ MaxWeight \in Weight /\ MaxWeight \in Lane
  BY QueueAssumption DEF Weight, Lane
<1>2. \A x \in {"call", "again", "wait", "left"} : [NoWorker EXCEPT !.pc = x] \in WorkerState
  BY Zenon, <1>1 DEF WorkerState, NoWorker
<1>3. \A i \in Item : [NoWorker EXCEPT !.pc = "hold", !.item = i] \in WorkerState
  BY Zenon, <1>1 DEF WorkerState, NoWorker
<1>4. [NoWorker EXCEPT !.pc = "step", !.at = MaxWeight, !.left = MaxWeight] \in WorkerState
  BY Zenon, <1>1 DEF WorkerState, NoWorker
<1>5. NoWorker \in WorkerState
  BY <1>1 DEF WorkerState, NoWorker
<1> QED BY Zenon, <1>2, <1>3, <1>4, <1>5

LEMMA ServeType ==
  ASSUME TypeOK, NEW p \in Worker, Serve(p)
  PROVE  TypeOK'
<1> USE DEF otherThanWorker, ghosts, listVars
<1>0. worker[p] \in WorkerState
  BY DEF TypeOK
<1>1. CASE GetBase(p)
  <2>1. Tail(base) \in Seq(Item) /\ Head(base) \in Item
    BY <1>1, TailIn DEF GetBase, TypeOK
  <2> QED BY Zenon, <1>1, <2>1, WorkerStates DEF GetBase, TypeOK
<1>2. CASE BaseEmpty(p)
  <2>1. [worker[p] EXCEPT !.pc = "lock"] \in WorkerState
    BY <1>0 DEF WorkerState
  <2> QED BY <1>2, <2>1 DEF BaseEmpty, TypeOK
<1>3. CASE Stolen(p)
  BY ZenonT(60), <1>3, WorkerStates DEF Stolen, TypeOK
<1>4. CASE StepLock(p)
  BY Zenon, <1>4, WorkerStates DEF StepLock, TypeOK
<1>5. CASE StepMove(p)
  <2> DEFINE w == worker[p].at
  <2>1. w \in Lane /\ worker[p].left \in Weight /\ worker[p].left > 0 /\ lanes[w] # <<>>
    BY <1>5, <1>0 DEF StepMove, CanMove, WorkerState
  <2>2. Tail(lanes[w]) \in Seq(Item) /\ Head(lanes[w]) \in Item
    BY <2>1, TailIn DEF TypeOK
  <2>3. Append(base, Head(lanes[w])) \in Seq(Item)
    BY <2>2, AppendIn DEF TypeOK
  <2>4. worker[p].left - 1 \in Weight
    BY <2>1, QueueAssumption DEF Weight
  <2>5. [worker[p] EXCEPT !.left = @ - 1, !.added = TRUE] \in WorkerState
    BY Zenon, <1>0, <2>4 DEF WorkerState
  <2>6. worker' = [worker EXCEPT ![p] = [worker[p] EXCEPT !.left = @ - 1, !.added = TRUE]]
    BY Zenon, <1>5 DEF StepMove, TypeOK
  <2>7. base' \in Seq(Item) /\ lanes' \in [Lane -> Seq(Item)]
    BY <1>5, <2>1, <2>2, <2>3 DEF StepMove, TypeOK
  <2> QED BY <1>5, <2>5, <2>6, <2>7 DEF StepMove, TypeOK
<1>6. CASE StepDown(p)
  <2>1. worker[p].at - 1 \in Lane /\ worker[p].at - 1 \in Weight
    BY <1>6, <1>0, QueueAssumption DEF StepDown, WorkerState, Lane, Weight
  <2>2. [worker[p] EXCEPT !.at = @ - 1, !.left = worker[p].at - 1] \in WorkerState
    BY Zenon, <1>0, <2>1 DEF WorkerState
  <2>3. worker' = [worker EXCEPT ![p] = [worker[p] EXCEPT !.at = @ - 1, !.left = worker[p].at - 1]]
    BY ZenonT(60), <1>6 DEF StepDown, TypeOK
  <2> QED BY <1>6, <2>2, <2>3 DEF StepDown, TypeOK
<1>7. CASE StepUnlock(p)
  BY Zenon, <1>7, WorkerStates DEF StepUnlock, TypeOK
<1>8. CASE Wake(p)
  BY ZenonT(60), <1>8, WorkerStates DEF Wake, TypeOK
<1>9. CASE Leave(p)
  BY ZenonT(60), <1>9, WorkerStates DEF Leave, TypeOK
<1>10. CASE Finish(p)
  BY Zenon, <1>10, WorkerStates DEF Finish, TypeOK
<1> QED BY <1>1, <1>2, <1>3, <1>4, <1>5, <1>6, <1>7, <1>8, <1>9, <1>10 DEF Serve

LEMMA TypeStep == TypeOK /\ [Next]_vars => TypeOK'
<1> SUFFICES ASSUME TypeOK, [Next]_vars PROVE TypeOK'
  OBVIOUS
<1>1. ASSUME NEW c \in Client, ClientStep(c) PROVE TypeOK'
  BY <1>1, ClientType
<1>2. CASE Loop
  BY <1>2, LoopType
<1>3. ASSUME NEW p \in Worker, Serve(p) PROVE TypeOK'
  BY <1>3, ServeType
<1>4. CASE Close
  BY <1>4 DEF Close, TypeOK, listVars, ghosts
<1>5. CASE Tick
  BY <1>5 DEF Tick, TypeOK, listVars, ghosts
<1>6. CASE UNCHANGED vars
  BY <1>6 DEF vars, TypeOK
<1> QED BY <1>1, <1>2, <1>3, <1>4, <1>5, <1>6 DEF Next

LEMMA TypeInit == Init => TypeOK
<1> SUFFICES ASSUME Init PROVE TypeOK
  OBVIOUS
<1>1. 0 \in Weight
  BY QueueAssumption DEF Weight
<1>2. lanes \in [Lane -> Seq(Item)] /\ base \in Seq(Item)
  BY DEF Init
<1>3. worker \in [Worker -> WorkerState] /\ loop \in LoopState
  BY Zenon, LoopStates, WorkerStates DEF Init
<1>4. heap \in [Weight -> [Item -> Nat]] /\ due \in [Item -> Nat] /\ lane \in [Item -> Weight]
  BY <1>1 DEF Init
<1>5. now \in Nat \ {0} /\ adds \in Nat
  BY DEF Init
<1>6. client \in [Client -> {"idle", "token", "kick"}]
  BY DEF Init
<1>7. /\ token \in BOOLEAN /\ kick \in BOOLEAN /\ done \in BOOLEAN
      /\ mut \in Worker \cup {Nobody}
  BY Zenon DEF Init
<1> QED BY <1>2, <1>3, <1>4, <1>5, <1>6, <1>7 DEF TypeOK

(* No item is ever used that is not there, and step never leaves the range *)
(* of the weights.                                                         *)
THEOREM TypeCorrect == Spec => []TypeOK
  BY TypeInit, TypeStep, PTL DEF Spec

-----------------------------------------------------------------------------
(* What the steps do to the lists.                                         *)

ListsOnce == NoRepeat(base) /\ \A w \in Lane : NoRepeat(lanes[w])

LEMMA EnlistFacts ==
  ASSUME TypeOK, NEW i \in Item, NEW w \in Weight, Enlist(i, w)
  PROVE  /\ \A j : InList(base', j) <=> InList(base, j) \/ (w = 0 /\ j = i)
         /\ \A v \in Lane : \A j : InList(lanes'[v], j) <=> InList(lanes[v], j) \/ (v = w /\ j = i)
         /\ ListsOnce /\ ~InLists(i) => ListsOnce'
<1>1. CASE w = 0
  <2>1. base' = Append(base, i) /\ lanes' = lanes /\ w \notin Lane /\ base \in Seq(Item)
    BY <1>1 DEF Enlist, Lane, TypeOK
  <2>2. \A j : InList(base', j) <=> InList(base, j) \/ j = i
    BY <2>1, AppendIn
  <2>3. NoRepeat(base) /\ ~InList(base, i) => NoRepeat(base')
    BY <2>1, AppendIn
  <2> QED BY <1>1, <2>1, <2>2, <2>3 DEF ListsOnce, InLists
<1>2. CASE w # 0
  <2>1. /\ base' = base /\ w \in Lane /\ lanes[w] \in Seq(Item)
        /\ lanes'[w] = Append(lanes[w], i) /\ \A v \in Lane : v # w => lanes'[v] = lanes[v]
    BY <1>2, QueueAssumption DEF Enlist, Weight, Lane, TypeOK
  <2>2. \A j : InList(lanes'[w], j) <=> InList(lanes[w], j) \/ j = i
    BY <2>1, AppendIn
  <2>3. NoRepeat(lanes[w]) /\ ~InList(lanes[w], i) => NoRepeat(lanes'[w])
    BY <2>1, AppendIn
  <2> QED BY Zenon, <1>2, <2>1, <2>2, <2>3 DEF ListsOnce, InLists
<1> QED BY <1>1, <1>2

LEMMA GetFacts ==
  ASSUME TypeOK, ListsOnce, NEW p \in Worker, GetBase(p)
  PROVE  /\ Head(base) \in Item /\ InList(base, Head(base))
         /\ \A j : InList(base', j) <=> InList(base, j) /\ j # Head(base)
         /\ lanes' = lanes
         /\ ListsOnce'
<1>1. base' = Tail(base) /\ lanes' = lanes /\ base # <<>> /\ base \in Seq(Item) /\ NoRepeat(base)
  BY DEF GetBase, TypeOK, ListsOnce
<1>2. /\ Head(base) \in Item /\ InList(base, Head(base))
      /\ \A j : InList(base', j) => InList(base, j)
      /\ \A j : InList(base, j) => InList(base', j) \/ j = Head(base)
      /\ NoRepeat(base') /\ ~InList(base', Head(base))
  BY <1>1, TailIn
<1>3. \A j : InList(base', j) <=> InList(base, j) /\ j # Head(base)
  BY <1>2
<1> QED BY <1>1, <1>2, <1>3 DEF ListsOnce

LEMMA MoveFacts ==
  ASSUME TypeOK, ListsOnce, NEW p \in Worker, StepMove(p)
  PROVE  \E w \in Lane, i \in Item :
           /\ InList(lanes[w], i) /\ w = worker[p].at
           /\ \A j : InList(base', j) <=> InList(base, j) \/ j = i
           /\ \A j : InList(lanes'[w], j) <=> InList(lanes[w], j) /\ j # i
           /\ \A v \in Lane : v # w => lanes'[v] = lanes[v]
           /\ base' # <<>>
           /\ ~InList(base, i) => ListsOnce'
<1> DEFINE w == worker[p].at
           i == Head(lanes[w])
<1>0. worker[p] \in WorkerState
  BY DEF TypeOK
<1>1. w \in Lane /\ lanes[w] # <<>> /\ lanes[w] \in Seq(Item) /\ NoRepeat(lanes[w])
  BY <1>0 DEF StepMove, CanMove, WorkerState, TypeOK, ListsOnce
<1>2. /\ base' = Append(base, i) /\ base \in Seq(Item)
      /\ lanes'[w] = Tail(lanes[w]) /\ \A v \in Lane : v # w => lanes'[v] = lanes[v]
  BY <1>1 DEF StepMove, TypeOK
<1>3. /\ i \in Item /\ InList(lanes[w], i)
      /\ \A j : InList(lanes'[w], j) => InList(lanes[w], j)
      /\ \A j : InList(lanes[w], j) => InList(lanes'[w], j) \/ j = i
      /\ NoRepeat(lanes'[w]) /\ ~InList(lanes'[w], i)
  BY <1>1, <1>2, TailIn
<1>4. \A j : InList(lanes'[w], j) <=> InList(lanes[w], j) /\ j # i
  BY <1>3
<1>5. \A j : InList(base', j) <=> InList(base, j) \/ j = i
  BY <1>2, <1>3, AppendIn
<1>6. base' # <<>>
  BY <1>2, <1>3, AppendIn
<1>7. ~InList(base, i) => ListsOnce'
  <2>1. ~InList(base, i) => NoRepeat(base')
    BY <1>2, <1>3, AppendIn DEF ListsOnce
  <2>2. \A v \in Lane : NoRepeat(lanes'[v])
    BY <1>2, <1>3 DEF ListsOnce
  <2> QED BY <2>1, <2>2 DEF ListsOnce
<1> QED BY <1>1, <1>2, <1>3, <1>4, <1>5, <1>6, <1>7

-----------------------------------------------------------------------------
(* One copy of every item, none delivered early.                           *)

Once(i) ==
  /\ \A v, w \in Weight : heap[v][i] # 0 /\ heap[w][i] # 0 => v = w
  /\ \A v, w \in Lane : InList(lanes[v], i) /\ InList(lanes[w], i) => v = w
  /\ ~(InHeap(i) /\ InHand(i))
  /\ ~(InHeap(i) /\ InLists(i))
  /\ ~(InHand(i) /\ InLists(i))
  /\ \A w \in Lane : ~(InList(base, i) /\ InList(lanes[w], i))

(* The key of a heap entry is the time that was asked for.                 *)
Timely(i) ==
  /\ InHand(i) \/ InLists(i) => due[i] <= now
  /\ \A w \in Weight : heap[w][i] # 0 => due[i] = heap[w][i]

IInv == TypeOK /\ ListsOnce /\ \A i \in Item : Once(i) /\ Timely(i)

LEMMA IInvMeans == IInv => OneCopy /\ NotEarly
  BY DEF IInv, ListsOnce, Once, Timely, OneCopy, NotEarly

(* A step that moves no item.                                              *)
Quiet ==
  /\ UNCHANGED <<base, lanes, heap, due>>
  /\ now' \in Nat /\ now <= now'
  /\ \A i \in Item : InHand(i)' <=> InHand(i)

LEMMA QuietOnce ==
  ASSUME IInv, TypeOK', Quiet
  PROVE  IInv'
<1>1. ListsOnce'
  BY DEF IInv, Quiet, ListsOnce
<1>2. ASSUME NEW i \in Item PROVE Once(i)' /\ Timely(i)'
  <2>1. (InHand(i)' <=> InHand(i)) /\ (InLists(i)' <=> InLists(i)) /\ (InHeap(i)' <=> InHeap(i))
    BY DEF Quiet, InLists, InHeap
  <2>2. Once(i) /\ Timely(i)
    BY DEF IInv
  <2>3. Once(i)'
    BY <2>1, <2>2 DEF Quiet, Once
  <2>4. now \in Nat /\ now' \in Nat /\ now <= now' /\ due[i] \in Nat
    BY DEF IInv, TypeOK, Quiet
  <2>5. Timely(i)'
    BY <2>1, <2>2, <2>4 DEF Quiet, Timely
  <2> QED BY <2>3, <2>5
<1> QED BY <1>1, <1>2 DEF IInv

LEMMA QuietSteps ==
  ASSUME TypeOK,
         \/ \E c \in Client : Signal(c)
         \/ LoopSignal \/ LoopTimer \/ LoopKicked
         \/ LoopNext /\ \E u \in Nat : Sleeps(u)
         \/ \E p \in Worker : \/ BaseEmpty(p) \/ Stolen(p) \/ StepLock(p) \/ StepDown(p)
                              \/ StepUnlock(p) \/ Wake(p) \/ Leave(p) \/ Finish(p)
         \/ Close \/ Tick \/ UNCHANGED vars
  PROVE  Quiet
<1> USE DEF otherThanWorker, ghosts, listVars
<1>0. now \in Nat
  BY DEF TypeOK
<1>1. ASSUME NEW c \in Client, Signal(c) PROVE Quiet
  BY <1>0, <1>1 DEF Signal, Quiet, InHand
<1>2. CASE LoopSignal \/ LoopTimer \/ LoopKicked
  <2>1. UNCHANGED <<base, lanes, heap, due, now>> /\ loop' = NoLoop /\ loop.pc # "add"
    BY <1>2 DEF LoopSignal, LoopTimer, LoopKicked
  <2> QED BY <1>0, <2>1 DEF Quiet, InHand, NoLoop
<1>3. ASSUME NEW u \in Nat, LoopNext, Sleeps(u) PROVE Quiet
  <2>1. UNCHANGED <<base, lanes, due, now>> /\ loop.pc # "add"
    BY ZenonT(60), <1>3 DEF LoopNext
  <2>2. heap' = heap /\ loop'.pc = "sleep"
    BY <1>3 DEF Sleeps
  <2> QED BY <1>0, <2>1, <2>2 DEF Quiet, InHand
<1>4. ASSUME NEW p \in Worker,
             \/ BaseEmpty(p) \/ Stolen(p) \/ StepLock(p) \/ StepDown(p)
             \/ StepUnlock(p) \/ Wake(p) \/ Leave(p) \/ Finish(p)
      PROVE  Quiet
  <2>1. UNCHANGED <<base, lanes, heap, due, now, loop>>
    BY <1>4 DEF BaseEmpty, Stolen, StepLock, StepDown, StepUnlock, Wake, Leave, Finish
  <2> QED BY <1>0, <2>1 DEF Quiet, InHand
<1>5. CASE Close \/ Tick \/ UNCHANGED vars
  <2>1. UNCHANGED <<base, lanes, heap, due, loop>> /\ (now' = now \/ now' = now + 1)
    BY <1>5 DEF Close, Tick, vars
  <2> QED BY <1>0, <2>1 DEF Quiet, InHand
<1> QED BY <1>1, <1>2, <1>3, <1>4, <1>5

(* What moves where: an addition of a ready item, an addition of a delayed *)
(* one, a cancelled item, an item that comes due, one that loopWorker      *)
(* enlists, one that a worker gets, and one that step moves.               *)
AddsReady(x) ==
  /\ ~InQueue(x)
  /\ \A i \in Item : InLists(i)' <=> InLists(i) \/ i = x
  /\ \A i \in Item : (InHand(i)' <=> InHand(i)) /\ (InHeap(i)' <=> InHeap(i))

LEMMA AddWeightOnce ==
  ASSUME IInv, TypeOK', NEW c \in Client, NEW x \in Item, NEW w \in Weight, AddWeight(c, x, w)
  PROVE  IInv' /\ AddsReady(x)
<1> USE DEF listVars, ghosts
<1>0. TypeOK /\ ListsOnce
  BY DEF IInv
<1>1. /\ ~InQueue(x) /\ due' = [due EXCEPT ![x] = now] /\ Enlist(x, w)
      /\ UNCHANGED <<heap, now, loop>>
  BY DEF AddWeight, Added
<1>2. /\ \A j : InList(base', j) <=> InList(base, j) \/ (w = 0 /\ j = x)
      /\ \A v \in Lane : \A j : InList(lanes'[v], j) <=> InList(lanes[v], j) \/ (v = w /\ j = x)
      /\ ListsOnce /\ ~InLists(x) => ListsOnce'
  BY <1>0, <1>1, EnlistFacts
<1>3. ~InLists(x) /\ ~InHeap(x) /\ ~InHand(x)
  BY <1>1 DEF InQueue
<1>4. ListsOnce'
  BY <1>0, <1>2, <1>3
<1>5. w = 0 \/ w \in Lane
  BY QueueAssumption DEF Weight, Lane
<1>6. 0 \notin Lane
  BY DEF Lane
<1>7. \A i \in Item : InLists(i)' <=> InLists(i) \/ i = x
  BY <1>2, <1>5 DEF InLists
<1>8. \A i \in Item : (InHand(i)' <=> InHand(i)) /\ (InHeap(i)' <=> InHeap(i))
  BY <1>1 DEF InHand, InHeap
<1>9. ASSUME NEW i \in Item PROVE Once(i)'
  <2>1. Once(i)
    BY DEF IInv
  <2>2. CASE i # x
    <3>1. /\ InList(base', i) <=> InList(base, i)
          /\ \A v \in Lane : InList(lanes'[v], i) <=> InList(lanes[v], i)
      BY <1>2, <2>2
    <3> QED BY <1>1, <1>7, <1>8, <2>1, <2>2, <3>1 DEF Once
  <2>3. CASE i = x
    <3>1. /\ InList(base', x) <=> w = 0
          /\ \A v \in Lane : InList(lanes'[v], x) <=> v = w
      BY <1>2, <1>3 DEF InLists
    <3>2. \A v \in Weight : heap[v][x] = 0
      BY <1>3 DEF InHeap
    <3> QED BY <1>1, <1>3, <1>6, <1>8, <2>3, <3>1, <3>2 DEF Once
  <2> QED BY <2>2, <2>3
<1>10. ASSUME NEW i \in Item PROVE Timely(i)'
  <2>1. Timely(i)
    BY DEF IInv
  <2>2. CASE i # x
    <3>1. due'[i] = due[i]
      BY <1>1, <2>2, <1>0 DEF TypeOK
    <3> QED BY <1>1, <1>7, <1>8, <2>1, <2>2, <3>1 DEF Timely
  <2>3. CASE i = x
    <3>1. due'[x] = now /\ now \in Nat
      BY <1>1, <1>0 DEF TypeOK
    <3>2. \A v \in Weight : heap[v][x] = 0
      BY <1>3 DEF InHeap
    <3> QED BY <1>1, <2>3, <3>1, <3>2 DEF Timely
  <2> QED BY <2>2, <2>3
<1> QED BY <1>1, <1>4, <1>7, <1>8, <1>9, <1>10 DEF IInv, AddsReady

AddsDelayed(x) ==
  /\ ~InQueue(x)
  /\ \A i \in Item : InHeap(i)' <=> InHeap(i) \/ i = x
  /\ \A i \in Item : (InHand(i)' <=> InHand(i)) /\ (InLists(i)' <=> InLists(i))

LEMMA AddAfterOnce ==
  ASSUME IInv, TypeOK', NEW c \in Client, NEW x \in Item, NEW w \in Weight, NEW d \in 1..MaxTime,
         AddWeightAfter(c, x, w, d)
  PROVE  IInv' /\ AddsDelayed(x)
<1>0. TypeOK /\ ListsOnce
  BY DEF IInv
<1>1. /\ ~InQueue(x) /\ due' = [due EXCEPT ![x] = now + d]
      /\ heap' = [heap EXCEPT ![w][x] = now + d]
      /\ UNCHANGED <<base, lanes, now, loop>>
  BY DEF AddWeightAfter, Added, Push, listVars
<1>2. now + d \in Nat /\ now + d # 0
  BY <1>0, QueueAssumption DEF TypeOK
<1>3. /\ heap'[w][x] = now + d
      /\ \A v \in Weight, i \in Item : v # w \/ i # x => heap'[v][i] = heap[v][i]
  BY <1>0, <1>1 DEF TypeOK
<1>4. ~InLists(x) /\ ~InHand(x) /\ \A v \in Weight : heap[v][x] = 0
  BY <1>1 DEF InQueue, InHeap
<1>5. \A i \in Item : InHeap(i)' <=> InHeap(i) \/ i = x
  BY <1>2, <1>3 DEF InHeap
<1>6. \A i \in Item : (InHand(i)' <=> InHand(i)) /\ (InLists(i)' <=> InLists(i))
  BY <1>1 DEF InHand, InLists
<1>7. ListsOnce'
  BY <1>0, <1>1 DEF ListsOnce
<1>8. ASSUME NEW i \in Item PROVE Once(i)'
  <2>1. Once(i)
    BY DEF IInv
  <2>2. CASE i # x
    <3>1. \A v \in Weight : heap'[v][i] = heap[v][i]
      BY <1>3, <2>2
    <3> QED BY <1>1, <1>5, <1>6, <2>1, <2>2, <3>1 DEF Once
  <2>3. CASE i = x
    <3>1. \A v \in Weight : heap'[v][x] # 0 => v = w
      BY <1>3, <1>4
    <3>2. ~InLists(x)' /\ ~InHand(x)'
      BY <1>4, <1>6
    <3>3. /\ \A v, u \in Lane : InList(lanes'[v], x) /\ InList(lanes'[u], x) => v = u
          /\ \A v \in Lane : ~(InList(base', x) /\ InList(lanes'[v], x))
      BY <1>1, <2>1, <2>3 DEF Once
    <3> QED BY <2>3, <3>1, <3>2, <3>3 DEF Once
  <2> QED BY <2>2, <2>3
<1>9. ASSUME NEW i \in Item PROVE Timely(i)'
  <2>1. Timely(i)
    BY DEF IInv
  <2>2. CASE i # x
    <3>1. due'[i] = due[i] /\ \A v \in Weight : heap'[v][i] = heap[v][i]
      BY <1>0, <1>1, <1>3, <2>2 DEF TypeOK
    <3> QED BY <1>1, <1>6, <2>1, <3>1 DEF Timely
  <2>3. CASE i = x
    <3>1. due'[x] = now + d /\ \A v \in Weight : heap'[v][x] # 0 => v = w
      BY <1>0, <1>1, <1>3, <1>4 DEF TypeOK
    <3> QED BY <1>3, <1>4, <1>6, <2>3, <3>1 DEF Timely
  <2> QED BY <2>2, <2>3
<1> QED BY <1>1, <1>5, <1>6, <1>7, <1>8, <1>9 DEF IInv, AddsDelayed

Drops(x) ==
  /\ \A i \in Item : InHeap(i)' <=> InHeap(i) /\ i # x
  /\ \A i \in Item : (InHand(i)' <=> InHand(i)) /\ (InLists(i)' <=> InLists(i))

LEMMA CancelOnce ==
  ASSUME IInv, TypeOK', NEW c \in Client, NEW x \in Item, Cancel(c, x)
  PROVE  IInv' /\ Drops(x)
<1>0. TypeOK /\ ListsOnce
  BY DEF IInv
<1>1. /\ heap' = [w \in Weight |-> [heap[w] EXCEPT ![x] = 0]]
      /\ UNCHANGED <<base, lanes, now, loop, due>>
  BY DEF Cancel, listVars, ghosts
<1>2. \A v \in Weight, i \in Item : heap'[v][i] = IF i = x THEN 0 ELSE heap[v][i]
  BY <1>0, <1>1 DEF TypeOK
<1>3. \A i \in Item : InHeap(i)' <=> InHeap(i) /\ i # x
  BY <1>2 DEF InHeap
<1>4. \A i \in Item : (InHand(i)' <=> InHand(i)) /\ (InLists(i)' <=> InLists(i))
  BY <1>1 DEF InHand, InLists
<1>5. ListsOnce'
  BY <1>0, <1>1 DEF ListsOnce
<1>6. ASSUME NEW i \in Item PROVE Once(i)' /\ Timely(i)'
  <2>1. Once(i) /\ Timely(i)
    BY DEF IInv
  <2>2. \A v \in Weight : heap'[v][i] # 0 => heap'[v][i] = heap[v][i]
    BY <1>2
  <2>3. Once(i)'
    BY <1>1, <1>3, <1>4, <2>1, <2>2 DEF Once
  <2>4. Timely(i)'
    BY <1>1, <1>4, <2>1, <2>2 DEF Timely
  <2> QED BY <2>3, <2>4
<1> QED BY <1>3, <1>4, <1>5, <1>6 DEF IInv, Drops

Expires(x) ==
  /\ InHeap(x)
  /\ \A i \in Item : InHeap(i)' <=> InHeap(i) /\ i # x
  /\ \A i \in Item : InHand(i)' \/ InLists(i)' <=> InHand(i) \/ InLists(i) \/ i = x

LEMMA TakesOnce ==
  ASSUME IInv, TypeOK', LoopNext, NEW w \in Weight, NEW x \in Item, Takes(w, x)
  PROVE  IInv' /\ Expires(x)
<1>0. TypeOK /\ ListsOnce /\ Once(x) /\ Timely(x)
  BY DEF IInv
<1>1. loop.pc # "add" /\ UNCHANGED <<base, lanes, now, due>>
  BY DEF LoopNext, listVars, ghosts
<1>2. /\ heap[w][x] # 0 /\ heap[w][x] <= now
      /\ heap' = [heap EXCEPT ![w][x] = 0]
      /\ loop'.pc = "add" /\ loop'.item = x
  BY DEF Takes
<1>3. \A v \in Weight, i \in Item : heap'[v][i] = IF v = w /\ i = x THEN 0 ELSE heap[v][i]
  BY ZenonT(60), <1>0, <1>2 DEF TypeOK
<1>4. \A v \in Weight : heap'[v][x] = 0
  BY <1>0, <1>2, <1>3 DEF Once
<1>5. InHeap(x) /\ ~InLists(x)
  BY <1>0, <1>2 DEF InHeap, Once
<1>6. \A i \in Item : InHeap(i)' <=> InHeap(i) /\ i # x
  BY <1>3, <1>4 DEF InHeap
<1>7. \A i \in Item : (InHand(i)' <=> i = x) /\ ~InHand(i) /\ (InLists(i)' <=> InLists(i))
  BY <1>1, <1>2 DEF InHand, InLists
<1>8. ListsOnce'
  BY <1>0, <1>1 DEF ListsOnce
<1>9. ASSUME NEW i \in Item PROVE Once(i)' /\ Timely(i)'
  <2>1. Once(i) /\ Timely(i)
    BY DEF IInv
  <2>2. \A v \in Weight : heap'[v][i] # 0 => heap'[v][i] = heap[v][i]
    BY <1>3
  <2>3. Once(i)'
    BY ZenonT(60), <1>1, <1>5, <1>6, <1>7, <2>1, <2>2 DEF Once
  <2>4. due[x] <= now
    BY <1>0, <1>2 DEF Timely
  <2>5. Timely(i)'
    BY <1>1, <1>7, <2>1, <2>2, <2>4 DEF Timely
  <2> QED BY <2>3, <2>5
<1> QED BY <1>5, <1>6, <1>7, <1>8, <1>9 DEF IInv, Expires

(* An item changes its list, and is ready before and after.                *)
StaysReady ==
  /\ \A i \in Item : InHeap(i)' <=> InHeap(i)
  /\ \A i \in Item : InHand(i)' \/ InLists(i)' <=> InHand(i) \/ InLists(i)

LEMMA LoopAddOnce ==
  ASSUME IInv, TypeOK', LoopAdd
  PROVE  IInv' /\ StaysReady
<1> DEFINE x == loop.item
           w == loop.weight
<1>0. TypeOK /\ ListsOnce
  BY DEF IInv
<1>1. /\ loop.pc = "add" /\ Enlist(x, w) /\ loop'.pc = "signal"
      /\ UNCHANGED <<heap, now, due>>
  BY DEF LoopAdd, NoLoop, ghosts
<1>2. x \in Item /\ w \in Weight
  BY <1>0, <1>1 DEF TypeOK, LoopState
<1> HIDE DEF w
<1>3. /\ \A j : InList(base', j) <=> InList(base, j) \/ (w = 0 /\ j = x)
      /\ \A v \in Lane : \A j : InList(lanes'[v], j) <=> InList(lanes[v], j) \/ (v = w /\ j = x)
      /\ ListsOnce /\ ~InLists(x) => ListsOnce'
  BY <1>0, <1>1, <1>2, EnlistFacts
<1>4. \A i \in Item : (InHand(i) <=> i = x) /\ ~InHand(i)'
  BY <1>1 DEF InHand
<1>5. Once(x) /\ Timely(x)
  BY <1>2 DEF IInv
<1>6. ~InLists(x) /\ ~InHeap(x) /\ due[x] <= now
  BY <1>2, <1>4, <1>5 DEF Once, Timely
<1> HIDE DEF x
<1>7. (w = 0 \/ w \in Lane) /\ 0 \notin Lane
  BY <1>2, QueueAssumption DEF Weight, Lane
<1>8. \A i \in Item : (InLists(i)' <=> InLists(i) \/ i = x) /\ (InHeap(i)' <=> InHeap(i))
  BY <1>1, <1>3, <1>7 DEF InLists, InHeap
<1>9. ListsOnce'
  BY <1>0, <1>3, <1>6
<1>10. ASSUME NEW i \in Item PROVE Once(i)' /\ Timely(i)'
  <2>1. Once(i) /\ Timely(i)
    BY DEF IInv
  <2>2. Timely(i)'
    BY <1>1, <1>4, <1>6, <1>8, <2>1 DEF Timely
  <2>3. CASE i # x
    <3>1. /\ InList(base', i) <=> InList(base, i)
          /\ \A v \in Lane : InList(lanes'[v], i) <=> InList(lanes[v], i)
      BY <1>3, <2>3
    <3> QED BY <1>1, <1>4, <1>8, <2>1, <2>2, <2>3, <3>1 DEF Once
  <2>4. CASE i = x
    <3>1. /\ InList(base', x) <=> w = 0
          /\ \A v \in Lane : InList(lanes'[v], x) <=> v = w
      BY <1>3, <1>6 DEF InLists
    <3> QED BY <1>1, <1>4, <1>6, <1>7, <1>8, <2>1, <2>2, <2>4, <3>1 DEF Once
  <2> QED BY <2>3, <2>4
<1> QED BY <1>4, <1>8, <1>9, <1>10 DEF IInv, StaysReady

Gets(x) ==
  /\ InLists(x)
  /\ \A i \in Item : InHeap(i)' <=> InHeap(i)
  /\ \A i \in Item : InHand(i)' \/ InLists(i)' <=> (InHand(i) \/ InLists(i)) /\ i # x

LEMMA GetOnce ==
  ASSUME IInv, TypeOK', NEW p \in Worker, GetBase(p)
  PROVE  IInv' /\ Head(base) \in Item /\ Gets(Head(base))
<1> DEFINE x == Head(base)
<1>0. TypeOK /\ ListsOnce
  BY DEF IInv
<1>1. UNCHANGED <<heap, now, due, loop>>
  BY DEF GetBase, otherThanWorker, ghosts
<1>2. /\ x \in Item /\ InList(base, x)
      /\ \A j : InList(base', j) <=> InList(base, j) /\ j # x
      /\ lanes' = lanes
      /\ ListsOnce'
  BY <1>0, GetFacts
<1> HIDE DEF x
<1>3. Once(x)
  BY <1>2 DEF IInv
<1>4. ~InHand(x) /\ InLists(x) /\ \A v \in Lane : ~InList(lanes[v], x)
  BY <1>2, <1>3 DEF Once, InLists
<1>5. \A i \in Item : (InHand(i)' <=> InHand(i)) /\ (InHeap(i)' <=> InHeap(i))
  BY <1>1 DEF InHand, InHeap
<1>6. \A i \in Item : InLists(i)' <=> InLists(i) /\ i # x
  BY <1>2, <1>4 DEF InLists
<1>7. ASSUME NEW i \in Item PROVE Once(i)' /\ Timely(i)'
  <2>1. Once(i) /\ Timely(i)
    BY DEF IInv
  <2>2. Once(i)'
    BY ZenonT(60), <1>1, <1>2, <1>5, <1>6, <2>1 DEF Once
  <2>3. Timely(i)'
    BY <1>1, <1>5, <1>6, <2>1 DEF Timely
  <2> QED BY <2>2, <2>3
<1>8. Gets(x)
  BY <1>4, <1>5, <1>6 DEF Gets
<1> QED BY <1>2, <1>7, <1>8 DEF IInv, x

LEMMA MoveOnce ==
  ASSUME IInv, TypeOK', NEW p \in Worker, StepMove(p)
  PROVE  IInv' /\ StaysReady
<1>0. TypeOK /\ ListsOnce
  BY DEF IInv
<1>1. UNCHANGED <<heap, now, due, loop>>
  BY DEF StepMove, otherThanWorker, ghosts
<1>2. PICK w \in Lane, x \in Item :
           /\ InList(lanes[w], x)
           /\ \A j : InList(base', j) <=> InList(base, j) \/ j = x
           /\ \A j : InList(lanes'[w], j) <=> InList(lanes[w], j) /\ j # x
           /\ \A v \in Lane : v # w => lanes'[v] = lanes[v]
           /\ ~InList(base, x) => ListsOnce'
  BY <1>0, MoveFacts
<1>3. Once(x)
  BY DEF IInv
<1>4. ~InList(base, x) /\ \A v \in Lane : InList(lanes[v], x) => v = w
  BY <1>2, <1>3 DEF Once
<1>5. \A v \in Lane : \A j : InList(lanes'[v], j) <=> InList(lanes[v], j) /\ j # x
  BY <1>2, <1>4
<1>6. \A i \in Item : (InHand(i)' <=> InHand(i)) /\ (InHeap(i)' <=> InHeap(i))
  BY <1>1 DEF InHand, InHeap
<1>7. \A i \in Item : InLists(i)' <=> InLists(i)
  BY <1>2, <1>5 DEF InLists
<1>8. ASSUME NEW i \in Item PROVE Once(i)' /\ Timely(i)'
  <2>1. Once(i) /\ Timely(i)
    BY DEF IInv
  <2>2. Once(i)'
    BY ZenonT(60), <1>1, <1>2, <1>5, <1>6, <1>7, <2>1 DEF Once
  <2>3. Timely(i)'
    BY Zenon, <1>1, <1>6, <1>7, <2>1 DEF Timely
  <2> QED BY <2>2, <2>3
<1> QED BY <1>2, <1>4, <1>6, <1>7, <1>8 DEF IInv, StaysReady

(* Every step of the queue is one of these, and keeps the invariant.       *)
Moves ==
  \/ Quiet \/ StaysReady
  \/ \E x \in Item : AddsReady(x) \/ AddsDelayed(x) \/ Drops(x) \/ Expires(x) \/ Gets(x)

LEMMA IInvStep ==
  ASSUME IInv, [Next]_vars
  PROVE  IInv' /\ Moves
<1>0. TypeOK
  BY DEF IInv
<1>1. TypeOK'
  BY <1>0, TypeStep
<1>2. ASSUME NEW c \in Client, ClientStep(c) PROVE IInv' /\ Moves
  <2>1. CASE Signal(c)
    BY <1>0, <1>1, <2>1, QuietSteps, QuietOnce DEF Moves
  <2>2. ASSUME NEW i \in Item, Cancel(c, i) PROVE IInv' /\ Moves
    BY <1>1, <2>2, CancelOnce DEF Moves
  <2>3. ASSUME NEW i \in Item, NEW w \in Weight, AddWeight(c, i, w) PROVE IInv' /\ Moves
    BY <1>1, <2>3, AddWeightOnce DEF Moves
  <2>4. ASSUME NEW i \in Item, NEW w \in Weight, NEW d \in 1..MaxTime, AddWeightAfter(c, i, w, d)
        PROVE  IInv' /\ Moves
    BY <1>1, <2>4, AddAfterOnce DEF Moves
  <2> QED BY <1>2, <2>1, <2>2, <2>3, <2>4 DEF ClientStep
<1>3. CASE Loop
  <2>1. CASE LoopNext
    <3>1. ASSUME NEW w \in Weight, NEW i \in Item, Takes(w, i) PROVE IInv' /\ Moves
      BY <1>1, <2>1, <3>1, TakesOnce DEF Moves
    <3>2. ASSUME NEW u \in Nat, Sleeps(u) PROVE IInv' /\ Moves
      BY <1>0, <1>1, <2>1, <3>2, QuietSteps, QuietOnce DEF Moves
    <3> QED BY <1>0, <2>1, <3>1, <3>2, LoopNextFacts
  <2>2. CASE LoopAdd
    BY <1>1, <2>2, LoopAddOnce DEF Moves
  <2>3. CASE LoopSignal \/ LoopTimer \/ LoopKicked
    BY <1>0, <1>1, <2>3, QuietSteps, QuietOnce DEF Moves
  <2> QED BY <1>3, <2>1, <2>2, <2>3 DEF Loop
<1>4. ASSUME NEW p \in Worker, Serve(p) PROVE IInv' /\ Moves
  <2>1. CASE GetBase(p)
    BY <1>1, <2>1, GetOnce DEF Moves
  <2>2. CASE StepMove(p)
    BY <1>1, <2>2, MoveOnce DEF Moves
  <2>3. CASE \/ BaseEmpty(p) \/ Stolen(p) \/ StepLock(p) \/ StepDown(p)
             \/ StepUnlock(p) \/ Wake(p) \/ Leave(p) \/ Finish(p)
    BY <1>0, <1>1, <2>3, QuietSteps, QuietOnce DEF Moves
  <2> QED BY <1>4, <2>1, <2>2, <2>3 DEF Serve
<1>5. CASE Close \/ Tick \/ UNCHANGED vars
  BY <1>0, <1>1, <1>5, QuietSteps, QuietOnce DEF Moves
<1> QED BY <1>2, <1>3, <1>4, <1>5 DEF Next

LEMMA IInvInit == Init => IInv
<1> SUFFICES ASSUME Init PROVE IInv
  OBVIOUS
<1>1. TypeOK
  BY TypeInit
<1>2. /\ base = <<>> /\ \A w \in Lane : lanes[w] = <<>>
      /\ \A w \in Weight, i \in Item : heap[w][i] = 0
      /\ loop.pc = "next"
  BY DEF Init, NoLoop
<1>3. \A i : ~InList(<<>>, i)
  BY DEF InList
<1>4. NoRepeat(<<>>)
  BY DEF NoRepeat
<1>5. ListsOnce
  BY <1>2, <1>4 DEF ListsOnce
<1>6. \A i \in Item : ~InLists(i) /\ ~InHeap(i) /\ ~InHand(i)
  BY <1>2, <1>3 DEF InLists, InHeap, InHand
<1>7. ASSUME NEW i \in Item PROVE Once(i) /\ Timely(i)
  BY <1>2, <1>3, <1>6 DEF Once, Timely
<1> QED BY <1>1, <1>5, <1>7 DEF IInv

LEMMA IInvAlways == Spec => []IInv
<1>1. IInv /\ [Next]_vars => IInv'
  BY IInvStep
<1> QED BY <1>1, IInvInit, PTL DEF Spec

(* Heaps, hand of loopWorker and lists never hold two copies of an item    *)
(* (AddWeightAfter, next and weightQueue.Get), so no two workers are given *)
(* the same addition.                                                      *)
THEOREM OneCopyAlways == Spec => []OneCopy
<1>1. IInv => OneCopy
  BY IInvMeans
<1> QED BY <1>1, IInvAlways, PTL

(* Nothing leaves the heaps before the duration given to AddWeightAfter.   *)
THEOREM NeverEarly == Spec => []NotEarly
<1>1. IInv => NotEarly
  BY IInvMeans
<1> QED BY <1>1, IInvAlways, PTL

-----------------------------------------------------------------------------
(* The queue implements module DelayQueue.                                 *)

Delayed == {i \in Item : InHeap(i)}
Ready   == {i \in Item : InHand(i) \/ InLists(i)}

LEMMA MovesRefine ==
  ASSUME Moves
  PROVE  [DQ!QNext]_DQ!qvars
<1> USE DEF DQ!QNext, DQ!qvars, DQ!Put, DQ!PutAfter, DQ!Expire, DQ!Take, DQ!Drop, DQ!Queued
<1>1. ASSUME Delayed' = Delayed, Ready' = Ready PROVE [DQ!QNext]_DQ!qvars
  BY <1>1 DEF Delayed, Ready
<1>2. CASE Quiet
  <2>1. \A i \in Item : /\ (InHand(i)' <=> InHand(i))
                        /\ (InLists(i)' <=> InLists(i))
                        /\ (InHeap(i)' <=> InHeap(i))
    BY <1>2 DEF Quiet, InLists, InHeap
  <2>2. Delayed' = Delayed /\ Ready' = Ready
    BY <2>1 DEF Delayed, Ready
  <2> QED BY <1>1, <2>2
<1>3. CASE StaysReady
  <2>1. Delayed' = Delayed /\ Ready' = Ready
    BY <1>3 DEF Delayed, Ready, StaysReady
  <2> QED BY <1>1, <2>1
<1>4. ASSUME NEW x \in Item, AddsReady(x) PROVE DQ!QNext
  <2>1. Delayed' = Delayed /\ Ready' = Ready \cup {x} /\ x \notin Delayed \cup Ready
    BY <1>4 DEF Delayed, Ready, AddsReady, InQueue
  <2> QED BY <2>1 DEF Delayed, Ready
<1>5. ASSUME NEW x \in Item, AddsDelayed(x) PROVE DQ!QNext
  <2>1. Delayed' = Delayed \cup {x} /\ Ready' = Ready /\ x \notin Delayed \cup Ready
    BY <1>5 DEF Delayed, Ready, AddsDelayed, InQueue
  <2> QED BY <2>1 DEF Delayed, Ready
<1>6. ASSUME NEW x \in Item, Drops(x) PROVE [DQ!QNext]_DQ!qvars
  <2>1. Delayed' = Delayed \ {x} /\ Ready' = Ready
    BY <1>6 DEF Delayed, Ready, Drops
  <2>2. CASE x \in Delayed
    BY <2>1, <2>2 DEF Delayed, Ready
  <2>3. CASE x \notin Delayed
    BY <1>1, <2>1, <2>3
  <2> QED BY ZenonT(60), <2>2, <2>3
<1>7. ASSUME NEW x \in Item, Expires(x) PROVE DQ!QNext
  <2>1. Delayed' = Delayed \ {x} /\ Ready' = Ready \cup {x} /\ x \in Delayed
    BY <1>7 DEF Delayed, Ready, Expires
  <2> QED BY <2>1 DEF Delayed, Ready
<1>8. ASSUME NEW x \in Item, Gets(x) PROVE DQ!QNext
  <2>1. Delayed' = Delayed /\ Ready' = Ready \ {x} /\ x \in Ready
    BY <1>8 DEF Delayed, Ready, Gets
  <2> QED BY <2>1 DEF Delayed, Ready
<1> HIDE DEF DQ!QNext, DQ!qvars
<1> QED BY <1>2, <1>3, <1>4, <1>5, <1>6, <1>7, <1>8 DEF Moves

(* Every addition is delayed or ready in exactly one place until it is     *)
(* taken or cancelled (the queues of pkg/utils/queue as their callers see  *)
(* them, module DelayQueue).                                               *)
THEOREM QueueImplemented == Spec => ImplementsDelayQueue
<1>1. Init => DQ!QInit
  <2> SUFFICES ASSUME Init PROVE DQ!QInit
    OBVIOUS
  <2>1. /\ base = <<>> /\ \A w \in Lane : lanes[w] = <<>>
        /\ \A w \in Weight, i \in Item : heap[w][i] = 0
        /\ loop.pc = "next"
    BY DEF Init, NoLoop
  <2>2. \A i : ~InList(<<>>, i)
    BY DEF InList
  <2>3. \A i \in Item : ~InLists(i) /\ ~InHeap(i) /\ ~InHand(i)
    BY <2>1, <2>2 DEF InLists, InHeap, InHand
  <2> QED BY <2>3 DEF DQ!QInit
<1>2. IInv /\ [Next]_vars => [DQ!QNext]_DQ!qvars
  BY IInvStep, MovesRefine
<1> QED BY <1>1, <1>2, IInvAlways, PTL DEF Spec, ImplementsDelayQueue, DQ!QSpec
============================================================================
