------------------------ MODULE WeightDelayingQueue ------------------------
(***************************************************************************)
(* pkg/utils/queue/weight_delaying_queue.go over weight_queue.go, queue.go *)
(* and pkg/utils/heap/heap.go: the queue every controller of kwok takes    *)
(* its work from.                                                          *)
(*                                                                         *)
(* Goroutines: the callers of AddWeightAfter, AddWeight and Cancel         *)
(* (Client), the loopWorker, and the workers blocked in GetOrWaitWithDone  *)
(* (Worker).  A step is one critical section, one channel operation or one *)
(* list operation: adding and signalling are two steps, and the Get, step, *)
(* Get sequence of weightQueue.Get is a step per list access, because the  *)
(* fast path reads the list without the mutex of weightQueue.              *)
(***************************************************************************)
EXTENDS Integers, Sequences, FiniteSets

CONSTANTS
  Item,        \* what is queued; compared with ==
  Worker,      \* goroutines calling GetOrWaitWithDone
  Client,      \* goroutines calling AddWeightAfter and Cancel
  MaxWeight,   \* weights are 0..MaxWeight
  MaxTime,     \* bound: the clock stops here
  MaxSleep,    \* the ten seconds loopWorker sleeps at most
  MaxAdds,     \* bound on the number of additions
  NoItem,
  Nobody

ASSUME QueueAssumption ==
  /\ MaxWeight \in Nat \ {0}
  /\ MaxTime \in Nat
  /\ MaxSleep \in Nat \ {0}
  /\ MaxAdds \in Nat
  /\ NoItem \notin Item
  /\ Nobody \notin Worker

Lane   == 1..MaxWeight
Weight == 0..MaxWeight

VARIABLES
  base,     \* weightQueue.queue: what Get returns from
  lanes,    \* weightQueue.queues: one list per positive weight
  token,    \* weightQueue.signal holds a token (capacity one)
  mut,      \* the worker inside weightQueue.step, which holds its mutex
  heap,     \* heap[w][i]: the key of i's entry in the heap of weight w, or 0
  kick,     \* weightDelayingQueue.signal holds a token (capacity one)
  now,      \* the clock
  loop,     \* the loopWorker goroutine
  client,   \* the signal a client still has to send
  worker,   \* the goroutines inside GetOrWaitWithDone
  done,     \* the done channel is closed
  adds,     \* additions so far
  due,      \* ghost: the time before which an item must not be delivered
  lane      \* ghost: the weight an item was last added with

listVars  == <<base, lanes>>
vars == <<base, lanes, token, mut, heap, kick, now, loop, client,
          worker, done, adds, due, lane>>
ghosts == <<due, lane>>

NoLoop   == [pc |-> "next", item |-> NoItem, weight |-> 0, until |-> 0]
NoWorker == [pc |-> "call", item |-> NoItem, at |-> 0, left |-> 0, added |-> FALSE]

Init ==
  /\ base = <<>>
  /\ lanes = [w \in Lane |-> <<>>]
  /\ token = FALSE
  /\ mut = Nobody
  /\ heap = [w \in Weight |-> [i \in Item |-> 0]]
  /\ kick = FALSE
  /\ now = 1
  /\ loop = NoLoop
  /\ client = [c \in Client |-> "idle"]
  /\ worker = [p \in Worker |-> NoWorker]
  /\ done = FALSE
  /\ adds = 0
  /\ due = [i \in Item |-> 0]
  /\ lane = [i \in Item |-> 0]

-----------------------------------------------------------------------------
(* Where an item is.                                                       *)
InList(s, i) == \E n \in DOMAIN s : s[n] = i
InLists(i) == InList(base, i) \/ \E w \in Lane : InList(lanes[w], i)
InHeap(i) == \E w \in Weight : heap[w][i] # 0
InHand(i) == loop.pc = "add" /\ loop.item = i
InQueue(i) == InLists(i) \/ InHeap(i) \/ InHand(i)

(* What every addition does besides inserting: guard, bound and ghosts.    *)
(* The stage, node and pod controllers queue a new job each time, so an    *)
(* item is never added while it is queued.  The lease controller queues    *)
(* names and can: module NodeLease models what the heap does then.         *)
Added(i, w, k) ==
  /\ adds < MaxAdds
  /\ ~InQueue(i)
  /\ adds' = adds + 1
  /\ due' = [due EXCEPT ![i] = k]
  /\ lane' = [lane EXCEPT ![i] = w]

(* weightQueue.AddWeight up to its signal: weight 0 goes straight to the   *)
(* list Get reads, a positive weight to its own list under the mutex.      *)
Enlist(i, w) ==
  IF w = 0
  THEN base' = Append(base, i) /\ UNCHANGED lanes
  ELSE /\ mut = Nobody
       /\ lanes' = [lanes EXCEPT ![w] = Append(@, i)]
       /\ UNCHANGED base

(* Heap.Push of an item that is in no heap.                                *)
Push(i, w, k) == heap' = [heap EXCEPT ![w][i] = k]

-----------------------------------------------------------------------------
(* Clients.                                                                *)

(* AddWeightAfter with no duration, AddWeight and Add.                     *)
AddWeight(c, i, w) ==
  /\ client[c] = "idle"
  /\ Added(i, w, now)
  /\ Enlist(i, w)
  /\ client' = [client EXCEPT ![c] = "token"]
  /\ UNCHANGED <<token, mut, heap, kick, now, loop, worker, done>>

AddWeightAfter(c, i, w, d) ==
  /\ client[c] = "idle"
  /\ now + d <= MaxTime
  /\ Added(i, w, now + d)
  /\ Push(i, w, now + d)
  /\ client' = [client EXCEPT ![c] = "kick"]
  /\ UNCHANGED <<listVars, token, mut, kick, now, loop, worker, done>>

(* The select with a default branch after the mutex is released: a full    *)
(* channel swallows the signal.                                            *)
Signal(c) ==
  /\ client[c] # "idle"
  /\ token' = (token \/ client[c] = "token")
  /\ kick' = (kick \/ client[c] = "kick")
  /\ client' = [client EXCEPT ![c] = "idle"]
  /\ UNCHANGED <<listVars, mut, heap, now, loop, worker, done, adds, ghosts>>

(* Cancel looks at the heaps only; an item that is nowhere is left alone.  *)
Cancel(c, i) ==
  /\ client[c] = "idle" /\ InQueue(i)
  /\ heap' = [w \in Weight |-> [heap[w] EXCEPT ![i] = 0]]
  /\ UNCHANGED <<listVars, token, mut, kick, now, loop, client,
                 worker, done, adds, ghosts>>

-----------------------------------------------------------------------------
(* loopWorker.                                                             *)

Nothing == [key |-> 0, item |-> NoItem]

Entries(w) ==
  {[key |-> heap[w][i], item |-> i] : i \in {j \in Item : heap[w][j] # 0}}

(* Peek: an entry with the least key; ties are broken by the layout of the *)
(* array, which is not modelled.                                           *)
Heads(w) ==
  IF Entries(w) = {} THEN {Nothing}
  ELSE {e \in Entries(w) : \A f \in Entries(w) : e.key <= f.key}

PossibleHeads ==
  {h \in [Weight -> UNION {Heads(w) : w \in Weight}] : \A w \in Weight : h[w] \in Heads(w)}

(* Mutant: the loop over the heaps misses weight 0. *)
DeliverablePositive(head) ==
  {w \in Lane : /\ head[w] # Nothing
                /\ head[w].key <= now}

(* The weights whose head has come due.                                    *)
Deliverable(head) ==
  {w \in Weight : /\ head[w] # Nothing
                  /\ head[w].key <= now}

(* Weight 0 first, then the highest weight.                                *)
First(ws) == IF 0 \in ws THEN 0 ELSE CHOOSE w \in ws : \A v \in ws : v <= w

Waits(head) ==
  {MaxSleep} \cup {head[w].key - now : w \in {v \in Weight : head[v] # Nothing /\ head[v].key > now}}

Least(S) == CHOOSE x \in S : \A y \in S : x <= y

(* Mutant: the head is peeked at and not removed. *)
LoopNextPeek ==
  /\ loop.pc = "next"
  /\ \E head \in PossibleHeads :
       IF Deliverable(head) # {}
       THEN LET w == First(Deliverable(head)) IN
            loop' = [NoLoop EXCEPT !.pc = "add", !.item = head[w].item, !.weight = w]
       ELSE loop' = [NoLoop EXCEPT !.pc = "sleep", !.until = now + Least(Waits(head))]
  /\ UNCHANGED <<listVars, token, mut, heap, kick, now, client, worker, done, adds, ghosts>>

LoopNext ==
  /\ loop.pc = "next"
  /\ \E head \in PossibleHeads :
       IF Deliverable(head) # {}
       THEN LET w == First(Deliverable(head)) IN
            /\ heap' = [heap EXCEPT ![w][head[w].item] = 0]
            /\ loop' = [NoLoop EXCEPT !.pc = "add", !.item = head[w].item, !.weight = w]
       ELSE /\ loop' = [NoLoop EXCEPT !.pc = "sleep", !.until = now + Least(Waits(head))]
            /\ UNCHANGED heap
  /\ UNCHANGED <<listVars, token, mut, kick, now, client, worker, done, adds, ghosts>>

LoopAdd ==
  /\ loop.pc = "add"
  /\ Enlist(loop.item, loop.weight)
  /\ loop' = [NoLoop EXCEPT !.pc = "signal"]
  /\ UNCHANGED <<token, mut, heap, kick, now, client, worker, done, adds, ghosts>>

(* Mutant: loopWorker adds without signalling. *)
LoopSilent ==
  /\ loop.pc = "signal"
  /\ loop' = NoLoop
  /\ UNCHANGED <<listVars, token, mut, heap, kick, now, client, worker, done, adds, ghosts>>

LoopSignal ==
  /\ loop.pc = "signal"
  /\ token' = TRUE
  /\ loop' = NoLoop
  /\ UNCHANGED <<listVars, mut, heap, kick, now, client, worker, done, adds, ghosts>>

(* The select of loopWorker: the timer or the signal.  Where the bounded   *)
(* clock ends every timer has fired.                                       *)
LoopTimer ==
  /\ loop.pc = "sleep" /\ (loop.until <= now \/ now = MaxTime)
  /\ loop' = NoLoop
  /\ UNCHANGED <<listVars, token, mut, heap, kick, now, client, worker, done, adds, ghosts>>

LoopKicked ==
  /\ loop.pc = "sleep" /\ kick
  /\ kick' = FALSE
  /\ loop' = NoLoop
  /\ UNCHANGED <<listVars, token, mut, heap, now, client, worker, done, adds, ghosts>>

Loop == LoopNext \/ LoopAdd \/ LoopSignal \/ LoopTimer \/ LoopKicked

-----------------------------------------------------------------------------
(* GetOrWaitWithDone over weightQueue.Get.                                 *)

otherThanWorker == <<heap, kick, now, loop, client, done, adds, ghosts>>

(* queue.Get, on the fast path ("call") and after step ("again").          *)
GetBase(p) ==
  /\ worker[p].pc \in {"call", "again"}
  /\ base # <<>>
  /\ base' = Tail(base)
  /\ worker' = [worker EXCEPT ![p] = [NoWorker EXCEPT !.pc = "hold", !.item = Head(base)]]
  /\ UNCHANGED <<lanes, token, mut, otherThanWorker>>

BaseEmpty(p) ==
  /\ worker[p].pc = "call" /\ base = <<>>
  /\ worker' = [worker EXCEPT ![p].pc = "lock"]
  /\ UNCHANGED <<listVars, token, mut, otherThanWorker>>

Stolen(p) ==
  /\ worker[p].pc = "again" /\ base = <<>>
  /\ worker' = [worker EXCEPT ![p] = [NoWorker EXCEPT !.pc = "wait"]]
  /\ UNCHANGED <<listVars, token, mut, otherThanWorker>>

(* weightQueue.step takes the mutex and visits the weights downwards; from *)
(* a list of weight n it moves at most n items.                            *)
StepLock(p) ==
  /\ worker[p].pc = "lock" /\ mut = Nobody
  /\ mut' = p
  /\ worker' = [worker EXCEPT ![p] = [NoWorker EXCEPT !.pc = "step", !.at = MaxWeight, !.left = MaxWeight]]
  /\ UNCHANGED <<listVars, token, otherThanWorker>>

(* Mutant: step empties a list whatever its weight. *)
CanMoveAll(p) == lanes[worker[p].at] # <<>>

CanMove(p) == worker[p].left > 0 /\ lanes[worker[p].at] # <<>>

StepMove(p) ==
  /\ worker[p].pc = "step" /\ CanMove(p)
  /\ LET w == worker[p].at IN
     /\ base' = Append(base, Head(lanes[w]))
     /\ lanes' = [lanes EXCEPT ![w] = Tail(@)]
  /\ worker' = [worker EXCEPT ![p].left = @ - 1, ![p].added = TRUE]
  /\ UNCHANGED <<token, mut, otherThanWorker>>

StepDown(p) ==
  /\ worker[p].pc = "step" /\ ~CanMove(p) /\ worker[p].at > 1
  /\ worker' = [worker EXCEPT ![p].at = @ - 1, ![p].left = worker[p].at - 1]
  /\ UNCHANGED <<listVars, token, mut, otherThanWorker>>

(* Mutant: Get reports an empty queue although step moved something. *)
StepUnlockWait(p) ==
  /\ worker[p].pc = "step" /\ ~CanMove(p) /\ worker[p].at = 1
  /\ mut' = Nobody
  /\ worker' = [worker EXCEPT ![p] = [NoWorker EXCEPT !.pc = "wait"]]
  /\ UNCHANGED <<listVars, token, otherThanWorker>>

StepUnlock(p) ==
  /\ worker[p].pc = "step" /\ ~CanMove(p) /\ worker[p].at = 1
  /\ mut' = Nobody
  /\ worker' = [worker EXCEPT ![p] =
                  [NoWorker EXCEPT !.pc = IF worker[p].added THEN "again" ELSE "wait"]]
  /\ UNCHANGED <<listVars, token, otherThanWorker>>

(* The select of GetOrWaitWithDone.                                        *)
Wake(p) ==
  /\ worker[p].pc = "wait" /\ token
  /\ token' = FALSE
  /\ worker' = [worker EXCEPT ![p] = NoWorker]
  /\ UNCHANGED <<listVars, mut, otherThanWorker>>

Leave(p) ==
  /\ worker[p].pc = "wait" /\ done
  /\ worker' = [worker EXCEPT ![p] = [NoWorker EXCEPT !.pc = "left"]]
  /\ UNCHANGED <<listVars, token, mut, otherThanWorker>>

(* The caller has dealt with the item and asks again, unless done.         *)
Finish(p) ==
  /\ worker[p].pc = "hold"
  /\ worker' = [worker EXCEPT ![p] = [NoWorker EXCEPT !.pc = IF done THEN "left" ELSE "call"]]
  /\ UNCHANGED <<listVars, token, mut, otherThanWorker>>

Serve(p) ==
  \/ GetBase(p) \/ BaseEmpty(p) \/ Stolen(p)
  \/ StepLock(p) \/ StepMove(p) \/ StepDown(p) \/ StepUnlock(p)
  \/ Wake(p) \/ Leave(p) \/ Finish(p)

Close ==
  /\ ~done
  /\ done' = TRUE
  /\ UNCHANGED <<listVars, token, mut, heap, kick, now, loop, client, worker, adds, ghosts>>

Tick ==
  /\ now < MaxTime
  /\ now' = now + 1
  /\ UNCHANGED <<listVars, token, mut, heap, kick, loop, client, worker, done, adds, ghosts>>

-----------------------------------------------------------------------------
ClientStep(c) ==
  \/ Signal(c)
  \/ \E i \in Item :
       \/ Cancel(c, i)
       \/ \E w \in Weight : AddWeight(c, i, w) \/ \E d \in 1..MaxTime : AddWeightAfter(c, i, w, d)

Next ==
  \/ \E c \in Client : ClientStep(c)
  \/ Loop
  \/ \E p \in Worker : Serve(p)
  \/ Close
  \/ Tick

Spec == Init /\ [][Next]_vars

(* The scheduler runs every goroutine, and a worker finishes its item.     *)
Fairness ==
  /\ \A c \in Client : WF_vars(Signal(c))
  /\ WF_vars(Loop)
  /\ \A p \in Worker : WF_vars(Serve(p))
  /\ WF_vars(Tick)

FairSpec == Spec /\ Fairness

-----------------------------------------------------------------------------
LoopState ==
  {l \in [pc : {"next", "add", "signal", "sleep"}, item : Item \cup {NoItem},
          weight : Weight, until : Nat] : l.pc = "add" => l.item \in Item}

WorkerState ==
  {s \in [pc : {"call", "lock", "step", "again", "wait", "hold", "left"},
          item : Item \cup {NoItem}, at : Weight, left : Weight, added : BOOLEAN] :
     s.pc = "step" => s.at \in Lane}

TypeOK ==
  /\ base \in Seq(Item) /\ lanes \in [Lane -> Seq(Item)]
  /\ token \in BOOLEAN /\ kick \in BOOLEAN /\ done \in BOOLEAN
  /\ mut \in Worker \cup {Nobody}
  /\ heap \in [Weight -> [Item -> Nat]]
  /\ now \in Nat \ {0} /\ adds \in Nat
  /\ loop \in LoopState
  /\ client \in [Client -> {"idle", "token", "kick"}]
  /\ worker \in [Worker -> WorkerState]
  /\ due \in [Item -> Nat] /\ lane \in [Item -> Weight]

(* An item that was not in the queue when it was added is there at most    *)
(* once: heaps, hand of loopWorker and lists never hold two copies of it,  *)
(* so no two workers are ever given the same addition.                     *)
NoRepeat(s) == \A m, n \in DOMAIN s : s[m] = s[n] => m = n

OneCopy ==
  /\ NoRepeat(base)
  /\ \A w \in Lane : NoRepeat(lanes[w])
  /\ \A i \in Item :
       /\ \A v, w \in Weight : heap[v][i] # 0 /\ heap[w][i] # 0 => v = w
       /\ \A v, w \in Lane : InList(lanes[v], i) /\ InList(lanes[w], i) => v = w
       /\ ~(InHeap(i) /\ InHand(i))
       /\ ~(InHeap(i) /\ InLists(i))
       /\ ~(InHand(i) /\ InLists(i))
       /\ \A w \in Lane : ~(InList(base, i) /\ InList(lanes[w], i))

(* AddWeightAfter's duration is honoured: nothing reaches loopWorker's     *)
(* hand or a list Get reads before its time.                               *)
NotEarly == \A i \in Item : InHand(i) \/ InLists(i) => due[i] <= now

(* When every worker has given up looking (the select of                   *)
(* GetOrWaitWithDone) while an item is ready, a token is in the channel or *)
(* somebody is just about to put one there, although the channel holds     *)
(* one token and drops the rest.  And loopWorker never sleeps past the key *)
(* of a heap entry unless the signal that will wake it is in the channel   *)
(* or about to be sent.                                                    *)
NoLostWakeup ==
  /\ (/\ \A p \in Worker : worker[p].pc = "wait"
      /\ \E i \in Item : InLists(i))
     => token \/ loop.pc = "signal" \/ \E c \in Client : client[c] = "token"
  /\ (/\ loop.pc = "sleep"
      /\ \E w \in Weight, i \in Item : heap[w][i] # 0 /\ heap[w][i] < loop.until)
     => kick \/ \E c \in Client : client[c] = "kick"

(* How far a fresh (weight 0) item can be behind retried ones: step is     *)
(* only entered by a worker that saw the list empty, so of every weight w  *)
(* the list Get reads holds at most w items per worker.                    *)
PriorityBound ==
  \A w \in Lane :
    Cardinality({i \in Item : InList(base, i) /\ lane[i] = w}) <= Cardinality(Worker) * w

(* Every addition is the promise of module DelayQueue: delayed while in a  *)
(* heap, ready while in loopWorker's hand or in a list.                    *)
DQ == INSTANCE DelayQueue WITH
        delayed <- {i \in Item : InHeap(i)},
        ready   <- {i \in Item : InHand(i) \/ InLists(i)}

ImplementsDelayQueue == DQ!QSpec

(* Once its time has come, a delayed item leaves its heap.                 *)
DelayExpires(i) == InHeap(i) ~> ~InHeap(i)

EveryDelayExpires == \A i \in Item : DelayExpires(i)

(* A ready item is taken, unless the workers were told to stop.            *)
ReadyTaken(i) == InLists(i) ~> ~InLists(i) \/ done

EveryReadyTaken == \A i \in Item : ReadyTaken(i)
=============================================================================
