------------------------- MODULE WeightQueueProofs -------------------------
(***************************************************************************)
(* The queue under the delaying one, for any number of items, clients,     *)
(* workers and weights: no wake-up is lost between the lists and the       *)
(* workers, nor between the heaps and loopWorker, and retried items do not *)
(* pile up in the list that Get reads.                                     *)
(***************************************************************************)
EXTENDS WeightDelayingQueueProofs, FiniteSetTheorems

(* The provers that try a step whose proof names none, in this order.      *)
USE SMTT(10), ZenonT(30), SMTT(60)

-----------------------------------------------------------------------------
(* No wake-up of a worker is lost.                                         *)

Signalled == token \/ loop.pc = "signal" \/ \E c \in Client : client[c] = "token"

(* Workers that will look at all the lists before they wait, or have left. *)
Active == \E p \in Worker : worker[p].pc \in {"call", "hold", "left", "lock"}

Moved(p) == worker[p].pc = "step" /\ worker[p].added

(* Somebody will look at a list that is not empty: at the one Get reads ...*)
BaseSeen ==
  base # <<>> =>
    \/ Signalled
    \/ \E p \in Worker : worker[p].pc \in {"call", "hold", "left", "again"} \/ Moved(p)

(* ... and at that of a weight, where step has not passed it, or has moved *)
(* something for which its worker will call again.                         *)
LaneSeen ==
  \A w \in Lane : lanes[w] # <<>> =>
    \/ Signalled \/ Active
    \/ \E p \in Worker : worker[p].pc = "step" /\ worker[p].at >= w
    \/ base # <<>> /\ \E p \in Worker : worker[p].pc = "again" \/ Moved(p)

(* What step moved was taken by somebody who will call again.              *)
Robbed == base = <<>> /\ (\E p \in Worker : Moved(p)) => Active

Mutex == \A p \in Worker : worker[p].pc = "step" <=> mut = p

Unmoved ==
  \A p \in Worker : worker[p].pc = "step" /\ ~worker[p].added => worker[p].left = worker[p].at

WInv == BaseSeen /\ LaneSeen /\ Robbed /\ Mutex /\ Unmoved

(* A step of other goroutines that keeps signals, or gives one.            *)
LEMMA OthersWake ==
  ASSUME WInv, UNCHANGED <<worker, mut>>,
         \/ UNCHANGED <<base, lanes>> /\ (Signalled => Signalled')
         \/ Signalled' /\ (base' = <<>> => base = <<>>)
  PROVE  WInv'
<1>1. (Active' <=> Active) /\ \A p \in Worker : Moved(p)' <=> Moved(p)
  BY DEF Active, Moved
<1>2. BaseSeen'
  BY <1>1 DEF WInv, BaseSeen
<1>3. LaneSeen'
  BY <1>1 DEF WInv, LaneSeen
<1>4. Robbed' /\ Mutex' /\ Unmoved'
  BY <1>1 DEF WInv, Robbed, Mutex, Unmoved
<1> QED BY <1>2, <1>3, <1>4 DEF WInv

(* A step after which a worker is active and nobody is newly in step.      *)
LEMMA ActiveWake ==
  ASSUME TypeOK, WInv, NEW p \in Worker, NEW s, worker' = [worker EXCEPT ![p] = s],
         s.pc \in {"call", "hold", "left"}, worker[p].pc # "step", mut' = mut
  PROVE  WInv'
<1>1. worker'[p] = s /\ \A q \in Worker : q # p => worker'[q] = worker[q]
  BY DEF TypeOK
<1>2. Active' /\ worker'[p].pc \in {"call", "hold", "left"}
  BY <1>1 DEF Active
<1>3. BaseSeen' /\ LaneSeen' /\ Robbed'
  BY <1>2 DEF BaseSeen, LaneSeen, Robbed
<1>4. Mutex'
  BY <1>1 DEF WInv, Mutex
<1>5. Unmoved'
  BY <1>1 DEF WInv, Unmoved
<1> QED BY <1>3, <1>4, <1>5 DEF WInv

LEMMA GetWake ==
  ASSUME TypeOK, WInv, NEW p \in Worker, GetBase(p) \/ Wake(p) \/ Leave(p) \/ Finish(p)
  PROVE  WInv'
<1>1. CASE GetBase(p)
  <2> DEFINE s == [NoWorker EXCEPT !.pc = "hold", !.item = Head(base)]
  <2>1. worker' = [worker EXCEPT ![p] = s] /\ worker[p].pc # "step" /\ mut' = mut
    BY <1>1 DEF GetBase
  <2>2. s.pc = "hold"
    BY DEF NoWorker
  <2> HIDE DEF s
  <2> QED BY Zenon, <2>1, <2>2, ActiveWake
<1>2. CASE Wake(p)
  <2>1. worker' = [worker EXCEPT ![p] = NoWorker] /\ worker[p].pc # "step" /\ mut' = mut
    BY <1>2 DEF Wake
  <2>2. NoWorker.pc = "call"
    BY DEF NoWorker
  <2> QED BY Zenon, <2>1, <2>2, ActiveWake
<1>3. CASE Leave(p)
  <2> DEFINE s == [NoWorker EXCEPT !.pc = "left"]
  <2>1. worker' = [worker EXCEPT ![p] = s] /\ worker[p].pc # "step" /\ mut' = mut
    BY <1>3 DEF Leave
  <2>2. s.pc = "left"
    BY DEF NoWorker
  <2> HIDE DEF s
  <2> QED BY Zenon, <2>1, <2>2, ActiveWake
<1>4. CASE Finish(p)
  <2> DEFINE s == [NoWorker EXCEPT !.pc = IF done THEN "left" ELSE "call"]
  <2>1. worker' = [worker EXCEPT ![p] = s] /\ worker[p].pc # "step" /\ mut' = mut
    BY <1>4 DEF Finish
  <2>2. s.pc \in {"left", "call"}
    BY DEF NoWorker
  <2> HIDE DEF s
  <2> QED BY Zenon, <2>1, <2>2, ActiveWake
<1> QED BY <1>1, <1>2, <1>3, <1>4

LEMMA EmptyWake ==
  ASSUME TypeOK, WInv, NEW p \in Worker, BaseEmpty(p)
  PROVE  WInv'
<1>1. /\ worker[p].pc = "call" /\ base' = <<>> /\ mut' = mut
      /\ worker' = [worker EXCEPT ![p] = [worker[p] EXCEPT !.pc = "lock"]]
  BY DEF BaseEmpty, listVars, TypeOK
<1>2. /\ worker'[p].pc = "lock" /\ \A q \in Worker : q # p => worker'[q] = worker[q]
  BY <1>1 DEF TypeOK, WorkerState
<1>3. Active'
  BY <1>2 DEF Active
<1>4. BaseSeen' /\ LaneSeen' /\ Robbed'
  BY <1>1, <1>3 DEF BaseSeen, LaneSeen, Robbed
<1>5. Mutex' /\ Unmoved'
  BY <1>1, <1>2 DEF WInv, Mutex, Unmoved
<1> QED BY <1>4, <1>5 DEF WInv

LEMMA StolenWake ==
  ASSUME TypeOK, WInv, NEW p \in Worker, Stolen(p)
  PROVE  WInv'
<1>1. /\ worker[p].pc = "again" /\ base = <<>> /\ UNCHANGED <<base, lanes, mut, token, loop, client>>
      /\ worker' = [worker EXCEPT ![p] = [NoWorker EXCEPT !.pc = "wait"]]
  BY DEF Stolen, listVars, otherThanWorker
<1>2. /\ worker'[p].pc = "wait" /\ \A q \in Worker : q # p => worker'[q] = worker[q]
  BY <1>1 DEF TypeOK, NoWorker
<1>3. (Signalled' <=> Signalled) /\ (Active => Active')
  BY <1>1, <1>2 DEF Signalled, Active
<1>4. BaseSeen'
  BY <1>1 DEF BaseSeen
<1>5. LaneSeen'
  BY <1>1, <1>2, <1>3 DEF WInv, LaneSeen
<1>6. Robbed'
  BY <1>1, <1>2, <1>3 DEF WInv, Robbed, Moved
<1>7. Mutex' /\ Unmoved'
  BY <1>1, <1>2 DEF WInv, Mutex, Unmoved
<1> QED BY <1>4, <1>5, <1>6, <1>7 DEF WInv

LEMMA LockWake ==
  ASSUME TypeOK, WInv, NEW p \in Worker, StepLock(p)
  PROVE  WInv'
<1>1. /\ worker[p].pc = "lock" /\ mut = Nobody /\ mut' = p
      /\ UNCHANGED <<base, lanes, token, loop, client>>
      /\ worker' = [worker EXCEPT ![p] =
                      [NoWorker EXCEPT !.pc = "step", !.at = MaxWeight, !.left = MaxWeight]]
  BY DEF StepLock, listVars, otherThanWorker
<1>2. /\ worker'[p].pc = "step" /\ worker'[p].at = MaxWeight /\ worker'[p].left = MaxWeight
      /\ worker'[p].added = FALSE
      /\ \A q \in Worker : q # p => worker'[q] = worker[q]
  BY <1>1 DEF TypeOK, NoWorker
<1>3. \A q \in Worker : worker[q].pc # "step"
  BY <1>1, QueueAssumption DEF WInv, Mutex
<1>4. Signalled' <=> Signalled
  BY <1>1 DEF Signalled
<1>5. \A q \in Worker : ~Moved(q) /\ ~Moved(q)'
  BY <1>2, <1>3 DEF Moved
<1>6. BaseSeen'
  BY <1>1, <1>2, <1>4, <1>5 DEF WInv, BaseSeen
<1>7. LaneSeen'
  <2>1. \A w \in Lane : worker'[p].at >= w
    BY <1>2, QueueAssumption DEF Lane
  <2> QED BY <1>2, <2>1 DEF LaneSeen
<1>8. Robbed'
  BY <1>5 DEF Robbed
<1>9. Mutex' /\ Unmoved'
  BY <1>1, <1>2, <1>3 DEF Mutex, Unmoved
<1> QED BY <1>6, <1>7, <1>8, <1>9 DEF WInv

LEMMA MoveWake ==
  ASSUME IInv, WInv, NEW p \in Worker, StepMove(p)
  PROVE  WInv'
<1>0. TypeOK /\ ListsOnce
  BY DEF IInv
<1>1. base' # <<>>
  BY <1>0, MoveFacts
<1>2. /\ worker[p].pc = "step" /\ mut' = mut
      /\ worker' = [worker EXCEPT ![p] = [worker[p] EXCEPT !.left = @ - 1, !.added = TRUE]]
  BY ZenonT(60), <1>0 DEF StepMove, TypeOK
<1>3. /\ worker'[p].pc = "step" /\ worker'[p].added = TRUE
      /\ \A q \in Worker : q # p => worker'[q] = worker[q]
  BY <1>0, <1>2 DEF TypeOK, WorkerState
<1>4. Moved(p)'
  BY <1>3 DEF Moved
<1>5. BaseSeen' /\ LaneSeen' /\ Robbed'
  BY <1>1, <1>4 DEF BaseSeen, LaneSeen, Robbed
<1>6. Mutex' /\ Unmoved'
  BY <1>2, <1>3 DEF WInv, Mutex, Unmoved
<1> QED BY <1>5, <1>6 DEF WInv

(* Where step passes a list that is not empty, it has moved something.     *)
LEMMA Exhausted ==
  ASSUME TypeOK, WInv, NEW p \in Worker, worker[p].pc = "step", ~CanMove(p),
         lanes[worker[p].at] # <<>>
  PROVE  Moved(p) /\ (base = <<>> => Active)
<1>1. worker[p] \in WorkerState
  BY DEF TypeOK
<1>2. worker[p].at \in Lane /\ worker[p].left \in Weight /\ ~(worker[p].left > 0)
  BY <1>1 DEF WorkerState, CanMove
<1>3. worker[p].left # worker[p].at
  BY <1>2 DEF Lane, Weight
<1>4. Moved(p)
  BY <1>3 DEF WInv, Unmoved, Moved
<1> QED BY <1>4 DEF WInv, Robbed

LEMMA DownWake ==
  ASSUME TypeOK, WInv, NEW p \in Worker, StepDown(p)
  PROVE  WInv'
<1>0. worker[p] \in WorkerState
  BY DEF TypeOK
<1>1. /\ worker[p].pc = "step" /\ ~CanMove(p) /\ UNCHANGED <<base, lanes, mut, token, loop, client>>
      /\ worker' = [worker EXCEPT ![p] = [worker[p] EXCEPT !.at = @ - 1, !.left = worker[p].at - 1]]
  BY ZenonT(60) DEF StepDown, listVars, otherThanWorker, TypeOK
<1>2. /\ worker'[p].pc = "step" /\ worker'[p].added = worker[p].added
      /\ worker'[p].at = worker[p].at - 1 /\ worker'[p].left = worker'[p].at
      /\ \A q \in Worker : q # p => worker'[q] = worker[q]
  BY <1>0, <1>1 DEF TypeOK, WorkerState
<1>3. worker[p].at \in Lane
  BY <1>0, <1>1 DEF WorkerState
<1>4. /\ Signalled' <=> Signalled
      /\ Active' <=> Active
      /\ \A q \in Worker : Moved(q)' <=> Moved(q)
  <2>1. \A q \in Worker : worker'[q].pc = worker[q].pc /\ worker'[q].added = worker[q].added
    BY <1>1, <1>2
  <2> QED BY <1>1, <2>1 DEF Signalled, Active, Moved
<1>5. \A q \in Worker : worker'[q].pc = worker[q].pc
  BY <1>1, <1>2
<1>6. BaseSeen'
  BY <1>1, <1>4, <1>5 DEF WInv, BaseSeen
<1>7. ASSUME NEW w \in Lane, lanes'[w] # <<>>
      PROVE  \/ Signalled' \/ Active'
             \/ \E q \in Worker : worker'[q].pc = "step" /\ worker'[q].at >= w
             \/ base' # <<>> /\ \E q \in Worker : worker'[q].pc = "again" \/ Moved(q)'
  <2>1. \/ Signalled \/ Active
        \/ \E q \in Worker : worker[q].pc = "step" /\ worker[q].at >= w
        \/ base # <<>> /\ \E q \in Worker : worker[q].pc = "again" \/ Moved(q)
    BY <1>1, <1>7 DEF WInv, LaneSeen
  <2>2. ASSUME NEW q \in Worker, worker[q].pc = "step", worker[q].at >= w, q # p
        PROVE  worker'[q].pc = "step" /\ worker'[q].at >= w
    BY <1>2, <2>2
  <2>3. CASE worker[p].at > w
    <3>1. worker'[p].at >= w
      BY <1>2, <1>3, <2>3 DEF Lane
    <3> QED BY <1>2, <3>1
  <2>4. CASE worker[p].at = w
    <3>1. Moved(p) /\ (base = <<>> => Active)
      BY <1>1, <1>7, <2>4, Exhausted
    <3> QED BY <1>1, <1>4, <3>1
  <2>5. worker[p].at >= w => worker[p].at > w \/ worker[p].at = w
    BY <1>3 DEF Lane
  <2> QED BY <1>1, <1>4, <1>5, <2>1, <2>2, <2>3, <2>4, <2>5
<1>8. LaneSeen'
  BY <1>7 DEF LaneSeen
<1>9. Robbed' /\ Mutex' /\ Unmoved'
  BY <1>1, <1>2, <1>4, <1>5 DEF WInv, Robbed, Mutex, Unmoved
<1> QED BY <1>6, <1>8, <1>9 DEF WInv

LEMMA UnlockWake ==
  ASSUME TypeOK, WInv, NEW p \in Worker, StepUnlock(p)
  PROVE  WInv'
<1>1. /\ worker[p].pc = "step" /\ ~CanMove(p) /\ worker[p].at = 1 /\ mut' = Nobody
      /\ UNCHANGED <<base, lanes, token, loop, client>>
      /\ worker' = [worker EXCEPT ![p] =
                      [NoWorker EXCEPT !.pc = IF worker[p].added THEN "again" ELSE "wait"]]
  BY DEF StepUnlock, listVars, otherThanWorker
<1>2. /\ worker'[p].pc = IF worker[p].added THEN "again" ELSE "wait"
      /\ \A q \in Worker : q # p => worker'[q] = worker[q]
  BY <1>1 DEF TypeOK, NoWorker
<1>3. mut = p /\ \A q \in Worker : q # p => worker[q].pc # "step"
  BY <1>1 DEF WInv, Mutex
<1>4. \A q \in Worker : worker'[q].pc # "step"
  BY <1>2, <1>3
<1>5. (Signalled' <=> Signalled) /\ (Active => Active')
  BY <1>1, <1>2 DEF Signalled, Active
<1>6. \A q \in Worker : Moved(q) => q = p /\ worker'[p].pc = "again"
  BY <1>2, <1>3 DEF Moved
<1>7. BaseSeen'
  BY <1>1, <1>2, <1>5, <1>6 DEF WInv, BaseSeen
<1>8. ASSUME NEW w \in Lane, lanes'[w] # <<>>
      PROVE  Signalled' \/ Active' \/ (base' # <<>> /\ \E q \in Worker : worker'[q].pc = "again")
  <2>1. \/ Signalled \/ Active
        \/ \E q \in Worker : worker[q].pc = "step" /\ worker[q].at >= w
        \/ base # <<>> /\ \E q \in Worker : worker[q].pc = "again" \/ Moved(q)
    BY <1>1, <1>8 DEF WInv, LaneSeen
  <2>2. ASSUME NEW q \in Worker, worker[q].pc = "step", worker[q].at >= w
        PROVE  Active' \/ (base' # <<>> /\ worker'[p].pc = "again")
    <3>1. worker[p].at = w
      BY <1>1, <1>3, <2>2 DEF Lane
    <3>2. Moved(p) /\ (base = <<>> => Active)
      BY <1>1, <1>8, <3>1, Exhausted
    <3> QED BY <1>1, <1>5, <1>6, <3>2
  <2>3. ASSUME NEW q \in Worker, worker[q].pc = "again" \/ Moved(q)
        PROVE  \E r \in Worker : worker'[r].pc = "again"
    BY <1>1, <1>2, <1>6, <2>3
  <2> QED BY <1>1, <1>5, <2>1, <2>2, <2>3
<1>9. LaneSeen'
  BY <1>8 DEF LaneSeen
<1>10. Robbed' /\ Unmoved'
  BY <1>4 DEF Robbed, Moved, Unmoved
<1>11. Mutex'
  BY <1>1, <1>4, QueueAssumption DEF Mutex
<1> QED BY <1>7, <1>9, <1>10, <1>11 DEF WInv

LEMMA OthersSignal ==
  ASSUME TypeOK,
         \/ \E c \in Client : ClientStep(c)
         \/ Loop \/ Close \/ Tick \/ UNCHANGED vars
  PROVE  /\ UNCHANGED <<worker, mut>>
         /\ \/ UNCHANGED <<base, lanes>> /\ (Signalled => Signalled')
            \/ Signalled' /\ (base' = <<>> => base = <<>>)
<1> DEFINE Goal == /\ UNCHANGED <<worker, mut>>
                   /\ \/ UNCHANGED <<base, lanes>> /\ (Signalled => Signalled')
                      \/ Signalled' /\ (base' = <<>> => base = <<>>)
<1> USE DEF listVars, ghosts
<1>1. ASSUME NEW i \in Item, NEW w \in Weight, Enlist(i, w) PROVE base' = <<>> => base = <<>>
  <2>1. base \in Seq(Item)
    BY DEF TypeOK
  <2>2. Append(base, i) # <<>>
    BY <2>1, AppendIn
  <2> QED BY <1>1, <2>2 DEF Enlist
<1>2. ASSUME NEW c \in Client, ClientStep(c) PROVE Goal
  <2>1. CASE Signal(c)
    <3>1. /\ token' = (token \/ client[c] = "token") /\ client' = [client EXCEPT ![c] = "idle"]
          /\ UNCHANGED <<base, lanes, worker, mut, loop>>
      BY <2>1 DEF Signal
    <3>2. \A b \in Client : b # c => client'[b] = client[b]
      BY <3>1 DEF TypeOK
    <3>3. Signalled => Signalled'
      BY ZenonT(60), <3>1, <3>2 DEF Signalled
    <3> QED BY <3>1, <3>3
  <2>2. ASSUME NEW i \in Item, Cancel(c, i) PROVE Goal
    <3>1. UNCHANGED <<base, lanes, worker, mut, loop, token, client>>
      BY <2>2 DEF Cancel
    <3> QED BY <3>1 DEF Signalled
  <2>3. ASSUME NEW i \in Item, NEW w \in Weight, AddWeight(c, i, w) PROVE Goal
    <3>1. client'[c] = "token" /\ UNCHANGED <<worker, mut>> /\ Enlist(i, w)
      BY <2>3 DEF AddWeight, TypeOK
    <3>2. base' = <<>> => base = <<>>
      BY <1>1, <3>1
    <3> QED BY <3>1, <3>2 DEF Signalled
  <2>4. ASSUME NEW i \in Item, NEW w \in Weight, NEW d \in 1..MaxTime, AddWeightAfter(c, i, w, d)
        PROVE  Goal
    <3>1. /\ client[c] = "idle" /\ client' = [client EXCEPT ![c] = "kick"]
          /\ UNCHANGED <<base, lanes, worker, mut, loop, token>>
      BY <2>4 DEF AddWeightAfter
    <3>2. \A b \in Client : b # c => client'[b] = client[b]
      BY <3>1 DEF TypeOK
    <3>3. Signalled => Signalled'
      BY <3>1, <3>2 DEF Signalled
    <3> QED BY <3>1, <3>3
  <2> QED BY <1>2, <2>1, <2>2, <2>3, <2>4 DEF ClientStep
<1>3. CASE LoopAdd
  <2>1. loop'.pc = "signal" /\ UNCHANGED <<worker, mut>> /\ Enlist(loop.item, loop.weight)
    BY <1>3 DEF LoopAdd, NoLoop
  <2>2. loop.item \in Item /\ loop.weight \in Weight
    BY <1>3 DEF LoopAdd, TypeOK, LoopState
  <2>3. base' = <<>> => base = <<>>
    BY <1>1, <2>1, <2>2
  <2> QED BY <2>1, <2>3 DEF Signalled
<1>4. CASE LoopSignal
  <2>1. token' = TRUE /\ UNCHANGED <<base, lanes, worker, mut>>
    BY <1>4 DEF LoopSignal
  <2> QED BY <2>1 DEF Signalled
<1>5. CASE LoopNext \/ LoopTimer \/ LoopKicked
  <2>1. loop.pc # "signal" /\ UNCHANGED <<base, lanes, worker, mut, token, client>>
    BY Zenon, <1>5 DEF LoopNext, LoopTimer, LoopKicked
  <2> QED BY <2>1 DEF Signalled
<1>6. CASE Close \/ Tick \/ UNCHANGED vars
  <2>1. UNCHANGED <<base, lanes, worker, mut, token, client, loop>>
    BY <1>6 DEF Close, Tick, vars
  <2> QED BY <2>1 DEF Signalled
<1>7. CASE Loop
  BY <1>3, <1>4, <1>5, <1>7 DEF Loop
<1> QED BY <1>2, <1>6, <1>7

LEMMA WInvStep ==
  ASSUME IInv, WInv, [Next]_vars
  PROVE  WInv'
<1>0. TypeOK
  BY DEF IInv
<1>1. ASSUME NEW p \in Worker, Serve(p) PROVE WInv'
  BY <1>0, <1>1, GetWake, EmptyWake, StolenWake, LockWake, MoveWake, DownWake, UnlockWake DEF Serve
<1>2. CASE (\E c \in Client : ClientStep(c)) \/ Loop \/ Close \/ Tick \/ UNCHANGED vars
  BY <1>0, <1>2, OthersSignal, OthersWake
<1> QED BY <1>1, <1>2 DEF Next

(* No entry of a heap is slept through.                                    *)
Kicked == kick \/ \E c \in Client : client[c] = "kick"

SleepSafe ==
  loop.pc = "sleep" =>
    Kicked \/ \A w \in Weight, i \in Item : heap[w][i] # 0 => ~(heap[w][i] < loop.until)

LEMMA SleepStep ==
  ASSUME TypeOK, SleepSafe, [Next]_vars
  PROVE  SleepSafe'
<1> USE DEF listVars, ghosts, otherThanWorker
<1>1. ASSUME NEW c \in Client, ClientStep(c) PROVE SleepSafe'
  <2>1. CASE Signal(c)
    <3>1. /\ kick' = (kick \/ client[c] = "kick") /\ client' = [client EXCEPT ![c] = "idle"]
          /\ UNCHANGED <<heap, loop>>
      BY <2>1 DEF Signal
    <3>2. \A b \in Client : b # c => client'[b] = client[b]
      BY <3>1 DEF TypeOK
    <3>3. Kicked => Kicked'
      BY ZenonT(60), <3>1, <3>2 DEF Kicked
    <3> QED BY <3>1, <3>3 DEF SleepSafe
  <2>2. ASSUME NEW x \in Item, Cancel(c, x) PROVE SleepSafe'
    <3>1. /\ heap' = [w \in Weight |-> [heap[w] EXCEPT ![x] = 0]]
          /\ UNCHANGED <<kick, client, loop>>
      BY <2>2 DEF Cancel
    <3>2. \A w \in Weight, i \in Item : heap'[w][i] # 0 => heap'[w][i] = heap[w][i]
      BY <3>1 DEF TypeOK
    <3> QED BY <3>1, <3>2 DEF SleepSafe, Kicked
  <2>3. ASSUME NEW x \in Item, NEW v \in Weight, AddWeight(c, x, v) PROVE SleepSafe'
    <3>1. /\ client[c] = "idle" /\ client' = [client EXCEPT ![c] = "token"]
          /\ UNCHANGED <<heap, loop, kick>>
      BY <2>3 DEF AddWeight
    <3>2. \A b \in Client : b # c => client'[b] = client[b]
      BY <3>1 DEF TypeOK
    <3>3. Kicked => Kicked'
      BY <3>1, <3>2 DEF Kicked
    <3> QED BY <3>1, <3>3 DEF SleepSafe
  <2>4. ASSUME NEW x \in Item, NEW v \in Weight, NEW d \in 1..MaxTime, AddWeightAfter(c, x, v, d)
        PROVE  SleepSafe'
    <3>1. client'[c] = "kick"
      BY <2>4 DEF AddWeightAfter, TypeOK
    <3> QED BY <3>1 DEF SleepSafe, Kicked
  <2> QED BY <1>1, <2>1, <2>2, <2>3, <2>4 DEF ClientStep
<1>2. CASE LoopNext
  <2>1. ASSUME NEW w \in Weight, NEW i \in Item, Takes(w, i) PROVE SleepSafe'
    BY <2>1 DEF Takes, SleepSafe
  <2>2. ASSUME NEW u \in Nat, Sleeps(u) PROVE SleepSafe'
    <3>1. /\ heap' = heap /\ loop'.until = u
          /\ \A w \in Weight, i \in Item : heap[w][i] # 0 => u <= heap[w][i]
      BY <2>2 DEF Sleeps
    <3>2. \A w \in Weight, i \in Item : heap[w][i] \in Nat
      BY DEF TypeOK
    <3>3. \A w \in Weight, i \in Item : heap[w][i] # 0 => ~(heap[w][i] < u)
      BY <3>1, <3>2
    <3> QED BY <3>1, <3>3 DEF SleepSafe
  <2> QED BY <1>2, <2>1, <2>2, LoopNextFacts
<1>3. CASE LoopAdd \/ LoopSignal \/ LoopTimer \/ LoopKicked
  <2>1. loop'.pc # "sleep"
    BY <1>3 DEF LoopAdd, LoopSignal, LoopTimer, LoopKicked, NoLoop
  <2> QED BY <2>1 DEF SleepSafe
<1>4. ASSUME NEW p \in Worker, Serve(p) PROVE SleepSafe'
  <2>1. UNCHANGED <<heap, loop, kick, client>>
    BY <1>4 DEF Serve, GetBase, BaseEmpty, Stolen, StepLock, StepMove, StepDown, StepUnlock,
                Wake, Leave, Finish
  <2> QED BY <2>1 DEF SleepSafe, Kicked
<1>5. CASE Close \/ Tick \/ UNCHANGED vars
  <2>1. UNCHANGED <<heap, loop, kick, client>>
    BY <1>5 DEF Close, Tick, vars
  <2> QED BY <2>1 DEF SleepSafe, Kicked
<1> QED BY <1>1, <1>2, <1>3, <1>4, <1>5 DEF Next, Loop

LEMMA WakeInit == Init => WInv /\ SleepSafe
<1> SUFFICES ASSUME Init PROVE WInv /\ SleepSafe
  OBVIOUS
<1>1. /\ base = <<>> /\ \A w \in Lane : lanes[w] = <<>>
      /\ loop.pc = "next" /\ mut = Nobody
      /\ \A p \in Worker : worker[p].pc = "call"
  BY DEF Init, NoLoop, NoWorker
<1>2. BaseSeen /\ LaneSeen /\ SleepSafe
  BY <1>1 DEF BaseSeen, LaneSeen, SleepSafe
<1>3. Robbed /\ Unmoved
  BY <1>1 DEF Robbed, Moved, Unmoved
<1>4. Mutex
  BY <1>1, QueueAssumption DEF Mutex
<1> QED BY <1>2, <1>3, <1>4 DEF WInv

LEMMA WakeMeans ==
  ASSUME TypeOK, WInv, SleepSafe
  PROVE  NoLostWakeup
<1>1. ASSUME \A p \in Worker : worker[p].pc = "wait", NEW i \in Item, InLists(i)
      PROVE  Signalled
  <2>1. ~Active /\ \A p \in Worker : ~Moved(p)
    BY <1>1 DEF Active, Moved
  <2>2. base \in Seq(Item) /\ \A w \in Lane : lanes[w] \in Seq(Item)
    BY DEF TypeOK
  <2>3. CASE InList(base, i)
    <3>1. base # <<>>
      BY <2>2, <2>3, MembersIn
    <3> QED BY <1>1, <2>1, <3>1 DEF WInv, BaseSeen
  <2>4. ASSUME NEW w \in Lane, InList(lanes[w], i) PROVE Signalled
    <3>1. lanes[w] # <<>>
      BY <2>2, <2>4, MembersIn
    <3> QED BY <1>1, <2>1, <3>1 DEF WInv, LaneSeen
  <2> QED BY <1>1, <2>3, <2>4 DEF InLists
<1>2. (\A p \in Worker : worker[p].pc = "wait") /\ (\E i \in Item : InLists(i)) => Signalled
  BY <1>1
<1>3. (/\ loop.pc = "sleep"
       /\ \E w \in Weight, i \in Item : heap[w][i] # 0 /\ heap[w][i] < loop.until) => Kicked
  BY DEF SleepSafe
<1> QED BY <1>2, <1>3 DEF NoLostWakeup, Signalled, Kicked

(* Workers never all wait in GetOrWaitWithDone while an item is ready and  *)
(* no signal is under way, and loopWorker never sleeps past a heap entry   *)
(* without one.                                                            *)
THEOREM WakeupsKept == Spec => []NoLostWakeup
<1>1. Init => WInv /\ SleepSafe
  BY WakeInit
<1>2. IInv /\ (WInv /\ SleepSafe) /\ [Next]_vars => (WInv /\ SleepSafe)'
  <2>1. ASSUME IInv, WInv, SleepSafe, [Next]_vars PROVE WInv' /\ SleepSafe'
    <3>1. TypeOK
      BY <2>1 DEF IInv
    <3> QED BY <2>1, <3>1, WInvStep, SleepStep
  <2> QED BY <2>1
<1>3. IInv /\ (WInv /\ SleepSafe) => NoLostWakeup
  <2>1. IInv => TypeOK
    BY DEF IInv
  <2> QED BY <2>1, WakeMeans
<1> QED BY <1>1, <1>2, <1>3, IInvAlways, PTL DEF Spec

-----------------------------------------------------------------------------
(* The list Get reads does not fill up with retried items.  A worker that  *)
(* is about to enter step, or is in it, may still move Credit items of     *)
(* weight w; with those the list holds it stays below the bound, and step  *)
(* is entered only after the list was seen empty.                          *)

Held(w) == {i \in Item : InList(base, i) /\ lane[i] = w}

Credit(s, w) ==
  IF s.pc = "lock" \/ (s.pc = "step" /\ s.at > w) THEN w
  ELSE IF s.pc = "step" /\ s.at = w THEN s.left ELSE 0

Owed(w) == {t \in Worker \X (1..w) : t[2] <= Credit(worker[t[1]], w)}

Bound(w) ==
  /\ IsFiniteSet(Held(w))
  /\ Cardinality(Held(w)) + Cardinality(Owed(w)) <= Cardinality(Worker) * w

(* An item is in the heap, in the hand of loopWorker and in the list of    *)
(* the weight it was added with.                                           *)
Laned(i) ==
  /\ \A w \in Lane : InList(lanes[w], i) => lane[i] = w
  /\ \A w \in Weight : heap[w][i] # 0 => lane[i] = w
  /\ InHand(i) => loop.weight = lane[i]

InStep(p) == worker[p].pc = "step" => worker[p].left <= worker[p].at

PInv ==
  /\ \A i \in Item : Laned(i)
  /\ \A p \in Worker : InStep(p)
  /\ \A w \in Lane : Bound(w)

LEMMA CreditNat ==
  ASSUME NEW s \in WorkerState, NEW w \in Lane
  PROVE  Credit(s, w) \in Nat /\ w \in Nat
  BY QueueAssumption DEF WorkerState, Credit, Lane, Weight

LEMMA OwedFinite ==
  ASSUME IsFiniteSet(Worker), NEW w \in Lane
  PROVE  /\ IsFiniteSet(Worker \X (1..w))
         /\ Cardinality(Worker \X (1..w)) = Cardinality(Worker) * w
         /\ Cardinality(Worker) * w \in Nat
         /\ IsFiniteSet(Owed(w)) /\ Cardinality(Owed(w)) \in Nat
         /\ Cardinality(Owed(w)) <= Cardinality(Worker) * w
<1>1. w \in Nat /\ 1 \in Int /\ w \in Int
  BY QueueAssumption DEF Lane
<1>2. IsFiniteSet(1..w) /\ Cardinality(1..w) = IF 1 > w THEN 0 ELSE w - 1 + 1
  BY Zenon, <1>1, FS_Interval
<1>3. Cardinality(1..w) = w
  BY <1>1, <1>2
<1>4. /\ IsFiniteSet(Worker \X (1..w))
      /\ Cardinality(Worker \X (1..w)) = Cardinality(Worker) * w
  BY ZenonT(60), <1>2, <1>3, FS_Product
<1>5. Owed(w) \subseteq Worker \X (1..w)
  BY DEF Owed
<1>6. /\ IsFiniteSet(Owed(w))
      /\ Cardinality(Owed(w)) <= Cardinality(Worker \X (1..w))
  BY Zenon, <1>4, <1>5, FS_Subset
<1>7. Cardinality(Owed(w)) \in Nat /\ Cardinality(Worker \X (1..w)) \in Nat
  BY Zenon, <1>4, <1>6, FS_CardinalityType
<1> QED BY Zenon, <1>4, <1>6, <1>7

(* Fewer items held and less credit keep the bound.                        *)
LEMMA BoundShrinks ==
  ASSUME IsFiniteSet(Worker), TypeOK, TypeOK', NEW w \in Lane, Bound(w),
         \A i \in Item : InList(base', i) /\ lane'[i] = w => InList(base, i) /\ lane[i] = w,
         \A p \in Worker : Credit(worker'[p], w) <= Credit(worker[p], w)
  PROVE  Bound(w)'
<1>1. Held(w)' \subseteq Held(w)
  BY DEF Held
<1>2. Owed(w)' \subseteq Owed(w)
  <2> SUFFICES ASSUME NEW p \in Worker, NEW k \in 1..w, k <= Credit(worker'[p], w)
               PROVE  k <= Credit(worker[p], w)
    BY DEF Owed
  <2>1. worker[p] \in WorkerState /\ worker'[p] \in WorkerState
    BY DEF TypeOK
  <2>2. Credit(worker[p], w) \in Nat /\ Credit(worker'[p], w) \in Nat /\ w \in Nat
    BY <2>1, CreditNat
  <2>3. Credit(worker'[p], w) <= Credit(worker[p], w)
    OBVIOUS
  <2> QED BY <2>2, <2>3
<1>3. IsFiniteSet(Held(w)) /\ IsFiniteSet(Owed(w)) /\ Cardinality(Owed(w)) \in Nat
      /\ Cardinality(Worker) * w \in Nat
  BY Zenon, OwedFinite DEF Bound
<1>4. /\ IsFiniteSet(Held(w)') /\ Cardinality(Held(w)') <= Cardinality(Held(w))
      /\ Cardinality(Owed(w)') <= Cardinality(Owed(w)) /\ IsFiniteSet(Owed(w)')
  BY Zenon, <1>1, <1>2, <1>3, FS_Subset
<1>5. /\ Cardinality(Held(w)) \in Nat /\ Cardinality(Held(w)') \in Nat
      /\ Cardinality(Owed(w)') \in Nat
  BY Zenon, <1>3, <1>4, FS_CardinalityType
<1>6. Cardinality(Held(w)) + Cardinality(Owed(w)) <= Cardinality(Worker) * w
  BY DEF Bound
<1>7. Cardinality(Held(w)') + Cardinality(Owed(w)') <= Cardinality(Worker) * w
  BY <1>3, <1>4, <1>5, <1>6
<1> QED BY <1>4, <1>7 DEF Bound

(* An empty list keeps it whatever the credit is, before and after a step. *)
LEMMA BoundEmpty ==
  ASSUME IsFiniteSet(Worker), NEW w \in Lane
  PROVE  (base = <<>> => Bound(w)) /\ (base' = <<>> => Bound(w)')
<1>1. \A i : ~InList(<<>>, i)
  BY DEF InList
<1>2. IsFiniteSet({}) /\ Cardinality({}) = 0
  BY FS_EmptySet
<1>3. ASSUME NEW O \in SUBSET (Worker \X (1..w))
      PROVE  Cardinality({}) + Cardinality(O) <= Cardinality(Worker) * w
  <2>1. /\ IsFiniteSet(Worker \X (1..w)) /\ Cardinality(Worker) * w \in Nat
        /\ Cardinality(Worker \X (1..w)) = Cardinality(Worker) * w
    BY Zenon, OwedFinite
  <2>2. IsFiniteSet(O) /\ Cardinality(O) <= Cardinality(Worker \X (1..w))
    BY Zenon, <2>1, FS_Subset
  <2>3. Cardinality(O) \in Nat
    BY Zenon, <2>2, FS_CardinalityType
  <2> QED BY <1>2, <2>1, <2>2, <2>3
<1>4. ASSUME base = <<>> PROVE Bound(w)
  <2>1. Held(w) = {} /\ Owed(w) \in SUBSET (Worker \X (1..w))
    BY <1>1, <1>4 DEF Held, Owed
  <2> QED BY Zenon, <1>2, <1>3, <2>1 DEF Bound
<1>5. ASSUME base' = <<>> PROVE Bound(w)'
  <2>1. Held(w)' = {} /\ Owed(w)' \in SUBSET (Worker \X (1..w))
    BY <1>1, <1>5 DEF Held, Owed
  <2> QED BY Zenon, <1>2, <1>3, <2>1 DEF Bound
<1> QED BY <1>4, <1>5

(* An item that step moves is paid for with the credit of its worker.      *)
LEMMA BoundMove ==
  ASSUME IsFiniteSet(Worker), IInv, TypeOK', NEW p \in Worker, StepMove(p), PInv,
         NEW w \in Lane
  PROVE  Bound(w)'
<1> DEFINE s == worker[p]
           n == s.left
<1>0. TypeOK /\ ListsOnce /\ s \in WorkerState /\ p \in DOMAIN worker
  BY DEF IInv, TypeOK
<1>1. s.pc = "step" /\ s.at \in Lane /\ n > 0 /\ n <= s.at /\ n \in Nat /\ s.at \in Nat
  <2>1. s.pc = "step" /\ n > 0 /\ s.at \in Lane /\ n \in Weight
    BY <1>0 DEF StepMove, CanMove, WorkerState
  <2>2. n <= s.at
    BY <2>1 DEF PInv, InStep
  <2> QED BY <2>1, <2>2, QueueAssumption DEF Weight, Lane
<1>2. PICK v \in Lane, x \in Item :
           /\ InList(lanes[v], x) /\ v = s.at
           /\ \A j : InList(base', j) <=> InList(base, j) \/ j = x
  BY <1>0, MoveFacts
<1>3. lane' = lane /\ lane[x] = v
  BY <1>2 DEF StepMove, otherThanWorker, ghosts, PInv, Laned
<1>4. /\ worker'[p].pc = "step" /\ worker'[p].at = s.at /\ worker'[p].left = n - 1
      /\ \A q \in Worker : q # p => worker'[q] = worker[q]
  BY ZenonT(60), <1>0, <1>1 DEF StepMove, TypeOK, WorkerState
<1>5. CASE w # v
  <2>1. \A i \in Item : InList(base', i) /\ lane'[i] = w => InList(base, i) /\ lane[i] = w
    BY <1>2, <1>3, <1>5
  <2>2. Credit(worker'[p], w) = Credit(worker[p], w)
    BY <1>1, <1>2, <1>4, <1>5 DEF Credit
  <2>3. \A q \in Worker : Credit(worker'[q], w) <= Credit(worker[q], w)
    <3> SUFFICES ASSUME NEW q \in Worker PROVE Credit(worker'[q], w) <= Credit(worker[q], w)
      OBVIOUS
    <3>1. Credit(worker'[q], w) = Credit(worker[q], w)
      BY <1>4, <2>2
    <3>2. worker[q] \in WorkerState
      BY <1>0 DEF TypeOK
    <3>3. Credit(worker[q], w) \in Nat
      BY <3>2, CreditNat
    <3> QED BY <3>1, <3>3
  <2>4. Bound(w)
    BY DEF PInv
  <2> QED BY <1>0, <2>1, <2>3, <2>4, BoundShrinks
<1>6. CASE w = v
  <2>1. Held(w)' = Held(w) \cup {x}
    BY <1>2, <1>3, <1>6 DEF Held
  <2>2. Credit(worker[p], w) = n /\ Credit(worker'[p], w) = n - 1
    BY <1>1, <1>2, <1>4, <1>6 DEF Credit
  <2>3. n \in 1..w
    BY <1>1, <1>2, <1>6
  <2>4. Owed(w)' = Owed(w) \ {<<p, n>>}
    <3>1. ASSUME NEW q \in Worker, NEW k \in 1..w
          PROVE  k <= Credit(worker'[q], w) <=> k <= Credit(worker[q], w) /\ <<q, k>> # <<p, n>>
      BY <1>1, <1>4, <2>2, <2>3
    <3> QED BY <3>1 DEF Owed
  <2>5. <<p, n>> \in Owed(w)
    BY <1>1, <2>2, <2>3 DEF Owed
  <2>6. Bound(w) /\ IsFiniteSet(Owed(w)) /\ Cardinality(Owed(w)) \in Nat
        /\ Cardinality(Worker) * w \in Nat
    BY Zenon, OwedFinite DEF PInv
  <2>7. Cardinality(Owed(w)') = Cardinality(Owed(w)) - 1
    <3> DEFINE O == Owed(w)
               e == <<p, n>>
    <3>1. IsFiniteSet(O) /\ e \in O /\ Owed(w)' = O \ {e}
      BY Zenon, <2>4, <2>5, <2>6
    <3> HIDE DEF O, e
    <3>2. Cardinality(O \ {e}) = Cardinality(O) - 1
      BY Zenon, <3>1, FS_RemoveElement
    <3> QED BY <3>1, <3>2 DEF O
  <2>8. /\ IsFiniteSet(Held(w)') /\ Cardinality(Held(w)) \in Nat /\ Cardinality(Held(w)') \in Nat
        /\ Cardinality(Held(w)') <= Cardinality(Held(w)) + 1
    <3>1. IsFiniteSet(Held(w))
      BY <2>6 DEF Bound
    <3>2. /\ IsFiniteSet(Held(w) \cup {x})
          /\ Cardinality(Held(w) \cup {x}) =
               IF x \in Held(w) THEN Cardinality(Held(w)) ELSE Cardinality(Held(w)) + 1
      BY <3>1, FS_AddElement
    <3>3. Cardinality(Held(w)) \in Nat
      BY <3>1, FS_CardinalityType
    <3> QED BY <2>1, <3>2, <3>3
  <2>9. Cardinality(Held(w)) + Cardinality(Owed(w)) <= Cardinality(Worker) * w
    BY <2>6 DEF Bound
  <2>10. Cardinality(Held(w)') + Cardinality(Owed(w)') <= Cardinality(Worker) * w
    BY <2>6, <2>7, <2>8, <2>9
  <2> QED BY <2>8, <2>10 DEF Bound
<1> QED BY <1>5, <1>6

(* Nothing moves an item to another weight.                                *)
LEMMA LanedStep ==
  ASSUME IInv, \A i \in Item : Laned(i), [Next]_vars
  PROVE  \A i \in Item : Laned(i)'
<1> USE DEF listVars, ghosts
<1>0. TypeOK /\ ListsOnce
  BY DEF IInv
<1>1. ASSUME UNCHANGED <<lanes, heap, lane>>, \/ UNCHANGED loop
                                             \/ loop'.pc # "add"
      PROVE  \A i \in Item : Laned(i)'
  BY <1>1 DEF Laned, InHand
<1>2. ASSUME NEW c \in Client, ClientStep(c) PROVE \A i \in Item : Laned(i)'
  <2>1. CASE Signal(c)
    BY <1>1, <2>1 DEF Signal
  <2>2. ASSUME NEW x \in Item, Cancel(c, x) PROVE \A i \in Item : Laned(i)'
    <3>1. UNCHANGED <<lanes, loop, lane>>
      BY <2>2 DEF Cancel
    <3>2. \A w \in Weight, i \in Item : heap'[w][i] # 0 => heap[w][i] # 0
      BY <1>0, <2>2 DEF Cancel, TypeOK
    <3> QED BY <3>1, <3>2 DEF Laned, InHand
  <2>3. ASSUME NEW x \in Item, NEW u \in Weight, AddWeight(c, x, u)
        PROVE  \A i \in Item : Laned(i)'
    <3>1. /\ ~InQueue(x) /\ Enlist(x, u) /\ lane' = [lane EXCEPT ![x] = u]
          /\ UNCHANGED <<heap, loop>>
      BY <2>3 DEF AddWeight, Added
    <3>2. \A v \in Lane : \A j : InList(lanes'[v], j) <=> InList(lanes[v], j) \/ (v = u /\ j = x)
      BY <1>0, <3>1, EnlistFacts
    <3>3. lane'[x] = u /\ \A i \in Item : i # x => lane'[i] = lane[i]
      BY <1>0, <3>1 DEF TypeOK
    <3>4. ~InHand(x) /\ (\A v \in Lane : ~InList(lanes[v], x)) /\ \A v \in Weight : heap[v][x] = 0
      BY <3>1 DEF InQueue, InLists, InHeap
    <3> SUFFICES ASSUME NEW i \in Item PROVE Laned(i)'
      OBVIOUS
    <3>5. CASE i = x
      BY <3>1, <3>2, <3>3, <3>4, <3>5 DEF Laned, InHand
    <3>6. CASE i # x
      BY <3>1, <3>2, <3>3, <3>6 DEF Laned, InHand
    <3> QED BY <3>5, <3>6
  <2>4. ASSUME NEW x \in Item, NEW u \in Weight, NEW d \in 1..MaxTime, AddWeightAfter(c, x, u, d)
        PROVE  \A i \in Item : Laned(i)'
    <3>1. /\ ~InQueue(x) /\ heap' = [heap EXCEPT ![u][x] = now + d]
          /\ lane' = [lane EXCEPT ![x] = u] /\ UNCHANGED <<lanes, loop>>
      BY <2>4 DEF AddWeightAfter, Added, Push
    <3>2. \A v \in Weight, i \in Item : v # u \/ i # x => heap'[v][i] = heap[v][i]
      BY <1>0, <3>1 DEF TypeOK
    <3>3. lane'[x] = u /\ \A i \in Item : i # x => lane'[i] = lane[i]
      BY <1>0, <3>1 DEF TypeOK
    <3>4. ~InHand(x) /\ (\A v \in Lane : ~InList(lanes[v], x)) /\ \A v \in Weight : heap[v][x] = 0
      BY <3>1 DEF InQueue, InLists, InHeap
    <3> SUFFICES ASSUME NEW i \in Item PROVE Laned(i)'
      OBVIOUS
    <3>5. CASE i = x
      BY <3>1, <3>2, <3>3, <3>4, <3>5 DEF Laned, InHand
    <3>6. CASE i # x
      BY <3>1, <3>2, <3>3, <3>6 DEF Laned, InHand
    <3> QED BY <3>5, <3>6
  <2> QED BY <1>2, <2>1, <2>2, <2>3, <2>4 DEF ClientStep
<1>3. CASE Loop
  <2>1. CASE LoopNext
    <3>1. UNCHANGED <<lanes, lane>>
      BY <2>1 DEF LoopNext
    <3>2. ASSUME NEW u \in Weight, NEW x \in Item, Takes(u, x) PROVE \A i \in Item : Laned(i)'
      <4>1. /\ heap[u][x] # 0 /\ heap' = [heap EXCEPT ![u][x] = 0]
            /\ loop'.item = x /\ loop'.weight = u
        BY <3>2 DEF Takes
      <4>2. \A v \in Weight, i \in Item : heap'[v][i] # 0 => heap[v][i] # 0
        BY <1>0, <4>1 DEF TypeOK
      <4>3. lane[x] = u
        BY <4>1 DEF Laned
      <4> QED BY <3>1, <4>1, <4>2, <4>3 DEF Laned, InHand
    <3>3. ASSUME NEW u \in Nat, Sleeps(u) PROVE \A i \in Item : Laned(i)'
      BY <1>1, <3>1, <3>3 DEF Sleeps
    <3> QED BY <1>0, <2>1, <3>2, <3>3, LoopNextFacts
  <2>2. CASE LoopAdd
    <3>1. /\ loop.pc = "add" /\ Enlist(loop.item, loop.weight) /\ loop'.pc = "signal"
          /\ UNCHANGED <<heap, lane>>
      BY <2>2 DEF LoopAdd, NoLoop
    <3>2. loop.item \in Item /\ loop.weight \in Weight
      BY <1>0, <3>1 DEF TypeOK, LoopState
    <3>3. \A v \in Lane : \A j : InList(lanes'[v], j) <=>
            InList(lanes[v], j) \/ (v = loop.weight /\ j = loop.item)
      BY <1>0, <3>1, <3>2, EnlistFacts
    <3>4. lane[loop.item] = loop.weight
      BY <3>1, <3>2 DEF Laned, InHand
    <3> QED BY <3>1, <3>3, <3>4 DEF Laned, InHand
  <2>3. CASE LoopSignal \/ LoopTimer \/ LoopKicked
    <3>1. UNCHANGED <<lanes, heap, lane>> /\ loop'.pc # "add"
      BY <2>3 DEF LoopSignal, LoopTimer, LoopKicked, NoLoop
    <3> QED BY <1>1, <3>1
  <2> QED BY <1>3, <2>1, <2>2, <2>3 DEF Loop
<1>4. ASSUME NEW p \in Worker, Serve(p) PROVE \A i \in Item : Laned(i)'
  <2>1. UNCHANGED <<heap, loop, lane>>
    BY <1>4 DEF Serve, GetBase, BaseEmpty, Stolen, StepLock, StepMove, StepDown, StepUnlock,
                Wake, Leave, Finish, otherThanWorker
  <2>2. CASE StepMove(p)
    <3>1. PICK v \in Lane, x \in Item :
            /\ \A j : InList(lanes'[v], j) <=> InList(lanes[v], j) /\ j # x
            /\ \A u \in Lane : u # v => lanes'[u] = lanes[u]
      BY <1>0, <2>2, MoveFacts
    <3> QED BY <2>1, <3>1 DEF Laned, InHand
  <2>3. CASE ~StepMove(p)
    <3>1. UNCHANGED lanes
      BY <1>4, <2>3 DEF Serve, GetBase, BaseEmpty, Stolen, StepLock, StepDown, StepUnlock,
                        Wake, Leave, Finish
    <3> QED BY <1>1, <2>1, <3>1
  <2> QED BY <2>2, <2>3
<1>5. CASE Close \/ Tick \/ UNCHANGED vars
  BY <1>1, <1>5 DEF Close, Tick, vars
<1> QED BY <1>2, <1>3, <1>4, <1>5 DEF Next

(* Only a worker that leaves an empty list behind gains credit.            *)
LEMMA PInvStep ==
  ASSUME IsFiniteSet(Worker), IInv, PInv, [Next]_vars
  PROVE  PInv'
<1> USE DEF listVars, ghosts, otherThanWorker
<1>0. TypeOK /\ ListsOnce /\ TypeOK'
  BY TypeStep DEF IInv
<1>1. \A i \in Item : Laned(i)'
  BY LanedStep DEF PInv
<1>2. ASSUME NEW w \in Lane, UNCHANGED worker,
             \A i \in Item : InList(base', i) /\ lane'[i] = w => InList(base, i) /\ lane[i] = w
      PROVE  Bound(w)'
  <2>1. \A p \in Worker : Credit(worker[p], w) \in Nat
    BY <1>0, CreditNat DEF TypeOK
  <2>2. \A p \in Worker : Credit(worker'[p], w) <= Credit(worker[p], w)
    BY <1>2, <2>1
  <2>3. Bound(w)
    BY DEF PInv
  <2> QED BY <1>0, <1>2, <2>2, <2>3, BoundShrinks
<1>3. 0 \notin Lane
  BY DEF Lane
<1>4. ASSUME NEW x \in Item, NEW u \in Weight, Enlist(x, u), lane'[x] = u,
             \A i \in Item : i # x => lane'[i] = lane[i], ~InList(base, x), UNCHANGED worker
      PROVE  PInv'
  <2>1. \A j : InList(base', j) <=> InList(base, j) \/ (u = 0 /\ j = x)
    BY <1>0, <1>4, EnlistFacts
  <2>2. \A w \in Lane : Bound(w)'
    BY <1>2, <1>3, <1>4, <2>1
  <2> QED BY <1>1, <1>4, <2>2 DEF PInv, InStep
<1>5. ASSUME UNCHANGED <<base, lane, worker>> PROVE PInv'
  BY <1>1, <1>2, <1>5 DEF PInv, InStep
<1>6. ASSUME NEW c \in Client, ClientStep(c) PROVE PInv'
  <2>1. CASE Signal(c) \/ \E x \in Item : Cancel(c, x)
    BY <1>5, <2>1 DEF Signal, Cancel
  <2>2. ASSUME NEW x \in Item, NEW u \in Weight, AddWeight(c, x, u) PROVE PInv'
    <3>1. /\ ~InQueue(x) /\ Enlist(x, u) /\ lane' = [lane EXCEPT ![x] = u]
          /\ UNCHANGED worker
      BY <2>2 DEF AddWeight, Added
    <3>2. lane'[x] = u /\ \A i \in Item : i # x => lane'[i] = lane[i]
      BY <1>0, <3>1 DEF TypeOK
    <3>3. ~InList(base, x)
      BY <3>1 DEF InQueue, InLists
    <3> QED BY <1>4, <3>1, <3>2, <3>3
  <2>3. ASSUME NEW x \in Item, NEW u \in Weight, NEW d \in 1..MaxTime, AddWeightAfter(c, x, u, d)
        PROVE  PInv'
    <3>1. ~InQueue(x) /\ lane' = [lane EXCEPT ![x] = u] /\ UNCHANGED <<base, worker>>
      BY <2>3 DEF AddWeightAfter, Added
    <3>2. \A i \in Item : i # x => lane'[i] = lane[i]
      BY <1>0, <3>1 DEF TypeOK
    <3>3. ~InList(base, x)
      BY <3>1 DEF InQueue, InLists
    <3>4. \A w \in Lane : Bound(w)'
      BY <1>2, <3>1, <3>2, <3>3
    <3> QED BY <1>1, <3>1, <3>4 DEF PInv, InStep
  <2> QED BY <1>6, <2>1, <2>2, <2>3 DEF ClientStep
<1>7. CASE Loop
  <2>1. CASE LoopAdd
    <3>1. /\ loop.pc = "add" /\ Enlist(loop.item, loop.weight) /\ UNCHANGED <<lane, worker>>
      BY <2>1 DEF LoopAdd
    <3>2. loop.item \in Item /\ loop.weight \in Weight
      BY <1>0, <3>1 DEF TypeOK, LoopState
    <3>3. lane[loop.item] = loop.weight /\ InHand(loop.item)
      BY <3>1, <3>2 DEF PInv, Laned, InHand
    <3>4. ~InList(base, loop.item)
      BY <3>2, <3>3 DEF IInv, Once, InLists
    <3> QED BY <1>4, <3>1, <3>2, <3>3, <3>4
  <2>2. CASE LoopNext \/ LoopSignal \/ LoopTimer \/ LoopKicked
    BY ZenonT(60), <1>5, <2>2 DEF LoopNext, LoopSignal, LoopTimer, LoopKicked
  <2> QED BY <1>7, <2>1, <2>2 DEF Loop
<1>8. ASSUME NEW p \in Worker, Serve(p) PROVE PInv'
  <2> DEFINE s == worker[p]
  <2>0. s \in WorkerState /\ worker \in [Worker -> WorkerState] /\ UNCHANGED lane
    BY <1>0, <1>8 DEF TypeOK, Serve, GetBase, BaseEmpty, Stolen, StepLock, StepMove, StepDown,
                      StepUnlock, Wake, Leave, Finish
  <2>1. \A q \in Worker : q # p => worker'[q] = worker[q]
    BY <1>8, <2>0 DEF Serve, GetBase, BaseEmpty, Stolen, StepLock, StepMove, StepDown,
                      StepUnlock, Wake, Leave, Finish
  <2>3. ASSUME InStep(p)', \A i \in Item : InList(base', i) => InList(base, i),
               \A w \in Lane : Credit(worker'[p], w) <= Credit(s, w)
        PROVE  PInv'
    <3>1. ASSUME NEW w \in Lane PROVE Bound(w)'
      <4>1. \A q \in Worker : Credit(worker[q], w) \in Nat
        BY <1>0, CreditNat DEF TypeOK
      <4>2. \A q \in Worker : Credit(worker'[q], w) <= Credit(worker[q], w)
        BY <2>1, <2>3, <4>1
      <4>3. Bound(w)
        BY DEF PInv
      <4> QED BY <1>0, <2>0, <2>3, <4>2, <4>3, BoundShrinks
    <3> QED BY <1>1, <2>1, <2>3, <3>1 DEF PInv, InStep
  <2>4. \A w \in Lane : Credit(s, w) \in Nat /\ w \in Nat
    BY <2>0, CreditNat
  <2>5. CASE GetBase(p) \/ Stolen(p) \/ StepUnlock(p) \/ Wake(p) \/ Leave(p) \/ Finish(p)
    <3>1. worker'[p].pc \notin {"lock", "step"}
      <4>1. CASE GetBase(p)     BY <2>0, <4>1 DEF GetBase, NoWorker
      <4>2. CASE Stolen(p)      BY <2>0, <4>2 DEF Stolen, NoWorker
      <4>3. CASE StepUnlock(p)  BY <2>0, <4>3 DEF StepUnlock, NoWorker
      <4>4. CASE Wake(p)        BY <2>0, <4>4 DEF Wake, NoWorker
      <4>5. CASE Leave(p)       BY <2>0, <4>5 DEF Leave, NoWorker
      <4>6. CASE Finish(p)      BY <2>0, <4>6 DEF Finish, NoWorker
      <4> QED BY <2>5, <4>1, <4>2, <4>3, <4>4, <4>5, <4>6
    <3>2. \A w \in Lane : Credit(worker'[p], w) = 0
      BY <3>1 DEF Credit
    <3>3. \A i \in Item : InList(base', i) => InList(base, i)
      BY <1>0, <2>5, GetFacts DEF Stolen, StepUnlock, Wake, Leave, Finish
    <3>4. InStep(p)'
      BY <3>1 DEF InStep
    <3> QED BY <2>3, <2>4, <3>2, <3>3, <3>4
  <2>6. CASE BaseEmpty(p)
    <3>1. base' = <<>> /\ worker'[p].pc = "lock"
      BY <2>0, <2>6 DEF BaseEmpty
    <3>2. \A w \in Lane : Bound(w)'
      BY <3>1, BoundEmpty
    <3> QED BY <1>1, <2>1, <3>1, <3>2 DEF PInv, InStep
  <2>7. CASE StepLock(p)
    <3>1. /\ base' = base /\ s.pc = "lock" /\ worker'[p].pc = "step"
          /\ worker'[p].at = MaxWeight /\ worker'[p].left = MaxWeight
      BY <2>0, <2>7 DEF StepLock, NoWorker
    <3>2. \A w \in Lane : Credit(worker'[p], w) = w /\ Credit(s, w) = w
      BY <3>1, QueueAssumption DEF Credit, Lane
    <3>3. InStep(p)'
      BY <3>1, QueueAssumption DEF InStep
    <3> QED BY <2>3, <2>4, <3>1, <3>2, <3>3
  <2>8. CASE StepMove(p)
    <3>1. \A w \in Lane : Bound(w)'
      BY <1>0, <2>8, BoundMove
    <3>2. /\ s.pc = "step" /\ worker'[p].at = s.at /\ worker'[p].left = s.left - 1
          /\ s.at \in Weight /\ s.left \in Weight
      BY <2>0, <2>8 DEF StepMove, WorkerState
    <3>3. InStep(p)'
      BY <3>2, QueueAssumption DEF PInv, InStep, Weight
    <3> QED BY <1>1, <2>1, <3>1, <3>3 DEF PInv, InStep
  <2>9. CASE StepDown(p)
    <3>1. /\ base' = base /\ s.pc = "step" /\ s.at \in Nat /\ s.left \in Nat
          /\ worker'[p].pc = "step" /\ worker'[p].at = s.at - 1 /\ worker'[p].left = s.at - 1
      BY <2>0, <2>9, QueueAssumption DEF StepDown, WorkerState, Weight
    <3>2. \A w \in Lane : Credit(worker'[p], w) <= Credit(s, w)
      BY <2>4, <3>1 DEF Credit
    <3>3. InStep(p)'
      BY <3>1 DEF InStep
    <3> QED BY <2>3, <3>1, <3>2, <3>3
  <2> QED BY <1>8, <2>5, <2>6, <2>7, <2>8, <2>9 DEF Serve
<1>9. CASE Close \/ Tick \/ UNCHANGED vars
  BY <1>5, <1>9 DEF Close, Tick, vars
<1> QED BY <1>6, <1>7, <1>8, <1>9 DEF Next

(* The list weightQueue.Get reads never holds more than w retried items of *)
(* weight w per worker, for any number of items, clients and workers.      *)
THEOREM PriorityBounded ==
  ASSUME IsFiniteSet(Worker)
  PROVE  Spec => []PriorityBound
<1>1. Init => PInv
  <2> SUFFICES ASSUME Init PROVE PInv
    OBVIOUS
  <2>1. \A w \in Lane : Bound(w)
    BY BoundEmpty DEF Init
  <2>2. \A i \in Item : Laned(i)
    BY DEF Init, Laned, InList, InHand, NoLoop
  <2>3. \A p \in Worker : InStep(p)
    BY DEF Init, InStep, NoWorker
  <2> QED BY <2>1, <2>2, <2>3 DEF PInv
<1>2. IInv /\ PInv /\ [Next]_vars => PInv'
  BY PInvStep
<1>3. PInv => PriorityBound
  <2> SUFFICES ASSUME PInv, NEW w \in Lane
               PROVE  Cardinality(Held(w)) <= Cardinality(Worker) * w
    BY DEF PriorityBound, Held
  <2>1. /\ IsFiniteSet(Held(w))
        /\ Cardinality(Held(w)) + Cardinality(Owed(w)) <= Cardinality(Worker) * w
    BY DEF PInv, Bound
  <2>2. Cardinality(Held(w)) \in Nat
    BY <2>1, FS_CardinalityType
  <2>3. Cardinality(Owed(w)) \in Nat /\ Cardinality(Worker) * w \in Nat
    BY Zenon, OwedFinite
  <2> QED BY <2>1, <2>2, <2>3
<1> QED BY <1>1, <1>2, <1>3, IInvAlways, PTL DEF Spec
============================================================================
