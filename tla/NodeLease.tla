----------------------------- MODULE NodeLease -----------------------------
(***************************************************************************)
(* Several kwok instances share the nodes of a cluster: the instance that  *)
(* holds the lease of a node plays its stages.  The module composes        *)
(*                                                                         *)
(*   node_lease_controller.go   TryHold, ReleaseHold, Held, syncWorker     *)
(*   node_controller.go         watchResources, ManageNode                 *)
(*   controller.go              nodeLeaseSyncWorker, the functions that    *)
(*                              connect the two                            *)
(*                                                                         *)
(* with the API server, the informers and the garbage collector, modelled  *)
(* from how kwok uses them.  Time is relative: a lease has an age since    *)
(* its renewTime, a queued name has a time left.  Ages stop just past the  *)
(* lease duration, so runs go on for ever in finitely many states.         *)
(***************************************************************************)
EXTENDS Integers, Sequences, FiniteSets

CONSTANTS
  Instance,    \* kwok processes; each has a fresh identity, so none restarts
  Node,        \* node names, also the names of their leases
  Existing,    \* the nodes there are before the first instance starts
  Changing,    \* the nodes that users create, change or delete
  Needs,       \* what need says of the versions users make: FALSE for one whose
               \* annotations or labels the disregard selectors match
  Vacant,      \* the nodes that may have a lease without a holder before the first start
  Worker,      \* the leaseParallelism goroutines of syncWorker
  Duration,    \* leaseDurationSeconds
  Interval,    \* renewInterval; its jitter is below the unit of time
  Second,      \* the least time to the next try
  Latency,     \* how old a request gets at most if time waits for requests
  Prompt,      \* what time waits for
  MaxLag,      \* bound: versions of a lease a cache is behind
  Bounds,      \* bounds on started instances, changes users make to nodes, failing
               \* requests and crashes: a behaviour is within one of them
  None

ASSUME LeaseAssumption ==
  /\ Duration \in Nat \ {0}
  /\ Interval \in Nat \ {0}
  /\ Second \in 1..Duration
  /\ Latency \in Nat
  /\ Prompt \subseteq {"caches", "requests", "workers"}
  /\ MaxLag \in Nat \ {0}
  /\ Bounds \subseteq [instances : Nat, changes : Nat, faults : Nat, crashes : Nat]
  /\ Existing \subseteq Node /\ Changing \subseteq Node /\ Vacant \subseteq Node
  /\ Needs \subseteq BOOLEAN
  /\ None \notin Node /\ None \notin Instance /\ IsFiniteSet(Node)
  /\ None \notin [holder : Instance \cup {None}, age : Nat, owner : Nat]

Weights == {1, 2}

VARIABLES
  node,     \* the nodes in the API server: their uid, resource version and need
  rv,       \* the last uid or resource version given to a node
  lease,    \* the leases in the API server; the holder None is a holderIdentity that is
            \* not set, and a lease without renewTime or duration is as old as it gets
  status,   \* "new", "up" or "dead", per instance
  mem,      \* what an instance has in memory, see Blank
  seen,     \* versions of a lease: the first is in the lease cache of the
            \* instance, the last is in the API server
  act,      \* the syncWorkers
  faults, crashes

vars == <<node, rv, lease, status, mem, seen, act, faults, crashes>>

Blank ==
  [stream  |-> <<>>,                        \* node events on their way to the informer
   cache   |-> [n \in Node |-> None],       \* nodeCacheGetter
   chan    |-> <<>>,                        \* nodesChan, and the sender blocked on it
   nodes   |-> {},                          \* nodesSets
   hold    |-> {},                          \* holdLeaseSet
   ready   |-> [n \in Node |-> 0],          \* delayQueue: how often a name can be taken
   heaps   |-> [w \in Weights |-> <<>>],   \* delayQueue: entries in the order of their keys
   manage  |-> {},                          \* nodeManageQueue; a name that is in it twice
                                            \* is handled twice in a row, the model does it once
   syncing |-> None,                        \* nodeLeaseSyncWorker: a listed node to send
   offered |-> [n \in Node |-> 0]]          \* the last version given to preprocessChan, 0 once
                                            \* the job made of it is cancelled

Idle == [pc |-> "idle", name |-> None, age |-> 0, owner |-> 0, valid |-> FALSE]

Up == {i \in Instance : status[i] = "up"}

Init ==
  /\ \E need \in [Node -> Needs] :
       node = [n \in Node |-> IF n \in Existing THEN [uid |-> 1, rv |-> 1, need |-> need[n]] ELSE None]
  /\ rv = 1
  /\ \E vacant \in SUBSET Vacant :
       lease = [n \in Node |-> IF n \in vacant THEN [holder |-> None, age |-> Duration + 1, owner |-> 0]
                               ELSE None]
  /\ status = [i \in Instance |-> "new"]
  /\ mem = [i \in Instance |-> Blank]
  /\ seen = [i \in Instance |-> [n \in Node |-> <<None>>]]
  /\ act = [i \in Instance |-> [w \in Worker |-> Idle]]
  /\ faults = 0 /\ crashes = 0

(* What the runs are bounded by: one more of what is named still is within *)
(* one of the bounds.                                                      *)
Started == {i \in Instance : status[i] # "new"}

OneMore(what) ==
  \E b \in Bounds :
    /\ Cardinality(Started) + (IF what = "instance" THEN 1 ELSE 0) <= b.instances
    /\ rv - 1 + (IF what = "change" THEN 1 ELSE 0) <= b.changes
    /\ faults + (IF what = "fault" THEN 1 ELSE 0) <= b.faults
    /\ crashes + (IF what = "crash" THEN 1 ELSE 0) <= b.crashes

-----------------------------------------------------------------------------
(* The API server: users change nodes, every instance that runs gets the   *)
(* events in order.                                                        *)

NodeEvent(t, n, o) == [type |-> t, name |-> n, obj |-> o]

ChangeNode(t, n, o, e) ==
  /\ OneMore("change")
  /\ rv' = rv + 1
  /\ node' = [node EXCEPT ![n] = o]
  /\ mem' = [i \in Instance |->
               IF i \in Up THEN [mem[i] EXCEPT !.stream = Append(@, NodeEvent(t, n, e))] ELSE mem[i]]
  /\ UNCHANGED <<lease, status, seen, act, faults, crashes>>

CreateNode(n, need) ==
  LET o == [uid |-> rv + 1, rv |-> rv + 1, need |-> need] IN
  node[n] = None /\ ChangeNode("Added", n, o, o)

TouchNode(n, need) ==
  LET o == [node[n] EXCEPT !.rv = rv + 1, !.need = need] IN
  node[n] # None /\ ChangeNode("Modified", n, o, o)

DeleteNode(n) ==
  node[n] # None /\ ChangeNode("Deleted", n, None, node[n])

(* Writing lease l of n: the caches get it later, and a request that was   *)
(* built from the version before it will be refused.                       *)
Outdated(a, n) == IF a.name = n THEN [a EXCEPT !.valid = FALSE] ELSE a

WriteLease(n, l) ==
  /\ \A i \in Up : Len(seen[i][n]) <= MaxLag
  /\ lease' = [lease EXCEPT ![n] = l]
  /\ seen' = [i \in Instance |->
                IF i \in Up THEN [seen[i] EXCEPT ![n] = Append(@, l)] ELSE seen[i]]

(* The garbage collector: the owner of the lease is gone.                  *)
CollectLease(n) ==
  /\ lease[n] # None /\ lease[n].owner # 0
  /\ node[n] # None => node[n].uid # lease[n].owner
  /\ WriteLease(n, None)
  /\ act' = [i \in Instance |-> [w \in Worker |-> Outdated(act[i][w], n)]]
  /\ UNCHANGED <<node, rv, status, mem, faults, crashes>>

-----------------------------------------------------------------------------
(* Instances.  A start lists what is there: every node is an Added event,  *)
(* and the lease cache is empty until its list has arrived.                *)

SetToEvents(S) ==
  CHOOSE s \in [1..Cardinality(S) -> {NodeEvent("Added", n, node[n]) : n \in S}] :
    \A n \in S : \E k \in DOMAIN s : s[k].name = n

Start(i) ==
  /\ status[i] = "new" /\ OneMore("instance")
  /\ status' = [status EXCEPT ![i] = "up"]
  /\ mem' = [mem EXCEPT ![i].stream = SetToEvents({n \in Node : node[n] # None})]
  /\ seen' = [seen EXCEPT ![i] = [n \in Node |-> IF lease[n] = None THEN <<None>> ELSE <<None, lease[n]>>]]
  /\ UNCHANGED <<node, rv, lease, act, faults, crashes>>

Crash(i) ==
  /\ i \in Up /\ OneMore("crash")
  /\ crashes' = crashes + 1
  /\ status' = [status EXCEPT ![i] = "dead"]
  /\ mem' = [mem EXCEPT ![i] = Blank]
  /\ seen' = [seen EXCEPT ![i] = [n \in Node |-> <<None>>]]
  /\ act' = [act EXCEPT ![i] = [w \in Worker |-> Idle]]
  /\ UNCHANGED <<node, rv, lease, faults>>

LeaseCached(i, n) ==
  /\ Len(seen[i][n]) > 1
  /\ seen' = [seen EXCEPT ![i][n] = Tail(@)]
  /\ UNCHANGED <<node, rv, lease, status, mem, act, faults, crashes>>

-----------------------------------------------------------------------------
(* The delaying queue of names, as operators on the memory of an instance. *)
(* Module WeightDelayingQueue has its goroutines and its signals; here it  *)
(* matters that a name can be in it twice.                                 *)

Add(m, n) == [m EXCEPT !.ready[n] = @ + 1]

(* An entry has the time it has left and whether indexes points to it.     *)
Entry(n, d) == [name |-> n, left |-> d, index |-> TRUE]

(* Heap.Push: a second entry for a name takes over the index of the first, *)
(* which stays where it is.                                                *)
Push(h, n, d) ==
  LET old == [k \in DOMAIN h |-> IF h[k].name = n THEN [h[k] EXCEPT !.index = FALSE] ELSE h[k]]
      Before(e) == e.left <= d
      After(e) == e.left > d
  IN SelectSeq(old, Before) \o <<Entry(n, d)>> \o SelectSeq(old, After)

(* Heap.Remove: the entry that indexes points to, if there is one.         *)
Remove(h, n) ==
  LET Stays(e) == ~(e.name = n /\ e.index) IN SelectSeq(h, Stays)

AddWeightAfter(m, n, w, d) ==
  IF d <= 0 THEN Add(m, n) ELSE [m EXCEPT !.heaps[w] = Push(@, n, d)]

Cancel(m, n) == [m EXCEPT !.heaps = [w \in Weights |-> Remove(m.heaps[w], n)]]

(* next() delivers from a heap when its first entry is due and Remove      *)
(* finds an entry with the name of the first one.                          *)
Due(h) ==
  /\ h # <<>> /\ Head(h).left = 0
  /\ \E k \in DOMAIN h : h[k].name = Head(h).name /\ h[k].index

(* loopWorker: the highest weight first.                                   *)
Expire(i) ==
  /\ i \in Up
  /\ \E w \in Weights :
       /\ Due(mem[i].heaps[w])
       /\ w = 1 => ~Due(mem[i].heaps[2])
       /\ LET n == Head(mem[i].heaps[w]).name IN
          mem' = [mem EXCEPT ![i] = Add([mem[i] EXCEPT !.heaps[w] = Remove(@, n)], n)]
  /\ UNCHANGED <<node, rv, lease, status, seen, act, faults, crashes>>

-----------------------------------------------------------------------------
(* The node controller.                                                    *)

Held(i, n) == Head(seen[i][n]) # None /\ Head(seen[i][n]).holder = i

TryHold(m, n) == IF n \in m.hold THEN m ELSE Add([m EXCEPT !.hold = @ \cup {n}], n)

ReleaseHold(m, n) == [Cancel(m, n) EXCEPT !.hold = @ \ {n}]

(* The channel has room for one event, and the informer waits with another *)
(* one after it has changed its store.                                     *)
Room(i) == Len(mem[i].chan) < 2

NodeCached(i) ==
  /\ i \in Up /\ mem[i].stream # <<>> /\ Room(i)
  /\ LET e == Head(mem[i].stream) IN
     mem' = [mem EXCEPT ![i].stream = Tail(@),
                        ![i].cache[e.name] = IF e.type = "Deleted" THEN None ELSE e.obj,
                        ![i].chan = Append(@, e)]
  /\ UNCHANGED <<node, rv, lease, status, seen, act, faults, crashes>>

(* Added, Modified and Sync events: nothing is done for a node that the    *)
(* disregard selectors match.  A node whose lease is not held is not       *)
(* played; unless it was only modified its lease is asked for.             *)
Offer(i, m, e) ==
  LET k == [m EXCEPT !.nodes = @ \cup {e.name}]
      o == IF Held(i, e.name) THEN [k EXCEPT !.offered[e.name] = e.obj.rv] ELSE k
  IN IF ~e.obj.need THEN m
     ELSE IF e.type = "Modified" THEN o ELSE TryHold(o, e.name)

(* Deleted events: a node that was needed is forgotten and its job in the  *)
(* queue of the stages cancelled; the lease is given up in any case.       *)
Forget(m, n) ==
  ReleaseHold(IF n \in m.nodes THEN [m EXCEPT !.nodes = @ \ {n}, !.offered[n] = 0] ELSE m, n)

WatchNode(i) ==
  /\ i \in Up /\ mem[i].chan # <<>>
  /\ LET e == Head(mem[i].chan)
         m == [mem[i] EXCEPT !.chan = Tail(@)]
     IN mem' = [mem EXCEPT ![i] = IF e.type = "Deleted" THEN Forget(m, e.name) ELSE Offer(i, m, e)]
  /\ UNCHANGED <<node, rv, lease, status, seen, act, faults, crashes>>

(* nodeLeaseSyncWorker: a managed node is offered without looking at the   *)
(* lease cache; one that is not in the node cache is listed and sent as a  *)
(* Sync event.                                                             *)
Manage(i, n) ==
  /\ i \in Up /\ n \in mem[i].manage /\ mem[i].syncing = None
  /\ LET m == [mem[i] EXCEPT !.manage = @ \ {n}] IN
     mem' = [mem EXCEPT ![i] =
               IF m.cache[n] # None THEN [m EXCEPT !.offered[n] = m.cache[n].rv]
               ELSE IF node[n] # None THEN [m EXCEPT !.syncing = NodeEvent("Sync", n, node[n])]
               ELSE m]
  /\ UNCHANGED <<node, rv, lease, status, seen, act, faults, crashes>>

SendSync(i) ==
  /\ i \in Up /\ mem[i].syncing # None /\ Room(i)
  /\ mem' = [mem EXCEPT ![i].chan = Append(@, mem[i].syncing), ![i].syncing = None]
  /\ UNCHANGED <<node, rv, lease, status, seen, act, faults, crashes>>

-----------------------------------------------------------------------------
(* The lease controller.                                                   *)

(* Mutant: a lease counts as expired after the renew interval. *)
TryAcquireEarly(l, i) == l.holder \in {None, i} \/ l.age > Interval

tryAcquireOrRenew(l, i) == l.holder \in {None, i} \/ l.age > Duration

(* Mutant: the next try is when the lease expires. *)
NextTryAtExpiry(renew, expire, holds) == IF expire < Second THEN Second ELSE expire

nextTryDuration(renew, expire, holds) ==
  IF ~holds \/ renew < expire THEN renew
  ELSE IF expire < Second THEN Second ELSE expire

(* setNodeOwnerFunc: the owner is set once, from the node cache.           *)
Owner(i, n, owner) ==
  IF owner # 0 \/ mem[i].cache[n] = None THEN owner ELSE mem[i].cache[n].uid

(* The request that sync makes for the cached lease l.                     *)
Request(i, n, l) ==
  IF l = None
  THEN [Idle EXCEPT !.pc = "create", !.name = n, !.owner = Owner(i, n, 0)]
  ELSE [Idle EXCEPT !.pc = "renew", !.name = n, !.owner = Owner(i, n, l.owner),
                    !.valid = Len(seen[i][n]) = 1]

(* syncWorker takes a name and drops it if its hold was released.          *)
GetName(i, w, n) ==
  /\ i \in Up /\ act[i][w].pc = "idle" /\ mem[i].ready[n] > 0
  /\ mem' = [mem EXCEPT ![i].ready[n] = @ - 1]
  /\ act' = IF n \in mem[i].hold
            THEN [act EXCEPT ![i][w] = [Idle EXCEPT !.pc = "sync", !.name = n]] ELSE act
  /\ UNCHANGED <<node, rv, lease, status, seen, faults, crashes>>

Tries(l, i) == l = None \/ tryAcquireOrRenew(l, i)

(* sync looks at the cached lease: another instance's lease is tried again *)
(* after the interval, otherwise it makes a request with renewTime set to  *)
(* now.                                                                    *)
Sync(i, w) ==
  /\ i \in Up /\ act[i][w].pc = "sync"
  /\ LET n == act[i][w].name
         l == Head(seen[i][n])
     IN IF Tries(l, i)
        THEN act' = [act EXCEPT ![i][w] = Request(i, n, l)] /\ UNCHANGED mem
        ELSE /\ act' = [act EXCEPT ![i][w] = Idle]
             /\ mem' = [mem EXCEPT ![i] = AddWeightAfter(@, n, 1, Interval)]
  /\ UNCHANGED <<node, rv, lease, status, seen, faults, crashes>>

(* Does the API server accept the request?  A create needs the name to be  *)
(* free, an update the version it was built from.                          *)
Accepted(a) == IF a.pc = "create" THEN lease[a.name] = None ELSE a.valid

Store(i, w, then) ==
  LET a == act[i][w] IN
  /\ Accepted(a)
  /\ WriteLease(a.name, [holder |-> i, age |-> a.age, owner |-> a.owner])
  /\ act' = [j \in Instance |-> [v \in Worker |->
               IF j = i /\ v = w THEN then ELSE Outdated(act[j][v], a.name)]]

Requesting(i, w) == i \in Up /\ act[i][w].pc \in {"create", "renew"}

Granted(i, w) ==
  /\ Requesting(i, w)
  /\ Store(i, w, [act[i][w] EXCEPT !.pc = "done", !.valid = FALSE])
  /\ UNCHANGED <<node, rv, status, mem, faults, crashes>>

(* A conflict, an already existing or a missing lease.                     *)
Refused(i, w) ==
  /\ Requesting(i, w) /\ ~Accepted(act[i][w])
  /\ mem' = [mem EXCEPT ![i] = AddWeightAfter(@, act[i][w].name, 1, Interval)]
  /\ act' = [act EXCEPT ![i][w] = Idle]
  /\ UNCHANGED <<node, rv, lease, status, seen, faults, crashes>>

(* An error, with or without an effect on the API server.                  *)
Failed(i, w) ==
  /\ Requesting(i, w) /\ OneMore("fault")
  /\ faults' = faults + 1
  /\ mem' = [mem EXCEPT ![i] = AddWeightAfter(@, act[i][w].name, 1, Interval)]
  /\ \/ Store(i, w, Idle)
     \/ act' = [act EXCEPT ![i][w] = Idle] /\ UNCHANGED <<lease, seen>>
  /\ UNCHANGED <<node, rv, status, crashes>>

(* The namespace of the leases does not exist yet: sync keeps the worker   *)
(* asleep for a second and makes the request again.                        *)
NoNamespace(i, w) ==
  /\ i \in Up /\ act[i][w].pc = "create" /\ OneMore("fault")
  /\ faults' = faults + 1
  /\ act' = [act EXCEPT ![i][w] = [Idle EXCEPT !.pc = "asleep", !.name = act[i][w].name]]
  /\ UNCHANGED <<node, rv, lease, status, mem, seen, crashes>>

Slept(i, w) == i \in Up /\ act[i][w].pc = "asleep" /\ act[i][w].age >= Second

CreateAgain(i, w) ==
  /\ Slept(i, w)
  /\ act' = [act EXCEPT ![i][w] = Request(i, act[i][w].name, None)]
  /\ UNCHANGED <<node, rv, lease, status, mem, seen, faults, crashes>>

(* Mutant: a granted lease is not reported. *)
DoneSilent(i, w) ==
  /\ i \in Up /\ act[i][w].pc = "done"
  /\ LET a == act[i][w]
         next == nextTryDuration(Interval, Duration - a.age, TRUE)
     IN mem' = [mem EXCEPT ![i] = AddWeightAfter(@, a.name, 2, next)]
  /\ act' = [act EXCEPT ![i][w] = Idle]
  /\ UNCHANGED <<node, rv, lease, status, seen, faults, crashes>>

(* onNodeManaged, then the next try.                                       *)
Done(i, w) ==
  /\ i \in Up /\ act[i][w].pc = "done"
  /\ LET a == act[i][w]
         m == [mem[i] EXCEPT !.manage = @ \cup {a.name}]
         next == nextTryDuration(Interval, Duration - a.age, TRUE)
     IN mem' = [mem EXCEPT ![i] = AddWeightAfter(m, a.name, 2, next)]
  /\ act' = [act EXCEPT ![i][w] = Idle]
  /\ UNCHANGED <<node, rv, lease, status, seen, faults, crashes>>

-----------------------------------------------------------------------------
(* Time.  In a cluster that keeps up no unit of time passes while a cache  *)
(* is behind, while a worker has something to do, or while a request is    *)
(* older than Latency; otherwise time passes at any moment.                *)

CachesBehind(i) ==
  \/ mem[i].stream # <<>> \/ mem[i].chan # <<>>
  \/ \E n \in Node : Len(seen[i][n]) > 1

WorkersBehind(i) ==
  \/ mem[i].manage # {}
  \/ \E w \in Weights : Due(mem[i].heaps[w])
  \/ \E n \in Node, w \in Worker : mem[i].ready[n] > 0 /\ act[i][w].pc = "idle"
  \/ \E w \in Worker : act[i][w].pc \in {"sync", "done"} \/ Slept(i, w)

RequestsBehind(i) == \E w \in Worker : Requesting(i, w) /\ act[i][w].age >= Latency

Older(a) == IF a > Duration THEN a ELSE a + 1
OlderLease(l) == IF l = None THEN None ELSE [l EXCEPT !.age = Older(@)]
Sooner(e) == [e EXCEPT !.left = IF @ > 0 THEN @ - 1 ELSE 0]

Tick ==
  /\ "caches" \in Prompt => \A i \in Up : ~CachesBehind(i)
  /\ "requests" \in Prompt => \A i \in Up : ~RequestsBehind(i)
  /\ "workers" \in Prompt => \A i \in Up : ~WorkersBehind(i)
  /\ lease' = [n \in Node |-> OlderLease(lease[n])]
  /\ seen' = [i \in Instance |-> [n \in Node |->
                [k \in DOMAIN seen[i][n] |-> OlderLease(seen[i][n][k])]]]
  /\ act' = [i \in Instance |-> [w \in Worker |->
               IF act[i][w].pc \in {"idle", "sync"} THEN act[i][w] ELSE [act[i][w] EXCEPT !.age = Older(@)]]]
  /\ mem' = [i \in Instance |->
               [mem[i] EXCEPT !.heaps = [w \in Weights |-> [k \in DOMAIN mem[i].heaps[w] |->
                                           Sooner(mem[i].heaps[w][k])]]]]
  /\ UNCHANGED <<node, rv, status, faults, crashes>>

(* Everything that time changes has reached its end, ticks are no steps.   *)
Still ==
  /\ \A n \in Node : lease[n] # None => lease[n].age > Duration
  /\ \A i \in Up, w \in Worker : act[i][w].pc \notin {"idle", "sync"} => act[i][w].age > Duration
  /\ \A i \in Up, w \in Weights : \A k \in DOMAIN mem[i].heaps[w] : mem[i].heaps[w][k].left = 0

User == \E n \in Changing : DeleteNode(n) \/ \E need \in Needs : CreateNode(n, need) \/ TouchNode(n, need)

Serve(i, w) ==
  \/ \E n \in Node : GetName(i, w, n)
  \/ Sync(i, w) \/ Granted(i, w) \/ Refused(i, w) \/ Failed(i, w) \/ NoNamespace(i, w) \/ CreateAgain(i, w)
  \/ Done(i, w)

Kwok(i) ==
  \/ Start(i) \/ Crash(i)
  \/ NodeCached(i) \/ WatchNode(i) \/ SendSync(i) \/ Expire(i)
  \/ \E n \in Node : LeaseCached(i, n) \/ Manage(i, n)
  \/ \E w \in Worker : Serve(i, w)

Next == User \/ Tick \/ (\E n \in Node : CollectLease(n)) \/ \E i \in Instance : Kwok(i)

Spec == Init /\ [][Next]_vars

(* Time goes on for ever, the scheduler runs every goroutine that can run, *)
(* requests are answered, caches catch up, and channels and queues are     *)
(* first in first out: nobody is passed over for ever.  Every instance is  *)
(* started sooner or later, as far as Bounds allows.                       *)
Work(i, w) == Sync(i, w) \/ Granted(i, w) \/ Refused(i, w) \/ CreateAgain(i, w) \/ Done(i, w)

Fairness ==
  /\ []<><<Tick>>_vars \/ <>[]Still
  /\ \A i \in Instance :
       /\ WF_vars(Start(i))
       /\ SF_vars(NodeCached(i)) /\ WF_vars(WatchNode(i)) /\ WF_vars(SendSync(i)) /\ WF_vars(Expire(i))
       /\ \A n \in Node :
            /\ WF_vars(LeaseCached(i, n)) /\ SF_vars(Manage(i, n))
            /\ SF_vars(\E w \in Worker : GetName(i, w, n))
       /\ \A w \in Worker : WF_vars(Work(i, w))

FairSpec == Spec /\ Fairness

-----------------------------------------------------------------------------
(* tryAcquireOrRenew judges a cached lease and the update arrives later:   *)
(* still, an instance only ever takes a lease over from another one when   *)
(* the stored lease has expired, whatever the caches, the workers and the  *)
(* requests in flight.  A lease without a holder may be taken at any time. *)
TakeoverOnlyExpired ==
  [][\A n \in Node : lease[n] # None /\ lease'[n] # None /\ lease'[n].holder # lease[n].holder
       => lease[n].holder = None \/ lease[n].age > Duration]_vars

(* An instance that runs and keeps up does not lose a lease it holds:      *)
(* nextTryDuration renews early enough, also after a failing request.      *)
HolderStays ==
  \A n \in Node : lease[n] # None /\ lease[n].holder \in Up
    => \/ node[n] = None \/ node[n].uid # lease[n].owner
       \/ lease'[n] # None /\ lease'[n].holder = lease[n].holder

HolderKeepsLease == [][HolderStays]_vars

(* The last version of a node is offered to the stages by an instance that *)
(* runs, although watchResources drops it while the lease is not held and  *)
(* the holder may crash: onNodeManaged offers the node again.  This is     *)
(* said of a node that is never marked as disregarded: one whose mark is   *)
(* taken away by a modification is not asked for until kwok restarts.      *)
(* A node that is marked as long as it exists is never offered.            *)
NodeManaged ==
  \A n \in Node :
    /\ [](node[n] # None => node[n].need)
         => <>[](node[n] # None => \E i \in Up : mem[i].offered[n] = node[n].rv)
    /\ [](node[n] # None => ~node[n].need) => [](\A i \in Instance : mem[i].offered[n] = 0)

(* The heartbeats of an existing node never end: again and again some      *)
(* instance is granted its lease ("kwok will be in charge of all nodes in  *)
(* the cluster and maintain their heartbeats to the API Server").          *)
Heartbeats ==
  \A n \in Node : []<>(node[n] # None =>
           \E i \in Up, w \in Worker : act[i][w].pc = "done" /\ act[i][w].name = n)
=============================================================================
