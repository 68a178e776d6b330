---------------------------- MODULE PodController ----------------------------
(***************************************************************************)
(* The pods of a kwok instance: PodController with its pools of addresses, *)
(* NodeController as far as it says which nodes are managed, and the parts *)
(* of Controller that connect them: the order in which the two are         *)
(* started, and the list of a node's pods that is read when the node       *)
(* becomes managed.                                                        *)
(*                                                                         *)
(* The stages are those of kustomize/stage/pod/fast: a pod without an      *)
(* address gets one and becomes ready, the pod of a job then completes, a  *)
(* pod that is being deleted is removed.  The queue between preprocess and *)
(* the workers is modelled in StageController and WeightDelayingQueue;     *)
(* here a pod has at most one waiting job, which a newer one replaces.     *)
(* Leases are modelled in NodeLease; here a wanted lease is granted at     *)
(* some time.                                                              *)
(***************************************************************************)
EXTENDS Naturals, Sequences, FiniteSets

CONSTANTS
    Pod, Node, Worker,
    JobPods,       \* the pods that belong to a job
    Marks,         \* whether users make pods that the disregard selectors match
    OwnCIDR,       \* the nodes with spec.podCIDR; the others use the default
    Size,          \* the number of addresses in a CIDR
    UseLeases,     \* NodeLeaseDurationSeconds is not 0
    MaxEvents,     \* bound on what users do and on faults together
    MaxFaults,     \* bound on failing calls, lost leases and restarts
    MaxRestarts,   \* bound on restarts of kwok
    MaxPools,      \* bound on pools made
    MaxIndex       \* bound on the addresses a pool has counted up to

ASSUME PodAssumption ==
    /\ IsFiniteSet(Pod) /\ Pod # {}
    /\ JobPods \subseteq Pod /\ Marks \subseteq BOOLEAN /\ OwnCIDR \subseteq Node /\ Size \in Nat
    /\ UseLeases \in BOOLEAN /\ MaxEvents \in Nat /\ MaxFaults \in Nat /\ MaxRestarts \in Nat
    /\ MaxPools \in Nat /\ MaxIndex \in Nat

VARIABLES
    api,           \* the pods in the API server
    node,          \* the nodes: in the API server, the cache, and nodesSets
    ctl,           \* which controllers run, and what they were given
    events,        \* events on their way to watchResources, by their source
    job,           \* the waiting job of a pod
    thread,        \* the workers and the goroutine of watchResources
    pools, pool,   \* ipPools, and the pools themselves
    count          \* what has happened so far

vars == <<api, node, ctl, events, job, thread, pools, pool, count>>

(* A CIDR is known by the node it belongs to, or is the default one; an    *)
(* address by its CIDR and its place in it.                                *)
Default == "default"
CIDR == OwnCIDR \cup {Default}
NoIP == <<>>
IP == CIDR \X (0..MaxIndex)

(* A pod: whether it is there, being deleted, completed, matched by a      *)
(* disregard selector, its node and its address.  from is the pool the     *)
(* address came from: it is not in the code and only serves to state       *)
(* properties.                                                             *)
PodType == [there : BOOLEAN, leaving : BOOLEAN, done : BOOLEAN, marked : BOOLEAN,
            node : Node \cup {Default}, ip : IP \cup {NoIP}, from : 0..MaxPools]
NoPod == [there |-> FALSE, leaving |-> FALSE, done |-> FALSE, marked |-> FALSE,
          node |-> Default, ip |-> NoIP, from |-> 0]

Watcher == "watcher"
Threads == Worker \cup {Watcher}
Idle == [pc |-> "idle", pod |-> CHOOSE p \in Pod : TRUE, obj |-> NoPod, want |-> "",
         cidr |-> Default, pool |-> 0, ip |-> NoIP]

-----------------------------------------------------------------------------
(* ipPool.                                                                 *)

NewIPPool(cidr) == [cidr |-> cidr, used |-> {}, usable |-> {}, index |-> 0]
Contains(p, ip) == ip[1] = p.cidr /\ ip[2] < Size

(* The place of the address new returns: the first one not in use.         *)
Fresh(p) == CHOOSE i \in p.index..(MaxIndex + 1) :
              <<p.cidr, i>> \notin p.used /\ \A j \in p.index..(i - 1) : <<p.cidr, j>> \in p.used

Gettable(p) == IF p.usable # {} THEN p.usable ELSE {<<p.cidr, Fresh(p)>>}

(* Mutant: the address is left among the usable ones.                      *)
GetKeeps(p, ip) ==
    [p EXCEPT !.used = @ \cup {ip}, !.usable = @ \cup {ip},
              !.index = IF p.usable # {} THEN @ ELSE ip[2] + 1]

Get(p, ip) ==
    [p EXCEPT !.used = @ \cup {ip}, !.usable = @ \ {ip},
              !.index = IF p.usable # {} THEN @ ELSE ip[2] + 1]

Put(p, ip) ==
    IF Contains(p, ip) THEN [p EXCEPT !.used = @ \ {ip}, !.usable = @ \cup {ip}] ELSE p

Use(p, ip) == IF Contains(p, ip) THEN [p EXCEPT !.used = @ \cup {ip}] ELSE p

-----------------------------------------------------------------------------
(* Which pods are played.                                                  *)

Managed(n) == ctl.nodes /\ node[n].managed
Cached(n) == node[n].cached
need(obj) == Managed(obj.node) /\ ~obj.marked
readOnly(n) == ctl.readOnly /\ node[n].lease # "held"

(* The selectors of the stages pod-delete, pod-ready and pod-complete.     *)
Match(p, obj) ==
    CASE obj.leaving -> "delete"
      [] ~obj.leaving /\ obj.ip = NoIP -> "ready"
      [] ~obj.leaving /\ obj.ip # NoIP /\ p \in JobPods /\ ~obj.done -> "complete"
      [] OTHER -> "none"

Cidr(n) == IF Managed(n) /\ Cached(n) /\ n \in OwnCIDR THEN n ELSE Default

-----------------------------------------------------------------------------
(* A goroutine that wants to get, use or put an address looks the pool up, *)
(* makes one when there is none, and stores it over what is there by then. *)

Lookup(t) ==
    /\ thread[t].pc = "lookup"
    /\ LET id == pools[thread[t].cidr]
       IN  thread' = [thread EXCEPT ![t].pc = IF id = 0 THEN "make" ELSE "act", ![t].pool = id]
    /\ UNCHANGED <<api, node, ctl, events, job, pools, pool, count>>

Make(t) ==
    /\ thread[t].pc = "make" /\ Len(pool) < MaxPools
    /\ pool' = Append(pool, NewIPPool(thread[t].cidr))
    /\ pools' = [pools EXCEPT ![thread[t].cidr] = Len(pool')]
    /\ thread' = [thread EXCEPT ![t].pc = "act", ![t].pool = Len(pool')]
    /\ UNCHANGED <<api, node, ctl, events, job, count>>

funcPodIPWith(t) ==
    LET th == thread[t] IN
    /\ th.pc = "act" /\ th.want = "get"
    /\ \E ip \in Gettable(pool[th.pool]) :
         /\ ip[2] <= MaxIndex
         /\ pool' = [pool EXCEPT ![th.pool] = Get(@, ip)]
         /\ thread' = [thread EXCEPT ![t].pc = "call", ![t].ip = ip]
    /\ UNCHANGED <<api, node, ctl, events, job, pools, count>>

markPodIP(t) ==
    LET th == thread[t] IN
    /\ th.pc = "act" /\ th.want = "use"
    /\ pool' = [pool EXCEPT ![th.pool] = Use(@, th.obj.ip)]
    /\ thread' = [thread EXCEPT ![t].pc = "call"]
    /\ UNCHANGED <<api, node, ctl, events, job, pools, count>>

(* watchResources then cancels the job of the deleted pod.                 *)
recyclingPodIP(t) ==
    LET th == thread[t] IN
    /\ th.pc = "act" /\ th.want = "put"
    /\ pool' = [pool EXCEPT ![th.pool] = Put(@, th.obj.ip)]
    /\ thread' = [thread EXCEPT ![t] = Idle]
    /\ job' = [job EXCEPT ![th.pod] = NoPod]
    /\ UNCHANGED <<api, node, ctl, events, pools, count>>

-----------------------------------------------------------------------------
(* watchResources.                                                         *)

Sent(type, p, obj) == [type |-> type, pod |-> p, obj |-> obj]

HandleEvent(source) ==
    LET e == Head(events[source])
        n == e.obj.node
        cid == Cidr(n) IN
    /\ ctl.pods /\ thread[Watcher].pc = "idle" /\ events[source] # <<>>
    /\ events' = [events EXCEPT ![source] = Tail(@)]
    /\ \/ /\ e.type # "deleted" /\ need(e.obj) /\ ~readOnly(n)
          /\ thread' = [thread EXCEPT ![Watcher] =
                          [Idle EXCEPT !.pc = "send", !.pod = e.pod, !.obj = e.obj]]
          /\ UNCHANGED job
       \/ /\ e.type # "deleted" /\ ~(need(e.obj) /\ ~readOnly(n))
          /\ UNCHANGED <<job, thread>>
       \/ /\ e.type = "deleted" /\ need(e.obj) /\ e.obj.ip # NoIP /\ Cached(n)
          /\ thread' = [thread EXCEPT ![Watcher] =
                          [Idle EXCEPT !.pc = "lookup", !.want = "put", !.pod = e.pod,
                                       !.obj = e.obj, !.cidr = cid]]
          /\ UNCHANGED job
       \/ /\ e.type = "deleted" /\ need(e.obj) /\ ~(e.obj.ip # NoIP /\ Cached(n))
          /\ job' = [job EXCEPT ![e.pod] = NoPod]
          /\ UNCHANGED thread
       \/ /\ e.type = "deleted" /\ ~need(e.obj)
          /\ UNCHANGED <<job, thread>>
    /\ UNCHANGED <<api, node, ctl, pools, pool, count>>

(* preprocessChan has no buffer: watchResources waits until the goroutine  *)
(* of preprocess takes the pod.                                            *)
SendPod ==
    LET th == thread[Watcher] IN
    /\ th.pc = "send" /\ ctl.handed = <<>>
    /\ ctl' = [ctl EXCEPT !.handed = <<[pod |-> th.pod, obj |-> th.obj]>>]
    /\ thread' = [thread EXCEPT ![Watcher] = Idle]
    /\ UNCHANGED <<api, node, events, job, pools, pool, count>>

(* preprocess: the job replaces an older one of the pod.                   *)
Preprocess ==
    /\ ctl.handed # <<>>
    /\ LET h == ctl.handed[1]
       IN  job' = IF Match(h.pod, h.obj) # "none" THEN [job EXCEPT ![h.pod] = h.obj] ELSE job
    /\ ctl' = [ctl EXCEPT !.handed = <<>>]
    /\ UNCHANGED <<api, node, events, thread, pools, pool, count>>

-----------------------------------------------------------------------------
(* playStage.                                                              *)

Take(w, p) ==
    LET obj == job[p]
        want == CASE Match(p, obj) = "ready" -> "get"
                  [] Match(p, obj) = "complete" /\ Managed(obj.node) /\ Cached(obj.node) -> "use"
                  [] OTHER -> "" IN
    /\ ctl.pods /\ thread[w].pc = "idle" /\ obj # NoPod
    /\ job' = [job EXCEPT ![p] = NoPod]
    /\ thread' = [thread EXCEPT ![w] =
                    [Idle EXCEPT !.pc = IF want = "" THEN "call" ELSE "lookup", !.want = want,
                                 !.pod = p, !.obj = obj, !.cidr = Cidr(obj.node)]]
    /\ UNCHANGED <<api, node, ctl, events, pools, pool, count>>

(* What the API server makes of the call: a delete, or a patch of the      *)
(* status of whatever pod has the name.                                    *)
Patched(th) ==
    CASE Match(th.pod, th.obj) = "delete" -> NoPod
      [] Match(th.pod, th.obj) = "ready" ->
           [api[th.pod] EXCEPT !.ip = th.ip, !.from = th.pool, !.done = FALSE]
      [] Match(th.pod, th.obj) = "complete" -> [api[th.pod] EXCEPT !.done = TRUE]

Write(p, new) ==
    /\ api' = [api EXCEPT ![p] = new]
    /\ events' = IF new = api[p] THEN events
                 ELSE [events EXCEPT !.watch = Append(@,
                         IF new = NoPod THEN Sent("deleted", p, api[p])
                         ELSE Sent(IF api[p] = NoPod THEN "added" ELSE "modified", p, new))]

Call(w) ==
    LET th == thread[w] IN
    /\ th.pc = "call" /\ api[th.pod].there
    /\ Write(th.pod, Patched(th))
    /\ thread' = [thread EXCEPT ![w] = Idle]
    /\ UNCHANGED <<node, ctl, job, pools, pool, count>>

NotFound(w) ==
    /\ thread[w].pc = "call" /\ ~api[thread[w].pod].there
    /\ thread' = [thread EXCEPT ![w] = Idle]
    /\ UNCHANGED <<api, node, ctl, events, job, pools, pool, count>>

CanChange == count.user + count.faults < MaxEvents
CanFail == CanChange /\ count.faults < MaxFaults

(* The call fails, or its answer is lost, and the job is queued again.     *)
CallFails(w) ==
    LET th == thread[w] IN
    /\ th.pc = "call" /\ CanFail
    /\ \/ UNCHANGED <<api, events>>
       \/ api[th.pod].there /\ Write(th.pod, Patched(th))
    /\ thread' = [thread EXCEPT ![w].pc = "retry"]
    /\ count' = [count EXCEPT !.faults = @ + 1, !.failed = TRUE]
    /\ UNCHANGED <<node, ctl, job, pools, pool>>

Retry(w) ==
    /\ thread[w].pc = "retry"
    /\ job' = [job EXCEPT ![thread[w].pod] = thread[w].obj]
    /\ thread' = [thread EXCEPT ![w] = Idle]
    /\ UNCHANGED <<api, node, ctl, events, pools, pool, count>>

-----------------------------------------------------------------------------
(* Nodes: the informer updates the cache and then sends the event, which   *)
(* NodeController handles.                                                 *)

NodeCached(n) ==
    /\ node[n].cached # node[n].api /\ events.node = <<>>
    /\ node' = [node EXCEPT ![n].cached = node[n].api]
    /\ events' = [events EXCEPT !.node = Append(@, [node |-> n, there |-> node[n].api])]
    /\ UNCHANGED <<api, ctl, job, thread, pools, pool, count>>

HandleNode ==
    LET e == Head(events.node) IN
    /\ ctl.nodes /\ events.node # <<>>
    /\ events' = [events EXCEPT !.node = Tail(@)]
    /\ node' = [node EXCEPT ![e.node].managed = e.there,
                            ![e.node].lease = IF e.there /\ UseLeases THEN "wanted" ELSE "none"]
    /\ ctl' = [ctl EXCEPT !.queue = IF e.there /\ ~UseLeases THEN @ \cup {e.node} ELSE @]
    /\ UNCHANGED <<api, job, thread, pools, pool, count>>

(* Mutant: the pods of the node are not listed.                            *)
LeaseHeldSilent(n) ==
    /\ node[n].lease = "wanted"
    /\ node' = [node EXCEPT ![n].lease = "held"]
    /\ UNCHANGED <<api, ctl, events, job, thread, pools, pool, count>>

LeaseHeld(n) ==
    /\ node[n].lease = "wanted"
    /\ node' = [node EXCEPT ![n].lease = "held"]
    /\ ctl' = [ctl EXCEPT !.queue = @ \cup {n}]
    /\ UNCHANGED <<api, events, job, thread, pools, pool, count>>

(* Another instance took the lease over.                                   *)
LeaseLost(n) ==
    /\ node[n].lease = "held" /\ CanFail
    /\ node' = [node EXCEPT ![n].lease = "wanted"]
    /\ count' = [count EXCEPT !.faults = @ + 1]
    /\ UNCHANGED <<api, ctl, events, job, thread, pools, pool>>

(* podsOnNodeSyncWorker: the pods of the node are listed and sent.         *)
ListPods(ps) ==
    CHOOSE s \in [1..Cardinality(ps) -> {Sent("sync", p, api[p]) : p \in ps}] :
        {s[i].pod : i \in DOMAIN s} = ps

SyncPods(n) ==
    /\ ctl.pods /\ n \in ctl.queue /\ events.sync = <<>>
    /\ ctl' = [ctl EXCEPT !.queue = @ \ {n}]
    /\ events' = [events EXCEPT !.sync = ListPods({p \in Pod : api[p].there /\ api[p].node = n})]
    /\ UNCHANGED <<api, node, job, thread, pools, pool, count>>

(* The two controllers are started in any order; the pod controller is     *)
(* given the function that tells the leases apart only if it is there.     *)
StartNodes ==
    /\ ~ctl.nodes
    /\ ctl' = [ctl EXCEPT !.nodes = TRUE]
    /\ UNCHANGED <<api, node, events, job, thread, pools, pool, count>>

StartPods ==
    /\ ~ctl.pods
    /\ ctl' = [ctl EXCEPT !.pods = TRUE, !.readOnly = UseLeases /\ ctl.nodes]
    /\ UNCHANGED <<api, node, events, job, thread, pools, pool, count>>

-----------------------------------------------------------------------------
Changed == count' = [count EXCEPT !.user = @ + 1]

CreatePod(p, n) ==
    /\ CanChange /\ ~api[p].there /\ node[n].api
    /\ \E marked \in Marks : Write(p, [NoPod EXCEPT !.there = TRUE, !.node = n, !.marked = marked])
    /\ Changed /\ UNCHANGED <<node, ctl, job, thread, pools, pool>>

DeletePod(p) ==
    /\ CanChange /\ api[p].there /\ ~api[p].leaving
    /\ Write(p, [api[p] EXCEPT !.leaving = TRUE])
    /\ Changed /\ UNCHANGED <<node, ctl, job, thread, pools, pool>>

(* The garbage collector removes a pod whose node is gone, a user a pod    *)
(* with no grace period.                                                   *)
RemovePod(p) ==
    /\ CanChange /\ api[p].there
    /\ Write(p, NoPod)
    /\ Changed /\ UNCHANGED <<node, ctl, job, thread, pools, pool>>

ChangeNode(n) ==
    /\ CanChange
    /\ node' = [node EXCEPT ![n].api = ~@]
    /\ Changed /\ UNCHANGED <<api, ctl, events, job, thread, pools, pool>>

NewNode(there) == [api |-> there, cached |-> FALSE, managed |-> FALSE, lease |-> "none"]
NotStarted == [nodes |-> FALSE, pods |-> FALSE, readOnly |-> FALSE, queue |-> {}, handed |-> <<>>]

Begin(pods) == [watch |-> pods, sync |-> <<>>, node |-> <<>>]

Restart ==
    /\ CanFail /\ count.restarts < MaxRestarts
    /\ node' = [n \in Node |-> NewNode(node[n].api)]
    /\ ctl' = NotStarted
    /\ events' = Begin(ListPods({p \in Pod : api[p].there}))
    /\ job' = [p \in Pod |-> NoPod] /\ thread' = [t \in Threads |-> Idle]
    /\ pools' = [c \in CIDR |-> 0]
    /\ count' = [count EXCEPT !.restarts = @ + 1, !.faults = @ + 1]
    /\ UNCHANGED <<api, pool>>

Init ==
    /\ api = [p \in Pod |-> NoPod] /\ node = [n \in Node |-> NewNode(TRUE)]
    /\ ctl = NotStarted /\ events = Begin(<<>>)
    /\ job = [p \in Pod |-> NoPod] /\ thread = [t \in Threads |-> Idle]
    /\ pools = [c \in CIDR |-> 0] /\ pool = <<>>
    /\ count = [user |-> 0, faults |-> 0, restarts |-> 0, failed |-> FALSE]

Thread(t) ==
    Lookup(t) \/ Make(t) \/ funcPodIPWith(t) \/ markPodIP(t) \/ recyclingPodIP(t)
Play(w) == Thread(w) \/ Call(w) \/ NotFound(w) \/ Retry(w) \/ \E p \in Pod : Take(w, p)
Watch == Thread(Watcher) \/ SendPod \/ Preprocess \/ \E source \in {"watch", "sync"} : HandleEvent(source)
Nodes == HandleNode \/ \E n \in Node : NodeCached(n) \/ LeaseHeld(n) \/ SyncPods(n)
System == StartNodes \/ StartPods \/ Watch \/ Nodes \/ \E w \in Worker : Play(w)

User ==
    \/ \E p \in Pod : DeletePod(p) \/ RemovePod(p) \/ \E n \in Node : CreatePod(p, n)
    \/ \E n \in Node : ChangeNode(n)
Faults == Restart \/ (\E w \in Worker : CallFails(w)) \/ \E n \in Node : LeaseLost(n)

Next == System \/ User \/ Faults

Spec == Init /\ [][Next]_vars

(* Some goroutine that can run is run, calls are answered and leases       *)
(* granted.  Nothing is assumed about which one: what the system does      *)
(* without users and faults comes to an end.                               *)
FairSpec == Spec /\ WF_vars(System)

-----------------------------------------------------------------------------
PoolType == [cidr : CIDR, used : SUBSET IP, usable : SUBSET IP, index : 0..(MaxIndex + 1)]
HandedType == {<<>>} \cup {<<h>> : h \in [pod : Pod, obj : PodType]}

ThreadType == [pc : {"idle", "lookup", "make", "act", "call", "retry", "send"}, pod : Pod, obj : PodType,
               want : {"", "get", "use", "put"}, cidr : CIDR, pool : 0..MaxPools,
               ip : IP \cup {NoIP}]
EventType(types) == [type : types, pod : Pod, obj : PodType]

(* The values of the variables; a CIDR has a pool of its own addresses.    *)
TypeOK ==
    /\ api \in [Pod -> PodType] /\ job \in [Pod -> PodType]
    /\ node \in [Node -> [api : BOOLEAN, cached : BOOLEAN, managed : BOOLEAN,
                          lease : {"none", "wanted", "held"}]]
    /\ ctl \in [nodes : BOOLEAN, pods : BOOLEAN, readOnly : BOOLEAN, queue : SUBSET Node,
               handed : HandedType]
    /\ events \in [watch : Seq(EventType({"added", "modified", "deleted", "sync"})),
                   sync : Seq(EventType({"sync"})),
                   node : Seq([node : Node, there : BOOLEAN])]
    /\ thread \in [Threads -> ThreadType]
    /\ pool \in Seq(PoolType) /\ Len(pool) <= MaxPools
    /\ pools \in [CIDR -> 0..Len(pool)]
    /\ \A c \in CIDR : pools[c] # 0 => pool[pools[c]].cidr = c
    /\ count \in [user : Nat, faults : Nat, restarts : Nat, failed : BOOLEAN]

(* The pool of a CIDR was made once.  It is made again after a restart,    *)
(* and when two goroutines find none at the same time.                     *)
MadeOnce(cidr) == \A i, j \in DOMAIN pool : (pool[i].cidr = cidr /\ pool[j].cidr = cidr) => i = j

(* Two pods never have the same address, although the addresses of deleted *)
(* pods are given again, jobs run on old versions of pods and of other     *)
(* pods of the same name, and failed calls are repeated; and the address   *)
(* of a pod is in use in the pool and not among the ones to be given next, *)
(* so recyclingPodIP never frees the address of a living pod.  It takes    *)
(* two pools for one CIDR to break this.                                   *)
NoSharedIP ==
    /\ \A p, q \in Pod : (p # q /\ api[p].ip # NoIP /\ api[p].ip = api[q].ip)
                          => ~MadeOnce(api[p].ip[1])
    /\ \A p \in Pod : (api[p].ip # NoIP /\ MadeOnce(api[p].ip[1])) =>
         LET from == pool[api[p].from] IN api[p].ip \in from.used \ from.usable

(* A pod on a managed node that no disregard selector matches does not     *)
(* wait for ever for its address, nor for its removal, whichever           *)
(* controller was started first and whether its events came before or      *)
(* after its node was managed or its lease held.  Pods of jobs and failing *)
(* calls are left out: the stalls they can meet are those of               *)
(* StageController.                                                        *)
PodsPlayed ==
    \A p \in Pod \ JobPods :
        []<>(count.failed \/ ~(api[p].there /\ Match(p, api[p]) # "none" /\ need(api[p])
                              /\ node[api[p].node].api))
=============================================================================
