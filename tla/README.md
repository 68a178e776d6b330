# A TLA+ model of kwok and kwokctl

kwok (Kubernetes WithOut Kubelet) simulates the life of nodes, pods and other
resources. It watches them in an API server, matches each one with a configured
*stage*, waits for the stage's delay, and then patches or deletes the resource.
Several instances can share the nodes of a cluster; who plays a node is decided
by the node's lease. kwokctl creates the clusters kwok runs in, on one of several
runtimes, and saves, restores, records, replays and scales what is in them.

Paths below are relative to `src/`. `PROJECT.json` maps every definition to the
lines it models and lists the hazards of the code by source line.

## The system and its modules

```
 kwok     API server --watch--> informer --nodesChan/podsChan--> watchResources
              ^                                                     |
              |                            TryHold/ReleaseHold      | preprocessChan
              |   node leases <-------------------------------------+
              |      |  onNodeManaged -> nodeLeaseSyncWorker ------>|
              |      |                -> podsOnNodeSyncWorker       v
              |      v                     (Sync events)        preprocess -> addStageJob
              +-- requests                                                       |
              +-------------------- playStage <- playStageWorker <- delayQueue <-+
          stages --dynamic getter--> StagesManager --> one controller per kind
          server: flags -> rules -> exec, logs, ..., metrics

 kwokctl  flags, environment, files -> configuration -> components -> runtime
          cluster: create start stop delete, snapshot save/restore
          objects: snapshot export/record/restore/replay, hack, scale
          files:   kubeconfig, cache of binaries
```

| part | source (`pkg/`) | module |
|---|---|---|
| what a delaying queue promises | `utils/queue` | `DelayQueue` |
| the queue in detail | `utils/queue`, `utils/heap` | `WeightDelayingQueue` |
| stage pipeline | `kwok/controllers/stage_controller.go`, the same code in the pod and node controllers | `StageController` |
| a stage from its selection to its patches, the stage tester | `utils/lifecycle`, `utils/expression`, `tools/stage` | `Lifecycle` |
| node leases, node controller, informers | `kwok/controllers/node_lease_controller.go`, `node_controller.go`, `controller.go`, `utils/informer` | `NodeLease` |
| pods, IP pools, pods of a node | `kwok/controllers/pod_controller.go`, `utils.go`, `controller.go` | `PodController` |
| dynamic getters, controllers per kind | `config/resources`, `kwok/controllers/stages_manager.go` | `StagesManager` |
| metrics | `kwok/metrics`, `kwok/server/metrics*.go` | `Metrics`, `Histogram` |
| start of kwok, the server's rules and routes | `kwok/cmd`, `kwok/server` | `Server` |
| components and their order | `kwokctl/components`, the Add functions of the runtimes | `Components` |
| clusters on binary, docker/podman, nerdctl, kind | `kwokctl/runtime`, `kwokctl/cmd/create` to `delete` | `Cluster` |
| copies of a cluster's objects, hack | `kwokctl/snapshot`, `kwokctl/etcd`, `kwokctl/cmd/snapshot`, `cmd/hack` | `Snapshot` |
| timing of a replay | `kwokctl/etcd/load.go`, `kwokctl/recording` | `Replay` |
| scale | `kwokctl/scale` | `Scale` |
| options and their defaults | `config/vars.go` | `ConfigOptions` |
| configuration | `config`, `apis/internalversion`, `kwokctl/cmd/config` | `Config` |
| extra arguments of components | `kwokctl/cmd/create/cluster`, `kwokctl/runtime/util.go` | `ExtraArgs` |
| the user's kubeconfig | `utils/kubeconfig`, `cluster_context.go` of the runtimes | `Kubeconfig` |
| cache of binaries | `utils/file/download.go`, `untar.go` | `Download` |

The modules `MC...` give constants their values. `MCKwok` and `MCKwokctl` put
parts that share no state side by side, and `MCControllers` the pipeline and its
queue: a behaviour takes one of them (`part`) and the variables of the others stand
still. `MCKwok` extends `WeightDelayingQueue`, `MCKwokctl` extends `Replay`,
`MCControllers` extends `MCStageController`; the other parts are instances, and their
properties are repeated there under the condition that their part is taken.
`...Proofs` hold the theorems.

The parts are composed by contracts. `WeightDelayingQueue` implements
`DelayQueue`; `StageController` uses the queue that `DelayQueue` describes and
keeps the caller's side of the contract: it never adds a job the queue still has.
The lease controller does not keep that side, so `NodeLease` has the heap with
its index in it, as operators on the memory of an instance. `Cluster` takes the
components and their order from `Components`.

Operators after a comment that begins with "Mutant" are not part of the
specifications. Each is a plausible mistake in the definition after it, and
putting it in the place of that definition makes one of the properties fail.

### kwok

**WeightDelayingQueue.** A step is one critical section, one channel operation or
one list operation. `Enlist` is weightQueue.AddWeight up to its signal; `Signal`
and `LoopSignal` are the selects with a default branch; `LoopNext` is next() with
the mutex held; `GetBase`, `BaseEmpty`, `StepLock`, `StepMove`, `StepDown`,
`StepUnlock` and `Stolen` are weightQueue.Get, whose fast path does not take the
mutex; `Wake` and `Leave` are the select of GetOrWaitWithDone. The array of a heap
is a map from items to keys, and among equal keys `Heads` chooses any. At the end
of the bounded clock every timer fires. `due` and `lane` are ghosts: what was
asked for an item.

**StageController.** A resource is a phase (whatever the selectors look at), a
finalizer or none, and a deletion mark or none. One status patch stands for the
patches of a stage and is idempotent: applying it again changes nothing, and the
API server then sends no event. The id of a job stands for its RetryCount
pointer. preprocessChan has no buffer, so `SendWatched` and `SendPlayed` are joint
steps. addStageJob is three steps, and so is what watchResources does on a Deleted
event. A call succeeds, finds nothing, or fails in one of the ways of `Faults`; a
"late" failure is a time-out after the effect.

**Lifecycle.** An object is what jq finds in it. NewLifecycle, Match by labels and
weights, Delay with jitter, the finalizers of a patch and the order of the patches
are operators; a stage's way through preprocess and playStage is the state. The
stage tester prints what it expects; `Foretold` compares the two.

**NodeLease.** Each instance has one record of memory. A node event travels from
`stream` to the informer's store and nodesChan (`NodeCached`) to watchResources
(`WatchNode`). The lease cache is the first element of `seen[i][n]`, the last one
is what the API server has. An update is refused once the stored lease has changed
since it was built. Time is relative: ages stop just past the duration, so
behaviours are infinite and the state space is finite. `Prompt` says what time
waits for: with all three of its elements no unit of time passes while a cache is
behind, a goroutine has something to do or a request is older than `Latency`.

**PodController.** The pools of addresses with funcPodIP, markPodIP and
recyclingPodIP, the node check in need, podInfo, podsOnNodeSyncWorker, the order in
which the controllers are started, and a restart that empties the pools. The queue
is one waiting job per pod; leases are granted at some time.

**StagesManager.** The version of a getter moves before its store has the object,
lists are cached by version, and the manager starts and stops a controller per
kind; starting can fail and a watch can break.

**Metrics, Server.** A scrape is one HTTP request, step by step; two of them
interleave at every access to the handler, its collectors and the registry.
`Server` starts with the flags, decides for every kind of rule between the
configuration and the cluster, serves requests while the rules change, and follows
metrics with routes.

### kwokctl

**Components, Cluster.** `Components` has the builders and, for each runtime, what
each Add function appends. A command of `Cluster` is a sequence of steps made from
the code of the runtime (`BinaryUp`, `ComposeUp`, `KindSnapshotRestore`, ...), with
the failures each step can have, what is only logged, what is deferred and what is
tried again. A component can die, a command can be killed anywhere, and etcd's data
is a set of writes that lives in a directory, a snapshot or restart.db.

**Snapshot, Replay.** Two savers and two loaders over one file, `hack get/put/delete`,
and their interruptions. Stopping and starting components around a replay is left
out. A recorder tracks objects under a key (`TrackKey`) that two of them can share.
`Replay` has the heap of patches, the waiting loop, pause and speed in milliseconds;
only with a terminal there is a handle (`handle`), whose keys pause the replay and
change its speed, and only then a late replay slows down.

**ConfigOptions, Config.** The value of an option is where it comes from. Every default
of kwokctl is one step of `setKwokctlConfigurationDefaults`, in the order of the code,
so that a default that depends on another one sees what the code sees. Files are loaded,
converted, merged, saved and tidied as documents; the conversion loses the options
that opt out of it.

**Scale, ExtraArgs.** Slices become sequences; the positions of the code start at 0.
Commands of `Scale` use one serial length, or 0, which makes one object without number.

**Kubeconfig, Download.** Commands for several clusters or destinations at a time,
each killed anywhere. ModifyContext is load, lock and write; ModifyConfig rewrites the
file for each kind of entry that changed, and each of these writes is one step (that
os.WriteFile truncates the file first is left out). A file of the cache is
an inode that paths lead to, so a renamed or removed file is still written by who
has it open.

## What is checked

`tlc -workers 2 -config <run>.cfg <module>`. Deadlock is checked in NLLiveness,
where time never ends; the other systems stop when nobody asks for anything and
the bounds are used up.

| run | module | distinct states | instance |
|---|---|---|---|
| Kwok | MCKwok | 1 468 066 | queue: 2 items, 2 workers, weights 0 to 2; leases: 2 instances, two of a change, a failing request and a crash; metrics: 2 scrapers, 1 pod; server; stages |
| Controllers | MCControllers | 406 233 | pipeline: 1 resource, 2 user changes, a list or a failing call, disregarded phase, immediateNextStage; queue: 2 items, 1 worker, weights 0 and 1 |
| NLLiveness | MCNodeLease | 64 972 | 2 instances with 1 change and 1 crash; 1 instance with 2 changes, or with a change and a failing request |
| STFollow | StagesManager | 142 063 | 2 kinds, 2 changes, 1 broken watch or failed start |
| PCPods | MCPodController | 1 642 663 | 2 pods, one of a job, 1 node, 3 events, 1 failing call, 1 restart |
| Kwokctl | MCKwokctl | 2 108 494 | snapshot: 3 kinds, 3 events; replay: 4 recordings; scale: 3 commands; config: 4 files, 4 environments; kubeconfig: 2 clusters, 3 commands; download: 2 commands, 3 runs; cluster: 4 commands on each of 5 runtimes, 1 failure, death or kill |
| SCSyncStall | MCStageController | violation | 1 resource, 1 change, 1 list |
| NLHeartbeats | MCNodeLease | violation | 1 instance, 2 nodes, 2 changes of one of them |
| MTBuckets | MCKwok | violation | the metrics of Kwok |
| SNFilter | MCKwokctl | violation | the snapshots of Kwokctl |
| SCReplicas | Scale | violation | 3 commands |
| EAReach | MCExtraArgs | violation | 4 arguments for 2 components |

What the properties say, by run:

* **Kwok.** `ImplementsDelayQueue`: no addition is lost, doubled or delivered by
  another way than its heap or its list. `NoLostWakeup`: a ready item and only
  waiting workers means that a token is in the channel or about to be; loopWorker
  does not sleep past a key without a signal under way. `HolderKeepsLease`: an
  instance that renews in time keeps its lease. `ScrapeExact`: an answer no other
  overlaps is what the metrics and the objects were when it was made.
  `UsageIntegrated`: a cumulative value is the sum of usage and time between the
  scrapes. `OneSource`: one source of every kind of rule. `RightTarget`: the target
  meant for the container. `Foretold`: the stage tester prints what the controller
  does. `MatchProportional`: every stage is chosen for its share of the random
  numbers. `FinalizersExact`: the finalizers after a stage are those it asks for.
* **Controllers.** `JobOnce`: a job is in one place. `SkipJustified`: preprocess
  skips a version for which the map has a job; as long as no call failed that job is
  under way, and after that only a goroutine that took the job from the map earlier
  can cancel it there. `KeepsQueueContract`. `SettlesUntroubled`: a resource that no
  list and no late failure disturbs reaches a state no stage matches.
  `PriorityBound`: how many retried items can be in front of a fresh one.
  `EveryDelayExpires`, `EveryReadyTaken`: of one of the two items, which are
  interchangeable.
* **NLLiveness.** `NodeManaged`: the last version of a node is offered to the
  stages by some instance. `TakeoverOnlyExpired`: the holder of a lease changes only
  when it has expired.
* **STFollow.** `RunsConfigured`: in the end the configured kinds run, except those
  that could not be started. `OnlyTornIsStale`: in the end every controller is given
  the last list of its stages. Both name the races that break them. A list is *torn*
  when it was made after the version of a change was noted and before the store had
  the change; it is cached under that version and stays until the next change, so
  that "returns the latest list of resources" (`config/resources/dynamic.go:38`,
  `LatestList` in the module) is not true of it. RunsConfigured can also fail when
  the manager is woken before the version is noted.
* **PCPods.** `NoSharedIP`: an address belongs to one pod and is not free meanwhile.
  `PodsPlayed`: pods of a managed node are played.
* **Kwokctl.** `ReplayReproduces`: what a replay ends with is what was recorded,
  unless two objects share the key the recorder tracks them by. `Restored`: owners
  resolve, and objects come back in whatever order they were saved, up to the one
  level of waiting that the code follows. `GetConsistent`: the pages of `hack get`
  are of one revision. `ScaledInOrder`: scale reaches its number when nothing
  disturbs it and the objects are in the order of their age. `ConfigurationKept`:
  what was saved is what is loaded. `OptionsCoherent`: defaults follow the options
  they are made from. `OrderRestored`, `Paced`: a replay applies patches in order,
  and not before their time. `ContextsKept`: contexts resolve, and are those of the
  clusters that exist. `BinaryWhole`: a linked binary is whole. `LinksRespected`:
  order of start and stop. `LeavesNothing`: after delete and after the clean-up of
  create. `KeepsData`: what restore, stop and start do to etcd's data when a step
  fails. `EndsRunning`: a command that succeeds leaves the saved components running.

### Why the bounds are enough for the cases of interest

* *Queue.* Two workers are needed for one to empty the list while the other is in
  step (`Stolen`), two items for a second token to be dropped, MaxSleep = 2 for a
  sleep that is longer than a delay. How many items step may move shows with one
  worker already, which Controllers has.
* *Pipeline.* Resources of different keys share only the queue, whose items do not
  interact, so one key is enough. Two user changes give a second version or a
  deletion while a job is delayed, ready or played.
* *Leases.* Kwok keeps the proportion of the code: the interval is a quarter of the
  duration. MaxLag = 1: a request built from a cache that is one version behind is
  refused, whatever it is further behind.
* *Pods.* Size = 2 and MaxIndex = 3: the pool runs out and addresses are given
  again; one restart is needed for a second pool.
* *Stages manager.* Two changes: a stage comes and goes again, or each kind gets one,
  while a list of the first is being read or its controller started.
* *Clusters.* Four commands: create, one that changes data, one that is disturbed,
  one that shows what is left. One failure: what the code does about a failure does
  not depend on an earlier one, except in cleanUp, which is tried with any step
  failing.
* *Metrics.* Two scrapes are needed for one to remove what the other registered.
* *Snapshot.* An owner that is saved before and one that is saved after the object;
  a heap of two holds a patch back and lets it go.
* *Replay.* Recordings that are out of order by less and by more than the window.
* *Kubeconfig, Download.* Two commands that overlap, and a third that meets what
  they left.

### Fairness

*Queue and pipeline.* Weak fairness of every goroutine: the Go scheduler runs what
can run. Strong fairness of the two senders on preprocessChan: blocked senders are
served in order. The clock goes on, so delays expire. Nothing is assumed of users,
lists, failures and Cancel.

*Leases.* Time goes on for ever, unless every age and every delay has reached its
end and a tick changes nothing (`Still`). Weak fairness of the goroutines and of
answers to requests. Strong fairness of what competes for a channel or a queue
(NodeCached, Manage, GetName), because both are first in, first out. Every
instance is started at some time, and fewer crash than there are. Failing
requests, crashes and users are under no obligation.

*Pods and stages manager.* Weak fairness of the goroutines, the informer and the
API server's answers; none of users, failures and restarts.

## Where the code and its documentation disagree

1. **A listed version can stop a resource (SCSyncStall).** A version from a Sync
   list that arrives after a newer watch event replaces the newer job, because
   versions are only compared for equality. The old stage changes nothing, no event
   follows, and the resource stays where it is, although
   stages-configuration.md says that the update "will be caught by the controller
   later and trigger the next check and apply round". A time-out after the effect
   leads to the same (MaxFaults = 1, MaxLists = 0): the retry cancels the newer job.
   Both depend on patches that give the same result when applied again.
2. **Scaling down deletes too much (SCReplicas).** sort.Find in scale.go wants the
   opposite sign of what its callback answers. Where object 000000 is younger than
   000001, scaling to 1 deletes both.
3. **Extra arguments panic or go astray (EAReach).** mutationComponentPatches uses
   the index of a component's first argument among --extra-args as an index of the
   component patches, which have one entry per component. In the trace a malformed
   argument is followed by two for etcd: componentPatches has one entry, the second
   argument for etcd uses index 1, and create panics. Arguments a, a, b, b panic as
   well; with a, a, b, c, b the last one goes to c.
4. **A node made again stops the heartbeats of others (NLHeartbeats).** ReleaseHold
   does not cancel a name that is ready or being synced, and TryHold queues it a
   second time. Both entries get into the heap, `Heap.Push` has overwritten the index
   of the first, and once the second is gone the first stays at the head for ever and
   holds back the nodes behind it, although kwok-manage-nodes-and-pods.md says that
   kwok will "maintain their heartbeats to the API Server".
5. **+Inf counts nothing (MTBuckets).** Write of histogram.go carries the count on to
   a bucket only when a value lies above the one before. The buckets above the last
   value stay at 0, +Inf among them, where metrics-configuration.md says that "each
   bucket contains values less than or equal to `le`".
6. **A filtered restore ends early (SNFilter).** Load returns at the first object of a
   kind that is not asked for, instead of going on to the next, where
   kwokctl-snapshot.md says that --filter filters "the resources you want to save or
   restore".

Met while modelling, without a sentence in the documentation to hold against. The
first was seen in TLC, with NoSharedIP without its condition; the others were read in
the code. Where one of them would break a
property, the property leaves it out by name (`MadeOnce` in NoSharedIP, `broken` and
`shared` in BinaryWhole, `calm` in ContextsKept):

* With the constants of PCPods two pods can share an address after a restart, since
  the pools are empty then and addresses are only marked in playStage; with two
  workers and no restart they can too, because each of two goroutines that find no
  pool for a CIDR makes one. `NoSharedIP` is about pools that were made once. A pool counts past the last address of its CIDR.
* A killed create between its first Save and the end of Install leaves a cluster
  without components, which the next create continues.
* A kill between RemoveAll and RenameFile of the binary runtime's restore loses etcd's data; a kill during
  an extraction leaves part of a binary that later commands use; an archive given as
  a local file is removed after its extraction.
* Of two overlapping commands one loses its change of the kubeconfig, a killed one
  leaves the lock file, and a kind cluster's own kubeconfig is made from whatever
  the current context is by then.
* DisableKubeControllerManager of kind stops kube-scheduler (kind/cluster.go:957).
* A restore releases objects that wait for an owner one level deep only.
* Of two overlapping scrapes one may lack a metric; the cumulative usage of a node is
  kept under its name alone and never dropped.
* finalizersModify looks whether an added finalizer is there before it removes any.
* Errors of scale's deletions are only logged. A pause after the last look at it lets
  one more patch of a replay through. `config tidy` writes all defaults into the file,
  and Cluster.Save adds the default stages twice (runtime/cluster.go:180 and 194).
* --etcd-binary-tar, --prometheus-binary-tar and --jaeger-binary-tar have no effect: the
  binaries have been derived from the default archives by the time flags are read.

## What is proved

TLAPS checks the theorems for every value of the constants that satisfies the named
assumptions: `QueueAssumption`, `StageAssumption`, `LeaseAssumption`, `PodAssumption`,
`ReplayAssumption` (the shapes of the constants; at least one
positive weight; nobody is not a worker; a lease lasts at least a second; finitely many
pods and nodes; the heap of a replay has room for one patch). TLC evaluates them in the
runs. Some theorems name what they assume beyond that: PriorityBounded that there are
finitely many workers, LinkedIsWhole `Blocks \in Nat`, and the two of the server
`Shapes` (the endpoints are among its five, --enable-crds names known kinds, rules have
the type of their kind).

| module | theorem | states |
|---|---|---|
| WeightDelayingQueueProofs | TypeCorrect | `Spec => []TypeOK`; loopWorker has an item when it adds one, step stays within the weights |
| | OneCopyAlways | `Spec => []OneCopy`: one copy of an item in heaps, hand and lists |
| | NeverEarly | `Spec => []NotEarly`: no item is ready before its time |
| | QueueImplemented | `Spec => ImplementsDelayQueue` |
| WeightQueueProofs | WakeupsKept | `Spec => []NoLostWakeup` |
| | PriorityBounded | `Spec => []PriorityBound` |
| StageControllerProofs | TypeCorrect | `Spec => []TypeOK`; no goroutine is where it needs an object or a job without having it |
| | JobsAreUnique | `Spec => []JobOnce` |
| | QueueContractKept | `Spec => KeepsQueueContract`: the caller's side of `DelayQueue` |
| | SkippingIsJustified | `Spec => SkipJustified` |
| NodeLeaseProofs | TakeoverSafe | `Spec => TakeoverOnlyExpired` |
| | UnexpiredSafe | `Spec => UnexpiredKept`: a stored lease that has not expired keeps its holder while its node is there |
| PodControllerProofs | TypeCorrect | `Spec => []TypeOK`; ipPools maps a CIDR to a pool of its own |
| | AddressesUnique | `Spec => []NoSharedIP` |
| ServerProofs | SourcesAreOne | `Spec => []OneSource` |
| | TargetsAreRight | `Spec => []RightTarget` |
| DownloadProofs | LinkedIsWhole | `Spec => []BinaryWhole` |
| ReplayProofs | ReplayKeepsItsPlaces | `Spec => []ReplayInv`, the inductive invariant |
| | OrderIsRestored | `Spec => []OrderRestored` |
| | PaceIsKept | `Spec => []Paced` |

A proof module begins with the provers (`USE SMTT(10), ...`) that try the steps which
name none.

The two refinements fit together: the pipeline only makes calls the contract allows,
and under that restriction (`Added` has the guard `~InQueue`) the queue keeps the
contract. That guard is an assumption of the queue's theorems. The lease
controller does not satisfy it, and they say nothing of its queue.

**The queue.** `IInv` is TypeOK, no list with a repeated item, and for each item
`Once` (it is in one place) and `Timely` (it is ready only after its time, and the key
of a heap entry is the time that was asked for). The last part is the strengthening
NotEarly needs: loopWorker compares keys with the clock, not what was asked for.
`IInvStep` also says how every step moves items (`Moves`: none, an addition, an
expiry, a delivery, ...), and the refinement follows from that alone.

NoLostWakeup speaks of a state in which all workers wait; `WInv` says what holds on
the way there. A list that is not empty has a signal under way or a worker that will
look at it: at the list Get reads (`BaseSeen`) one that has not called yet, or one
whose step moved something; at the list of a weight (`LaneSeen`) one whose step has
not passed it. Step passes a list that is not empty only after it has moved as many
items as the weight (`Unmoved`), so its worker calls again. If others have taken
everything by then, they are the ones who will look again (`Robbed`); this is the
case of `Stolen`. `Mutex` says that one worker at a time is in step. The half about
loopWorker (`SleepSafe`) is inductive with TypeOK. OneCopy, NotEarly and WInv were
also checked with TLC on the instance of Kwok.

PriorityBound counts what is in the list Get reads, but what will come matters as
well: several workers can have seen the list empty before the first of them enters
step. `Bound` therefore adds to the items of weight w in the list (`Held`) what each
worker before or in step may still move there (`Credit`): w before its step comes to
the weight, then what is left of it. Moving an item turns credit into an item. Credit
is only given when the list is seen empty, and no worker has more than w of it. This
needs that an item lies in the heap and in the list of the weight it was added with
(`Laned`), and that step never has more left than the weight it is at (`InStep`).

**The pipeline.** `IInv == TypeOK /\ JobOnce /\ Numbered`. preprocess makes a new job,
and that it is none of the queued ones follows from `Numbered`: no job has a number
above the counter. (In the code the number is the fresh RetryCount pointer.)
`QueueStep` shows that each step is one of `DelayQueue` or leaves the queue alone; Put
and PutAfter need JobOnce, because the added job must not be queued.

SkipJustified needs `MapInv`: a job is not in the map while it is played or about to be
put back; as long as no call failed, neither the jobs in the map nor the ones about to
be put there are being cancelled, and no worker puts a job back. Without the condition
on failures it is not an invariant. A worker puts a job back after a failed call, a
goroutine that had taken the job from the map before cancels it, and the map keeps a
job that is nowhere; the second half of SkipJustified says that this is the only way.

**Leases.** `LeaseInv` has two parts. `CachesFollow`: the versions on their way to the
cache of an instance end with the stored lease. `RequestsJudged`: a renewal that the
API server would accept was built from the stored lease, so what tryAcquireOrRenew
concluded from the cache (it holds the lease, or the lease has expired) is still so. A
stale cache only makes requests that the resource version refuses. UnexpiredSafe is
the half of HolderKeepsLease that has nothing to do with time; that the renewals come
early enough is only model-checked.

**Addresses.** `PodInv` is TypeOK, `Sound` (a goroutine that acts on a pool has one of
the right CIDR; a pod's address is of the pool it was taken from; a free address is of
its pool's CIDR) and `Addresses`. NoSharedIP speaks of pods, but an address is also
owned on its way: by the Deleted event of its last pod, by the goroutine that recycles
it, and by the one that has got it and not yet patched the pod. `Alone` says that there
is at most one owner of all these kinds, `Owned => InUse` that an owned address is not
to be given again. Every action then only hands addresses over (`Dropped`,
`PodToEvent`, `EventToHand`), or takes one nobody owns (`NewInHand`).

**The server.** `StartInv` says which checks of runE and startServer are done at each
point of the start, `RequestInv` that the answer of a request is the target meant for
the container.
`LookupRight` shows that for the search itself: for rules of any length the first target
that names the container, else the first that names none, whichever order a store
lists the rules in.

**The cache of binaries.** `DownloadInv`: a command has the file it writes and no other
(`FilesInv`), a binary is whole or left in the middle or has all that the last command
to open it has written (`MadeInv`), and as long as no two commands wrote one file at a
time the cache is whole (`AloneInv`). The proof is for any number of commands; the
runs have two, and with three it shows in one more place that commands share a
temporary file: one can rename the file another is still writing. BinaryWhole
therefore speaks of any two commands having written one file, not of the writers of
this file.

**Replays.** `OnceInv`: a decoded patch is in the heap, in hand or applied, in one of
them. `OrderInv` says of any two patches, the second not yet applied, what
OrderRestored says of the applied ones: the first goes before an earlier second one
only if that is late by Window patches. A full heap is why: Pop takes the earliest of
Window patches, so if a patch that is decoded later is earlier still, all of them stand
before it. The proof gave a stronger property than the one there was, which counted
Window - 1. `PaceInv` follows the time: what Replay takes for its position (`dur`,
less what is left to wait) is reached by the time that has passed, at the highest speed
chosen; one millisecond is added for each second waited and for each patch, because
every turn of the loop is rounded down. `PauseInv`: in a pause the goroutine stands at
handlePause, or had passed it before.

The inductive invariants `LeaseInv`, `PodInv`, `MapInv`, `ServerInv`, `DownloadInv`,
`PInv` and `ReplayInv` were also checked with TLC on small instances.

**Only model-checked:** HolderKeepsLease (it is about time: the sums of
delays, latencies and retries), and the safety properties of the modules not in the
table. What the recursive definitions of `ConfigOptions` compute would need induction over
data, and liveness under fairness is out of the prover's reach too.

## What is not modelled

* *Rendering and queries.* Templates, jq, CEL, the status of nodes and pods: what they
  give is data of the models.
* *I/O and other programs.* Streams of exec, logs and port forwarding, TLS, profiling,
  PKI, starting processes, command lines, images, addons: they have no state of their
  own. What their failures do to a cluster is in `Cluster`.
* *API types.* Declarations and generated code, apart from the conversions `Config` has.
* *Clients and events.* Building clients, event recorders, the lazy cache and the filters
  of the informer.
* *The array of a heap.* It is a map in `WeightDelayingQueue`; an item that is in it
  twice is modelled in `NodeLease`.
* Cancel does not see an item that is already ready; callers ignore its answer. No
  property forbids that a cancelled job is played.
* Several workers can wait while several items are ready, because one token wakes one
  worker; NoLostWakeup is about the case where all of them wait.
* nodeLeaseSyncWorker can send a Sync event of a node after its Deleted event. The
  lease of a node that does not exist is then held and renewed. No document says
  what should happen, so no property is stated.
