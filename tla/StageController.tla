-------------------------- MODULE StageController --------------------------
(***************************************************************************)
(* The pipeline that pkg/kwok/controllers/stage_controller.go,             *)
(* pod_controller.go and node_controller.go share:                         *)
(*                                                                         *)
(*   watchResources -> preprocessChan -> preprocessWorker -> addStageJob   *)
(*      -> delayQueue -> playStageWorker -> API server -> watchResources   *)
(*                                                                         *)
(* The delay queue is the one module DelayQueue promises (implemented by   *)
(* WeightDelayingQueue); the API server and the informer are modelled from *)
(* how the controllers use them.  A step ends where another goroutine can  *)
(* interfere: at a map operation, a queue operation, a channel operation   *)
(* or an API call.                                                         *)
(***************************************************************************)
EXTENDS Integers, Sequences, FiniteSets

CONSTANTS
  Key,          \* names of the resources of one kind
  Worker,       \* the playStageParallelism goroutines of playStageWorker
  Pre,          \* the preprocessWorker goroutine
  Phase,        \* what the selectors of the stages tell apart in a resource
  FirstPhase,   \* the phase of a resource that was just created
  Disregarded,  \* phases the disregard selectors of need() match
  Stage,        \* the configured stages
  Matching,     \* Matching[c]: the stages lifecycle.Match may choose for content c
  MaxUser,      \* bound on the changes made by users
  MaxLists,     \* bound on the Sync lists
  MaxFaults,    \* bound on failing API calls
  MaxTrouble,   \* bound on lists and failing calls together
  Faults,       \* how a call may fail: not retryably ("fatal"), retryably
                \* without effect ("refused"), retryably after it took
                \* effect ("late")
  NoObj,
  NoJob

Content == [phase : Phase, fin : BOOLEAN, del : BOOLEAN]
Obj     == [key : Key, rv : Nat, content : Content]
Job     == [obj : Obj, stage : Stage, id : Nat]
Adder   == Worker \cup {Pre}

ASSUME StageAssumption ==
  /\ Pre \notin Worker
  /\ FirstPhase \in Phase
  /\ Disregarded \subseteq Phase
  /\ Stage \subseteq [to : Phase, fin : {"keep", "add", "drop"}, delete : BOOLEAN,
                      delayed : BOOLEAN, immediate : BOOLEAN]
  /\ Matching \in [Content -> SUBSET Stage]
  /\ MaxUser \in Nat /\ MaxLists \in Nat /\ MaxFaults \in Nat /\ MaxTrouble \in Nat
  /\ Faults \subseteq {"fatal", "refused", "late"}
  /\ NoObj \notin Obj
  /\ NoJob \notin Job

VARIABLES
  api,       \* the resources in the API server
  version,   \* the last resource version handed out
  events,    \* the watch events not yet received by watchResources, in order
  lists,     \* resources of a Sync list not yet received
  users, listed, faults,   \* how much of each bound is used up
  watch,     \* the watchResources goroutine
  act,       \* the preprocessWorker and the playStageWorkers
  mapping,   \* delayQueueMapping
  delayed, ready,  \* delayQueue
  created    \* how many jobs were created; a job's id stands for its RetryCount pointer

apiVars   == <<api, version, events>>
envVars   == <<lists, users, listed>>
queueVars == <<delayed, ready>>
vars == <<api, version, events, lists, users, listed, faults, watch, act, mapping,
          delayed, ready, created>>

IdleWatch == [pc |-> "idle", obj |-> NoObj, job |-> NoJob]
Idle == [pc |-> "idle", obj |-> NoObj, job |-> NoJob, old |-> NoJob]

Init ==
  /\ api = [k \in Key |-> NoObj]
  /\ version = 0
  /\ events = <<>>
  /\ lists = {}
  /\ users = 0 /\ listed = 0 /\ faults = 0
  /\ watch = IdleWatch
  /\ act = [a \in Adder |-> Idle]
  /\ mapping = [k \in Key |-> NoJob]
  /\ delayed = {} /\ ready = {}
  /\ created = 0

-----------------------------------------------------------------------------
(* The API server.  A change gets a new version and one watch event; a     *)
(* request that changes nothing gets neither.  A resource marked for       *)
(* deletion goes when its last finalizer does.                             *)

Written(k, c) == [key |-> k, rv |-> version + 1, content |-> c]

(* The answer to a request that writes content c to the existing k.        *)
Answer(k, c) == IF c = api[k].content THEN api[k] ELSE Written(k, c)

Write(k, c) ==
  IF api[k] # NoObj /\ c = api[k].content THEN UNCHANGED apiVars
  ELSE /\ version' = version + 1
       /\ IF c.del /\ ~c.fin
          THEN /\ api' = [api EXCEPT ![k] = NoObj]
               /\ events' = Append(events, [type |-> "Deleted", obj |-> Written(k, c)])
          ELSE /\ api' = [api EXCEPT ![k] = Written(k, c)]
               /\ events' = Append(events, [type |-> "Changed", obj |-> Written(k, c)])

Deleting(c) == [c EXCEPT !.del = TRUE]

-----------------------------------------------------------------------------
(* Users and the Sync lists.                                               *)

userOnly == <<lists, listed, faults, watch, act, mapping, queueVars, created>>

Create(k) ==
  /\ users < MaxUser /\ api[k] = NoObj
  /\ Write(k, [phase |-> FirstPhase, fin |-> FALSE, del |-> FALSE])
  /\ users' = users + 1
  /\ UNCHANGED userOnly

(* A change no selector looks at: only the version moves.                  *)
Touch(k) ==
  /\ users < MaxUser /\ api[k] # NoObj
  /\ version' = version + 1
  /\ api' = [api EXCEPT ![k].rv = version + 1]
  /\ events' = Append(events, [type |-> "Changed", obj |-> api'[k]])
  /\ users' = users + 1
  /\ UNCHANGED userOnly

Delete(k) ==
  /\ users < MaxUser /\ api[k] # NoObj
  /\ Write(k, Deleting(api[k].content))
  /\ users' = users + 1
  /\ UNCHANGED userOnly

(* Informer.Sync lists the resources; each reaches watchResources through  *)
(* the same channel as the watch events, at its own time.                  *)
List ==
  /\ listed < MaxLists /\ listed + faults < MaxTrouble
  /\ lists' = lists \cup {api[k] : k \in {j \in Key : api[j] # NoObj}}
  /\ listed' = listed + 1
  /\ UNCHANGED <<apiVars, users, faults, watch, act, mapping, queueVars, created>>

-----------------------------------------------------------------------------
(* watchResources.                                                         *)

need(o) == o.content.phase \notin Disregarded

(* Added, Modified and Sync events: hand the object to preprocessChan.     *)
Offer(o) ==
  /\ watch' = IF need(o) THEN [IdleWatch EXCEPT !.pc = "send", !.obj = o] ELSE IdleWatch
  /\ UNCHANGED mapping

(* Deleted events: LoadAndDelete the helper map, then Cancel what was in   *)
(* it.                                                                     *)
Forget(o) ==
  IF need(o) /\ mapping[o.key] # NoJob
  THEN /\ watch' = [IdleWatch EXCEPT !.pc = "cancel", !.job = mapping[o.key]]
       /\ mapping' = [mapping EXCEPT ![o.key] = NoJob]
  ELSE UNCHANGED <<watch, mapping>>

WatchEvent ==
  /\ watch.pc = "idle" /\ events # <<>>
  /\ events' = Tail(events)
  /\ IF Head(events).type = "Changed" THEN Offer(Head(events).obj) ELSE Forget(Head(events).obj)
  /\ UNCHANGED <<api, version, envVars, faults, act, queueVars, created>>

WatchSync ==
  /\ watch.pc = "idle"
  /\ \E o \in lists : lists' = lists \ {o} /\ Offer(o)
  /\ UNCHANGED <<apiVars, users, listed, faults, act, queueVars, created>>

WatchCancel ==
  /\ watch.pc = "cancel"
  /\ delayed' = delayed \ {watch.job}
  /\ watch' = IdleWatch
  /\ UNCHANGED <<apiVars, envVars, faults, act, mapping, ready, created>>

-----------------------------------------------------------------------------
(* preprocessWorker.  preprocessChan has no buffer: sending is a joint     *)
(* step of the sender and the receiver.                                    *)

Receive(o) == [Idle EXCEPT !.pc = "load", !.obj = o]

SendWatched ==
  /\ watch.pc = "send" /\ act[Pre].pc = "idle"
  /\ act' = [act EXCEPT ![Pre] = Receive(watch.obj)]
  /\ watch' = IdleWatch
  /\ UNCHANGED <<apiVars, envVars, faults, mapping, queueVars, created>>

SendPlayed(w) ==
  /\ act[w].pc = "push" /\ act[Pre].pc = "idle"
  /\ act' = [act EXCEPT ![Pre] = Receive(act[w].obj), ![w] = Idle]
  /\ UNCHANGED <<apiVars, envVars, faults, watch, mapping, queueVars, created>>

(* Mutant: any job of the resource makes preprocess skip it. *)
KnownByKey(o) == mapping[o.key] # NoJob

Known(o) == mapping[o.key] # NoJob /\ mapping[o.key].obj.rv = o.rv

(* Mutant: jobs of the same version and stage are the same job. *)
PreprocessShared ==
  /\ act[Pre].pc = "load"
  /\ LET o == act[Pre].obj IN
       IF Known(o) \/ Matching[o.content] = {}
       THEN act' = [act EXCEPT ![Pre] = Idle]
       ELSE \E s \in Matching[o.content] :
              act' = [act EXCEPT ![Pre] =
                        [Idle EXCEPT !.pc = "swap", !.job = [obj |-> o, stage |-> s, id |-> 0]]]
  /\ UNCHANGED <<apiVars, envVars, faults, watch, mapping, queueVars, created>>

(* preprocess: skip a version that already has a job, match a stage,       *)
(* create the job.                                                         *)
Preprocess ==
  /\ act[Pre].pc = "load"
  /\ LET o == act[Pre].obj IN
       IF Known(o) \/ Matching[o.content] = {}
       THEN act' = [act EXCEPT ![Pre] = Idle] /\ UNCHANGED created
       ELSE \E s \in Matching[o.content] :
              /\ created' = created + 1
              /\ act' = [act EXCEPT ![Pre] =
                           [Idle EXCEPT !.pc = "swap",
                                        !.job = [obj |-> o, stage |-> s, id |-> created + 1]]]
  /\ UNCHANGED <<apiVars, envVars, faults, watch, mapping, queueVars>>

-----------------------------------------------------------------------------
(* addStageJob, called by preprocess and, for a retry, by playStageWorker: *)
(* three operations on shared state.                                       *)

AddSwap(a) ==
  /\ act[a].pc = "swap"
  /\ LET k == act[a].job.obj.key IN
     /\ mapping' = [mapping EXCEPT ![k] = act[a].job]
     /\ act' = [act EXCEPT ![a].pc = IF mapping[k] = NoJob THEN "add" ELSE "cancel",
                           ![a].old = mapping[k]]
  /\ UNCHANGED <<apiVars, envVars, faults, watch, queueVars, created>>

AddCancel(a) ==
  /\ act[a].pc = "cancel"
  /\ delayed' = delayed \ {act[a].old}
  /\ act' = [act EXCEPT ![a].pc = "add", ![a].old = NoJob]
  /\ UNCHANGED <<apiVars, envVars, faults, watch, mapping, ready, created>>

(* A retry always waits for a backoff period.                              *)
AddQueue(a) ==
  /\ act[a].pc = "add"
  /\ LET j == act[a].job IN
       IF a = Pre /\ ~j.stage.delayed
       THEN ready' = ready \cup {j} /\ UNCHANGED delayed
       ELSE delayed' = delayed \cup {j} /\ UNCHANGED ready
  /\ act' = [act EXCEPT ![a] = Idle]
  /\ UNCHANGED <<apiVars, envVars, faults, watch, mapping, created>>

(* The queue's own worker, see module WeightDelayingQueue.                 *)
Expire ==
  /\ \E j \in delayed : delayed' = delayed \ {j} /\ ready' = ready \cup {j}
  /\ UNCHANGED <<apiVars, envVars, faults, watch, act, mapping, created>>

-----------------------------------------------------------------------------
(* playStageWorker and playStage.                                          *)

(* Mutant: the job is returned and stays in the queue. *)
GetPeek(w) ==
  /\ act[w].pc = "idle"
  /\ \E j \in ready : act' = [act EXCEPT ![w] = [Idle EXCEPT !.pc = "delete", !.job = j]]
  /\ UNCHANGED <<apiVars, envVars, faults, watch, mapping, queueVars, created>>

Get(w) ==
  /\ act[w].pc = "idle"
  /\ \E j \in ready :
       /\ ready' = ready \ {j}
       /\ act' = [act EXCEPT ![w] = [Idle EXCEPT !.pc = "delete", !.job = j]]
  /\ UNCHANGED <<apiVars, envVars, faults, watch, mapping, delayed, created>>

(* Mutant: the helper map keeps a job that is being played. *)
UnmapNot(w) ==
  /\ act[w].pc = "delete"
  /\ act' = [act EXCEPT ![w].pc = "finalizers"]
  /\ UNCHANGED <<apiVars, envVars, faults, watch, mapping, queueVars, created>>

(* delayQueueMapping.Delete by key.                                        *)
Unmap(w) ==
  /\ act[w].pc = "delete"
  /\ mapping' = [mapping EXCEPT ![act[w].job.obj.key] = NoJob]
  /\ act' = [act EXCEPT ![w].pc = "finalizers"]
  /\ UNCHANGED <<apiVars, envVars, faults, watch, queueVars, created>>

(* next.Finalizers compares with the job's copy of the resource.           *)
FinalizersPatch(j) ==
  \/ j.stage.fin = "add" /\ ~j.obj.content.fin
  \/ j.stage.fin = "drop" /\ j.obj.content.fin

(* checkNeedPatch compares with the job's copy of the resource.            *)
NeedPatch(j) == j.obj.content.phase # j.stage.to

(* Where playStage goes on after its last call, with the last result r.    *)
PlayEnd(w, r) ==
  IF r # NoObj /\ act[w].job.stage.immediate
  THEN [Idle EXCEPT !.pc = "push", !.obj = r]
  ELSE Idle

(* An API call of worker w that writes content c: it succeeds and the      *)
(* worker goes on in state then, the resource is not found, or the call    *)
(* fails with an error that shouldRetry accepts or rejects.                *)
Succeeds(w, c, then) ==
  /\ api[act[w].job.obj.key] # NoObj
  /\ Write(act[w].job.obj.key, c)
  /\ act' = [act EXCEPT ![w] = then]
  /\ UNCHANGED faults

NotFound(w) ==
  /\ api[act[w].job.obj.key] = NoObj
  /\ act' = [act EXCEPT ![w] = Idle]
  /\ UNCHANGED <<apiVars, faults>>

Fails(w, c) ==
  LET k == act[w].job.obj.key IN
  /\ faults < MaxFaults /\ listed + faults < MaxTrouble
  /\ faults' = faults + 1
  /\ \E f \in Faults :
       /\ IF f = "late" /\ api[k] # NoObj THEN Write(k, c) ELSE UNCHANGED apiVars
       /\ IF f = "fatal"
          THEN act' = [act EXCEPT ![w] = Idle]
          ELSE act' = [act EXCEPT ![w].pc = "swap", ![w].obj = NoObj]

Call(w, c, then) ==
  /\ Succeeds(w, c, then) \/ NotFound(w) \/ Fails(w, c)
  /\ UNCHANGED <<envVars, watch, mapping, queueVars, created>>

Stored(w) ==
  LET k == act[w].job.obj.key IN IF api[k] = NoObj THEN act[w].job.obj.content ELSE api[k].content

PlayFinalizers(w) ==
  LET j == act[w].job
      c == [Stored(w) EXCEPT !.fin = (j.stage.fin = "add")]
  IN
  /\ act[w].pc = "finalizers"
  /\ IF FinalizersPatch(j)
     THEN Call(w, c, [act[w] EXCEPT !.pc = "apply", !.obj = Answer(j.obj.key, c)])
     ELSE /\ act' = [act EXCEPT ![w].pc = "apply"]
          /\ UNCHANGED <<apiVars, envVars, faults, watch, mapping, queueVars, created>>

PlayDelete(w) ==
  /\ act[w].pc = "apply" /\ act[w].job.stage.delete
  /\ Call(w, Deleting(Stored(w)), Idle)

PlayPatch(w) ==
  LET j == act[w].job
      c == [Stored(w) EXCEPT !.phase = j.stage.to]
  IN
  /\ act[w].pc = "apply" /\ ~j.stage.delete
  /\ IF NeedPatch(j)
     THEN Call(w, c, PlayEnd(w, Answer(j.obj.key, c)))
     ELSE /\ act' = [act EXCEPT ![w] = PlayEnd(w, act[w].obj)]
          /\ UNCHANGED <<apiVars, envVars, faults, watch, mapping, queueVars, created>>

-----------------------------------------------------------------------------
User == \E k \in Key : Create(k) \/ Touch(k) \/ Delete(k)

Watch == WatchEvent \/ WatchSync \/ WatchCancel \/ SendWatched

Add(a) == AddSwap(a) \/ AddCancel(a) \/ AddQueue(a)

Play(w) ==
  \/ Get(w) \/ Unmap(w) \/ PlayFinalizers(w) \/ PlayDelete(w) \/ PlayPatch(w)
  \/ SendPlayed(w)

Next ==
  \/ User \/ List \/ Watch \/ Preprocess \/ Expire
  \/ \E a \in Adder : Add(a)
  \/ \E w \in Worker : Play(w)

Spec == Init /\ [][Next]_vars

(* The Go scheduler runs every goroutine that can run, blocked senders on  *)
(* a channel are served in order, and every delay passes.  Users, lists    *)
(* and failures are under no obligation.                                   *)
Fairness ==
  /\ WF_vars(WatchEvent) /\ WF_vars(WatchSync) /\ WF_vars(WatchCancel)
  /\ SF_vars(SendWatched)
  /\ WF_vars(Preprocess) /\ WF_vars(Expire)
  /\ \A a \in Adder : WF_vars(Add(a))
  /\ \A w \in Worker : WF_vars(Play(w)) /\ SF_vars(SendPlayed(w))

FairSpec == Spec /\ Fairness

-----------------------------------------------------------------------------
(* What the goroutines can hold: none stands where it needs an object, a   *)
(* job or a job to cancel without having it.                               *)
Event == [type : {"Changed", "Deleted"}, obj : Obj]

WatchState ==
  {s \in [pc : {"idle", "send", "cancel"}, obj : Obj \cup {NoObj}, job : Job \cup {NoJob}] :
     /\ s.pc = "send" => s.obj # NoObj
     /\ s.pc = "cancel" => s.job # NoJob}

CarriesObj == {"load", "push"}
CarriesJob == {"swap", "cancel", "add", "delete", "finalizers", "apply"}

ActState ==
  {s \in [pc : {"idle"} \cup CarriesObj \cup CarriesJob, obj : Obj \cup {NoObj},
          job : Job \cup {NoJob}, old : Job \cup {NoJob}] :
     /\ s.pc \in CarriesObj => s.obj # NoObj
     /\ s.pc \in CarriesJob <=> s.job # NoJob
     /\ s.pc = "cancel" <=> s.old # NoJob}

(* The types, and that no goroutine of the pipeline uses an object, a job  *)
(* or a cancelled job it does not have.                                    *)
TypeOK ==
  /\ api \in [Key -> Obj \cup {NoObj}]
  /\ version \in Nat
  /\ events \in Seq(Event)
  /\ lists \subseteq Obj
  /\ users \in Nat /\ listed \in Nat /\ faults \in Nat
  /\ watch \in WatchState
  /\ act \in [Adder -> ActState]
  /\ mapping \in [Key -> Job \cup {NoJob}]
  /\ delayed \subseteq Job /\ ready \subseteq Job
  /\ created \in Nat

(* A job is in one place: in the queue's heap, in its ready list, or with  *)
(* one goroutine.  So AddWeightAfter is never called with a job that is    *)
(* still queued, and no job is played by two workers at a time.            *)
Queued == delayed \cup ready

JobOnce ==
  /\ delayed \cap ready = {}
  /\ \A a \in Adder : act[a].job # NoJob =>
       /\ act[a].job \notin Queued
       /\ \A b \in Adder : act[b].job = act[a].job => b = a

(* The controller keeps the caller's side of the queue's contract: every   *)
(* step it makes on the queue is one the contract allows.                  *)
Q == INSTANCE DelayQueue WITH Item <- Job

KeepsQueueContract == Q!QSpec

(* preprocess skips a resource version for which the helper map holds a    *)
(* job, so a job in the map must be on its way.  It is, whatever users,    *)
(* lists and workers do, as long as no call failed.  When a failed call    *)
(* puts a job back, a goroutine that took the job from the map before      *)
(* that, because a newer job replaced it or because its resource was       *)
(* deleted, can still cancel it; this is the only way in which a job goes  *)
(* and stays in the map.                                                   *)
Outstanding(j) == j \in Queued \/ \E a \in Adder : act[a].job = j

BeingCancelled(j) ==
  \/ watch.pc = "cancel" /\ watch.job = j
  \/ \E a \in Adder : act[a].pc = "cancel" /\ act[a].old = j

SkipJustified ==
  /\ [](faults = 0 => \A k \in Key : mapping[k] # NoJob => Outstanding(mapping[k]))
  /\ [][\A k \in Key : mapping'[k] # NoJob /\ ~Outstanding(mapping[k])' =>
          /\ mapping'[k] = mapping[k]
          /\ ~Outstanding(mapping[k]) \/ BeingCancelled(mapping[k])]_vars

(* The docs' chain of stages: each update generates an event that triggers *)
(* the next round, until no stage matches.  A list or a failing call can   *)
(* break the chain, see the run SCSyncStall.                               *)
Settled(k) ==
  api[k] # NoObj => ~need(api[k]) \/ Matching[api[k].content] = {}

Settles == <>[](\A k \in Key : Settled(k))

SettlesUntroubled == <>[](listed = 0 /\ faults = 0 => \A k \in Key : Settled(k))
=============================================================================
