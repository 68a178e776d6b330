----------------------- MODULE StageControllerProofs -----------------------
(***************************************************************************)
(* For any set of resources and workers, any stages, and any number of     *)
(* user changes, lists and failing calls: the stage pipeline is type       *)
(* correct, a job is in one place at a time, and the pipeline keeps the    *)
(* contract of the delaying queue.                                         *)
(***************************************************************************)
EXTENDS StageController, TLAPS

(* The provers that try a step whose proof names none, in this order.      *)
USE SMTT(10), ZenonT(30), SMTT(60)

(***************************************************************************)
(* Type correctness, first the parts.                                      *)
(***************************************************************************)
ApiType == api \in [Key -> Obj \cup {NoObj}] /\ version \in Nat /\ events \in Seq(Event)

(* A resource the API server writes is well formed.                        *)
LEMMA WrittenType ==
  ASSUME NEW k \in Key, NEW c \in Content, version \in Nat
  PROVE  Written(k, c) \in Obj
  BY DEF Written, Obj

(* A write keeps the API server well formed.                               *)
LEMMA WriteType ==
  ASSUME ApiType, NEW k \in Key, NEW c \in Content, Write(k, c)
  PROVE  ApiType'
<1>1. Written(k, c) \in Obj
  BY WrittenType DEF ApiType
<1>2. /\ [type |-> "Deleted", obj |-> Written(k, c)] \in Event
      /\ [type |-> "Changed", obj |-> Written(k, c)] \in Event
  BY <1>1 DEF Event
<1>3. CASE api[k] # NoObj /\ c = api[k].content
  BY <1>3 DEF ApiType, apiVars, Write
<1>4. CASE ~(api[k] # NoObj /\ c = api[k].content) /\ c.del /\ ~c.fin
  <2>1. /\ version' = version + 1
        /\ api' = [api EXCEPT ![k] = NoObj]
        /\ events' = Append(events, [type |-> "Deleted", obj |-> Written(k, c)])
    BY <1>4 DEF Write
  <2> QED BY <2>1, <1>2 DEF ApiType
<1>5. CASE ~(api[k] # NoObj /\ c = api[k].content) /\ ~(c.del /\ ~c.fin)
  <2>1. /\ version' = version + 1
        /\ api' = [api EXCEPT ![k] = Written(k, c)]
        /\ events' = Append(events, [type |-> "Changed", obj |-> Written(k, c)])
    BY <1>5 DEF Write
  <2> QED BY <2>1, <1>1, <1>2 DEF ApiType
<1> QED BY <1>3, <1>4, <1>5

(* The fields of well formed values.                                       *)
LEMMA ObjFields ==
  ASSUME NEW o \in Obj PROVE o.key \in Key /\ o.rv \in Nat /\ o.content \in Content
  BY DEF Obj

LEMMA JobFields ==
  ASSUME NEW j \in Job PROVE j.obj \in Obj /\ j.stage \in Stage /\ j.id \in Nat
  BY DEF Job

(* What a goroutine holds by where it stands.                              *)
LEMMA ActFields ==
  ASSUME NEW s \in ActState
  PROVE  /\ s.pc \in CarriesObj => s.obj \in Obj
         /\ s.pc \in CarriesJob => s.job \in Job
         /\ s.pc = "cancel" => s.old \in Job
         /\ s.pc \notin CarriesJob => s.job = NoJob
  BY DEF ActState

LEMMA IdleState == Idle \in ActState
  BY StageAssumption DEF ActState, Idle, CarriesObj, CarriesJob

LEMMA WithObj ==
  ASSUME NEW o \in Obj, NEW pc \in CarriesObj
  PROVE  [Idle EXCEPT !.pc = pc, !.obj = o] \in ActState
  BY Zenon, StageAssumption DEF ActState, Idle, CarriesObj, CarriesJob

LEMMA WithJob ==
  ASSUME NEW j \in Job, NEW pc \in CarriesJob \ {"cancel"}
  PROVE  [Idle EXCEPT !.pc = pc, !.job = j] \in ActState
  BY Zenon, StageAssumption DEF ActState, Idle, CarriesObj, CarriesJob

LEMMA TypeInit == Init => TypeOK
  BY StageAssumption, IdleState
  DEF Init, TypeOK, IdleWatch, WatchState, Adder

(* TypeOK in the parts that an action changes or leaves alone together.    *)
EnvType == lists \subseteq Obj /\ users \in Nat /\ listed \in Nat /\ faults \in Nat
FlowType == watch \in WatchState /\ act \in [Adder -> ActState]
QueueType == /\ mapping \in [Key -> Job \cup {NoJob}]
             /\ delayed \subseteq Job /\ ready \subseteq Job
JobType == created \in Nat

LEMMA TypeParts == TypeOK <=> ApiType /\ EnvType /\ FlowType /\ QueueType /\ JobType
  BY DEF TypeOK, ApiType, EnvType, FlowType, QueueType, JobType

LEMMA TypePartsNext ==
  TypeOK' <=> ApiType' /\ EnvType' /\ FlowType' /\ QueueType' /\ JobType'
  BY DEF TypeOK, ApiType, EnvType, FlowType, QueueType, JobType

(* Users.                                                                  *)
LEMMA UserType == ASSUME TypeOK, NEW k \in Key, Create(k) \/ Touch(k) \/ Delete(k) PROVE TypeOK'
<1> USE DEF Content
<1>1. ApiType'
  <2>1. CASE Create(k)
    BY Zenon, <2>1, TypeParts, WriteType, StageAssumption DEF Create
  <2>2. CASE Delete(k)
    <3>1. api[k] \in Obj
      BY <2>2 DEF Delete, TypeOK
    <3>2. Deleting(api[k].content) \in Content
      BY Zenon, <3>1 DEF Obj, Deleting
    <3> QED BY <2>2, <3>2, TypeParts, WriteType DEF Delete
  <2>3. CASE Touch(k)
    <3>1. api[k] \in Obj /\ version + 1 \in Nat
      BY <2>3 DEF Touch, TypeOK
    <3>2. [api[k] EXCEPT !.rv = version + 1] \in Obj
      BY <3>1 DEF Obj
    <3>3. api' = [api EXCEPT ![k] = [api[k] EXCEPT !.rv = version + 1]]
      BY <2>3 DEF Touch
    <3>4. api' \in [Key -> Obj \cup {NoObj}] /\ api'[k] \in Obj
      BY <3>2, <3>3 DEF TypeOK
    <3>5. [type |-> "Changed", obj |-> api'[k]] \in Event
      BY <3>4 DEF Event
    <3> QED BY <2>3, <3>1, <3>4, <3>5 DEF Touch, TypeOK, ApiType
  <2> QED BY <2>1, <2>2, <2>3
<1>2. EnvType' /\ FlowType' /\ QueueType' /\ JobType'
  BY TypeParts DEF Create, Touch, Delete, userOnly, queueVars,
                   EnvType, FlowType, QueueType, JobType
<1> QED BY <1>1, <1>2, TypePartsNext

LEMMA ListType == ASSUME TypeOK, List PROVE TypeOK'
<1>1. lists' \subseteq Obj /\ listed' \in Nat
  BY DEF List, TypeOK
<1> QED BY <1>1 DEF List, TypeOK, apiVars, queueVars

(* watchResources.                                                         *)
LEMMA OfferType ==
  ASSUME TypeOK, NEW o \in Obj, Offer(o)
  PROVE  watch' \in WatchState /\ mapping' \in [Key -> Job \cup {NoJob}]
<1>1. IdleWatch \in WatchState /\ [IdleWatch EXCEPT !.pc = "send", !.obj = o] \in WatchState
  BY Zenon, StageAssumption DEF WatchState, IdleWatch
<1> QED BY <1>1 DEF Offer, TypeOK

LEMMA ForgetType ==
  ASSUME TypeOK, NEW o \in Obj, Forget(o)
  PROVE  watch' \in WatchState /\ mapping' \in [Key -> Job \cup {NoJob}]
<1>1. o.key \in Key
  BY ObjFields
<1>2. ASSUME mapping[o.key] # NoJob
      PROVE  [IdleWatch EXCEPT !.pc = "cancel", !.job = mapping[o.key]] \in WatchState
  <2>1. mapping[o.key] \in Job
    BY <1>1, <1>2 DEF TypeOK
  <2> QED BY Zenon, <2>1, <1>2, StageAssumption DEF WatchState, IdleWatch
<1> QED BY <1>1, <1>2 DEF Forget, TypeOK

LEMMA WatchEventType == ASSUME TypeOK, WatchEvent PROVE TypeOK'
<1>1. Head(events) \in Event /\ Tail(events) \in Seq(Event)
  BY DEF WatchEvent, TypeOK
<1>2. Head(events).obj \in Obj
  BY <1>1 DEF Event
<1>3. watch' \in WatchState /\ mapping' \in [Key -> Job \cup {NoJob}]
  BY <1>2, OfferType, ForgetType DEF WatchEvent
<1> QED BY <1>1, <1>3 DEF WatchEvent, TypeOK, envVars, queueVars

LEMMA WatchSyncType == ASSUME TypeOK, WatchSync PROVE TypeOK'
<1>1. PICK o \in lists : lists' = lists \ {o} /\ Offer(o)
  BY DEF WatchSync
<1>2. watch' \in WatchState /\ mapping' \in [Key -> Job \cup {NoJob}]
  BY <1>1, OfferType DEF TypeOK
<1> QED BY <1>1, <1>2 DEF WatchSync, TypeOK, apiVars, queueVars

LEMMA WatchCancelType == ASSUME TypeOK, WatchCancel PROVE TypeOK'
<1>1. IdleWatch \in WatchState
  BY StageAssumption DEF WatchState, IdleWatch
<1> QED BY <1>1 DEF WatchCancel, TypeOK, apiVars, envVars

(* preprocessWorker.                                                       *)
LEMMA SendWatchedType == ASSUME TypeOK, SendWatched PROVE TypeOK'
<1>1. watch.obj \in Obj
  BY DEF SendWatched, TypeOK, WatchState
<1>2. Receive(watch.obj) \in ActState /\ IdleWatch \in WatchState
  BY Zenon, <1>1, WithObj, StageAssumption DEF Receive, CarriesObj, WatchState, IdleWatch
<1> QED BY Zenon, <1>2 DEF SendWatched, TypeOK, apiVars, envVars, queueVars

LEMMA SendPlayedType == ASSUME TypeOK, NEW w \in Worker, SendPlayed(w) PROVE TypeOK'
<1>1. act[w] \in ActState /\ act[w].pc \in CarriesObj
  BY DEF SendPlayed, TypeOK, Adder, CarriesObj
<1>2. Receive(act[w].obj) \in ActState
  BY Zenon, <1>1, WithObj, ActFields DEF Receive, CarriesObj
<1> QED BY Zenon, <1>2, IdleState DEF SendPlayed, TypeOK, apiVars, envVars, queueVars

LEMMA PreprocessType == ASSUME TypeOK, Preprocess PROVE TypeOK'
<1>1. act[Pre].obj \in Obj
  BY Zenon, ActFields DEF Preprocess, TypeOK, Adder, CarriesObj
<1>2. Matching[act[Pre].obj.content] \subseteq Stage
  BY <1>1, ObjFields, StageAssumption
<1> DEFINE Made(st) == [Idle EXCEPT !.pc = "swap",
                                    !.job = [obj |-> act[Pre].obj, stage |-> st,
                                             id |-> created + 1]]
<1>3. ASSUME NEW st \in Matching[act[Pre].obj.content]
      PROVE  Made(st) \in ActState
  <2>1. [obj |-> act[Pre].obj, stage |-> st, id |-> created + 1] \in Job
    BY <1>1, <1>2 DEF Job, TypeOK
  <2> QED BY Zenon, <2>1, WithJob DEF CarriesJob
<1>4. CASE Known(act[Pre].obj) \/ Matching[act[Pre].obj.content] = {}
  BY ZenonT(60), <1>4, IdleState DEF Preprocess, TypeOK, apiVars, envVars, queueVars
<1>5. CASE ~(Known(act[Pre].obj) \/ Matching[act[Pre].obj.content] = {})
  <2>1. PICK st \in Matching[act[Pre].obj.content] :
          created' = created + 1 /\ act' = [act EXCEPT ![Pre] = Made(st)]
    BY ZenonT(60), <1>5 DEF Preprocess
  <2>2. PICK s \in ActState : s = Made(st)
    BY Zenon, <1>3
  <2>3. act' = [act EXCEPT ![Pre] = s]
    BY <2>1, <2>2
  <2>4. act' \in [Adder -> ActState]
    BY Zenon, <2>3 DEF TypeOK
  <2>5. created' \in Nat
    BY <2>1 DEF TypeOK
  <2> QED BY ZenonT(60), <2>4, <2>5 DEF Preprocess, TypeOK, apiVars, envVars, queueVars
<1> QED BY <1>4, <1>5

(* addStageJob.                                                            *)
LEMMA AddSwapType == ASSUME TypeOK, NEW a \in Adder, AddSwap(a) PROVE TypeOK'
<1> DEFINE k == act[a].job.obj.key
<1>1. act[a] \in ActState /\ act[a].job \in Job
  BY ActFields DEF AddSwap, TypeOK, CarriesJob
<1>2. k \in Key
  BY <1>1, JobFields, ObjFields
<1>3. mapping[k] \in Job \cup {NoJob}
  BY <1>2 DEF TypeOK
<1>4. [act[a] EXCEPT !.pc = IF mapping[k] = NoJob THEN "add" ELSE "cancel",
                     !.old = mapping[k]] \in ActState
  <2>1. CASE mapping[k] = NoJob
    BY Zenon, <1>1, <2>1 DEF ActState, CarriesObj, CarriesJob, AddSwap
  <2>2. CASE mapping[k] # NoJob
    BY Zenon, <1>1, <1>3, <2>2 DEF ActState, CarriesObj, CarriesJob, AddSwap
  <2> QED BY <2>1, <2>2
<1>5. act' = [act EXCEPT ![a] = [act[a] EXCEPT !.pc = IF mapping[k] = NoJob THEN "add" ELSE "cancel",
                                               !.old = mapping[k]]]
  BY Zenon DEF AddSwap, TypeOK
<1>6. act' \in [Adder -> ActState] /\ mapping' \in [Key -> Job \cup {NoJob}]
  BY <1>1, <1>2, <1>4, <1>5 DEF AddSwap, TypeOK
<1> QED BY <1>6 DEF AddSwap, TypeOK, apiVars, envVars, queueVars

LEMMA AddCancelType == ASSUME TypeOK, NEW a \in Adder, AddCancel(a) PROVE TypeOK'
<1>1. [act[a] EXCEPT !.pc = "add", !.old = NoJob] \in ActState
  BY DEF AddCancel, TypeOK, ActState, CarriesObj, CarriesJob
<1>2. act' = [act EXCEPT ![a] = [act[a] EXCEPT !.pc = "add", !.old = NoJob]]
  BY Zenon DEF AddCancel, TypeOK
<1> QED BY <1>1, <1>2 DEF AddCancel, TypeOK, apiVars, envVars

LEMMA AddQueueType == ASSUME TypeOK, NEW a \in Adder, AddQueue(a) PROVE TypeOK'
<1>1. act[a].job \in Job
  BY ActFields DEF AddQueue, TypeOK, CarriesJob
<1>2. delayed' \subseteq Job /\ ready' \subseteq Job
  BY <1>1 DEF AddQueue, TypeOK
<1> QED BY <1>2, IdleState DEF AddQueue, TypeOK, apiVars, envVars

LEMMA ExpireType == ASSUME TypeOK, Expire PROVE TypeOK'
  BY DEF Expire, TypeOK, apiVars, envVars

(* playStageWorker.                                                        *)
LEMMA GetType == ASSUME TypeOK, NEW w \in Worker, Get(w) PROVE TypeOK'
<1>1. PICK j \in ready : /\ ready' = ready \ {j}
                         /\ act' = [act EXCEPT ![w] = [Idle EXCEPT !.pc = "delete", !.job = j]]
  BY Zenon DEF Get
<1>2. [Idle EXCEPT !.pc = "delete", !.job = j] \in ActState
  BY Zenon, WithJob DEF TypeOK, CarriesJob
<1> QED BY ZenonT(60), <1>1, <1>2 DEF Get, TypeOK, apiVars, envVars

(* A worker that plays a job goes on with the same job.                    *)
LEMMA Onward ==
  ASSUME NEW s \in ActState, s.pc \in CarriesJob \ {"cancel"},
         NEW pc \in CarriesJob \ {"cancel"}, NEW o \in Obj \cup {NoObj}
  PROVE  /\ [s EXCEPT !.pc = pc] \in ActState
         /\ [s EXCEPT !.pc = pc, !.obj = o] \in ActState
  BY ZenonT(60) DEF ActState, CarriesObj, CarriesJob

LEMMA UnmapType == ASSUME TypeOK, NEW w \in Worker, Unmap(w) PROVE TypeOK'
<1>1. act[w] \in ActState /\ act[w].pc \in CarriesJob \ {"cancel"}
  BY DEF Unmap, TypeOK, Adder, CarriesJob
<1>2. [act[w] EXCEPT !.pc = "finalizers"] \in ActState
  BY Zenon, <1>1, Onward DEF CarriesJob
<1>3. act[w].job.obj.key \in Key
  BY <1>1, ActFields, JobFields, ObjFields
<1>4. act' = [act EXCEPT ![w] = [act[w] EXCEPT !.pc = "finalizers"]]
  BY DEF Unmap, TypeOK
<1> QED BY Zenon, <1>2, <1>3, <1>4 DEF Unmap, TypeOK, apiVars, envVars, queueVars

(* An API call keeps the types if its content and the state it leads to    *)
(* are well formed.                                                        *)
LEMMA CallType ==
  ASSUME TypeOK, NEW w \in Worker, NEW c \in Content, NEW then,
         act[w].pc \in CarriesJob \ {"cancel"},
         api[act[w].job.obj.key] # NoObj => then \in ActState,
         Call(w, c, then)
  PROVE  TypeOK'
<1> DEFINE k == act[w].job.obj.key
<1>1. act[w] \in ActState /\ w \in Adder
  BY DEF TypeOK, Adder
<1>2. k \in Key
  BY <1>1, ActFields, JobFields, ObjFields
<1>3. EnvType' /\ watch' \in WatchState /\ QueueType' /\ created' \in Nat
  BY DEF Call, Succeeds, NotFound, Fails, TypeOK, EnvType, QueueType, envVars, queueVars
<1>4. ApiType' /\ act' \in [Adder -> ActState]
  <2>1. CASE Succeeds(w, c, then)
    BY Zenon, <1>2, <2>1, TypeParts, WriteType DEF Succeeds, TypeOK
  <2>2. CASE NotFound(w)
    BY Zenon, <2>2, IdleState DEF NotFound, TypeOK, ApiType, apiVars
  <2>3. CASE Fails(w, c)
    <3>1. PICK f \in Faults :
            /\ IF f = "late" /\ api[k] # NoObj THEN Write(k, c) ELSE UNCHANGED apiVars
            /\ IF f = "fatal"
               THEN act' = [act EXCEPT ![w] = Idle]
               ELSE act' = [act EXCEPT ![w].pc = "swap", ![w].obj = NoObj]
      BY <2>3 DEF Fails
    <3>2. ApiType'
      BY <1>2, <3>1, TypeParts, WriteType DEF ApiType, apiVars
    <3>3. [act[w] EXCEPT !.pc = "swap", !.obj = NoObj] \in ActState
      BY Zenon, <1>1, Onward DEF CarriesJob
    <3>4. act' = [act EXCEPT ![w] = Idle]
          \/ act' = [act EXCEPT ![w] = [act[w] EXCEPT !.pc = "swap", !.obj = NoObj]]
      BY Zenon, <1>1, <3>1 DEF TypeOK
    <3> QED BY <3>2, <3>3, <3>4, IdleState DEF TypeOK
  <2> QED BY <2>1, <2>2, <2>3 DEF Call
<1> QED BY <1>3, <1>4, TypePartsNext DEF FlowType, JobType

LEMMA StoredType ==
  ASSUME TypeOK, NEW w \in Worker, act[w].pc \in CarriesJob
  PROVE  Stored(w) \in Content /\ act[w].job \in Job
  BY ActFields, JobFields, ObjFields DEF Stored, TypeOK, Adder

LEMMA AnswerType ==
  ASSUME TypeOK, NEW k \in Key, api[k] # NoObj, NEW c \in Content
  PROVE  Answer(k, c) \in Obj
  BY WrittenType DEF Answer, TypeOK

LEMMA PlayEndType ==
  ASSUME NEW w, NEW r \in Obj \cup {NoObj} PROVE PlayEnd(w, r) \in ActState
  BY Zenon, IdleState, WithObj DEF PlayEnd, CarriesObj

LEMMA PlayFinalizersType == ASSUME TypeOK, NEW w \in Worker, PlayFinalizers(w) PROVE TypeOK'
<1> DEFINE j == act[w].job
           c == [Stored(w) EXCEPT !.fin = (j.stage.fin = "add")]
<1>1. act[w] \in ActState /\ w \in Adder /\ act[w].pc \in CarriesJob \ {"cancel"}
  BY DEF PlayFinalizers, TypeOK, Adder, CarriesJob
<1>2. c \in Content /\ j.obj.key \in Key
  BY Zenon, <1>1, StoredType, JobFields, ObjFields DEF Content
<1>3. CASE FinalizersPatch(j)
  <2>1. ASSUME api[j.obj.key] # NoObj
        PROVE  [act[w] EXCEPT !.pc = "apply", !.obj = Answer(j.obj.key, c)] \in ActState
    BY Zenon, <1>1, <1>2, <2>1, AnswerType, Onward DEF CarriesJob
  <2> QED BY <1>1, <1>2, <1>3, <2>1, CallType DEF PlayFinalizers
<1>4. CASE ~FinalizersPatch(j)
  <2>1. [act[w] EXCEPT !.pc = "apply"] \in ActState
    BY Zenon, <1>1, Onward DEF CarriesJob
  <2>2. act' = [act EXCEPT ![w] = [act[w] EXCEPT !.pc = "apply"]]
    BY <1>1, <1>4 DEF PlayFinalizers, TypeOK
  <2> QED BY Zenon, <1>4, <2>1, <2>2 DEF PlayFinalizers, TypeOK, apiVars, envVars, queueVars
<1> QED BY <1>3, <1>4

LEMMA PlayDeleteType == ASSUME TypeOK, NEW w \in Worker, PlayDelete(w) PROVE TypeOK'
<1>1. act[w].pc \in CarriesJob \ {"cancel"}
  BY DEF PlayDelete, CarriesJob
<1>2. Deleting(Stored(w)) \in Content
  BY Zenon, <1>1, StoredType DEF Deleting, Content
<1> QED BY <1>1, <1>2, CallType, IdleState DEF PlayDelete

LEMMA PlayPatchType == ASSUME TypeOK, NEW w \in Worker, PlayPatch(w) PROVE TypeOK'
<1> DEFINE j == act[w].job
           c == [Stored(w) EXCEPT !.phase = j.stage.to]
<1>1. act[w] \in ActState /\ w \in Adder /\ act[w].pc \in CarriesJob \ {"cancel"}
  BY DEF PlayPatch, TypeOK, Adder, CarriesJob
<1>2. j \in Job /\ j.stage.to \in Phase /\ j.obj.key \in Key
  BY <1>1, ActFields, JobFields, ObjFields, StageAssumption
<1>3. c \in Content
  BY <1>1, <1>2, StoredType DEF Content
<1>4. CASE NeedPatch(j)
  <2>1. ASSUME api[j.obj.key] # NoObj PROVE PlayEnd(w, Answer(j.obj.key, c)) \in ActState
    BY <1>2, <1>3, <2>1, AnswerType, PlayEndType
  <2> QED BY <1>1, <1>3, <1>4, <2>1, CallType DEF PlayPatch
<1>5. CASE ~NeedPatch(j)
  <2>1. PlayEnd(w, act[w].obj) \in ActState
    BY <1>1, PlayEndType DEF ActState
  <2> QED BY <1>5, <2>1 DEF PlayPatch, TypeOK, apiVars, envVars, queueVars
<1> QED BY <1>4, <1>5

LEMMA TypeNext == ASSUME TypeOK, [Next]_vars PROVE TypeOK'
<1>1. CASE UNCHANGED vars
  BY <1>1 DEF TypeOK, vars
<1>2. CASE User
  BY <1>2, UserType DEF User
<1>3. CASE Watch
  BY <1>3, WatchEventType, WatchSyncType, WatchCancelType, SendWatchedType DEF Watch
<1>4. CASE List \/ Preprocess \/ Expire
  BY <1>4, ListType, PreprocessType, ExpireType
<1>5. CASE \E a \in Adder : Add(a)
  BY <1>5, AddSwapType, AddCancelType, AddQueueType DEF Add
<1>6. CASE \E w \in Worker : Play(w)
  BY <1>6, GetType, UnmapType, PlayFinalizersType, PlayDeleteType, PlayPatchType,
     SendPlayedType DEF Play
<1> QED BY <1>1, <1>2, <1>3, <1>4, <1>5, <1>6 DEF Next

(* The stage pipeline is type correct, and no goroutine of it uses an      *)
(* object, a job or a cancelled job it does not have.                      *)
THEOREM TypeCorrect == Spec => []TypeOK
  BY TypeInit, TypeNext, PTL DEF Spec

(***************************************************************************)
(* A job is in one place.  The induction needs that the id of a job is the *)
(* number of an earlier preprocess: the job that preprocess makes next is  *)
(* then none of the existing ones.                                         *)
(***************************************************************************)
Numbered ==
  /\ \A j \in Queued : j.id <= created
  /\ \A a \in Adder : act[a].job # NoJob => act[a].job.id <= created

IInv == TypeOK /\ JobOnce /\ Numbered

LEMMA IInvInit == Init => IInv
<1> SUFFICES ASSUME Init PROVE IInv
  OBVIOUS
<1>1. \A a \in Adder : act[a].job = NoJob
  BY DEF Init, Idle
<1> QED BY <1>1, TypeInit DEF Init, IInv, JobOnce, Numbered, Queued

(* A step that takes jobs out of the queue or lets go of jobs, and makes   *)
(* none.                                                                   *)
LEMMA Shrinking ==
  ASSUME IInv, TypeOK',
         Queued' \subseteq Queued, delayed' \cap ready' = {},
         \A a \in Adder : act'[a].job = act[a].job \/ act'[a].job = NoJob,
         created' = created
  PROVE  IInv'
<1>1. JobOnce'
  BY DEF IInv, JobOnce
<1>2. Numbered'
  BY DEF IInv, Numbered
<1> QED BY <1>1, <1>2 DEF IInv

(* The environment, and the steps of watchResources.                       *)
LEMMA OutsideOnce ==
  ASSUME IInv, TypeOK', User \/ List \/ WatchEvent \/ WatchSync \/ UNCHANGED vars
  PROVE  IInv'
<1>1. UNCHANGED <<act, delayed, ready, created>>
  BY Zenon DEF User, Create, Touch, Delete, List, WatchEvent, WatchSync, userOnly, queueVars,
         vars
<1> QED BY <1>1, Shrinking DEF IInv, JobOnce, Queued

LEMMA WatchCancelOnce == ASSUME IInv, TypeOK', WatchCancel PROVE IInv'
<1>1. /\ delayed' \subseteq delayed
      /\ UNCHANGED <<act, ready, created>>
  BY DEF WatchCancel
<1> QED BY <1>1, Shrinking DEF IInv, JobOnce, Queued

LEMMA SendWatchedOnce == ASSUME IInv, TypeOK', SendWatched PROVE IInv'
<1>1. \A a \in Adder : act'[a].job = act[a].job \/ act'[a].job = NoJob
  BY DEF SendWatched, Receive, Idle, IInv, TypeOK
<1>2. UNCHANGED <<delayed, ready, created>>
  BY DEF SendWatched, queueVars
<1> QED BY <1>1, <1>2, Shrinking DEF IInv, JobOnce, Queued

LEMMA SendPlayedOnce == ASSUME IInv, TypeOK', NEW w \in Worker, SendPlayed(w) PROVE IInv'
<1>1. \A a \in Adder : act'[a].job = act[a].job \/ act'[a].job = NoJob
  BY Zenon DEF SendPlayed, Receive, Idle, IInv, TypeOK
<1>2. UNCHANGED <<delayed, ready, created>>
  BY DEF SendPlayed, queueVars
<1> QED BY <1>1, <1>2, Shrinking DEF IInv, JobOnce, Queued

LEMMA SwapCancelOnce ==
  ASSUME IInv, TypeOK', NEW a \in Adder, AddSwap(a) \/ AddCancel(a) PROVE IInv'
<1>1. \A b \in Adder : act'[b].job = act[b].job
  <2>1. act[a] \in ActState
    BY DEF IInv, TypeOK
  <2>2. CASE AddSwap(a)
    BY ZenonT(60), <2>1, <2>2 DEF AddSwap, IInv, TypeOK, ActState
  <2>3. CASE AddCancel(a)
    BY <2>1, <2>3 DEF AddCancel, IInv, TypeOK, ActState
  <2> QED BY <2>2, <2>3
<1>2. /\ delayed' \subseteq delayed
      /\ UNCHANGED <<ready, created>>
  BY DEF AddSwap, AddCancel, queueVars
<1> QED BY <1>1, <1>2, Shrinking DEF IInv, JobOnce, Queued

LEMMA ExpireOnce == ASSUME IInv, TypeOK', Expire PROVE IInv'
<1>1. Queued' \subseteq Queued /\ delayed' \cap ready' = {}
  BY DEF Expire, Queued, IInv, JobOnce
<1>2. UNCHANGED <<act, created>>
  BY DEF Expire
<1> QED BY <1>1, <1>2, Shrinking

(* Playing a stage: the worker keeps its job or lets it go.                *)
LEMMA CallOnce ==
  ASSUME IInv, TypeOK', NEW w \in Worker, NEW c, NEW then, Call(w, c, then),
         then.job = act[w].job \/ then.job = NoJob
  PROVE  IInv'
<1>1. \A a \in Adder : act'[a].job = act[a].job \/ act'[a].job = NoJob
  <2>1. CASE Succeeds(w, c, then)
    BY <2>1 DEF Succeeds, IInv, TypeOK
  <2>2. CASE NotFound(w)
    BY <2>2 DEF NotFound, IInv, TypeOK, Idle
  <2>3. CASE Fails(w, c)
    <3>1. \/ act' = [act EXCEPT ![w] = Idle]
          \/ act' = [act EXCEPT ![w].pc = "swap", ![w].obj = NoObj]
      BY <2>3 DEF Fails
    <3> QED BY <3>1 DEF IInv, TypeOK, Idle, ActState
  <2> QED BY <2>1, <2>2, <2>3 DEF Call
<1>2. UNCHANGED <<delayed, ready, created>>
  BY DEF Call, queueVars
<1> QED BY <1>1, <1>2, Shrinking DEF IInv, JobOnce, Queued

LEMMA PlayOnce ==
  ASSUME IInv, TypeOK', NEW w \in Worker,
         Unmap(w) \/ PlayFinalizers(w) \/ PlayDelete(w) \/ PlayPatch(w)
  PROVE  IInv'
<1> DEFINE j == act[w].job
<1>0. act[w] \in ActState /\ \A a \in Adder : act[a] \in ActState
  BY DEF IInv, TypeOK, Adder
<1>1. ASSUME NEW r PROVE PlayEnd(w, r).job = NoJob
  BY DEF PlayEnd, Idle
<1>2. CASE Unmap(w)
  <2>1. \A a \in Adder : act'[a].job = act[a].job
    BY <1>0, <1>2 DEF Unmap, IInv, TypeOK, ActState
  <2>2. UNCHANGED <<delayed, ready, created>>
    BY <1>2 DEF Unmap, queueVars
  <2> QED BY <2>1, <2>2, Shrinking DEF IInv, JobOnce, Queued
<1>3. CASE PlayFinalizers(w)
  <2> DEFINE c == [Stored(w) EXCEPT !.fin = (j.stage.fin = "add")]
             then == [act[w] EXCEPT !.pc = "apply", !.obj = Answer(j.obj.key, c)]
  <2>1. CASE FinalizersPatch(j)
    <3>1. then.job = j
      BY <1>0 DEF ActState
    <3>2. Call(w, c, then)
      BY <1>3, <2>1 DEF PlayFinalizers
    <3> QED BY Zenon, <3>1, <3>2, CallOnce
  <2>2. CASE ~FinalizersPatch(j)
    <3>1. \A a \in Adder : act'[a].job = act[a].job
      BY <1>0, <1>3, <2>2 DEF PlayFinalizers, IInv, TypeOK, ActState
    <3>2. UNCHANGED <<delayed, ready, created>>
      BY <1>3, <2>2 DEF PlayFinalizers, queueVars
    <3> QED BY <3>1, <3>2, Shrinking DEF IInv, JobOnce, Queued
  <2> QED BY <2>1, <2>2
<1>4. CASE PlayDelete(w)
  <2>1. Idle.job = NoJob
    BY DEF Idle
  <2> QED BY <1>4, <2>1, CallOnce DEF PlayDelete
<1>5. CASE PlayPatch(w)
  <2> DEFINE c == [Stored(w) EXCEPT !.phase = j.stage.to]
  <2>1. CASE NeedPatch(j)
    <3>1. Call(w, c, PlayEnd(w, Answer(j.obj.key, c)))
      BY <1>5, <2>1 DEF PlayPatch
    <3> QED BY <1>1, <3>1, CallOnce
  <2>2. CASE ~NeedPatch(j)
    <3>1. act' = [act EXCEPT ![w] = PlayEnd(w, act[w].obj)]
      BY <1>5, <2>2 DEF PlayPatch
    <3>2. \A a \in Adder : act'[a].job = act[a].job \/ act'[a].job = NoJob
      BY <1>1, <3>1 DEF IInv, TypeOK
    <3>3. UNCHANGED <<delayed, ready, created>>
      BY <1>5, <2>2 DEF PlayPatch, queueVars
    <3> QED BY <3>2, <3>3, Shrinking DEF IInv, JobOnce, Queued
  <2> QED BY <2>1, <2>2
<1> QED BY <1>2, <1>3, <1>4, <1>5

(* A job changes hands: from the ready list to a worker, or from the one   *)
(* who adds it to the queue.                                               *)
LEMMA GetOnce == ASSUME IInv, TypeOK', NEW w \in Worker, Get(w) PROVE IInv'
<1>1. PICK j \in ready : /\ ready' = ready \ {j}
                         /\ act' = [act EXCEPT ![w] = [Idle EXCEPT !.pc = "delete", !.job = j]]
  BY Zenon DEF Get
<1>2. /\ w \in Adder /\ act'[w].job = j
      /\ \A a \in Adder \ {w} : act'[a] = act[a]
  BY <1>1 DEF IInv, TypeOK, Adder, Idle
<1>3. UNCHANGED <<delayed, created>>
  BY DEF Get
<1>4. JobOnce'
  BY <1>1, <1>2, <1>3 DEF IInv, JobOnce, Queued
<1>5. Numbered'
  BY <1>1, <1>2, <1>3 DEF IInv, Numbered, Queued
<1> QED BY <1>4, <1>5 DEF IInv

LEMMA AddQueueOnce == ASSUME IInv, TypeOK', NEW a \in Adder, AddQueue(a) PROVE IInv'
<1>1. act[a].job # NoJob
  BY ActFields, StageAssumption DEF AddQueue, IInv, TypeOK, CarriesJob
<1>2. /\ act'[a].job = NoJob
      /\ \A b \in Adder \ {a} : act'[b] = act[b]
  BY DEF AddQueue, IInv, TypeOK, Idle
<1>3. created' = created
  BY DEF AddQueue
<1>4. \/ ready' = ready \cup {act[a].job} /\ delayed' = delayed
      \/ delayed' = delayed \cup {act[a].job} /\ ready' = ready
  BY DEF AddQueue
<1>5. JobOnce'
  BY <1>1, <1>2, <1>4 DEF IInv, JobOnce, Queued
<1>6. Numbered'
  BY <1>1, <1>2, <1>3, <1>4 DEF IInv, Numbered, Queued
<1> QED BY <1>5, <1>6 DEF IInv

(* preprocess makes a job with a number no job has.                        *)
LEMMA PreprocessOnce == ASSUME IInv, TypeOK', Preprocess PROVE IInv'
<1>0. Pre \in Adder /\ UNCHANGED <<delayed, ready>>
  BY Zenon DEF Adder, Preprocess, queueVars
<1>1. CASE act' = [act EXCEPT ![Pre] = Idle] /\ UNCHANGED created
  <2>1. \A a \in Adder : act'[a].job = act[a].job \/ act'[a].job = NoJob
    BY <1>1 DEF IInv, TypeOK, Idle
  <2> QED BY <1>0, <1>1, <2>1, Shrinking DEF IInv, JobOnce, Queued
<1>2. CASE \E st \in Stage : /\ created' = created + 1
                            /\ act' = [act EXCEPT ![Pre] =
                                         [Idle EXCEPT !.pc = "swap",
                                            !.job = [obj |-> act[Pre].obj, stage |-> st,
                                                     id |-> created + 1]]]
  <2>1. created' = created + 1 /\ created \in Nat
    BY <1>2 DEF IInv, TypeOK
  <2>2. act'[Pre].job.id = created + 1
    BY <1>0, <1>2 DEF IInv, TypeOK, Idle
  <2>3. \A a \in Adder \ {Pre} : act'[a] = act[a]
    BY <1>2 DEF IInv, TypeOK
  <2>4. \A jj \in Queued : jj.id \in Nat /\ jj.id <= created
    BY JobFields DEF IInv, TypeOK, Numbered, Queued
  <2>5. \A a \in Adder : act[a].job # NoJob => act[a].job.id \in Nat /\ act[a].job.id <= created
    BY JobFields DEF IInv, TypeOK, Numbered, ActState
  <2>6. act'[Pre].job \notin Queued
    BY <2>1, <2>2, <2>4
  <2>7. \A a \in Adder \ {Pre} : act[a].job # NoJob => act[a].job # act'[Pre].job
    BY <2>1, <2>2, <2>5
  <2>8. JobOnce'
    BY <1>0, <2>3, <2>6, <2>7 DEF IInv, JobOnce, Queued
  <2>9. Numbered'
    BY <1>0, <2>1, <2>2, <2>3, <2>4, <2>5 DEF Numbered, Queued
  <2> QED BY <2>8, <2>9 DEF IInv
<1>3. Matching[act[Pre].obj.content] \subseteq Stage
  BY Zenon, ActFields, ObjFields, StageAssumption DEF Preprocess, IInv, TypeOK, Adder, CarriesObj
<1> QED BY ZenonT(60), <1>1, <1>2, <1>3 DEF Preprocess

LEMMA IInvNext == ASSUME IInv, [Next]_vars PROVE IInv'
<1>0. TypeOK'
  BY TypeNext DEF IInv
<1>1. CASE User \/ List \/ UNCHANGED vars
  BY <1>0, <1>1, OutsideOnce
<1>2. CASE Watch
  BY <1>0, <1>2, OutsideOnce, WatchCancelOnce, SendWatchedOnce DEF Watch
<1>3. CASE Preprocess \/ Expire
  BY <1>0, <1>3, PreprocessOnce, ExpireOnce
<1>4. CASE \E a \in Adder : Add(a)
  BY <1>0, <1>4, SwapCancelOnce, AddQueueOnce DEF Add
<1>5. CASE \E w \in Worker : Play(w)
  BY <1>0, <1>5, GetOnce, PlayOnce, SendPlayedOnce DEF Play
<1> QED BY <1>1, <1>2, <1>3, <1>4, <1>5 DEF Next

LEMMA IInvAlways == Spec => []IInv
  BY IInvInit, IInvNext, PTL DEF Spec

(* Whatever watchResources, preprocess, the retries and the workers do in  *)
(* whatever order, a job is in one place: heap, ready list or one          *)
(* goroutine.                                                              *)
THEOREM JobsAreUnique == Spec => []JobOnce
<1>1. IInv => JobOnce
  BY DEF IInv
<1> QED BY <1>1, IInvAlways, PTL

(***************************************************************************)
(* The caller's side of the queue's contract.                              *)
(***************************************************************************)
LEMMA QueueStep ==
  ASSUME IInv, [Next]_vars PROVE [Q!QNext]_<<delayed, ready>>
<1> USE DEF Q!QNext, Q!Put, Q!PutAfter, Q!Expire, Q!Take, Q!Drop, Q!Queued
<1>1. CASE UNCHANGED <<delayed, ready>>
  BY <1>1
<1>2. ASSUME NEW a \in Adder, AddQueue(a) PROVE Q!QNext
  <2>1. act[a].job # NoJob
    BY <1>2, ActFields, StageAssumption DEF AddQueue, IInv, TypeOK, CarriesJob
  <2>2. act[a].job \notin delayed \cup ready
    BY <2>1 DEF IInv, JobOnce, Queued
  <2> QED BY <1>2, <2>2 DEF AddQueue
<1>3. CASE Expire
  BY <1>3 DEF Expire
<1>4. ASSUME NEW w \in Worker, Get(w) PROVE Q!QNext
  BY <1>4 DEF Get
<1>5. CASE WatchCancel
  BY <1>5 DEF WatchCancel
<1>6. ASSUME NEW a \in Adder, AddCancel(a) PROVE [Q!QNext]_<<delayed, ready>>
  BY <1>6 DEF AddCancel
<1>7. CASE User \/ List \/ WatchEvent \/ WatchSync \/ SendWatched \/ Preprocess \/ UNCHANGED vars
  BY ZenonT(60), <1>1, <1>7 DEF User, Create, Touch, Delete, List, WatchEvent, WatchSync, SendWatched,
                    Preprocess, userOnly, queueVars, vars
<1>8. ASSUME NEW a \in Adder, AddSwap(a) PROVE UNCHANGED <<delayed, ready>>
  BY <1>8 DEF AddSwap, queueVars
<1>9. ASSUME NEW w \in Worker,
             Unmap(w) \/ PlayFinalizers(w) \/ PlayDelete(w) \/ PlayPatch(w) \/ SendPlayed(w)
      PROVE  UNCHANGED <<delayed, ready>>
  BY <1>9 DEF Unmap, PlayFinalizers, PlayDelete, PlayPatch, SendPlayed, Call, queueVars
<1> HIDE DEF Q!QNext
<1> QED BY <1>1, <1>2, <1>3, <1>4, <1>5, <1>6, <1>7, <1>8, <1>9 DEF Next, Watch, Add, Play

(* The pipeline never adds a job the queue still has, and every other step *)
(* it makes on the queue is one the queue's contract allows.               *)
THEOREM QueueContractKept == Spec => KeepsQueueContract
<1>1. Init => Q!QInit
  BY DEF Init, Q!QInit
<1>2. IInv /\ [Next]_vars => [Q!QNext]_Q!qvars
  BY QueueStep DEF Q!qvars
<1> QED BY <1>1, <1>2, IInvAlways, PTL DEF Spec, KeepsQueueContract, Q!QSpec

(***************************************************************************)
(* The helper map.  A job is not in the map while it is played or about to *)
(* be put (back) into the map.  As long as no call failed, the jobs in the *)
(* map and the ones about to be put there are not being cancelled, and no  *)
(* worker puts jobs back.                                                  *)
(***************************************************************************)
Unmapped == {"swap", "finalizers", "apply"}

MapInv ==
  /\ \A k \in Key : mapping[k] # NoJob => mapping[k].obj.key = k /\ mapping[k].id <= created
  /\ \A j \in Job : BeingCancelled(j) => j.id <= created
  /\ \A a \in Adder, k \in Key : act[a].pc \in Unmapped => mapping[k] # act[a].job
  /\ faults = 0 =>
       /\ \A k \in Key : mapping[k] # NoJob => Outstanding(mapping[k]) /\ ~BeingCancelled(mapping[k])
       /\ \A w \in Worker : act[w].pc \notin {"swap", "cancel", "add"}
       /\ \A a \in Adder : act[a].pc = "swap" => ~BeingCancelled(act[a].job)

LostOnlyCancelled ==
  \A k \in Key : mapping'[k] # NoJob /\ ~Outstanding(mapping[k])' =>
    /\ mapping'[k] = mapping[k]
    /\ ~Outstanding(mapping[k]) \/ BeingCancelled(mapping[k])

(* Steps that leave the map alone and let only cancelled jobs go.          *)
LEMMA MapStays ==
  ASSUME IInv, MapInv, UNCHANGED <<mapping, created>>, faults' = 0 => faults = 0,
         \A a \in Adder : act'[a].pc \in Unmapped => act[a].pc \in Unmapped /\ act'[a].job = act[a].job,
         faults' = 0 => \A a \in Adder : act'[a].pc \in {"swap", "cancel", "add"} =>
                          /\ act[a].pc \in {"swap", "cancel", "add"}
                          /\ act'[a].pc = "swap" => act[a].pc = "swap",
         \A j \in Job : BeingCancelled(j)' => BeingCancelled(j),
         \A k \in Key : mapping[k] # NoJob /\ Outstanding(mapping[k]) =>
                          Outstanding(mapping[k])' \/ BeingCancelled(mapping[k])
  PROVE  MapInv' /\ LostOnlyCancelled
<1>1. \A k \in Key : mapping'[k] = mapping[k] /\ mapping[k] \in Job \cup {NoJob}
  BY DEF IInv, TypeOK
<1>2. \A a \in Adder : act'[a].pc = "swap" => act'[a].job = act[a].job
  BY DEF Unmapped
<1>3. \A a \in Adder : act[a].pc = "swap" => act[a].job \in Job
  BY ActFields DEF IInv, TypeOK, CarriesJob
<1>4. \A w \in Worker : w \in Adder
  BY DEF Adder
<1>5. /\ \A k \in Key : mapping'[k] # NoJob => mapping'[k].obj.key = k /\ mapping'[k].id <= created'
      /\ \A j \in Job : BeingCancelled(j)' => j.id <= created'
      /\ \A a \in Adder, k \in Key : act'[a].pc \in Unmapped => mapping'[k] # act'[a].job
  BY <1>1 DEF MapInv
<1>6. ASSUME faults' = 0
      PROVE  /\ \A k \in Key : mapping'[k] # NoJob =>
                  Outstanding(mapping[k])' /\ ~BeingCancelled(mapping[k])'
             /\ \A w \in Worker : act'[w].pc \notin {"swap", "cancel", "add"}
             /\ \A a \in Adder : act'[a].pc = "swap" => ~BeingCancelled(act[a].job)'
  <2>1. faults = 0
    BY <1>6
  <2>2. ASSUME NEW k \in Key, mapping'[k] # NoJob
        PROVE  Outstanding(mapping[k])' /\ ~BeingCancelled(mapping[k])'
    <3>1. /\ mapping[k] # NoJob /\ mapping[k] \in Job /\ mapping'[k] = mapping[k]
          /\ Outstanding(mapping[k]) /\ ~BeingCancelled(mapping[k])
      BY <1>1, <2>1, <2>2 DEF MapInv
    <3> QED BY <3>1
  <2>3. \A w \in Worker : act'[w].pc \notin {"swap", "cancel", "add"}
    BY <1>4, <1>6, <2>1 DEF MapInv
  <2>4. ASSUME NEW a \in Adder, act'[a].pc = "swap" PROVE ~BeingCancelled(act[a].job)'
    <3>1. act[a].pc = "swap" /\ act'[a].job = act[a].job /\ act[a].job \in Job
      BY <1>2, <1>3, <1>6, <2>4
    <3>2. ~BeingCancelled(act[a].job)
      BY <2>1, <3>1 DEF MapInv
    <3> QED BY <3>1, <3>2
  <2> QED BY <2>2, <2>3, <2>4
<1>7. MapInv'
  BY <1>5, <1>6 DEF MapInv
<1>8. LostOnlyCancelled
  BY <1>1 DEF LostOnlyCancelled
<1> QED BY <1>7, <1>8

(* An object that is offered cancels nothing.                              *)
LEMMA OfferIdle ==
  ASSUME NEW o, Offer(o) PROVE watch'.pc # "cancel" /\ UNCHANGED mapping
<1>1. [IdleWatch EXCEPT !.pc = "send", !.obj = o].pc = "send" /\ IdleWatch.pc = "idle"
  BY DEF IdleWatch
<1> QED BY <1>1 DEF Offer

(* The environment; watchResources receiving, sending and cancelling.      *)
LEMMA OutsideMap ==
  ASSUME IInv, MapInv, TypeOK',
         User \/ List \/ WatchSync \/ WatchCancel \/ UNCHANGED vars
  PROVE  MapInv' /\ LostOnlyCancelled
<1>1. /\ UNCHANGED <<mapping, created, faults, act, ready>>
      /\ delayed' = delayed \/ (watch.pc = "cancel" /\ delayed' = delayed \ {watch.job})
  <2>1. CASE User \/ List \/ UNCHANGED vars
    BY Zenon, <2>1 DEF User, Create, Touch, Delete, List, userOnly, queueVars, vars
  <2>2. CASE WatchSync
    BY Zenon, <2>2 DEF WatchSync, Offer, queueVars
  <2>3. CASE WatchCancel
    BY <2>3 DEF WatchCancel
  <2> QED BY <2>1, <2>2, <2>3
<1>2. watch' = watch \/ watch'.pc # "cancel"
  <2>1. CASE User \/ List \/ UNCHANGED vars
    BY ZenonT(60), <2>1 DEF User, Create, Touch, Delete, List, userOnly, vars
  <2>2. CASE WatchSync
    BY <2>2, OfferIdle DEF WatchSync
  <2>3. CASE WatchCancel
    BY <2>3 DEF WatchCancel, IdleWatch
  <2> QED BY <2>1, <2>2, <2>3
<1>3. \A j \in Job : BeingCancelled(j)' => BeingCancelled(j)
  BY <1>1, <1>2 DEF BeingCancelled
<1>4. \A j : Outstanding(j) => Outstanding(j)' \/ BeingCancelled(j)
  BY <1>1 DEF Outstanding, BeingCancelled, Queued
<1> QED BY <1>1, <1>3, <1>4, MapStays

LEMMA SendMap ==
  ASSUME IInv, MapInv, TypeOK', SendWatched \/ \E w \in Worker : SendPlayed(w)
  PROVE  MapInv' /\ LostOnlyCancelled
<1>1. /\ UNCHANGED <<mapping, created, faults, ready, delayed>>
      /\ watch' = watch \/ watch'.pc # "cancel"
  BY DEF SendWatched, SendPlayed, envVars, queueVars, IdleWatch
<1>2. Pre \in Adder /\ (act[Pre].pc = "idle" => act[Pre].job = NoJob)
  BY ActFields DEF IInv, TypeOK, CarriesJob, Adder
<1>3. \A a \in Adder : \/ act'[a] = act[a]
                       \/ act[a].job = NoJob /\ act'[a].pc \in {"load", "idle"} /\ act'[a].job = NoJob
  <2>1. CASE SendWatched
    BY <1>2, <2>1 DEF SendWatched, Receive, Idle, IInv, TypeOK
  <2>2. ASSUME NEW w \in Worker, SendPlayed(w)
        PROVE  \A a \in Adder : \/ act'[a] = act[a]
                                \/ act[a].job = NoJob /\ act'[a].pc \in {"load", "idle"} /\ act'[a].job = NoJob
    <3>1. w \in Adder /\ w # Pre /\ act[w].pc = "push"
      BY <2>2, StageAssumption DEF Adder, SendPlayed
    <3>2. act[w].job = NoJob
      BY <3>1, ActFields DEF IInv, TypeOK, CarriesJob
    <3> QED BY ZenonT(60), <1>2, <2>2, <3>1, <3>2 DEF SendPlayed, Receive, Idle, IInv, TypeOK
  <2> QED BY <2>1, <2>2
<1>4. \A j \in Job : BeingCancelled(j)' => BeingCancelled(j)
  BY <1>1, <1>3 DEF BeingCancelled
<1>5. \A k \in Key : mapping[k] # NoJob /\ Outstanding(mapping[k]) => Outstanding(mapping[k])'
  <2>1. \A j : j # NoJob /\ Outstanding(j) => Outstanding(j)'
    BY <1>1, <1>3 DEF Outstanding, Queued
  <2> QED BY <1>1, <2>1
<1> QED BY <1>1, <1>3, <1>4, <1>5, MapStays DEF Unmapped

(* addStageJob after the swap, the queue's worker, and Get: jobs move, and *)
(* a job is cancelled.                                                     *)
LEMMA QueueMap ==
  ASSUME IInv, MapInv, TypeOK',
         \/ Expire
         \/ \E a \in Adder : AddCancel(a) \/ AddQueue(a)
         \/ \E w \in Worker : Get(w)
  PROVE  MapInv' /\ LostOnlyCancelled
<1>1. UNCHANGED <<mapping, created, faults, watch>>
  BY ZenonT(60) DEF Expire, AddCancel, AddQueue, Get, envVars, queueVars
<1>2. CASE Expire
  <2>1. UNCHANGED act /\ Queued' = Queued
    BY <1>2 DEF Expire, Queued
  <2>2. /\ \A j \in Job : BeingCancelled(j)' => BeingCancelled(j)
        /\ \A j : Outstanding(j) => Outstanding(j)'
    BY <1>1, <2>1 DEF BeingCancelled, Outstanding
  <2> QED BY <1>1, <2>1, <2>2, MapStays
<1>3. ASSUME NEW a \in Adder, AddCancel(a) PROVE MapInv' /\ LostOnlyCancelled
  <2>1. act[a] \in ActState /\ act[a].pc = "cancel"
    BY <1>3 DEF AddCancel, IInv, TypeOK
  <2>2. /\ delayed' = delayed \ {act[a].old} /\ ready' = ready
        /\ \A b \in Adder \ {a} : act'[b] = act[b]
        /\ act'[a].pc = "add" /\ act'[a].job = act[a].job
    BY <1>3, <2>1 DEF AddCancel, IInv, TypeOK, ActState
  <2>3. \A b \in Adder : act'[b].job = act[b].job /\ (act'[b] = act[b] \/ act'[b].pc = "add")
    BY <2>2
  <2>4. \A j \in Job : BeingCancelled(j)' => BeingCancelled(j)
    BY <1>1, <2>3 DEF BeingCancelled
  <2>5. \A j : Outstanding(j) => Outstanding(j)' \/ BeingCancelled(j)
    BY <2>1, <2>2, <2>3 DEF Outstanding, BeingCancelled, Queued
  <2> QED BY <1>1, <2>1, <2>2, <2>4, <2>5, MapStays DEF Unmapped
<1>4. ASSUME NEW a \in Adder, AddQueue(a) PROVE MapInv' /\ LostOnlyCancelled
  <2>1. /\ Queued' = Queued \cup {act[a].job}
        /\ act'[a].pc = "idle" /\ act'[a].job = NoJob
        /\ \A b \in Adder \ {a} : act'[b] = act[b]
    BY <1>4 DEF AddQueue, Queued, Idle, IInv, TypeOK
  <2>2. \A j \in Job : BeingCancelled(j)' => BeingCancelled(j)
    BY <1>1, <2>1 DEF BeingCancelled
  <2>3. \A j : Outstanding(j) => Outstanding(j)'
    BY <2>1 DEF Outstanding
  <2> QED BY <1>1, <2>1, <2>2, <2>3, MapStays DEF Unmapped
<1>5. ASSUME NEW w \in Worker, Get(w) PROVE MapInv' /\ LostOnlyCancelled
  <2>1. PICK j \in ready : /\ ready' = ready \ {j}
                           /\ act' = [act EXCEPT ![w] = [Idle EXCEPT !.pc = "delete", !.job = j]]
    BY Zenon, <1>5 DEF Get
  <2>2. /\ w \in Adder /\ delayed' = delayed /\ act'[w].job = j /\ act'[w].pc = "delete"
        /\ \A b \in Adder \ {w} : act'[b] = act[b]
        /\ act[w].job = NoJob
    <3>1. act[w].pc = "idle" /\ delayed' = delayed /\ w \in Adder
      BY ZenonT(60), <1>5 DEF Get, Adder
    <3>2. act[w].job = NoJob
      BY ZenonT(60), <3>1, ActFields DEF IInv, TypeOK, CarriesJob
    <3> QED BY <2>1, <3>1, <3>2 DEF Idle, IInv, TypeOK
  <2>3. \A i \in Job : BeingCancelled(i)' => BeingCancelled(i)
    BY <1>1, <2>2 DEF BeingCancelled
  <2>4. \A k \in Key : mapping[k] # NoJob /\ Outstanding(mapping[k]) => Outstanding(mapping[k])'
    <3>1. \A i : i # NoJob /\ Outstanding(i) => Outstanding(i)'
      BY <2>1, <2>2 DEF Outstanding, Queued
    <3> QED BY <1>1, <3>1
  <2> QED BY <1>1, <2>2, <2>3, <2>4, MapStays DEF Unmapped
<1> QED BY <1>2, <1>3, <1>4, <1>5

(* Playing a stage: the job is not in the map, and the worker drops it or  *)
(* goes on with it, back to addStageJob only after a failed call.          *)
LEMMA PlayShape ==
  ASSUME TypeOK, TypeOK', NEW w \in Worker, PlayFinalizers(w) \/ PlayDelete(w) \/ PlayPatch(w)
  PROVE  /\ act[w].pc \in {"finalizers", "apply"}
         /\ UNCHANGED <<mapping, created, watch, delayed, ready>>
         /\ faults' = 0 => faults = 0
         /\ \A a \in Adder \ {w} : act'[a] = act[a]
         /\ \/ act'[w].job = act[w].job /\ act'[w].pc = "apply"
            \/ act'[w].job = act[w].job /\ act'[w].pc = "swap" /\ faults' # 0
            \/ act'[w].job = NoJob /\ act'[w].pc \in {"idle", "push"}
<1> DEFINE j == act[w].job
           Shape == /\ UNCHANGED <<mapping, created, watch, delayed, ready>>
                    /\ faults' = 0 => faults = 0
                    /\ \A a \in Adder \ {w} : act'[a] = act[a]
                    /\ \/ act'[w].job = act[w].job /\ act'[w].pc = "apply"
                       \/ act'[w].job = act[w].job /\ act'[w].pc = "swap" /\ faults' # 0
                       \/ act'[w].job = NoJob /\ act'[w].pc \in {"idle", "push"}
<1>1. act[w] \in ActState /\ w \in Adder /\ DOMAIN act = Adder /\ faults \in Nat
  BY DEF TypeOK, Adder
<1>2. Idle.job = NoJob /\ Idle.pc = "idle"
  BY DEF Idle
<1>3. \A r : PlayEnd(w, r).job = NoJob /\ PlayEnd(w, r).pc \in {"idle", "push"}
  BY DEF PlayEnd, Idle
<1>4. ASSUME NEW c, NEW then, Call(w, c, then),
             \/ then.job = j /\ then.pc = "apply"
             \/ then.job = NoJob /\ then.pc \in {"idle", "push"}
      PROVE  Shape
  <2>1. UNCHANGED <<mapping, created, watch, delayed, ready>>
    BY <1>4 DEF Call, queueVars
  <2>2. CASE Succeeds(w, c, then)
    BY ZenonT(60), <1>1, <1>4, <2>1, <2>2 DEF Succeeds
  <2>3. CASE NotFound(w)
    BY ZenonT(60), <1>1, <1>2, <2>1, <2>3 DEF NotFound
  <2>4. CASE Fails(w, c)
    <3>1. faults' = faults + 1
      BY <2>4 DEF Fails
    <3>2. \/ act' = [act EXCEPT ![w] = Idle]
          \/ act' = [act EXCEPT ![w].pc = "swap", ![w].obj = NoObj]
      BY <2>4 DEF Fails
    <3>3. /\ \A a \in Adder \ {w} : act'[a] = act[a]
          /\ \/ act'[w].job = act[w].job /\ act'[w].pc = "swap"
             \/ act'[w].job = NoJob /\ act'[w].pc = "idle"
      BY <1>1, <1>2, <3>2 DEF ActState
    <3> QED BY <1>1, <2>1, <3>1, <3>3
  <2> QED BY <1>4, <2>2, <2>3, <2>4 DEF Call
<1>5. CASE PlayFinalizers(w)
  <2> DEFINE c == [Stored(w) EXCEPT !.fin = (j.stage.fin = "add")]
             then == [act[w] EXCEPT !.pc = "apply", !.obj = Answer(j.obj.key, c)]
  <2>1. CASE FinalizersPatch(j)
    <3>1. then.job = j /\ then.pc = "apply"
      BY <1>1 DEF ActState
    <3>2. Call(w, c, then)
      BY <1>5, <2>1 DEF PlayFinalizers
    <3>3. Shape
      BY ZenonT(60), <1>4, <3>1, <3>2
    <3> QED BY <1>5, <3>3 DEF PlayFinalizers
  <2>2. CASE ~FinalizersPatch(j)
    <3>1. act' = [act EXCEPT ![w].pc = "apply"]
      BY <1>5, <2>2 DEF PlayFinalizers
    <3>2. UNCHANGED <<mapping, created, watch, delayed, ready, faults>>
      BY <1>5, <2>2 DEF PlayFinalizers, queueVars
    <3> QED BY <1>1, <1>5, <3>1, <3>2 DEF PlayFinalizers, ActState
  <2> QED BY <2>1, <2>2
<1>6. CASE PlayDelete(w)
  <2>1. Call(w, Deleting(Stored(w)), Idle)
    BY <1>6 DEF PlayDelete
  <2>2. Shape
    BY <1>2, <1>4, <2>1
  <2> QED BY <1>6, <2>2 DEF PlayDelete
<1>7. CASE PlayPatch(w)
  <2> DEFINE c == [Stored(w) EXCEPT !.phase = j.stage.to]
  <2>1. CASE NeedPatch(j)
    <3>1. Call(w, c, PlayEnd(w, Answer(j.obj.key, c)))
      BY <1>7, <2>1 DEF PlayPatch
    <3>2. Shape
      BY <1>3, <1>4, <3>1
    <3> QED BY <1>7, <3>2 DEF PlayPatch
  <2>2. CASE ~NeedPatch(j)
    <3>1. act' = [act EXCEPT ![w] = PlayEnd(w, act[w].obj)]
      BY <1>7, <2>2 DEF PlayPatch
    <3>2. UNCHANGED <<mapping, created, watch, delayed, ready, faults>>
      BY <1>7, <2>2 DEF PlayPatch, queueVars
    <3> QED BY <1>1, <1>3, <1>7, <3>1, <3>2 DEF PlayPatch
  <2> QED BY <2>1, <2>2
<1> QED BY Zenon, <1>5, <1>6, <1>7

LEMMA PlayMap ==
  ASSUME IInv, MapInv, TypeOK', NEW w \in Worker, PlayFinalizers(w) \/ PlayDelete(w) \/ PlayPatch(w)
  PROVE  MapInv' /\ LostOnlyCancelled
<1>1. /\ act[w].pc \in {"finalizers", "apply"}
      /\ UNCHANGED <<mapping, created, watch, delayed, ready>>
      /\ faults' = 0 => faults = 0
      /\ \A a \in Adder \ {w} : act'[a] = act[a]
      /\ \/ act'[w].job = act[w].job /\ act'[w].pc = "apply"
         \/ act'[w].job = act[w].job /\ act'[w].pc = "swap" /\ faults' # 0
         \/ act'[w].job = NoJob /\ act'[w].pc \in {"idle", "push"}
  BY Zenon, PlayShape DEF IInv
<1>2. w \in Adder /\ \A k \in Key : mapping[k] # act[w].job
  BY ZenonT(60), <1>1 DEF MapInv, Adder, Unmapped
<1>3. \A j \in Job : BeingCancelled(j)' => BeingCancelled(j)
  BY ZenonT(60), <1>1 DEF BeingCancelled
<1>4. \A k \in Key : mapping[k] # NoJob /\ Outstanding(mapping[k]) => Outstanding(mapping[k])'
  <2>1. \A j : j # act[w].job /\ Outstanding(j) => Outstanding(j)'
    BY <1>1 DEF Outstanding, Queued
  <2> QED BY <1>1, <1>2, <2>1
<1>5. \A a \in Adder : act'[a].pc \in Unmapped => act[a].pc \in Unmapped /\ act'[a].job = act[a].job
  BY <1>1, <1>2 DEF Unmapped
<1>6. faults' = 0 => \A a \in Adder : act'[a].pc \in {"swap", "cancel", "add"} =>
        /\ act[a].pc \in {"swap", "cancel", "add"}
        /\ act'[a].pc = "swap" => act[a].pc = "swap"
  BY <1>1, <1>2
<1> QED BY <1>1, <1>3, <1>4, <1>5, <1>6, MapStays

(* The steps that change the map: a Deleted event takes a job out, which   *)
(* is then cancelled.                                                      *)
LEMMA WatchEventMap ==
  ASSUME IInv, MapInv, TypeOK', WatchEvent PROVE MapInv' /\ LostOnlyCancelled
<1>1. /\ UNCHANGED <<act, delayed, ready, created, faults>> /\ watch.pc = "idle"
      /\ events # <<>> /\ events \in Seq(Event)
  BY DEF WatchEvent, queueVars, IInv, TypeOK
<1> DEFINE o == Head(events).obj
<1>2. o.key \in Key
  <2>1. Head(events) \in Event
    BY <1>1
  <2> QED BY <2>1, ObjFields DEF Event
<1>3. \A j : Outstanding(j)' <=> Outstanding(j)
  BY <1>1 DEF Outstanding, Queued
<1>4. CASE UNCHANGED mapping /\ (watch' = watch \/ watch'.pc # "cancel")
  <2>1. \A j \in Job : BeingCancelled(j)' => BeingCancelled(j)
    BY <1>1, <1>4 DEF BeingCancelled
  <2> QED BY <1>1, <1>3, <1>4, <2>1, MapStays
<1>5. CASE /\ mapping[o.key] # NoJob /\ mapping' = [mapping EXCEPT ![o.key] = NoJob]
           /\ watch' = [IdleWatch EXCEPT !.pc = "cancel", !.job = mapping[o.key]]
  <2> DEFINE k == o.key
             g == mapping[k]
  <2> HIDE DEF o
  <2>1. /\ k \in Key /\ g # NoJob /\ mapping'[k] = NoJob /\ \A i \in Key \ {k} : mapping'[i] = mapping[i]
        /\ watch'.pc = "cancel" /\ watch'.job = g
    BY <1>2, <1>5 DEF IdleWatch, IInv, TypeOK
  <2>2. \A j : BeingCancelled(j)' => BeingCancelled(j) \/ j = g
    BY <1>1, <2>1 DEF BeingCancelled
  <2>3. \A i \in Key : mapping'[i] # NoJob => mapping'[i] = mapping[i] /\ mapping[i] # g
    <3>1. \A i \in Key : mapping[i] # NoJob => mapping[i].obj.key = i
      BY DEF MapInv
    <3> QED BY <2>1, <3>1
  <2>4. \A a \in Adder : act[a].pc = "swap" => act[a].job # g
    BY <2>1 DEF MapInv, Unmapped
  <2> HIDE DEF g, k
  <2>5. /\ \A i \in Key : mapping'[i] # NoJob => mapping'[i].obj.key = i /\ mapping'[i].id <= created'
        /\ \A j \in Job : BeingCancelled(j)' => j.id <= created'
    BY <1>1, <2>1, <2>2, <2>3 DEF MapInv, g
  <2>6. \A a \in Adder, i \in Key : act'[a].pc \in Unmapped => mapping'[i] # act'[a].job
    <3> SUFFICES ASSUME NEW a \in Adder, NEW i \in Key, act[a].pc \in Unmapped PROVE mapping'[i] # act[a].job
      BY <1>1
    <3>1. act[a].job # NoJob
      BY ActFields, StageAssumption DEF IInv, TypeOK, Unmapped, CarriesJob
    <3> QED BY <2>3, <3>1 DEF MapInv
  <2>7. faults' = 0 =>
          /\ \A i \in Key : mapping'[i] # NoJob => Outstanding(mapping[i])' /\ ~BeingCancelled(mapping[i])'
          /\ \A w \in Worker : act'[w].pc \notin {"swap", "cancel", "add"}
          /\ \A a \in Adder : act'[a].pc = "swap" => ~BeingCancelled(act[a].job)'
    <3> SUFFICES ASSUME faults = 0
                 PROVE  /\ \A i \in Key : mapping'[i] # NoJob =>
                             Outstanding(mapping[i])' /\ ~BeingCancelled(mapping[i])'
                        /\ \A w \in Worker : act'[w].pc \notin {"swap", "cancel", "add"}
                        /\ \A a \in Adder : act'[a].pc = "swap" => ~BeingCancelled(act[a].job)'
      BY <1>1
    <3>1. ASSUME NEW i \in Key, mapping'[i] # NoJob
          PROVE  Outstanding(mapping[i])' /\ ~BeingCancelled(mapping[i])'
      <4>1. /\ mapping'[i] = mapping[i] /\ mapping[i] # g
            /\ Outstanding(mapping[i]) /\ ~BeingCancelled(mapping[i])
        BY <2>3, <3>1 DEF MapInv
      <4> QED BY <1>3, <2>2, <4>1
    <3>2. \A w \in Worker : act'[w].pc \notin {"swap", "cancel", "add"}
      BY <1>1 DEF MapInv
    <3>3. ASSUME NEW a \in Adder, act'[a].pc = "swap" PROVE ~BeingCancelled(act[a].job)'
      <4>1. act'[a] = act[a] /\ ~BeingCancelled(act[a].job) /\ act[a].job # g
        BY <1>1, <2>4, <3>3 DEF MapInv
      <4> QED BY <2>2, <4>1
    <3> QED BY <3>1, <3>2, <3>3
  <2>8. MapInv'
    BY <2>5, <2>6, <2>7 DEF MapInv
  <2>9. LostOnlyCancelled
    BY <1>3, <2>3 DEF LostOnlyCancelled
  <2> QED BY <2>8, <2>9
<1>6. CASE Offer(o)
  BY <1>4, <1>6, OfferIdle
<1>7. CASE Forget(o)
  BY <1>4, <1>5, <1>7 DEF Forget
<1> QED BY <1>6, <1>7 DEF WatchEvent

(* addStageJob puts a job into the map, and its predecessor is cancelled.  *)
LEMMA AddSwapMap ==
  ASSUME IInv, MapInv, TypeOK', NEW a \in Adder, AddSwap(a) PROVE MapInv' /\ LostOnlyCancelled
<1> DEFINE j == act[a].job
           k == j.obj.key
           g == mapping[k]
<1>1. /\ act[a] \in ActState /\ act[a].pc = "swap" /\ j \in Job /\ j # NoJob
  BY ActFields, StageAssumption DEF AddSwap, IInv, TypeOK, CarriesJob
<1>2. k \in Key /\ j.id <= created
  BY <1>1, JobFields, ObjFields DEF IInv, Numbered
<1>3. /\ UNCHANGED <<delayed, ready, created, faults, watch>>
      /\ mapping'[k] = j /\ \A i \in Key \ {k} : mapping'[i] = mapping[i]
  BY <1>2 DEF AddSwap, envVars, queueVars, IInv, TypeOK
<1>4. /\ \A b \in Adder \ {a} : act'[b] = act[b]
      /\ act'[a].job = j /\ act'[a].old = g /\ act'[a].pc = IF g = NoJob THEN "add" ELSE "cancel"
  BY ZenonT(60), <1>1 DEF AddSwap, IInv, TypeOK, ActState
<1>5. /\ \A i \in Key : mapping[i] # NoJob => mapping[i].obj.key = i /\ mapping[i].id <= created
      /\ \A b \in Adder, i \in Key : act[b].pc \in Unmapped => mapping[i] # act[b].job
  BY DEF MapInv
<1>6. \A b \in Adder \ {a} : act[b].job # j
  BY <1>1 DEF IInv, JobOnce
<1>7. g # j /\ \A i \in Key \ {k} : mapping[i] # NoJob => mapping[i] # g
  BY <1>1, <1>2, <1>5 DEF Unmapped
<1>8. \A x : Outstanding(x)' <=> Outstanding(x)
  <2>1. \A b \in Adder : act'[b].job = act[b].job
    BY <1>4
  <2> QED BY <1>3, <2>1 DEF Outstanding, Queued
<1>9. Outstanding(j)
  BY DEF Outstanding
<1> HIDE DEF g, j, k
<1>10. \A x : BeingCancelled(x)' => BeingCancelled(x) \/ (x = g /\ g # NoJob)
  BY <1>3, <1>4 DEF BeingCancelled
<1>11. /\ \A i \in Key : mapping'[i] # NoJob => mapping'[i].obj.key = i /\ mapping'[i].id <= created'
       /\ \A x \in Job : BeingCancelled(x)' => x.id <= created'
  <2>1. g # NoJob => g.id <= created
    BY <1>2, <1>5 DEF g
  <2> QED BY <1>2, <1>3, <1>5, <1>10, <2>1 DEF MapInv, k
<1>12. \A b \in Adder, i \in Key : act'[b].pc \in Unmapped => mapping'[i] # act'[b].job
  <2> SUFFICES ASSUME NEW b \in Adder, NEW i \in Key, act'[b].pc \in Unmapped
               PROVE  mapping'[i] # act'[b].job
    OBVIOUS
  <2>1. b # a
    BY <1>4 DEF Unmapped
  <2>2. act'[b] = act[b] /\ act[b].job # j /\ mapping[i] # act[b].job
    BY <1>4, <1>5, <1>6, <2>1
  <2> QED BY <1>3, <2>2
<1>13. ASSUME faults' = 0
       PROVE  /\ \A i \in Key : mapping'[i] # NoJob =>
                   Outstanding(mapping[i])' /\ ~BeingCancelled(mapping[i])'
              /\ \A w \in Worker : act'[w].pc \notin {"swap", "cancel", "add"}
              /\ \A b \in Adder : act'[b].pc = "swap" => ~BeingCancelled(act[b].job)'
  <2>1. /\ \A i \in Key : mapping[i] # NoJob => Outstanding(mapping[i]) /\ ~BeingCancelled(mapping[i])
        /\ \A w \in Worker : act[w].pc \notin {"swap", "cancel", "add"}
        /\ ~BeingCancelled(j)
    BY <1>1, <1>3, <1>13 DEF MapInv, j
  <2>2. a \notin Worker /\ a = Pre
    BY <1>1, <2>1 DEF Adder
  <2>3. ASSUME NEW i \in Key, mapping'[i] # NoJob
        PROVE  Outstanding(mapping[i])' /\ ~BeingCancelled(mapping[i])'
    <3>1. CASE i = k
      BY <1>3, <1>7, <1>8, <1>9, <1>10, <2>1, <3>1
    <3>2. CASE i # k
      <4>1. mapping'[i] = mapping[i] /\ mapping[i] # g
        BY <1>3, <1>7, <2>3, <3>2
      <4> QED BY <1>8, <1>10, <2>1, <2>3, <4>1
    <3> QED BY <3>1, <3>2
  <2>4. \A w \in Worker : act'[w] = act[w]
    BY <1>4, <2>2 DEF Adder
  <2>5. \A b \in Adder : act'[b].pc # "swap"
    BY <1>4, <2>1, <2>2, <2>4 DEF Adder
  <2> QED BY <2>1, <2>3, <2>4, <2>5
<1>14. MapInv'
  BY ZenonT(60), <1>11, <1>12, <1>13 DEF MapInv
<1>15. LostOnlyCancelled
  BY <1>3, <1>8, <1>9 DEF LostOnlyCancelled
<1> QED BY <1>14, <1>15

(* playStageWorker takes the job it will play out of the map.              *)
LEMMA UnmapMap ==
  ASSUME IInv, MapInv, TypeOK', NEW w \in Worker, Unmap(w) PROVE MapInv' /\ LostOnlyCancelled
<1> DEFINE j == act[w].job
           k == j.obj.key
<1>1. /\ w \in Adder /\ act[w] \in ActState /\ act[w].pc = "delete" /\ j \in Job /\ j # NoJob
  BY ActFields, StageAssumption DEF Unmap, IInv, TypeOK, CarriesJob, Adder
<1>2. k \in Key
  BY <1>1, JobFields, ObjFields
<1>3. /\ UNCHANGED <<delayed, ready, created, faults, watch>>
      /\ mapping'[k] = NoJob /\ \A i \in Key \ {k} : mapping'[i] = mapping[i]
  BY <1>2 DEF Unmap, envVars, queueVars, IInv, TypeOK
<1>4. /\ \A b \in Adder \ {w} : act'[b] = act[b]
      /\ act'[w].job = j /\ act'[w].pc = "finalizers"
  BY <1>1 DEF Unmap, IInv, TypeOK, ActState
<1>5. \A x : (Outstanding(x)' <=> Outstanding(x)) /\ (BeingCancelled(x)' <=> BeingCancelled(x))
  <2>1. \A b \in Adder : act'[b].job = act[b].job
    BY <1>4
  <2>2. \A x : Outstanding(x)' <=> Outstanding(x)
    BY <1>3, <2>1 DEF Outstanding, Queued
  <2>3. \A x : BeingCancelled(x)' <=> BeingCancelled(x)
    BY <1>1, <1>3, <1>4 DEF BeingCancelled
  <2> QED BY <2>2, <2>3
<1>6. \A i \in Key : mapping'[i] # NoJob => mapping'[i] = mapping[i] /\ mapping'[i] # j
  <2>1. \A i \in Key : mapping[i] # NoJob => mapping[i].obj.key = i
    BY DEF MapInv
  <2> QED BY <1>3, <2>1
<1> HIDE DEF j, k
<1>7. /\ \A i \in Key : mapping'[i] # NoJob => mapping'[i].obj.key = i /\ mapping'[i].id <= created'
      /\ \A x \in Job : BeingCancelled(x)' => x.id <= created'
  BY <1>3, <1>5, <1>6 DEF MapInv
<1>8. \A b \in Adder, i \in Key : act'[b].pc \in Unmapped => mapping'[i] # act'[b].job
  <2> SUFFICES ASSUME NEW b \in Adder, NEW i \in Key, act'[b].pc \in Unmapped
               PROVE  mapping'[i] # act'[b].job
    OBVIOUS
  <2>1. CASE b = w
    BY <1>1, <1>4, <1>6, <2>1
  <2>2. CASE b # w
    <3>1. act'[b] = act[b] /\ mapping[i] # act[b].job
      BY <1>4, <2>2 DEF MapInv
    <3>2. act[b].job # NoJob
      BY <1>4, <2>2, ActFields, StageAssumption DEF IInv, TypeOK, Unmapped, CarriesJob
    <3> QED BY <1>6, <3>1, <3>2
  <2> QED BY <2>1, <2>2
<1>9. ASSUME faults' = 0
      PROVE  /\ \A i \in Key : mapping'[i] # NoJob =>
                  Outstanding(mapping[i])' /\ ~BeingCancelled(mapping[i])'
             /\ \A v \in Worker : act'[v].pc \notin {"swap", "cancel", "add"}
             /\ \A b \in Adder : act'[b].pc = "swap" => ~BeingCancelled(act[b].job)'
  <2>1. faults = 0
    BY <1>3, <1>9
  <2>2. \A i \in Key : mapping'[i] # NoJob => Outstanding(mapping[i])' /\ ~BeingCancelled(mapping[i])'
    BY ZenonT(60), <1>5, <1>6, <2>1 DEF MapInv
  <2>3. \A b \in Adder : act'[b].job = act[b].job /\ (act'[b].pc = act[b].pc \/ act'[b].pc = "finalizers")
    BY <1>4 DEF j
  <2>4. \A v \in Worker : act'[v].pc \notin {"swap", "cancel", "add"}
    BY <2>1, <2>3 DEF MapInv, Adder
  <2>5. \A b \in Adder : act'[b].pc = "swap" => ~BeingCancelled(act[b].job)'
    BY <1>5, <2>1, <2>3 DEF MapInv
  <2> QED BY <2>2, <2>4, <2>5
<1>10. MapInv'
  BY ZenonT(60), <1>7, <1>8, <1>9 DEF MapInv
<1>11. LostOnlyCancelled
  BY <1>5, <1>6 DEF LostOnlyCancelled
<1> QED BY <1>10, <1>11

(* preprocess makes a job that is nowhere yet.                             *)
LEMMA PreprocessMap ==
  ASSUME IInv, MapInv, TypeOK', Preprocess PROVE MapInv' /\ LostOnlyCancelled
<1>1. /\ Pre \in Adder /\ Pre \notin Worker /\ act[Pre].pc = "load" /\ act[Pre].job = NoJob
      /\ UNCHANGED <<delayed, ready, faults, watch, mapping>>
  <2>1. Pre \in Adder /\ Pre \notin Worker /\ act[Pre].pc = "load"
    BY ZenonT(60), StageAssumption DEF Adder, Preprocess
  <2>2. act[Pre].job = NoJob
    BY <2>1, ActFields DEF IInv, TypeOK, CarriesJob
  <2> QED BY ZenonT(60), <2>1, <2>2 DEF Preprocess, queueVars
<1>2. \A b \in Adder \ {Pre} : act'[b] = act[b]
  BY ZenonT(60) DEF Preprocess, IInv, TypeOK
<1>3. \A x : x # NoJob /\ Outstanding(x) => Outstanding(x)'
  BY <1>1, <1>2 DEF Outstanding, Queued
<1>4. CASE act' = [act EXCEPT ![Pre] = Idle] /\ UNCHANGED created
  <2>1. act'[Pre].pc = "idle"
    BY <1>1, <1>4 DEF Idle, IInv, TypeOK
  <2>2. \A x \in Job : BeingCancelled(x)' => BeingCancelled(x)
    BY <1>1, <1>2, <2>1 DEF BeingCancelled
  <2>3. \A b \in Adder : act'[b] = act[b] \/ act'[b].pc = "idle"
    BY <1>2, <2>1
  <2> QED BY <1>1, <1>3, <1>4, <2>2, <2>3, MapStays DEF Unmapped
<1>5. CASE /\ created' = created + 1 /\ act'[Pre].pc = "swap" /\ act'[Pre].job.id = created + 1
  <2> DEFINE n == act'[Pre].job
  <2>1. n \in Job /\ created \in Nat /\ n.id = created + 1
    BY <1>1, <1>5, ActFields DEF IInv, TypeOK, CarriesJob
  <2>2. \A x : BeingCancelled(x)' <=> BeingCancelled(x)
    BY <1>1, <1>2, <1>5 DEF BeingCancelled
  <2>3. \A i \in Key : mapping'[i] = mapping[i] /\ mapping[i] \in Job \cup {NoJob}
    BY <1>1 DEF IInv, TypeOK
  <2>4. /\ \A i \in Key : mapping[i] # NoJob => mapping[i].id \in Nat /\ mapping[i].id <= created
        /\ \A x \in Job : x.id \in Nat /\ (BeingCancelled(x) => x.id <= created)
    BY <2>3, JobFields DEF MapInv
  <2>5. n # NoJob /\ ~BeingCancelled(n) /\ \A i \in Key : mapping[i] # n
    BY <2>1, <2>4, StageAssumption
  <2>6. /\ \A i \in Key : mapping'[i] # NoJob => mapping'[i].obj.key = i /\ mapping'[i].id <= created'
        /\ \A x \in Job : BeingCancelled(x)' => x.id <= created'
    BY <1>5, <2>1, <2>2, <2>3, <2>4 DEF MapInv
  <2> HIDE DEF n
  <2>7. \A b \in Adder, i \in Key : act'[b].pc \in Unmapped => mapping'[i] # act'[b].job
    BY <1>2, <2>3, <2>5 DEF MapInv, n
  <2>8. ASSUME faults' = 0
        PROVE  /\ \A i \in Key : mapping'[i] # NoJob =>
                    Outstanding(mapping[i])' /\ ~BeingCancelled(mapping[i])'
               /\ \A v \in Worker : act'[v].pc \notin {"swap", "cancel", "add"}
               /\ \A b \in Adder : act'[b].pc = "swap" => ~BeingCancelled(act[b].job)'
    <3>1. faults = 0
      BY <1>1, <2>8
    <3>2. \A i \in Key : mapping'[i] # NoJob => Outstanding(mapping[i])' /\ ~BeingCancelled(mapping[i])'
      BY <1>3, <2>2, <2>3, <3>1 DEF MapInv
    <3>3. \A v \in Worker : act'[v] = act[v]
      BY <1>1, <1>2 DEF Adder
    <3>4. ASSUME NEW b \in Adder, act'[b].pc = "swap" PROVE ~BeingCancelled(act[b].job)'
      <4>1. CASE b = Pre
        BY <2>2, <2>5, <4>1 DEF n
      <4>2. CASE b # Pre
        BY <1>2, <2>2, <3>1, <3>4, <4>2 DEF MapInv
      <4> QED BY <4>1, <4>2
    <3> QED BY <3>1, <3>2, <3>3, <3>4 DEF MapInv
  <2>9. MapInv'
    BY <2>6, <2>7, <2>8 DEF MapInv
  <2>10. LostOnlyCancelled
    BY <1>3, <2>3 DEF LostOnlyCancelled
  <2> QED BY <2>9, <2>10
<1>6. \/ act' = [act EXCEPT ![Pre] = Idle] /\ UNCHANGED created
      \/ created' = created + 1 /\ act'[Pre].pc = "swap" /\ act'[Pre].job.id = created + 1
  <2> DEFINE o == act[Pre].obj
  <2>1. CASE Known(o) \/ Matching[o.content] = {}
    BY Zenon, <2>1 DEF Preprocess
  <2>2. CASE ~(Known(o) \/ Matching[o.content] = {})
    <3>1. PICK st \in Matching[o.content] :
            /\ created' = created + 1
            /\ act' = [act EXCEPT ![Pre] = [Idle EXCEPT !.pc = "swap",
                                               !.job = [obj |-> o, stage |-> st, id |-> created + 1]]]
      BY ZenonT(60), <2>2 DEF Preprocess
    <3> QED BY <1>1, <3>1 DEF Idle, IInv, TypeOK
  <2> QED BY <2>1, <2>2
<1> QED BY <1>4, <1>5, <1>6

LEMMA MapInit == Init => MapInv
<1> SUFFICES ASSUME Init PROVE MapInv
  OBVIOUS
<1>1. /\ watch.pc = "idle" /\ \A a \in Adder : act[a].pc = "idle"
      /\ \A k \in Key : mapping[k] = NoJob
  BY DEF Init, Idle, IdleWatch
<1>2. \A w \in Worker : w \in Adder
  BY DEF Adder
<1>3. \A j : ~BeingCancelled(j)
  BY <1>1 DEF BeingCancelled
<1>4. \A a \in Adder : act[a].pc \notin Unmapped /\ act[a].pc # "swap"
  BY <1>1 DEF Unmapped
<1>5. \A w \in Worker : act[w].pc \notin {"swap", "cancel", "add"}
  BY <1>1, <1>2
<1> QED BY <1>1, <1>3, <1>4, <1>5 DEF MapInv

LEMMA MapNext == ASSUME IInv, MapInv, [Next]_vars PROVE MapInv' /\ LostOnlyCancelled
<1>1. TypeOK'
  BY TypeNext DEF IInv
<1>2. CASE User \/ List \/ WatchSync \/ WatchCancel \/ UNCHANGED vars
  BY <1>1, <1>2, OutsideMap
<1>3. CASE WatchEvent \/ Preprocess
  BY <1>1, <1>3, WatchEventMap, PreprocessMap
<1>4. CASE SendWatched
  BY <1>1, <1>4, SendMap
<1>5. CASE Expire
  BY <1>1, <1>5, QueueMap
<1>6. CASE \E a \in Adder : Add(a)
  BY <1>1, <1>6, QueueMap, AddSwapMap DEF Add
<1>7. CASE \E w \in Worker : Play(w)
  BY <1>1, <1>7, QueueMap, UnmapMap, PlayMap, SendMap DEF Play
<1> QED BY <1>2, <1>3, <1>4, <1>5, <1>6, <1>7 DEF Next, Watch

(* preprocess skips a version because of a job in the helper map only when *)
(* that job is on its way, as long as no call failed; and in any case a    *)
(* job that is in the map goes only by being cancelled by a goroutine that *)
(* took it from the map earlier.                                           *)
THEOREM SkippingIsJustified == Spec => SkipJustified
<1>1. IInv /\ MapInv /\ [Next]_vars => MapInv'
  BY MapNext
<1>2. IInv /\ MapInv /\ [Next]_vars =>
        [\A k \in Key : mapping'[k] # NoJob /\ ~Outstanding(mapping[k])' =>
           /\ mapping'[k] = mapping[k]
           /\ ~Outstanding(mapping[k]) \/ BeingCancelled(mapping[k])]_vars
  BY MapNext DEF LostOnlyCancelled
<1>3. MapInv => (faults = 0 => \A k \in Key : mapping[k] # NoJob => Outstanding(mapping[k]))
  BY Zenon DEF MapInv
<1> QED BY <1>1, <1>2, <1>3, MapInit, IInvAlways, PTL DEF Spec, SkipJustified
=============================================================================
