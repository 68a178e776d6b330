---------------------------- MODULE MCControllers ----------------------------
(***************************************************************************)
(* A controller and its queue, and what must happen in them in the end:    *)
(* the pipeline of stages (StageController, with the lifecycle of          *)
(* MCStageController), which relies on what DelayQueue promises, and the   *)
(* queue that keeps the promise (WeightDelayingQueue).  A behaviour takes  *)
(* one of them; the other stays as it begins.                              *)
(***************************************************************************)
EXTENDS MCStageController

VARIABLES part,
          base, lanes, token, mut, heap, kick, now, loop,    \* WeightDelayingQueue
          client, worker, done, adds, due, lane

Queue == INSTANCE WeightDelayingQueue
  WITH Item <- {"a", "b"}, Client <- {"c"}, MaxWeight <- 1, MaxTime <- 2, MaxSleep <- 2,
       MaxAdds <- 2, NoItem <- "none", Nobody <- "nobody"

waiting == <<base, lanes, token, mut, heap, kick, now, loop, client, worker, done, adds, due, lane>>

MCInit ==
    /\ part \in {"pipeline", "queue"}
    /\ Init /\ Queue!Init

MCNext ==
    /\ UNCHANGED part
    /\ IF part = "pipeline" THEN Next ELSE UNCHANGED vars
    /\ IF part = "queue" THEN Queue!Next ELSE UNCHANGED waiting

(* The fairness of the part that is taken, as its module states it.        *)
Piping  == part = "pipeline"
Queuing == part = "queue"

PipelineFairness ==
    /\ WF_vars(Piping /\ WatchEvent) /\ WF_vars(Piping /\ WatchSync) /\ WF_vars(Piping /\ WatchCancel)
    /\ SF_vars(Piping /\ SendWatched)
    /\ WF_vars(Piping /\ Preprocess) /\ WF_vars(Piping /\ Expire)
    /\ \A a \in Adder : WF_vars(Piping /\ Add(a))
    /\ \A w \in Worker : WF_vars(Piping /\ Play(w)) /\ SF_vars(Piping /\ SendPlayed(w))

QueueFairness ==
    /\ WF_waiting(Queuing /\ Queue!Signal("c")) /\ WF_waiting(Queuing /\ Queue!Loop)
    /\ \A p \in Worker : WF_waiting(Queuing /\ Queue!Serve(p))
    /\ WF_waiting(Queuing /\ Queue!Tick)

MCSpec == MCInit /\ [][MCNext]_<<part, vars, waiting>> /\ PipelineFairness /\ QueueFairness

-----------------------------------------------------------------------------
(* How far a fresh item can be behind retried ones (weightQueue.step; see  *)
(* module WeightDelayingQueue).                                            *)
PriorityBound == Queue!PriorityBound

(* Once its time has come, a delayed item leaves its heap (loopWorker; see *)
(* module WeightDelayingQueue).  The items are interchangeable: what is    *)
(* checked of one is true of each.                                         *)
EveryDelayExpires == Queue!DelayExpires("a")

(* A ready item is taken (GetOrWaitWithDone; see module                    *)
(* WeightDelayingQueue), which again one item stands for.                  *)
EveryReadyTaken == Queue!ReadyTaken("a")
=============================================================================
