----------------------------- MODULE DelayQueue -----------------------------
(***************************************************************************)
(* What the delaying queues of pkg/utils/queue promise their callers, free *)
(* of weights, clocks, heaps and signals: an added item is in exactly one  *)
(* of two places until somebody takes it.                                  *)
(*                                                                         *)
(*   delayed   the item waits for its duration; Cancel removes it          *)
(*   ready     the item may be returned by Get; Cancel no longer sees it   *)
(*                                                                         *)
(* The promise is only made for items that are not in the queue when they  *)
(* are added.  Module WeightDelayingQueue implements it, and module        *)
(* StageController is a caller that keeps its side of the contract.        *)
(***************************************************************************)
EXTENDS FiniteSets

CONSTANT Item   \* whatever is queued

VARIABLES delayed, ready

qvars == <<delayed, ready>>

QInit == delayed = {} /\ ready = {}

Queued == delayed \cup ready

(* Add and AddWeight, and AddWeightAfter with no duration.                 *)
Put(i) ==
  /\ i \notin Queued
  /\ ready' = ready \cup {i}
  /\ UNCHANGED delayed

(* AddAfter and AddWeightAfter with a positive duration.                   *)
PutAfter(i) ==
  /\ i \notin Queued
  /\ delayed' = delayed \cup {i}
  /\ UNCHANGED ready

(* The background worker moves an item whose duration has passed.          *)
Expire(i) ==
  /\ i \in delayed
  /\ delayed' = delayed \ {i}
  /\ ready' = ready \cup {i}

(* Get and the waiting variants.                                           *)
Take(i) ==
  /\ i \in ready
  /\ ready' = ready \ {i}
  /\ UNCHANGED delayed

Drop(i) ==
  /\ i \in delayed
  /\ delayed' = delayed \ {i}
  /\ UNCHANGED ready

QNext ==
  \E i \in Queued \cup Queued' : Put(i) \/ PutAfter(i) \/ Expire(i) \/ Take(i) \/ Drop(i)

QSpec == QInit /\ [][QNext]_qvars
=============================================================================
