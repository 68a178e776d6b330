-------------------------- MODULE NodeLeaseProofs --------------------------
(***************************************************************************)
(* For any number of instances, nodes and workers, any durations, any lag  *)
(* of the caches and any number of changes, failing requests and crashes:  *)
(* a lease is only taken over from its holder when it has expired.         *)
(***************************************************************************)
EXTENDS NodeLease, FiniteSetTheorems, SequenceTheorems, TLAPS

(* The provers that try a step whose proof names none, in this order.      *)
USE SMTT(10), ZenonT(30), SMTT(60)

(***************************************************************************)
(* The values of the variables.  Of the memory of an instance this is the  *)
(* part that owners are read from: the node cache and the events that fill *)
(* it.                                                                     *)
(***************************************************************************)
Obj == [uid : Nat, rv : Nat, need : BOOLEAN]
Event == [type : {"Added", "Modified", "Deleted", "Sync"}, name : Node, obj : Obj]
Lease == [holder : Instance \cup {None}, age : Nat, owner : Nat]
Versions == Seq(Lease \cup {None})
Action == [pc : {"idle", "sync", "create", "renew", "asleep", "done"},
           name : Node \cup {None}, age : Nat, owner : Nat, valid : BOOLEAN]

MemOK(m) ==
  /\ DOMAIN m = {"stream", "cache", "chan", "nodes", "hold", "ready", "heaps", "manage", "syncing", "offered"}
  /\ m.stream \in Seq(Event) /\ m.chan \in Seq(Event)
  /\ m.cache \in [Node -> Obj \cup {None}]
  /\ m.syncing \in Event \cup {None}

TypeOK ==
  /\ node \in [Node -> Obj \cup {None}] /\ rv \in Nat
  /\ lease \in [Node -> Lease \cup {None}]
  /\ status \in [Instance -> {"new", "up", "dead"}]
  /\ DOMAIN mem = Instance /\ \A i \in Instance : MemOK(mem[i])
  /\ seen \in [Instance -> [Node -> Versions]]
  /\ act \in [Instance -> [Worker -> Action]]
  /\ \A i \in Instance, w \in Worker : act[i][w].pc # "idle" => act[i][w].name \in Node

(* The versions on their way to a cache end with the stored lease.         *)
CachesFollow ==
  \A i \in Up, n \in Node :
    Len(seen[i][n]) > 0 /\ seen[i][n][Len(seen[i][n])] = lease[n]

(* A renewal that the API server would accept was built from the lease as  *)
(* it is stored: what tryAcquireOrRenew found then is still so.            *)
RequestsJudged ==
  \A i \in Instance, w \in Worker :
    act[i][w].valid => act[i][w].pc = "renew" /\ Tries(lease[act[i][w].name], i)

LeaseInv == TypeOK /\ CachesFollow /\ RequestsJudged

-----------------------------------------------------------------------------
(* The events of a start are one for each node that is there.              *)
LEMMA StartEvents ==
  ASSUME NEW S \in SUBSET Node, \A n \in S : node[n] \in Obj
  PROVE  SetToEvents(S) \in Seq(Event)
<1> DEFINE E == {NodeEvent("Added", n, node[n]) : n \in S}
           c == Cardinality(S)
<1>1. IsFiniteSet(S)
  BY LeaseAssumption, FS_Subset
<1>2. PICK f : f \in Bijection(1..c, S)
  BY <1>1, FS_CardinalityType DEF ExistsBijection
<1>3. c \in Nat
  BY <1>1, FS_CardinalityType
<1>4. f \in [1..c -> S] /\ \A n \in S : \E k \in 1..c : f[k] = n
  BY <1>2 DEF Bijection, Injection, Surjection
<1> DEFINE s == [k \in 1..c |-> NodeEvent("Added", f[k], node[f[k]])]
<1>5. s \in [1..c -> E]
  BY <1>4
<1>6. \A n \in S : \E k \in DOMAIN s : s[k].name = n
  BY <1>4 DEF NodeEvent
<1>7. SetToEvents(S) \in [1..c -> E]
  BY Zenon, <1>5, <1>6 DEF SetToEvents
<1>8. E \subseteq Event
  BY DEF NodeEvent, Event
<1> QED BY <1>3, <1>7, <1>8, SeqDef

(* Ageing every version of a lease leaves a sequence of versions.          *)
LEMMA AgedVersions ==
  ASSUME NEW s \in Versions
  PROVE  LET t == [k \in DOMAIN s |-> OlderLease(s[k])]
         IN  t \in Versions /\ Len(t) = Len(s)
<1>1. DOMAIN s = 1..Len(s) /\ Len(s) \in Nat /\ \A k \in 1..Len(s) : s[k] \in Lease \cup {None}
  BY LenProperties, ElementOfSeq DEF Versions
<1>2. \A l \in Lease \cup {None} : OlderLease(l) \in Lease \cup {None}
  BY LeaseAssumption DEF OlderLease, Older, Lease
<1> DEFINE t == [k \in 1..Len(s) |-> OlderLease(s[k])]
<1>3. t \in [1..Len(s) -> Lease \cup {None}]
  BY <1>1, <1>2
<1>4. t \in Versions
  BY <1>1, <1>3, SeqDef DEF Versions
<1> HIDE DEF t
<1>5. Len(t) = Len(s)
  BY <1>1, <1>3, <1>4, LenProperties DEF Versions
<1> QED BY <1>1, <1>4, <1>5 DEF t

(* Adding a version, and dropping the oldest of several.                   *)
LEMMA NewerVersions ==
  ASSUME NEW s \in Versions, NEW l \in Lease \cup {None}
  PROVE  /\ Append(s, l) \in Versions /\ Len(Append(s, l)) = Len(s) + 1
         /\ Append(s, l)[Len(s) + 1] = l
         /\ Len(s) \in Nat
         /\ Len(s) > 1 => /\ Tail(s) \in Versions /\ Len(Tail(s)) = Len(s) - 1
                          /\ Tail(s)[Len(s) - 1] = s[Len(s)]
         /\ Len(s) = 1 => Head(s) = s[Len(s)]
  BY DEF Versions

-----------------------------------------------------------------------------
(* What the operations on the queue and the set of held names leave alone. *)
LEMMA QueueOperations ==
  ASSUME NEW m, MemOK(m), NEW n \in Node
  PROVE  /\ MemOK(Add(m, n))
         /\ \A w, d : MemOK(AddWeightAfter(m, n, w, d))
         /\ MemOK(TryHold(m, n)) /\ MemOK(ReleaseHold(m, n)) /\ MemOK(Forget(m, n))
         /\ \A i \in Instance, e \in Event : MemOK(Offer(i, m, e))
<1>1. \A k, x : MemOK(k) => MemOK(Add(k, x))
  BY DEF MemOK, Add
<1>2. \A w, d : MemOK(AddWeightAfter(m, n, w, d))
  BY <1>1 DEF MemOK, AddWeightAfter
<1>3. \A k, x : MemOK(k) => MemOK(TryHold(k, x))
  <2> SUFFICES ASSUME NEW k, NEW x, MemOK(k), x \notin k.hold PROVE MemOK(TryHold(k, x))
    BY DEF TryHold
  <2>1. MemOK([k EXCEPT !.hold = @ \cup {x}])
    BY DEF MemOK
  <2> QED BY <2>1, <1>1 DEF TryHold
<1>4. MemOK(ReleaseHold(m, n))
  BY DEF MemOK, ReleaseHold, Cancel
<1>5. ASSUME NEW i \in Instance, NEW e \in Event PROVE MemOK(Offer(i, m, e))
  <2> DEFINE k == [m EXCEPT !.nodes = @ \cup {e.name}]
  <2>1. MemOK(k)
    BY DEF MemOK
  <2> HIDE DEF k
  <2>2. MemOK([k EXCEPT !.offered[e.name] = e.obj.rv])
    BY <2>1 DEF MemOK
  <2> QED BY <2>1, <2>2, <1>3 DEF Offer, k
<1>6. MemOK(Forget(m, n))
  <2> DEFINE k == IF n \in m.nodes THEN [m EXCEPT !.nodes = @ \ {n}, !.offered[n] = 0] ELSE m
  <2>1. MemOK(k)
    BY DEF MemOK
  <2> HIDE DEF k
  <2>2. MemOK(ReleaseHold(k, n))
    BY <2>1 DEF MemOK, ReleaseHold, Cancel
  <2> QED BY Zenon, <2>2 DEF Forget, k
<1> QED BY <1>1, <1>2, <1>3, <1>4, <1>5, <1>6

(* A step that changes the memory of one instance.                         *)
LEMMA MemStep ==
  ASSUME LeaseInv, NEW i \in Instance, NEW m, MemOK(m), mem' = [mem EXCEPT ![i] = m],
         UNCHANGED <<node, rv, lease, status, seen, act>>
  PROVE  LeaseInv'
<1>1. TypeOK'
  BY DEF LeaseInv, TypeOK
<1>2. CachesFollow' /\ RequestsJudged'
  BY DEF LeaseInv, CachesFollow, RequestsJudged, Up
<1> QED BY <1>1, <1>2 DEF LeaseInv

(* The node controller of an instance, and its queue.                      *)
LEMMA NodeControllerSteps ==
  ASSUME LeaseInv, NEW i \in Instance,
         \/ NodeCached(i) \/ WatchNode(i) \/ SendSync(i) \/ Expire(i)
         \/ \E n \in Node : Manage(i, n)
  PROVE  LeaseInv'
<1>1. /\ MemOK(mem[i]) /\ DOMAIN mem = Instance /\ node \in [Node -> Obj \cup {None}]
  BY DEF LeaseInv, TypeOK
<1>2. CASE NodeCached(i)
  <2> DEFINE e == Head(mem[i].stream)
             m == [mem[i] EXCEPT !.stream = Tail(@),
                                 !.cache[e.name] = IF e.type = "Deleted" THEN None ELSE e.obj,
                                 !.chan = Append(@, e)]
  <2>1. e \in Event /\ Tail(mem[i].stream) \in Seq(Event)
    BY <1>1, <1>2 DEF MemOK, NodeCached
  <2>2. e.name \in Node /\ e.obj \in Obj /\ Append(mem[i].chan, e) \in Seq(Event)
    BY <2>1, <1>1 DEF Event, MemOK
  <2>3. mem' = [mem EXCEPT ![i] = m]
    BY Zenon, <1>2 DEF NodeCached
  <2>4. MemOK(m)
    BY <1>1, <2>1, <2>2 DEF MemOK
  <2> QED BY ZenonT(60), <2>3, <2>4, <1>2, MemStep DEF NodeCached
<1>3. CASE WatchNode(i)
  <2> DEFINE e == Head(mem[i].chan)
             m == [mem[i] EXCEPT !.chan = Tail(@)]
  <2>1. e \in Event /\ Tail(mem[i].chan) \in Seq(Event)
    BY <1>1, <1>3 DEF MemOK, WatchNode
  <2>2. MemOK(m) /\ e.name \in Node
    BY <1>1, <2>1 DEF MemOK, Event
  <2>3. MemOK(Forget(m, e.name)) /\ MemOK(Offer(i, m, e))
    BY <2>1, <2>2, QueueOperations
  <2>4. mem' = [mem EXCEPT ![i] = IF e.type = "Deleted" THEN Forget(m, e.name) ELSE Offer(i, m, e)]
    BY <1>3 DEF WatchNode
  <2> QED BY Zenon, <2>3, <2>4, <1>3, MemStep DEF WatchNode
<1>4. CASE SendSync(i)
  <2> DEFINE m == [mem[i] EXCEPT !.chan = Append(@, mem[i].syncing), !.syncing = None]
  <2>0. mem[i].syncing \in Event /\ Append(mem[i].chan, mem[i].syncing) \in Seq(Event)
    BY <1>1, <1>4 DEF MemOK, SendSync
  <2>1. MemOK(m)
    <3>1. \A c \in Seq(Event) : MemOK([mem[i] EXCEPT !.chan = c, !.syncing = None])
      BY <1>1 DEF MemOK
    <3> QED BY Zenon, <2>0, <3>1
  <2>2. mem' = [mem EXCEPT ![i] = m]
    BY ZenonT(60), <1>4 DEF SendSync
  <2> QED BY Zenon, <2>1, <2>2, <1>4, MemStep DEF SendSync
<1>5. CASE Expire(i)
  <2>1. PICK w \in Weights :
          mem' = [mem EXCEPT ![i] = Add([mem[i] EXCEPT !.heaps[w] = Remove(@, Head(mem[i].heaps[w]).name)],
                                        Head(mem[i].heaps[w]).name)]
    BY Zenon, <1>5 DEF Expire
  <2> DEFINE n == Head(mem[i].heaps[w]).name
             m == [mem[i] EXCEPT !.heaps[w] = Remove(@, n)]
  <2>2. MemOK(Add(m, n))
    BY <1>1 DEF MemOK, Add
  <2>3. mem' = [mem EXCEPT ![i] = Add(m, n)]
    BY <2>1
  <2> QED BY Zenon, <2>2, <2>3, <1>5, MemStep DEF Expire
<1>6. ASSUME NEW n \in Node, Manage(i, n) PROVE LeaseInv'
  <2> DEFINE k == [mem[i] EXCEPT !.manage = @ \ {n}]
             m == IF k.cache[n] # None THEN [k EXCEPT !.offered[n] = k.cache[n].rv]
                  ELSE IF node[n] # None THEN [k EXCEPT !.syncing = NodeEvent("Sync", n, node[n])]
                  ELSE k
  <2>1. MemOK(k)
    BY <1>1 DEF MemOK
  <2>2. node[n] # None => NodeEvent("Sync", n, node[n]) \in Event
    BY <1>1 DEF NodeEvent, Event
  <2>3. mem' = [mem EXCEPT ![i] = m]
    BY Zenon, <1>6 DEF Manage
  <2> HIDE DEF k
  <2>4. MemOK(m)
    BY <2>1, <2>2 DEF MemOK
  <2> QED BY ZenonT(60), <2>3, <2>4, <1>6, MemStep DEF Manage
<1> QED BY <1>2, <1>3, <1>4, <1>5, <1>6

(* Users and the events of what they change.                               *)
LEMMA UserSteps ==
  ASSUME LeaseInv, User PROVE LeaseInv'
<1>1. ASSUME NEW t \in {"Added", "Modified", "Deleted"}, NEW n \in Node, NEW o \in Obj \cup {None},
             NEW e \in Obj, ChangeNode(t, n, o, e)
      PROVE  LeaseInv'
  <2>1. /\ rv' = rv + 1 /\ node' = [node EXCEPT ![n] = o]
        /\ mem' = [i \in Instance |-> IF i \in Up THEN [mem[i] EXCEPT !.stream = Append(@, NodeEvent(t, n, e))]
                                     ELSE mem[i]]
        /\ UNCHANGED <<lease, status, seen, act>>
    BY <1>1 DEF ChangeNode
  <2>2. NodeEvent(t, n, e) \in Event
    BY DEF NodeEvent, Event
  <2>3. \A i \in Instance : MemOK(mem'[i])
    <3> SUFFICES ASSUME NEW i \in Instance PROVE MemOK(mem'[i])
      OBVIOUS
    <3>1. MemOK(mem[i]) /\ Append(mem[i].stream, NodeEvent(t, n, e)) \in Seq(Event)
      BY <2>2 DEF LeaseInv, TypeOK, MemOK
    <3>2. MemOK([mem[i] EXCEPT !.stream = Append(@, NodeEvent(t, n, e))])
      BY <3>1 DEF MemOK
    <3> QED BY <2>1, <3>1, <3>2
  <2>4. TypeOK'
    <3>1. DOMAIN mem' = Instance /\ \A i \in Instance : MemOK(mem[i])'
      BY <2>1, <2>3
    <3>2. node' \in [Node -> Obj \cup {None}] /\ rv' \in Nat
      BY <2>1 DEF LeaseInv, TypeOK
    <3> QED BY Zenon, <2>1, <3>1, <3>2 DEF LeaseInv, TypeOK
  <2>5. CachesFollow' /\ RequestsJudged'
    BY <2>1 DEF LeaseInv, CachesFollow, RequestsJudged, Up
  <2> QED BY <2>4, <2>5 DEF LeaseInv
<1>2. PICK n \in Node, need \in BOOLEAN : CreateNode(n, need) \/ TouchNode(n, need) \/ DeleteNode(n)
  BY LeaseAssumption DEF User
<1>3. node[n] \in Obj \cup {None} /\ rv \in Nat
  BY DEF LeaseInv, TypeOK
<1>4. CASE CreateNode(n, need)
  BY <1>1, <1>3, <1>4 DEF CreateNode, Obj
<1>5. CASE TouchNode(n, need)
  <2>1. [node[n] EXCEPT !.rv = rv + 1, !.need = need] \in Obj
    <3>1. node[n] \in Obj
      BY <1>3, <1>5 DEF TouchNode
    <3>2. \A o \in Obj, v \in Nat : [o EXCEPT !.rv = v] \in Obj
      BY DEF Obj
    <3>3. \A o \in Obj : [o EXCEPT !.need = need] \in Obj
      BY DEF Obj
    <3>4. [node[n] EXCEPT !.rv = rv + 1, !.need = need] = [[node[n] EXCEPT !.rv = rv + 1] EXCEPT !.need = need]
      BY <3>1 DEF Obj
    <3>5. rv + 1 \in Nat
      BY <1>3
    <3> QED BY Zenon, <3>1, <3>2, <3>3, <3>4, <3>5
  <2>2. ChangeNode("Modified", n, [node[n] EXCEPT !.rv = rv + 1, !.need = need],
                   [node[n] EXCEPT !.rv = rv + 1, !.need = need])
    BY <1>5 DEF TouchNode
  <2> QED BY Zenon, <2>1, <2>2, <1>1
<1>6. CASE DeleteNode(n)
  BY <1>1, <1>3, <1>6 DEF DeleteNode
<1> QED BY <1>2, <1>4, <1>5, <1>6

(* An instance starts, crashes, or its lease cache catches up.             *)
LEMMA StartStep ==
  ASSUME LeaseInv, NEW i \in Instance, Start(i) PROVE LeaseInv'
<1> DEFINE S == {n \in Node : node[n] # None}
           m == [mem[i] EXCEPT !.stream = SetToEvents(S)]
           begin == [n \in Node |-> IF lease[n] = None THEN <<None>> ELSE <<None, lease[n]>>]
<1>1. /\ status' = [status EXCEPT ![i] = "up"] /\ mem' = [mem EXCEPT ![i] = m]
      /\ seen' = [seen EXCEPT ![i] = begin]
      /\ UNCHANGED <<node, rv, lease, act>>
  BY DEF Start
<1>2. SetToEvents(S) \in Seq(Event)
  BY StartEvents DEF LeaseInv, TypeOK
<1>3. MemOK(m)
  BY <1>2 DEF LeaseInv, TypeOK, MemOK
<1>4. \A n \in Node : /\ begin[n] \in Versions /\ Len(begin[n]) > 0
                       /\ begin[n][Len(begin[n])] = lease[n]
  <2>1. <<None>> \in Versions /\ Len(<<None>>) = 1 /\ <<None>>[1] = None
    BY DEF Versions
  <2>2. \A l \in Lease : <<None, l>> \in Versions /\ Len(<<None, l>>) = 2 /\ <<None, l>>[2] = l
    BY DEF Versions
  <2>3. \A n \in Node : lease[n] # None => lease[n] \in Lease
    BY DEF LeaseInv, TypeOK
  <2> QED BY <2>1, <2>2, <2>3
<1> HIDE DEF m, begin
<1>5. begin \in [Node -> Versions]
  BY <1>4 DEF begin
<1>6. TypeOK'
  <2>1. DOMAIN mem' = Instance /\ \A j \in Instance : MemOK(mem[j])'
    BY <1>1, <1>3 DEF LeaseInv, TypeOK
  <2>2. status' \in [Instance -> {"new", "up", "dead"}] /\ seen' \in [Instance -> [Node -> Versions]]
    BY <1>1, <1>5 DEF LeaseInv, TypeOK
  <2> QED BY <1>1, <2>1, <2>2 DEF LeaseInv, TypeOK
<1>7. CachesFollow'
  BY <1>1, <1>4 DEF LeaseInv, TypeOK, CachesFollow, Up
<1>8. RequestsJudged'
  BY <1>1 DEF LeaseInv, RequestsJudged
<1> QED BY <1>6, <1>7, <1>8 DEF LeaseInv

LEMMA CrashStep ==
  ASSUME LeaseInv, NEW i \in Instance, Crash(i) PROVE LeaseInv'
<1> DEFINE none == [n \in Node |-> <<None>>]
<1>1. /\ status' = [status EXCEPT ![i] = "dead"] /\ mem' = [mem EXCEPT ![i] = Blank]
      /\ seen' = [seen EXCEPT ![i] = none]
      /\ act' = [act EXCEPT ![i] = [w \in Worker |-> Idle]]
      /\ UNCHANGED <<node, rv, lease>>
  BY DEF Crash
<1>2. MemOK(Blank)
  BY DEF MemOK, Blank
<1>3. Idle \in Action /\ ~Idle.valid /\ Idle.pc = "idle"
  BY DEF Idle, Action
<1>4. none \in [Node -> Versions]
  BY DEF Versions
<1>5. TypeOK'
  BY Zenon, <1>1, <1>2, <1>3, <1>4 DEF LeaseInv, TypeOK
<1>6. CachesFollow'
  BY <1>1 DEF LeaseInv, TypeOK, CachesFollow, Up
<1>7. RequestsJudged'
  BY <1>1, <1>3 DEF LeaseInv, TypeOK, RequestsJudged
<1> QED BY <1>5, <1>6, <1>7 DEF LeaseInv

LEMMA CachedStep ==
  ASSUME LeaseInv, NEW i \in Instance, NEW n \in Node, LeaseCached(i, n) PROVE LeaseInv'
<1>1. /\ Len(seen[i][n]) > 1 /\ seen' = [seen EXCEPT ![i][n] = Tail(@)]
      /\ UNCHANGED <<node, rv, lease, status, mem, act>>
  BY DEF LeaseCached
<1>2. seen[i][n] \in Versions
  BY DEF LeaseInv, TypeOK
<1>3. /\ Tail(seen[i][n]) \in Versions /\ Len(Tail(seen[i][n])) = Len(seen[i][n]) - 1
      /\ Tail(seen[i][n])[Len(seen[i][n]) - 1] = seen[i][n][Len(seen[i][n])]
      /\ Len(seen[i][n]) \in Nat
  BY ZenonT(60), <1>1, <1>2, NewerVersions
<1>4. TypeOK'
  BY <1>1, <1>3 DEF LeaseInv, TypeOK
<1>5. CachesFollow'
  BY <1>1, <1>3 DEF LeaseInv, TypeOK, CachesFollow, Up
<1>6. RequestsJudged'
  BY <1>1 DEF LeaseInv, RequestsJudged
<1> QED BY <1>4, <1>5, <1>6 DEF LeaseInv

-----------------------------------------------------------------------------
(* The stored lease of n changes: every request for it becomes outdated.   *)
LEMMA WriteStep ==
  ASSUME LeaseInv, NEW n \in Node, NEW l \in Lease \cup {None}, WriteLease(n, l),
         UNCHANGED <<node, rv, status>>,
         DOMAIN mem' = Instance, \A i \in Instance : MemOK(mem'[i]),
         act' \in [Instance -> [Worker -> Action]],
         \A i \in Instance, w \in Worker :
           /\ act'[i][w].pc # "idle" => act'[i][w].name \in Node
           /\ act'[i][w].valid => act'[i][w] = act[i][w] /\ act[i][w].name # n
  PROVE  LeaseInv'
<1>1. /\ lease' = [lease EXCEPT ![n] = l]
      /\ seen' = [i \in Instance |-> IF i \in Up THEN [seen[i] EXCEPT ![n] = Append(@, l)] ELSE seen[i]]
  BY DEF WriteLease
<1>2. \A i \in Instance : /\ seen[i][n] \in Versions
                          /\ Append(seen[i][n], l) \in Versions
                          /\ Len(Append(seen[i][n], l)) = Len(seen[i][n]) + 1
                          /\ Append(seen[i][n], l)[Len(seen[i][n]) + 1] = l
                          /\ Len(seen[i][n]) \in Nat
  BY NewerVersions DEF LeaseInv, TypeOK
<1>3. TypeOK'
  <2>1. seen' \in [Instance -> [Node -> Versions]]
    BY <1>1, <1>2 DEF LeaseInv, TypeOK
  <2>2. lease' \in [Node -> Lease \cup {None}]
    BY <1>1 DEF LeaseInv, TypeOK
  <2> QED BY <2>1, <2>2 DEF LeaseInv, TypeOK
<1>4. CachesFollow'
  <2> SUFFICES ASSUME NEW i \in Up, NEW k \in Node
               PROVE  Len(seen'[i][k]) > 0 /\ seen'[i][k][Len(seen'[i][k])] = lease'[k]
    BY DEF CachesFollow, Up
  <2>1. i \in Instance /\ seen[i] \in [Node -> Versions] /\ lease \in [Node -> Lease \cup {None}]
    BY DEF Up, LeaseInv, TypeOK
  <2>2. CASE k = n
    BY <1>1, <1>2, <2>1, <2>2
  <2>3. CASE k # n
    BY <1>1, <2>1, <2>3 DEF LeaseInv, CachesFollow
  <2> QED BY <2>2, <2>3
<1>5. RequestsJudged'
  BY <1>1 DEF LeaseInv, TypeOK, RequestsJudged, Tries, tryAcquireOrRenew
<1> QED BY <1>3, <1>4, <1>5 DEF LeaseInv

(* The garbage collector.                                                  *)
LEMMA CollectStep ==
  ASSUME LeaseInv, NEW n \in Node, CollectLease(n) PROVE LeaseInv'
<1>1. /\ WriteLease(n, None) /\ UNCHANGED <<node, rv, status, mem>>
      /\ act' = [i \in Instance |-> [w \in Worker |-> Outdated(act[i][w], n)]]
  BY DEF CollectLease
<1>2. \A a \in Action : /\ Outdated(a, n) \in Action
                        /\ Outdated(a, n).pc = a.pc /\ Outdated(a, n).name = a.name
                        /\ Outdated(a, n).valid => Outdated(a, n) = a /\ a.name # n
  BY Zenon DEF Action, Outdated
<1>3. act' \in [Instance -> [Worker -> Action]]
  BY <1>1, <1>2 DEF LeaseInv, TypeOK
<1>4. \A i \in Instance, w \in Worker :
           /\ act'[i][w].pc # "idle" => act'[i][w].name \in Node
           /\ act'[i][w].valid => act'[i][w] = act[i][w] /\ act[i][w].name # n
  BY <1>1, <1>2 DEF LeaseInv, TypeOK
<1>5. DOMAIN mem' = Instance /\ \A i \in Instance : MemOK(mem'[i])
  BY <1>1 DEF LeaseInv, TypeOK
<1> QED BY <1>1, <1>3, <1>4, <1>5, WriteStep

(* A request is stored: by the one whose answer arrives (Granted) and by   *)
(* the one whose answer is lost (Failed).                                  *)
LEMMA StoreStep ==
  ASSUME LeaseInv, NEW i \in Instance, NEW w \in Worker, NEW then \in Action, Requesting(i, w),
         Store(i, w, then), then.pc # "idle" => then.name \in Node, ~then.valid,
         UNCHANGED <<node, rv, status>>,
         DOMAIN mem' = Instance, \A j \in Instance : MemOK(mem'[j])
  PROVE  LeaseInv'
<1> DEFINE a == act[i][w]
           l == [holder |-> i, age |-> a.age, owner |-> a.owner]
<1>1. a \in Action /\ a.name \in Node
  BY DEF Requesting, LeaseInv, TypeOK
<1>2. l \in Lease
  BY <1>1 DEF Action, Lease
<1>3. /\ WriteLease(a.name, l)
      /\ act' = [j \in Instance |-> [v \in Worker |->
                   IF j = i /\ v = w THEN then ELSE Outdated(act[j][v], a.name)]]
  BY DEF Store
<1> HIDE DEF a, l
<1>4. \A b \in Action : /\ Outdated(b, a.name) \in Action
                        /\ Outdated(b, a.name).pc = b.pc /\ Outdated(b, a.name).name = b.name
                        /\ Outdated(b, a.name).valid => Outdated(b, a.name) = b /\ b.name # a.name
  BY Zenon DEF Action, Outdated
<1>5. act' \in [Instance -> [Worker -> Action]]
  BY <1>3, <1>4 DEF LeaseInv, TypeOK
<1>6. \A j \in Instance, v \in Worker :
           /\ act'[j][v].pc # "idle" => act'[j][v].name \in Node
           /\ act'[j][v].valid => act'[j][v] = act[j][v] /\ act[j][v].name # a.name
  BY <1>3, <1>4 DEF LeaseInv, TypeOK
<1> QED BY <1>1, <1>2, <1>3, <1>5, <1>6, WriteStep

(* A worker goes on and the leases stay as they are.                       *)
LEMMA ActStep ==
  ASSUME LeaseInv, NEW i \in Instance, NEW w \in Worker, NEW a \in Action,
         a.pc # "idle" => a.name \in Node,
         a.valid => a.pc = "renew" /\ Tries(lease[a.name], i),
         act' = [act EXCEPT ![i][w] = a],
         UNCHANGED <<node, rv, lease, status, seen>>,
         DOMAIN mem' = Instance, \A j \in Instance : MemOK(mem'[j])
  PROVE  LeaseInv'
<1>1. \A j \in Instance, v \in Worker :
        act'[j][v] = IF j = i /\ v = w THEN a ELSE act[j][v]
  BY DEF LeaseInv, TypeOK
<1>2. act' \in [Instance -> [Worker -> Action]]
  BY DEF LeaseInv, TypeOK
<1>3. TypeOK'
  BY <1>1, <1>2 DEF LeaseInv, TypeOK
<1>4. CachesFollow'
  BY DEF LeaseInv, CachesFollow, Up
<1>5. RequestsJudged'
  BY <1>1 DEF LeaseInv, RequestsJudged, Tries, tryAcquireOrRenew
<1> QED BY <1>3, <1>4, <1>5 DEF LeaseInv

(* Requests are well formed, and are judged by what they are built from.   *)
LEMMA RequestType ==
  ASSUME LeaseInv, NEW i \in Up, NEW n \in Node, NEW l \in Lease \cup {None}
  PROVE  /\ Request(i, n, l) \in Action /\ Request(i, n, l).name = n
         /\ Request(i, n, l).valid => /\ Request(i, n, l).pc = "renew" /\ l # None
                                      /\ Len(seen[i][n]) = 1
<1>1. /\ MemOK(mem[i]) /\ i \in Instance
  BY DEF LeaseInv, TypeOK, Up
<1>2. \A o \in Nat : Owner(i, n, o) \in Nat
  BY <1>1 DEF Owner, MemOK, Obj
<1>3. l # None => l.owner \in Nat
  BY DEF Lease
<1>4. Idle \in Action
  BY DEF Idle, Action
<1>5. CASE l = None
  <2>1. Request(i, n, l) = [pc |-> "create", name |-> n, age |-> 0, owner |-> Owner(i, n, 0),
                            valid |-> FALSE]
    BY Zenon, <1>5 DEF Request, Idle
  <2>2. Owner(i, n, 0) \in Nat
    BY <1>2
  <2> QED BY <2>1, <2>2 DEF Action
<1>6. CASE l # None
  <2>1. Owner(i, n, l.owner) \in Nat
    BY <1>2, <1>3, <1>6
  <2>2. Request(i, n, l) = [pc |-> "renew", name |-> n, age |-> 0, owner |-> Owner(i, n, l.owner),
                            valid |-> (Len(seen[i][n]) = 1)]
    BY Zenon, <1>6 DEF Request, Idle
  <2>3. CASE Len(seen[i][n]) = 1
    <3>1. Request(i, n, l) = [pc |-> "renew", name |-> n, age |-> 0,
                              owner |-> Owner(i, n, l.owner), valid |-> TRUE]
      BY Zenon, <2>2, <2>3
    <3> QED BY <3>1, <2>1, <2>3, <1>6 DEF Action
  <2>4. CASE Len(seen[i][n]) # 1
    <3>1. Request(i, n, l) = [pc |-> "renew", name |-> n, age |-> 0,
                              owner |-> Owner(i, n, l.owner), valid |-> FALSE]
      BY Zenon, <2>2, <2>4
    <3> QED BY <3>1, <2>1 DEF Action
  <2> QED BY <2>3, <2>4
<1> QED BY <1>5, <1>6

(* The syncWorkers.                                                        *)
LEMMA WorkerSteps ==
  ASSUME LeaseInv, NEW i \in Instance, NEW w \in Worker, Serve(i, w) PROVE LeaseInv'
<1> DEFINE a == act[i][w]
<1>1. /\ a \in Action /\ (a.pc # "idle" => a.name \in Node)
      /\ DOMAIN mem = Instance /\ \A j \in Instance : MemOK(mem[j])
      /\ lease \in [Node -> Lease \cup {None}] /\ seen \in [Instance -> [Node -> Versions]]
  BY DEF LeaseInv, TypeOK
<1>2. Idle \in Action /\ Idle.pc = "idle" /\ ~Idle.valid
  BY DEF Idle, Action
<1>3. ASSUME NEW m, MemOK(m), mem' = [mem EXCEPT ![i] = m]
      PROVE  DOMAIN mem' = Instance /\ \A j \in Instance : MemOK(mem'[j])
  BY <1>1, <1>3
<1>4. ASSUME NEW n \in Node, GetName(i, w, n) PROVE LeaseInv'
  <2>1. MemOK([mem[i] EXCEPT !.ready[n] = @ - 1])
    BY <1>1 DEF MemOK
  <2>2. mem' = [mem EXCEPT ![i] = [mem[i] EXCEPT !.ready[n] = @ - 1]]
    BY <1>4 DEF GetName
  <2>3. DOMAIN mem' = Instance /\ \A j \in Instance : MemOK(mem'[j])
    BY Zenon, <2>1, <2>2, <1>3
  <2>4. CASE n \in mem[i].hold
    <3>1. act' = [act EXCEPT ![i][w] = [Idle EXCEPT !.pc = "sync", !.name = n]]
      BY <1>4, <2>4 DEF GetName
    <3>2. /\ [Idle EXCEPT !.pc = "sync", !.name = n] \in Action
          /\ [Idle EXCEPT !.pc = "sync", !.name = n].name = n
          /\ ~[Idle EXCEPT !.pc = "sync", !.name = n].valid
      BY Zenon DEF Idle, Action
    <3>3. UNCHANGED <<node, rv, lease, status, seen>>
      BY <1>4 DEF GetName
    <3> QED BY Zenon, <2>3, <3>1, <3>2, <3>3, ActStep
  <2>5. CASE n \notin mem[i].hold
    BY ZenonT(60), <2>1, <2>2, <2>5, <1>4, MemStep DEF GetName
  <2> QED BY <2>4, <2>5
<1>5. CASE Sync(i, w)
  <2> DEFINE n == a.name
             l == Head(seen[i][n])
  <2>1. i \in Up /\ n \in Node /\ UNCHANGED <<node, rv, lease, status, seen>>
    BY <1>1, <1>5 DEF Sync
  <2>2. /\ seen[i][n] \in Versions /\ Len(seen[i][n]) > 0
        /\ seen[i][n][Len(seen[i][n])] = lease[n]
    BY <1>1, <2>1 DEF LeaseInv, CachesFollow
  <2>3. l \in Lease \cup {None} /\ (Len(seen[i][n]) = 1 => l = lease[n])
    BY <2>2, NewerVersions DEF Versions
  <2>4. CASE Tries(l, i)
    <3>1. act' = [act EXCEPT ![i][w] = Request(i, n, l)] /\ UNCHANGED mem
      BY <1>5, <2>4 DEF Sync
    <3> HIDE DEF l
    <3>2. /\ Request(i, n, l) \in Action /\ Request(i, n, l).name = n
          /\ Request(i, n, l).valid => /\ Request(i, n, l).pc = "renew"
                                       /\ Len(seen[i][n]) = 1
      BY <2>1, <2>3, RequestType
    <3>3. Request(i, n, l).valid => Tries(lease[n], i)
      BY <2>3, <2>4, <3>2
    <3> HIDE DEF n
    <3> QED BY ZenonT(60), <1>1, <2>1, <3>1, <3>2, <3>3, ActStep
  <2>5. CASE ~Tries(l, i)
    <3>1. /\ act' = [act EXCEPT ![i][w] = Idle]
          /\ mem' = [mem EXCEPT ![i] = AddWeightAfter(mem[i], n, 1, Interval)]
      BY <1>5, <2>5 DEF Sync
    <3>2. MemOK(AddWeightAfter(mem[i], n, 1, Interval))
      BY <1>1, <2>1, QueueOperations
    <3> QED BY ZenonT(60), <1>2, <1>3, <2>1, <3>1, <3>2, ActStep
  <2> QED BY <2>4, <2>5
<1>6. CASE Granted(i, w)
  <2> DEFINE then == [a EXCEPT !.pc = "done", !.valid = FALSE]
  <2>1. /\ Requesting(i, w) /\ Store(i, w, then) /\ UNCHANGED <<node, rv, status, mem>>
    BY <1>6 DEF Granted
  <2>2. then \in Action /\ then.name \in Node /\ ~then.valid
    BY ZenonT(60), <1>1, <2>1 DEF Action, Requesting
  <2> QED BY Zenon, <1>1, <2>1, <2>2, StoreStep
<1>7. ASSUME Requesting(i, w) PROVE MemOK(AddWeightAfter(mem[i], a.name, 1, Interval))
  BY <1>1, <1>7, QueueOperations DEF Requesting
<1>8. CASE Refused(i, w)
  <2>1. /\ Requesting(i, w) /\ act' = [act EXCEPT ![i][w] = Idle]
        /\ mem' = [mem EXCEPT ![i] = AddWeightAfter(mem[i], a.name, 1, Interval)]
        /\ UNCHANGED <<node, rv, lease, status, seen>>
    BY <1>8 DEF Refused
  <2> QED BY Zenon, <1>2, <1>3, <1>7, <2>1, ActStep
<1>9. CASE Failed(i, w)
  <2>1. /\ Requesting(i, w) /\ UNCHANGED <<node, rv, status>>
        /\ mem' = [mem EXCEPT ![i] = AddWeightAfter(mem[i], a.name, 1, Interval)]
    BY <1>9 DEF Failed
  <2>2. DOMAIN mem' = Instance /\ \A j \in Instance : MemOK(mem'[j])
    BY Zenon, <1>3, <1>7, <2>1
  <2>3. \/ Store(i, w, Idle)
        \/ act' = [act EXCEPT ![i][w] = Idle] /\ UNCHANGED <<lease, seen>>
    BY <1>9 DEF Failed
  <2>4. CASE Store(i, w, Idle)
    BY <1>2, <2>1, <2>2, <2>4, StoreStep
  <2>5. CASE act' = [act EXCEPT ![i][w] = Idle] /\ UNCHANGED <<lease, seen>>
    BY Zenon, <1>2, <2>1, <2>2, <2>5, ActStep
  <2> QED BY <2>3, <2>4, <2>5
<1>10. CASE NoNamespace(i, w)
  <2> DEFINE b == [Idle EXCEPT !.pc = "asleep", !.name = a.name]
  <2>1. /\ a.pc = "create" /\ act' = [act EXCEPT ![i][w] = b]
        /\ UNCHANGED <<node, rv, lease, status, mem, seen>>
    BY <1>10 DEF NoNamespace
  <2>2. b \in Action /\ b.name \in Node /\ ~b.valid
    BY Zenon, <1>1, <2>1 DEF Idle, Action
  <2> QED BY Zenon, <1>1, <2>1, <2>2, ActStep
<1>11. CASE CreateAgain(i, w)
  <2>1. /\ i \in Up /\ a.name \in Node /\ act' = [act EXCEPT ![i][w] = Request(i, a.name, None)]
        /\ UNCHANGED <<node, rv, lease, status, mem, seen>>
    BY <1>1, <1>11 DEF CreateAgain, Slept
  <2>2. /\ Request(i, a.name, None) \in Action /\ Request(i, a.name, None).name \in Node
        /\ ~Request(i, a.name, None).valid
    BY <2>1, RequestType
  <2> QED BY ZenonT(60), <1>1, <2>1, <2>2, ActStep
<1>12. CASE Done(i, w)
  <2> DEFINE m == [mem[i] EXCEPT !.manage = @ \cup {a.name}]
             next == nextTryDuration(Interval, Duration - a.age, TRUE)
  <2>1. /\ a.name \in Node /\ mem' = [mem EXCEPT ![i] = AddWeightAfter(m, a.name, 2, next)]
        /\ act' = [act EXCEPT ![i][w] = Idle]
        /\ UNCHANGED <<node, rv, lease, status, seen>>
    BY <1>1, <1>12 DEF Done
  <2>2. MemOK(m)
    BY <1>1 DEF MemOK
  <2>3. MemOK(AddWeightAfter(m, a.name, 2, next))
    BY Zenon, <2>1, <2>2, QueueOperations
  <2> QED BY Zenon, <1>2, <1>3, <2>1, <2>3, ActStep
<1> QED BY <1>4, <1>5, <1>6, <1>8, <1>9, <1>10, <1>11, <1>12 DEF Serve

-----------------------------------------------------------------------------
(* Time passes: a lease that has expired stays expired, and its holder     *)
(* stays its holder.                                                       *)
LEMMA TickStep ==
  ASSUME LeaseInv, Tick PROVE LeaseInv'
<1>1. /\ lease' = [n \in Node |-> OlderLease(lease[n])]
      /\ seen' = [i \in Instance |-> [n \in Node |->
                    [k \in DOMAIN seen[i][n] |-> OlderLease(seen[i][n][k])]]]
      /\ act' = [i \in Instance |-> [w \in Worker |->
                   IF act[i][w].pc \in {"idle", "sync"} THEN act[i][w]
                   ELSE [act[i][w] EXCEPT !.age = Older(@)]]]
      /\ mem' = [i \in Instance |->
                   [mem[i] EXCEPT !.heaps = [w \in Weights |-> [k \in DOMAIN mem[i].heaps[w] |->
                                               Sooner(mem[i].heaps[w][k])]]]]
      /\ UNCHANGED <<node, rv, status>>
  BY DEF Tick
<1>2. \A x \in Nat : Older(x) \in Nat /\ (x > Duration => Older(x) > Duration)
  BY LeaseAssumption DEF Older
<1>3. \A l \in Lease \cup {None} :
        /\ OlderLease(l) \in Lease \cup {None}
        /\ \A i : Tries(l, i) => Tries(OlderLease(l), i)
  BY <1>2 DEF OlderLease, Lease, Tries, tryAcquireOrRenew
<1>4. \A a \in Action : LET b == IF a.pc \in {"idle", "sync"} THEN a ELSE [a EXCEPT !.age = Older(@)]
                        IN  b \in Action /\ b.pc = a.pc /\ b.name = a.name /\ b.valid = a.valid
  BY <1>2 DEF Action
<1>5. \A i \in Instance : MemOK(mem'[i])
  BY ZenonT(60), <1>1 DEF LeaseInv, TypeOK, MemOK
<1>6. /\ act' \in [Instance -> [Worker -> Action]]
      /\ \A i \in Instance, w \in Worker : /\ act'[i][w].pc = act[i][w].pc
                                           /\ act'[i][w].name = act[i][w].name
                                           /\ act'[i][w].valid = act[i][w].valid
  BY <1>1, <1>4 DEF LeaseInv, TypeOK
<1>7. \A i \in Instance, n \in Node :
        /\ seen'[i][n] \in Versions /\ Len(seen'[i][n]) = Len(seen[i][n])
        /\ seen[i][n] \in Versions
        /\ \A k \in DOMAIN seen[i][n] : seen'[i][n][k] = OlderLease(seen[i][n][k])
  BY <1>1, AgedVersions DEF LeaseInv, TypeOK
<1>8. lease' \in [Node -> Lease \cup {None}]
  BY <1>1, <1>3 DEF LeaseInv, TypeOK
<1>9. seen' \in [Instance -> [Node -> Versions]]
  BY <1>1, <1>7
<1>10. TypeOK'
  <2>1. DOMAIN mem' = Instance
    BY <1>1
  <2> QED BY <1>1, <1>5, <1>6, <1>8, <1>9, <2>1 DEF LeaseInv, TypeOK
<1>11. CachesFollow'
  <2> SUFFICES ASSUME NEW i \in Up, NEW n \in Node
               PROVE  Len(seen'[i][n]) > 0 /\ seen'[i][n][Len(seen'[i][n])] = lease'[n]
    BY ZenonT(60), <1>1 DEF CachesFollow, Up
  <2>1. i \in Instance /\ Len(seen[i][n]) > 0 /\ seen[i][n][Len(seen[i][n])] = lease[n]
    BY DEF Up, LeaseInv, CachesFollow
  <2>2. Len(seen[i][n]) \in DOMAIN seen[i][n]
    BY <1>7, <2>1, LenProperties DEF Versions
  <2> QED BY <1>1, <1>7, <2>1, <2>2
<1>12. RequestsJudged'
  <2> SUFFICES ASSUME NEW i \in Instance, NEW w \in Worker, act'[i][w].valid
               PROVE  act'[i][w].pc = "renew" /\ Tries(lease'[act'[i][w].name], i)
    BY DEF RequestsJudged, Tries, tryAcquireOrRenew
  <2>1. act[i][w].pc = "renew" /\ Tries(lease[act[i][w].name], i) /\ act[i][w].name \in Node
    BY <1>6 DEF LeaseInv, TypeOK, RequestsJudged
  <2>2. lease[act[i][w].name] \in Lease \cup {None}
    BY <2>1 DEF LeaseInv, TypeOK
  <2> QED BY <1>1, <1>3, <1>6, <2>1, <2>2
<1> QED BY <1>10, <1>11, <1>12 DEF LeaseInv

LEMMA LeaseInit ==
  ASSUME Init PROVE LeaseInv
<1>1. MemOK(Blank)
  BY DEF MemOK, Blank
<1>2. Idle \in Action /\ ~Idle.valid /\ Idle.pc = "idle"
  BY DEF Idle, Action
<1>3. <<None>> \in Versions
  BY DEF Versions
<1>4. node \in [Node -> Obj \cup {None}] /\ lease \in [Node -> Lease \cup {None}]
  <2>1. PICK need \in [Node -> Needs] :
          node = [n \in Node |-> IF n \in Existing THEN [uid |-> 1, rv |-> 1, need |-> need[n]] ELSE None]
    BY Zenon DEF Init
  <2>2. PICK vacant \in SUBSET Vacant :
          lease = [n \in Node |-> IF n \in vacant THEN [holder |-> None, age |-> Duration + 1, owner |-> 0]
                                  ELSE None]
    BY Zenon DEF Init
  <2> QED BY <2>1, <2>2, LeaseAssumption DEF Obj, Lease
<1>5. TypeOK
  <2>1. DOMAIN mem = Instance /\ \A i \in Instance : MemOK(mem[i])
    BY <1>1 DEF Init
  <2>2. seen \in [Instance -> [Node -> Versions]]
    BY <1>3 DEF Init
  <2>3. /\ act \in [Instance -> [Worker -> Action]]
        /\ \A i \in Instance, w \in Worker : act[i][w].pc # "idle" => act[i][w].name \in Node
    BY <1>2 DEF Init
  <2> QED BY Zenon, <1>4, <2>1, <2>2, <2>3 DEF Init, TypeOK
<1>6. CachesFollow /\ RequestsJudged
  BY <1>2 DEF Init, CachesFollow, RequestsJudged, Up
<1> QED BY <1>5, <1>6 DEF LeaseInv

LEMMA LeaseNext ==
  ASSUME LeaseInv, [Next]_vars PROVE LeaseInv'
<1>1. CASE UNCHANGED vars
  BY <1>1 DEF vars, LeaseInv, TypeOK, CachesFollow, RequestsJudged, Up, Tries, tryAcquireOrRenew
<1>2. CASE Tick
  BY <1>2, TickStep
<1>3. CASE User
  BY <1>3, UserSteps
<1>4. CASE \E n \in Node : CollectLease(n)
  BY <1>4, CollectStep
<1>5. ASSUME NEW i \in Instance, Kwok(i) PROVE LeaseInv'
  BY <1>5, StartStep, CrashStep, CachedStep, NodeControllerSteps, WorkerSteps DEF Kwok
<1> QED BY <1>1, <1>2, <1>3, <1>4, <1>5 DEF Next

-----------------------------------------------------------------------------
(* What a step does to a lease: nothing, it ages, it is collected because  *)
(* its owner is gone, or a request that may be granted replaces it.        *)
LEMMA LeaseMoves ==
  ASSUME LeaseInv, [Next]_vars, NEW n \in Node
  PROVE  \/ lease'[n] = lease[n]
         \/ lease'[n] = OlderLease(lease[n])
         \/ /\ lease'[n] = None /\ lease[n] # None /\ lease[n].owner # 0
            /\ node[n] # None => node[n].uid # lease[n].owner
         \/ \E i \in Instance : Tries(lease[n], i) /\ lease'[n] \in Lease /\ lease'[n].holder = i
<1> SUFFICES ASSUME lease'[n] # lease[n]
             PROVE  \/ lease'[n] = OlderLease(lease[n])
                    \/ /\ lease'[n] = None /\ lease[n] # None /\ lease[n].owner # 0
                       /\ node[n] # None => node[n].uid # lease[n].owner
                    \/ \E i \in Instance : /\ Tries(lease[n], i) /\ lease'[n] \in Lease
                                           /\ lease'[n].holder = i
  OBVIOUS
<1>1. lease \in [Node -> Lease \cup {None}]
  BY DEF LeaseInv, TypeOK
<1>2. CASE Tick
  BY <1>2 DEF Tick
<1>3. ASSUME NEW k \in Node, CollectLease(k)
      PROVE  /\ lease'[n] = None /\ lease[n] # None /\ lease[n].owner # 0
             /\ node[n] # None => node[n].uid # lease[n].owner
  BY <1>1, <1>3 DEF CollectLease, WriteLease
<1>4. ASSUME NEW i \in Instance, NEW w \in Worker, NEW then, Store(i, w, then), Requesting(i, w)
      PROVE  Tries(lease[n], i) /\ lease'[n] \in Lease /\ lease'[n].holder = i
  <2> DEFINE a == act[i][w]
  <2>1. /\ Accepted(a) /\ a \in Action
        /\ lease' = [lease EXCEPT ![a.name] = [holder |-> i, age |-> a.age, owner |-> a.owner]]
    BY <1>4 DEF Store, WriteLease, LeaseInv, TypeOK
  <2>2. a.name = n /\ lease'[n] = [holder |-> i, age |-> a.age, owner |-> a.owner]
    BY <1>1, <2>1
  <2>3. lease'[n] \in Lease /\ lease'[n].holder = i
    BY <2>1, <2>2 DEF Action, Lease
  <2>4. Tries(lease[n], i)
    <3>1. CASE a.pc = "create"
      BY <2>1, <2>2, <3>1 DEF Accepted, Tries
    <3>2. CASE a.pc # "create"
      BY <2>1, <2>2, <3>2 DEF Accepted, LeaseInv, RequestsJudged
    <3> QED BY <3>1, <3>2
  <2> QED BY <2>3, <2>4
<1>5. ~User /\ ~UNCHANGED vars
  BY ZenonT(60) DEF User, CreateNode, TouchNode, DeleteNode, ChangeNode, vars
<1>6. ASSUME NEW i \in Instance, Kwok(i)
      PROVE  Tries(lease[n], i) /\ lease'[n] \in Lease /\ lease'[n].holder = i
  <2>1. PICK w \in Worker : Serve(i, w)
    BY Zenon, <1>6 DEF Kwok, Start, Crash, NodeCached, WatchNode, SendSync, Expire, LeaseCached, Manage
  <2>2. Granted(i, w) \/ Failed(i, w)
    BY Zenon, <2>1 DEF Serve, GetName, Sync, Refused, NoNamespace, CreateAgain, Done
  <2> QED BY <2>2, <1>4 DEF Granted, Failed
<1> QED BY <1>2, <1>3, <1>5, <1>6 DEF Next

(* However old the cached lease is that sync judges, and however late its  *)
(* request arrives: the stored lease of another instance is replaced only  *)
(* when it has expired (tryAcquireOrRenew and the resource version of the  *)
(* update together).                                                       *)
THEOREM TakeoverSafe == Spec => TakeoverOnlyExpired
<1>1. ASSUME LeaseInv, [Next]_vars, NEW n \in Node, lease[n] # None, lease'[n] # None,
             lease'[n].holder # lease[n].holder
      PROVE  lease[n].holder = None \/ lease[n].age > Duration
  <2>1. lease[n] \in Lease
    BY <1>1 DEF LeaseInv, TypeOK
  <2>2. OlderLease(lease[n]).holder = lease[n].holder
    BY <1>1, <2>1 DEF OlderLease, Lease
  <2> QED BY <1>1, <2>1, <2>2, LeaseMoves DEF Tries, tryAcquireOrRenew
<1>2. ASSUME LeaseInv, [Next]_vars
      PROVE  [\A n \in Node : lease[n] # None /\ lease'[n] # None /\ lease'[n].holder # lease[n].holder
                => lease[n].holder = None \/ lease[n].age > Duration]_vars
  BY <1>1, <1>2
<1> QED BY <1>2, LeaseInit, LeaseNext, PTL DEF Spec, TakeoverOnlyExpired

(* A lease that has a holder and has not expired and whose node is there   *)
(* stays with its holder: it is neither collected nor deleted nor taken    *)
(* over, whatever the caches of the instances show.                        *)
UnexpiredKept ==
  [][\A n \in Node : lease[n] # None /\ lease[n].holder # None /\ lease[n].age <= Duration
       => \/ node[n] = None \/ node[n].uid # lease[n].owner
          \/ lease'[n] # None /\ lease'[n].holder = lease[n].holder]_vars

(* The half of HolderKeepsLease that does not depend on time: what an      *)
(* instance can lose a lease by is its expiry.                             *)
THEOREM UnexpiredSafe == Spec => UnexpiredKept
<1>1. ASSUME LeaseInv, [Next]_vars, NEW n \in Node, lease[n] # None, lease[n].holder # None, lease[n].age <= Duration,
             node[n] # None, node[n].uid = lease[n].owner
      PROVE  lease'[n] # None /\ lease'[n].holder = lease[n].holder
  <2>1. lease[n] \in Lease /\ None \notin Lease
    BY <1>1, LeaseAssumption DEF LeaseInv, TypeOK, Lease
  <2>2. OlderLease(lease[n]) \in Lease /\ OlderLease(lease[n]).holder = lease[n].holder
    BY <1>1, <2>1, LeaseAssumption DEF OlderLease, Older, Lease
  <2>3. ~(lease[n].age > Duration)
    BY <1>1, <2>1, LeaseAssumption DEF Lease
  <2> QED BY <1>1, <2>1, <2>2, <2>3, LeaseMoves DEF Tries, tryAcquireOrRenew
<1>2. ASSUME LeaseInv, [Next]_vars
      PROVE  [\A n \in Node : lease[n] # None /\ lease[n].holder # None /\ lease[n].age <= Duration
                => \/ node[n] = None \/ node[n].uid # lease[n].owner
                   \/ lease'[n] # None /\ lease'[n].holder = lease[n].holder]_vars
  BY <1>1, <1>2
<1> QED BY <1>2, LeaseInit, LeaseNext, PTL DEF Spec, UnexpiredKept
=============================================================================
