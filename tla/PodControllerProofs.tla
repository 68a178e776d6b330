------------------------ MODULE PodControllerProofs ------------------------
(***************************************************************************)
(* For any number of pods, nodes and workers and any number of failing     *)
(* calls, lost leases and restarts: as long as the pool of a CIDR was made *)
(* once, no two pods have the same address of it.                          *)
(***************************************************************************)
EXTENDS PodController, FiniteSetTheorems, SequenceTheorems, TLAPS

(* The provers that try a step whose proof names none, in this order.      *)
USE SMTT(10), ZenonT(30), SMTT(60)

(***************************************************************************)
(* What a goroutine knows where it stands: the one that acts on a pool has *)
(* one of its CIDR, the one that frees or marks an address has it, the     *)
(* call after funcPodIPWith is the one that gives the address to the pod.  *)
(***************************************************************************)
ThreadOK(th) ==
  /\ th.pc \in {"idle", "send"} => th.want = ""
  /\ th.want \in {"put", "use"} => th.obj.ip \in IP
  /\ th.want = "put" => th.pc \in {"lookup", "make", "act"}
  /\ th.pc \notin {"idle", "send"} /\ th.want # "put" =>
       /\ Match(th.pod, th.obj) # "none"
       /\ th.want = "get" <=> Match(th.pod, th.obj) = "ready"
  /\ th.pc = "act" => th.pool \in DOMAIN pool /\ pool[th.pool].cidr = th.cidr
  /\ th.pc = "call" /\ th.want = "get" =>
       th.ip \in IP /\ th.pool \in DOMAIN pool /\ pool[th.pool].cidr = th.ip[1]

Sound ==
  /\ \A t \in Threads : ThreadOK(thread[t])
  /\ \A p \in Pod : job[p] # NoPod => Match(p, job[p]) # "none"
  /\ \A p \in Pod : api[p].ip # NoIP =>
       api[p].from \in DOMAIN pool /\ pool[api[p].from].cidr = api[p].ip[1]
  /\ \A i \in DOMAIN pool : \A a \in pool[i].usable : a[1] = pool[i].cidr

(***************************************************************************)
(* Who has an address: a pod, the Deleted event of a pod on its way to     *)
(* watchResources, or a goroutine that is about to give it to a pod or to  *)
(* give it back.                                                           *)
(***************************************************************************)
Lost(e) == IF e.type = "deleted" THEN e.obj.ip ELSE NoIP
Hand(th) == IF th.want = "put" THEN th.obj.ip
            ELSE IF th.want = "get" /\ th.pc = "call" THEN th.ip ELSE NoIP

Pods == [p \in Pod |-> api[p].ip]
Leaving == [k \in DOMAIN events.watch |-> Lost(events.watch[k])]
Hands == [t \in Threads |-> Hand(thread[t])]

(* An address has one owner at most.                                       *)
Alone(P, L, H, a) ==
  /\ \A p, q \in DOMAIN P : P[p] = a /\ P[q] = a => p = q
  /\ \A j, k \in DOMAIN L : L[j] = a /\ L[k] = a => j = k
  /\ \A s, t \in DOMAIN H : H[s] = a /\ H[t] = a => s = t
  /\ \A p \in DOMAIN P, k \in DOMAIN L : ~(P[p] = a /\ L[k] = a)
  /\ \A p \in DOMAIN P, t \in DOMAIN H : ~(P[p] = a /\ H[t] = a)
  /\ \A k \in DOMAIN L, t \in DOMAIN H : ~(L[k] = a /\ H[t] = a)

Owned(P, L, H, a) ==
  \/ \E p \in DOMAIN P : P[p] = a
  \/ \E k \in DOMAIN L : L[k] = a
  \/ \E t \in DOMAIN H : H[t] = a

(* It is in use in its pool and not among the ones to be given next.       *)
InUse(a) == \E i \in DOMAIN pool : pool[i].cidr = a[1] /\ a \in pool[i].used \ pool[i].usable

Addresses ==
  \A a \in IP : MadeOnce(a[1]) =>
    /\ Alone(Pods, Leaving, Hands, a)
    /\ Owned(Pods, Leaving, Hands, a) => InUse(a)

PodInv == TypeOK /\ Sound /\ Addresses

-----------------------------------------------------------------------------
(* How addresses change hands.  Owners let go of addresses.                *)
LEMMA Dropped ==
  ASSUME NEW P, NEW L, NEW H, NEW Q, NEW M, NEW G, NEW a, a # NoIP,
         DOMAIN Q = DOMAIN P, \A p \in DOMAIN P : Q[p] \in {P[p], NoIP},
         DOMAIN M = DOMAIN L, \A k \in DOMAIN L : M[k] \in {L[k], NoIP},
         DOMAIN G = DOMAIN H, \A t \in DOMAIN H : G[t] \in {H[t], NoIP}
  PROVE  /\ Alone(P, L, H, a) => Alone(Q, M, G, a)
         /\ Owned(Q, M, G, a) => Owned(P, L, H, a)
  BY DEF Alone, Owned

(* A pod gets or loses an address of its own, and an event is sent, which  *)
(* takes over what the pod had or nothing.                                 *)
LEMMA PodToEvent ==
  ASSUME NEW P, NEW L, NEW H, NEW Q, NEW M, NEW a, NEW n \in Nat, a # NoIP, NEW p \in DOMAIN P,
         DOMAIN Q = DOMAIN P, \A q \in DOMAIN P \ {p} : Q[q] = P[q],
         DOMAIN L = 1..n, DOMAIN M = 1..(n + 1), \A k \in 1..n : M[k] = L[k],
         Q[p] \in {P[p], NoIP}, M[n + 1] \in {P[p], NoIP}, Q[p] = NoIP \/ M[n + 1] = NoIP
  PROVE  /\ Alone(P, L, H, a) => Alone(Q, M, H, a)
         /\ Owned(Q, M, H, a) => Owned(P, L, H, a)
<1>1. \A k \in DOMAIN M : \/ k \in DOMAIN L /\ M[k] = L[k]
                          \/ k = n + 1 /\ M[k] \in {P[p], NoIP}
  OBVIOUS
<1>2. Owned(Q, M, H, a) => Owned(P, L, H, a)
  BY <1>1 DEF Owned
<1>3. ASSUME Alone(P, L, H, a) PROVE Alone(Q, M, H, a)
  <2>1. \A q, r \in DOMAIN Q : Q[q] = a /\ Q[r] = a => q = r
    BY <1>3 DEF Alone
  <2>2. \A j, k \in DOMAIN M : M[j] = a /\ M[k] = a => j = k
    BY <1>1, <1>3 DEF Alone
  <2>3. \A q \in DOMAIN Q, k \in DOMAIN M : ~(Q[q] = a /\ M[k] = a)
    BY <1>1, <1>3 DEF Alone
  <2>4. /\ \A q \in DOMAIN Q, t \in DOMAIN H : ~(Q[q] = a /\ H[t] = a)
        /\ \A k \in DOMAIN M, t \in DOMAIN H : ~(M[k] = a /\ H[t] = a)
    BY <1>1, <1>3 DEF Alone
  <2>5. \A s, t \in DOMAIN H : H[s] = a /\ H[t] = a => s = t
    BY <1>3 DEF Alone
  <2> QED BY <2>1, <2>2, <2>3, <2>4, <2>5, Zenon DEF Alone
<1> QED BY <1>2, <1>3

(* A goroutine takes over the address of the first event, or nobody does.  *)
LEMMA EventToHand ==
  ASSUME NEW P, NEW L, NEW H, NEW M, NEW G, NEW a, NEW n \in Nat, a # NoIP, NEW t \in DOMAIN H,
         DOMAIN L = 1..n, n > 0, DOMAIN M = 1..(n - 1), \A k \in 1..(n - 1) : M[k] = L[k + 1],
         DOMAIN G = DOMAIN H, \A s \in DOMAIN H \ {t} : G[s] = H[s],
         G[t] \in {L[1], NoIP}
  PROVE  /\ Alone(P, L, H, a) => Alone(P, M, G, a)
         /\ Owned(P, M, G, a) => Owned(P, L, H, a)
<1>1. \A k \in 1..(n - 1) : k + 1 \in 1..n /\ k + 1 # 1
  OBVIOUS
<1>2. 1 \in 1..n /\ \A j, k \in 1..(n - 1) : j + 1 = k + 1 => j = k
  OBVIOUS
<1>3. \A k \in DOMAIN M : k + 1 \in DOMAIN L /\ k + 1 # 1 /\ M[k] = L[k + 1]
  BY <1>1
<1>4. \A s \in DOMAIN G : G[s] = H[s] \/ (s = t /\ G[s] \in {L[1], NoIP})
  OBVIOUS
<1>5. Owned(P, M, G, a) => Owned(P, L, H, a)
  BY Zenon, ZenonT(60), <1>2, <1>3, <1>4 DEF Owned
<1>6. ASSUME Alone(P, L, H, a) PROVE Alone(P, M, G, a)
  <2>1. \A j, k \in DOMAIN M : M[j] = a /\ M[k] = a => j = k
    BY <1>2, <1>3, <1>6 DEF Alone
  <2>2. \A s, r \in DOMAIN G : G[s] = a /\ G[r] = a => s = r
    BY <1>2, <1>4, <1>6 DEF Alone
  <2>3. \A p \in DOMAIN P, k \in DOMAIN M : ~(P[p] = a /\ M[k] = a)
    BY <1>3, <1>6 DEF Alone
  <2>4. \A p \in DOMAIN P, s \in DOMAIN G : ~(P[p] = a /\ G[s] = a)
    BY <1>2, <1>4, <1>6 DEF Alone
  <2>5. \A k \in DOMAIN M, s \in DOMAIN G : ~(M[k] = a /\ G[s] = a)
    BY <1>2, <1>3, <1>4, <1>6 DEF Alone
  <2>6. \A p, q \in DOMAIN P : P[p] = a /\ P[q] = a => p = q
    BY <1>6 DEF Alone
  <2> QED BY <2>1, <2>2, <2>3, <2>4, <2>5, <2>6, Zenon DEF Alone
<1> QED BY <1>5, <1>6

(* A goroutine gets an address that nobody has.                            *)
LEMMA NewInHand ==
  ASSUME NEW P, NEW L, NEW H, NEW G, NEW b, NEW a, NEW t \in DOMAIN H, ~Owned(P, L, H, b),
         DOMAIN G = DOMAIN H, \A s \in DOMAIN H \ {t} : G[s] = H[s], G[t] = b
  PROVE  /\ Alone(P, L, H, a) => Alone(P, L, G, a)
         /\ Owned(P, L, G, a) => Owned(P, L, H, a) \/ a = b
  BY DEF Alone, Owned

-----------------------------------------------------------------------------
(* Addresses and pools.                                                    *)
LEMMA AddressShape ==
  ASSUME NEW a \in IP PROVE a # NoIP /\ a[1] \in CIDR /\ a[2] \in 0..MaxIndex /\ a = <<a[1], a[2]>>
  BY DEF IP, NoIP

(* There is a first place that is not in use: the pool never has more than *)
(* the places up to MaxIndex.                                              *)
LEMMA FreshPlace ==
  ASSUME NEW p \in PoolType
  PROVE  Fresh(p) \in p.index..(MaxIndex + 1) /\ <<p.cidr, Fresh(p)>> \notin p.used
<1> DEFINE T == {i \in p.index..(MaxIndex + 1) : <<p.cidr, i>> \notin p.used}
<1>1. /\ p.index \in 0..(MaxIndex + 1) /\ p.used \subseteq IP /\ MaxIndex \in Nat
  BY PodAssumption DEF PoolType
<1>2. <<p.cidr, MaxIndex + 1>> \notin p.used
  BY <1>1 DEF IP
<1>3. MaxIndex + 1 \in T /\ T \subseteq Nat
  BY <1>1, <1>2
<1>4. IsWellFoundedOn(OpToRel(<, Nat), Nat)
  BY Zenon, ZenonT(60), NatLessThanWellFounded
<1>5. PICK i \in T : \A j \in T : ~(<<j, i>> \in OpToRel(<, Nat))
  BY Zenon, ZenonT(60), <1>3, <1>4, WFMin
<1>6. i \in Nat /\ \A j \in T : ~(j < i)
  BY Zenon, ZenonT(60), <1>3, <1>5 DEF OpToRel
<1>7. \A j \in p.index..(i - 1) : <<p.cidr, j>> \in p.used
  BY <1>1, <1>6
<1> QED BY <1>7 DEF Fresh

LEMMA PoolOperations ==
  ASSUME NEW p \in PoolType, NEW a \in IP
  PROVE  /\ Put(p, a) \in PoolType /\ Put(p, a).cidr = p.cidr
         /\ Use(p, a) \in PoolType /\ Use(p, a).cidr = p.cidr
         /\ \A b : b # a /\ b \in p.used \ p.usable => b \in Put(p, a).used \ Put(p, a).usable
         /\ \A b : b \in p.used \ p.usable => b \in Use(p, a).used \ Use(p, a).usable
         /\ \A b \in Put(p, a).usable : b \in p.usable \/ b[1] = p.cidr
         /\ Use(p, a).usable = p.usable
  BY Zenon, ZenonT(60) DEF PoolType, Put, Use, Contains

(* What Get hands out was usable or is new.  Usable addresses are those of *)
(* the pool's CIDR.                                                        *)
LEMMA GetOperation ==
  ASSUME NEW p \in PoolType, \A b \in p.usable : b[1] = p.cidr,
         NEW a \in Gettable(p), a[2] <= MaxIndex
  PROVE  /\ a \in IP /\ a[1] = p.cidr /\ ~(a \in p.used \ p.usable)
         /\ Get(p, a) \in PoolType /\ Get(p, a).cidr = p.cidr
         /\ a \in Get(p, a).used \ Get(p, a).usable
         /\ \A b : b \in p.used \ p.usable => b \in Get(p, a).used \ Get(p, a).usable
         /\ Get(p, a).usable \subseteq p.usable
<1>1. a \in IP /\ a[1] = p.cidr /\ ~(a \in p.used \ p.usable) /\ a[2] + 1 \in 0..(MaxIndex + 1)
  <2>1. CASE p.usable # {}
    <3>1. a \in p.usable /\ a \in IP
      BY <2>1 DEF Gettable, PoolType
    <3> QED BY <3>1, AddressShape, PodAssumption
  <2>2. CASE p.usable = {}
    <3>1. a = <<p.cidr, Fresh(p)>>
      BY <2>2 DEF Gettable
    <3>2. p.cidr \in CIDR /\ p.index \in 0..(MaxIndex + 1) /\ MaxIndex \in Nat
      BY PodAssumption DEF PoolType
    <3>3. Fresh(p) \in 0..MaxIndex /\ a \notin p.used
      BY <3>1, <3>2, FreshPlace
    <3> QED BY <3>1, <3>2, <3>3 DEF IP
  <2> QED BY <2>1, <2>2
<1>2. /\ Get(p, a).cidr = p.cidr /\ Get(p, a).used = p.used \cup {a}
      /\ Get(p, a).usable = p.usable \ {a}
  BY DEF Get, PoolType
<1>3. Get(p, a) \in PoolType
  <2>1. \A x \in 0..(MaxIndex + 1) : [p EXCEPT !.used = p.used \cup {a}, !.usable = p.usable \ {a}, !.index = x]
                                     \in PoolType
    BY Zenon, ZenonT(60), <1>1 DEF PoolType
  <2>2. (IF p.usable # {} THEN p.index ELSE a[2] + 1) \in 0..(MaxIndex + 1)
    BY <1>1 DEF PoolType
  <2> QED BY Zenon, ZenonT(60), <2>1, <2>2 DEF Get
<1> QED BY <1>1, <1>2, <1>3

-----------------------------------------------------------------------------
(* What steps have in common.  Pools are never removed and keep their      *)
(* CIDR.                                                                   *)
PoolsStay == \A i \in DOMAIN pool : i \in DOMAIN pool' /\ pool'[i].cidr = pool[i].cidr

LEMMA Once ==
  ASSUME PoolsStay, NEW c, MadeOnce(c)' PROVE MadeOnce(c)
  BY DEF PoolsStay, MadeOnce

LEMMA IdleType ==
  /\ NoPod \in PodType /\ NoPod.ip = NoIP /\ NoPod.there = FALSE
  /\ Idle \in ThreadType /\ Idle.pc = "idle" /\ Idle.want = "" /\ Hand(Idle) = NoIP
<1>1. NoPod \in PodType /\ NoPod.ip = NoIP /\ NoPod.there = FALSE
  BY PodAssumption DEF NoPod, PodType
<1>2. (CHOOSE p \in Pod : TRUE) \in Pod /\ Default \in CIDR /\ 0 \in 0..MaxPools
  BY PodAssumption DEF CIDR
<1> QED BY <1>1, <1>2 DEF Idle, ThreadType, Hand

LEMMA ThreadFields ==
  ASSUME TypeOK, NEW t \in Threads
  PROVE  /\ thread[t] \in ThreadType /\ thread[t].pod \in Pod /\ thread[t].obj \in PodType
         /\ thread[t].cidr \in CIDR /\ thread[t].pool \in 0..MaxPools
         /\ thread[t].ip \in IP \cup {NoIP} /\ thread[t].obj.ip \in IP \cup {NoIP}
         /\ DOMAIN thread = Threads /\ DOMAIN job = Pod /\ DOMAIN api = Pod
         /\ pool \in Seq(PoolType) /\ Len(pool) \in Nat /\ DOMAIN pool = 1..Len(pool)
         /\ \A i \in DOMAIN pool : pool[i] \in PoolType
<1>1. thread[t] \in ThreadType
  BY DEF TypeOK
<1>2. thread[t].obj \in PodType
  BY Zenon, ZenonT(60), <1>1 DEF ThreadType
<1>3. DOMAIN thread = Threads /\ DOMAIN job = Pod /\ DOMAIN api = Pod /\ pool \in Seq(PoolType)
  BY DEF TypeOK
<1>4. Len(pool) \in Nat /\ DOMAIN pool = 1..Len(pool) /\ \A i \in DOMAIN pool : pool[i] \in PoolType
  BY <1>3, LenProperties, ElementOfSeq
<1>5. thread[t].obj.ip \in IP \cup {NoIP}
  BY <1>2 DEF PodType
<1> QED BY Zenon, ZenonT(60), <1>1, <1>2, <1>3, <1>4, <1>5 DEF ThreadType

(* One goroutine moves, and the pools stay.                                *)
LEMMA SoundStep ==
  ASSUME Sound, PoolsStay, NEW t, ThreadOK(thread[t])',
         \A s \in Threads \ {t} : thread'[s] = thread[s],
         \A p \in Pod : job'[p] = job[p] \/ job'[p] = NoPod \/ Match(p, job'[p]) # "none",
         \A p \in Pod : \/ api'[p].ip = NoIP
                        \/ api'[p].ip = api[p].ip /\ api'[p].from = api[p].from
                        \/ /\ api'[p].from \in DOMAIN pool'
                           /\ pool'[api'[p].from].cidr = api'[p].ip[1],
         \A i \in DOMAIN pool' : \A a \in pool'[i].usable : a[1] = pool'[i].cidr
  PROVE  Sound'
<1>1. ASSUME NEW s \in Threads PROVE ThreadOK(thread[s])'
  <2>1. CASE s = t
    BY <2>1
  <2>2. CASE s # t
    <3>1. ThreadOK(thread[s]) /\ thread'[s] = thread[s]
      BY <2>2 DEF Sound
    <3>2. \A th : ThreadOK(th) => ThreadOK(th)'
      BY ZenonT(60), ZenonT(90) DEF ThreadOK, PoolsStay
    <3> QED BY <3>1, <3>2
  <2> QED BY <2>1, <2>2
<1>2. \A p \in Pod : job'[p] # NoPod => Match(p, job'[p]) # "none"
  BY DEF Sound
<1>3. \A p \in Pod : api'[p].ip # NoIP =>
        api'[p].from \in DOMAIN pool' /\ pool'[api'[p].from].cidr = api'[p].ip[1]
  BY DEF Sound, PoolsStay
<1> QED BY <1>1, <1>2, <1>3 DEF Sound, Match

(* No pod and no event is touched, goroutines keep or drop what they have, *)
(* and what is in use in the pools stays in use.                           *)
LEMMA QuietStep ==
  ASSUME Addresses, PoolsStay, UNCHANGED api, events'.watch = events.watch,
         \A t \in Threads : Hand(thread'[t]) \in {Hand(thread[t]), NoIP},
         \A a \in IP : InUse(a) => InUse(a)'
  PROVE  Addresses'
<1> SUFFICES ASSUME NEW a \in IP, MadeOnce(a[1])'
             PROVE  /\ Alone(Pods, Leaving, Hands, a)'
                    /\ Owned(Pods, Leaving, Hands, a)' => InUse(a)'
  BY DEF Addresses
<1>1. MadeOnce(a[1]) /\ a # NoIP
  BY Once, AddressShape
<1>2. Alone(Pods, Leaving, Hands, a) /\ (Owned(Pods, Leaving, Hands, a) => InUse(a))
  BY <1>1 DEF Addresses
<1>3. Pods' = Pods /\ Leaving' = Leaving
  BY DEF Pods, Leaving
<1>4. DOMAIN Hands' = DOMAIN Hands /\ \A t \in DOMAIN Hands : Hands'[t] \in {Hands[t], NoIP}
  BY DEF Hands
<1>5. /\ Alone(Pods, Leaving, Hands, a) => Alone(Pods', Leaving', Hands', a)
      /\ Owned(Pods', Leaving', Hands', a) => Owned(Pods, Leaving, Hands, a)
  BY <1>1, <1>3, <1>4, Dropped
<1> QED BY <1>2, <1>5

-----------------------------------------------------------------------------
(* Goroutines and pools.                                                   *)
LEMMA LookupStep ==
  ASSUME PodInv, NEW t \in Threads, Lookup(t) PROVE PodInv'
<1> DEFINE th == thread[t]
           id == pools[th.cidr]
           new == [th EXCEPT !.pc = IF id = 0 THEN "make" ELSE "act", !.pool = id]
<1>1. /\ th.pc = "lookup" /\ thread' = [thread EXCEPT ![t] = new]
      /\ UNCHANGED <<api, node, ctl, events, job, pools, pool, count>>
  BY Zenon, ZenonT(60) DEF Lookup
<1>2. TypeOK /\ Sound /\ Addresses /\ ThreadOK(th)
  BY DEF PodInv, Sound
<1>3. /\ th \in ThreadType /\ th.cidr \in CIDR /\ DOMAIN thread = Threads
      /\ Len(pool) \in Nat /\ DOMAIN pool = 1..Len(pool)
  BY <1>2, ThreadFields
<1>4. id \in 0..Len(pool) /\ id \in 0..MaxPools /\ (id # 0 => id \in DOMAIN pool /\ pool[id].cidr = th.cidr)
  <2>1. id \in 0..Len(pool) /\ Len(pool) <= MaxPools /\ (id # 0 => pool[id].cidr = th.cidr)
    BY <1>2, <1>3 DEF TypeOK
  <2> QED BY <2>1, <1>3, PodAssumption
<1> HIDE DEF th, id
<1>5. /\ new \in ThreadType /\ new.want = th.want /\ new.obj = th.obj /\ new.pod = th.pod
      /\ new.cidr = th.cidr /\ new.pool = id /\ new.pc = IF id = 0 THEN "make" ELSE "act"
  BY Zenon, ZenonT(60), <1>3, <1>4 DEF ThreadType
<1> HIDE DEF new
<1>6. thread'[t] = new /\ \A s \in Threads \ {t} : thread'[s] = thread[s]
  BY <1>1, <1>3
<1>7. TypeOK'
  BY <1>1, <1>2, <1>5 DEF TypeOK
<1>8. ThreadOK(thread[t])'
  BY ZenonT(60), ZenonT(90), <1>1, <1>2, <1>4, <1>5, <1>6 DEF ThreadOK
<1>9. PoolsStay
  BY <1>1 DEF PoolsStay
<1>10. Sound'
  <2>1. \A i \in DOMAIN pool' : \A a \in pool'[i].usable : a[1] = pool'[i].cidr
    BY <1>1, <1>2 DEF Sound
  <2> QED BY <1>1, <1>2, <1>6, <1>8, <1>9, <2>1, SoundStep
<1>11. Addresses'
  <2>1. Hand(new) = Hand(th)
    BY <1>1, <1>5 DEF Hand
  <2>2. \A s \in Threads : Hand(thread'[s]) \in {Hand(thread[s]), NoIP}
    BY <1>6, <2>1 DEF th
  <2>3. \A a \in IP : InUse(a) => InUse(a)'
    BY <1>1 DEF InUse
  <2> QED BY <1>1, <1>2, <1>9, <2>2, <2>3, QuietStep
<1> QED BY <1>7, <1>10, <1>11 DEF PodInv

LEMMA MakeStep ==
  ASSUME PodInv, NEW t \in Threads, Make(t) PROVE PodInv'
<1> DEFINE th == thread[t]
           n == Len(pool) + 1
           new == [th EXCEPT !.pc = "act", !.pool = n]
<1>1. TypeOK /\ Sound /\ Addresses /\ ThreadOK(th)
  BY DEF PodInv, Sound
<1>2. /\ th \in ThreadType /\ th.cidr \in CIDR /\ DOMAIN thread = Threads
      /\ pool \in Seq(PoolType) /\ Len(pool) \in Nat /\ DOMAIN pool = 1..Len(pool)
  BY <1>1, ThreadFields
<1>3. NewIPPool(th.cidr) \in PoolType /\ NewIPPool(th.cidr).cidr = th.cidr
      /\ NewIPPool(th.cidr).usable = {}
  BY <1>2, PodAssumption DEF NewIPPool, PoolType
<1>4. /\ th.pc = "make" /\ Len(pool) < MaxPools /\ pool' = Append(pool, NewIPPool(th.cidr))
      /\ pools' = [pools EXCEPT ![th.cidr] = Len(pool')]
      /\ thread' = [thread EXCEPT ![t] = [th EXCEPT !.pc = "act", !.pool = Len(pool')]]
      /\ UNCHANGED <<api, node, ctl, events, job, count>>
  BY Zenon, ZenonT(60) DEF Make
<1> HIDE DEF th
<1>5. /\ pool' \in Seq(PoolType) /\ Len(pool') = n /\ DOMAIN pool' = 1..n
      /\ \A i \in DOMAIN pool : pool'[i] = pool[i]
      /\ pool'[n] = NewIPPool(th.cidr) /\ n \in 1..MaxPools
  <2>1. pool' \in Seq(PoolType) /\ Len(pool') = n /\ DOMAIN pool' = 1..n
    BY <1>2, <1>3, <1>4, AppendProperties
  <2>2. pool'[n] = NewIPPool(th.cidr) /\ \A i \in 1..Len(pool) : pool'[i] = pool[i]
    BY <1>2, <1>3, <1>4, AppendProperties
  <2> QED BY <1>2, <1>4, <2>1, <2>2, PodAssumption
<1>6. /\ new \in ThreadType /\ new.want = th.want /\ new.obj = th.obj /\ new.pod = th.pod
      /\ new.cidr = th.cidr /\ new.pool = n /\ new.pc = "act"
  <2>1. n \in 0..MaxPools
    BY <1>5
  <2> HIDE DEF n
  <2> QED BY Zenon, ZenonT(60), <1>2, <2>1 DEF ThreadType
<1>7. thread' = [thread EXCEPT ![t] = new]
  BY <1>4, <1>5
<1> HIDE DEF new
<1>8. thread'[t] = new /\ \A s \in Threads \ {t} : thread'[s] = thread[s]
  BY <1>2, <1>7
<1>9. TypeOK'
  <2>1. thread' \in [Threads -> ThreadType]
    BY <1>1, <1>6, <1>7 DEF TypeOK
  <2>2. /\ pools' \in [CIDR -> 0..Len(pool')]
        /\ \A c \in CIDR : pools'[c] # 0 => pool'[pools'[c]].cidr = c
    <3>1. pools \in [CIDR -> 0..Len(pool)] /\ \A c \in CIDR : pools[c] # 0 => pool[pools[c]].cidr = c
      BY <1>1 DEF TypeOK
    <3> QED BY <1>2, <1>3, <1>4, <1>5, <3>1
  <2> QED BY <1>1, <1>4, <1>5, <2>1, <2>2, PodAssumption DEF TypeOK
<1>10. PoolsStay
  BY <1>2, <1>5 DEF PoolsStay
<1>11. ThreadOK(thread[t])'
  <2>1. n \in DOMAIN pool' /\ pool'[n].cidr = th.cidr
    BY <1>3, <1>5
  <2> HIDE DEF n
  <2> QED BY ZenonT(60), ZenonT(90), <1>1, <1>4, <1>6, <1>8, <2>1 DEF ThreadOK
<1>12. Sound'
  <2>1. \A i \in DOMAIN pool' : \A a \in pool'[i].usable : a[1] = pool'[i].cidr
    BY <1>1, <1>2, <1>3, <1>5 DEF Sound
  <2> QED BY <1>1, <1>4, <1>8, <1>10, <1>11, <2>1, SoundStep
<1>13. Addresses'
  <2>1. Hand(new) = Hand(th)
    BY <1>4, <1>6 DEF Hand
  <2>2. \A s \in Threads : Hand(thread'[s]) \in {Hand(thread[s]), NoIP}
    BY <1>8, <2>1 DEF th
  <2>3. \A a \in IP : InUse(a) => InUse(a)'
    BY <1>2, <1>5 DEF InUse
  <2> QED BY <1>1, <1>4, <1>10, <2>2, <2>3, QuietStep
<1> QED BY <1>9, <1>12, <1>13 DEF PodInv

(* One pool changes and keeps its CIDR.                                    *)
LEMMA PoolChanges ==
  ASSUME TypeOK, Sound, NEW k \in DOMAIN pool, NEW q \in PoolType, q.cidr = pool[k].cidr,
         pool' = [pool EXCEPT ![k] = q], UNCHANGED pools,
         \A a \in q.usable : a \in pool[k].usable \/ a[1] = q.cidr
  PROVE  /\ pool' \in Seq(PoolType) /\ Len(pool') = Len(pool) /\ DOMAIN pool' = DOMAIN pool
         /\ pool'[k] = q /\ \A i \in DOMAIN pool \ {k} : pool'[i] = pool[i]
         /\ PoolsStay
         /\ pools' \in [CIDR -> 0..Len(pool')]
         /\ \A c \in CIDR : pools'[c] # 0 => pool'[pools'[c]].cidr = c
         /\ \A i \in DOMAIN pool' : \A a \in pool'[i].usable : a[1] = pool'[i].cidr
         /\ \A a : (a \in pool[k].used \ pool[k].usable => a \in q.used \ q.usable)
                     => (InUse(a) => InUse(a)')
<1>1. /\ pool \in Seq(PoolType) /\ pools \in [CIDR -> 0..Len(pool)]
      /\ \A c \in CIDR : pools[c] # 0 => pool[pools[c]].cidr = c
  BY DEF TypeOK
<1>2. /\ pool' \in Seq(PoolType) /\ Len(pool') = Len(pool) /\ DOMAIN pool' = DOMAIN pool
      /\ pool'[k] = q /\ \A i \in DOMAIN pool \ {k} : pool'[i] = pool[i]
  BY <1>1, ExceptSeq, LenProperties
<1>3. Len(pool) \in Nat /\ DOMAIN pool = 1..Len(pool)
  BY <1>1
<1>4. PoolsStay
  BY <1>2 DEF PoolsStay
<1>5. \A i \in DOMAIN pool' : \A a \in pool'[i].usable : a[1] = pool'[i].cidr
  BY <1>2 DEF Sound
<1>6. \A c \in CIDR : pools'[c] # 0 => pool'[pools'[c]].cidr = c
  BY <1>1, <1>2, <1>3, <1>4 DEF PoolsStay
<1>7. \A a : (a \in pool[k].used \ pool[k].usable => a \in q.used \ q.usable)
               => (InUse(a) => InUse(a)')
  BY <1>2 DEF InUse
<1> QED BY <1>1, <1>2, <1>4, <1>5, <1>6, <1>7

LEMMA GetStep ==
  ASSUME PodInv, NEW t \in Threads, funcPodIPWith(t) PROVE PodInv'
<1> DEFINE th == thread[t]
           k == th.pool
<1>1. PICK ip \in Gettable(pool[k]) :
        /\ ip[2] <= MaxIndex /\ pool' = [pool EXCEPT ![k] = Get(pool[k], ip)]
        /\ thread' = [thread EXCEPT ![t] = [th EXCEPT !.pc = "call", !.ip = ip]]
  BY ZenonT(60), ZenonT(90) DEF funcPodIPWith
<1>2. /\ th.pc = "act" /\ th.want = "get"
      /\ UNCHANGED <<api, node, ctl, events, job, pools, count>>
  BY DEF funcPodIPWith
<1>3. TypeOK /\ Sound /\ Addresses /\ ThreadOK(th)
  BY DEF PodInv, Sound
<1>4. /\ th \in ThreadType /\ DOMAIN thread = Threads /\ \A i \in DOMAIN pool : pool[i] \in PoolType
  BY <1>3, ThreadFields
<1>5. k \in DOMAIN pool /\ pool[k] \in PoolType /\ \A b \in pool[k].usable : b[1] = pool[k].cidr
  BY ZenonT(60), ZenonT(90), <1>2, <1>3, <1>4 DEF ThreadOK, Sound
<1> DEFINE q == Get(pool[k], ip)
           new == [th EXCEPT !.pc = "call", !.ip = ip]
<1>6. /\ ip \in IP /\ ip[1] = pool[k].cidr /\ ~(ip \in pool[k].used \ pool[k].usable)
      /\ q \in PoolType /\ q.cidr = pool[k].cidr /\ ip \in q.used \ q.usable
      /\ \A b : b \in pool[k].used \ pool[k].usable => b \in q.used \ q.usable
      /\ q.usable \subseteq pool[k].usable
  BY <1>1, <1>5, GetOperation
<1>7. /\ new \in ThreadType /\ new.want = "get" /\ new.obj = th.obj /\ new.pod = th.pod
      /\ new.pool = k /\ new.pc = "call" /\ new.ip = ip
  BY ZenonT(60), ZenonT(90), <1>2, <1>4, <1>6 DEF ThreadType
<1>8. pool' = [pool EXCEPT ![k] = q] /\ thread' = [thread EXCEPT ![t] = new]
  BY <1>1
<1> HIDE DEF q, new, k
<1>9. /\ pool' \in Seq(PoolType) /\ Len(pool') = Len(pool) /\ DOMAIN pool' = DOMAIN pool
      /\ pool'[k] = q /\ PoolsStay
      /\ pools' \in [CIDR -> 0..Len(pool')]
      /\ \A c \in CIDR : pools'[c] # 0 => pool'[pools'[c]].cidr = c
      /\ \A i \in DOMAIN pool' : \A a \in pool'[i].usable : a[1] = pool'[i].cidr
      /\ \A a : InUse(a) => InUse(a)'
  BY Zenon, ZenonT(60), <1>2, <1>3, <1>5, <1>6, <1>8, PoolChanges
<1>10. thread'[t] = new /\ \A s \in Threads \ {t} : thread'[s] = thread[s]
  BY <1>4, <1>8
<1>11. TypeOK'
  <2>1. thread' \in [Threads -> ThreadType]
    BY <1>3, <1>7, <1>8 DEF TypeOK
  <2> QED BY <1>2, <1>3, <1>9, <2>1 DEF TypeOK
<1>12. ThreadOK(thread[t])'
  BY ZenonT(60), ZenonT(90), <1>2, <1>3, <1>5, <1>6, <1>7, <1>9, <1>10 DEF ThreadOK
<1>13. Sound'
  BY <1>2, <1>3, <1>9, <1>10, <1>12, SoundStep
<1>14. Addresses'
  <2> SUFFICES ASSUME NEW a \in IP, MadeOnce(a[1])'
               PROVE  /\ Alone(Pods, Leaving, Hands, a)'
                      /\ Owned(Pods, Leaving, Hands, a)' => InUse(a)'
    BY DEF Addresses
  <2>1. MadeOnce(a[1])
    BY <1>9, Once
  <2>2. Alone(Pods, Leaving, Hands, a) /\ (Owned(Pods, Leaving, Hands, a) => InUse(a))
    BY <2>1, <1>3 DEF Addresses
  <2>3. CASE Owned(Pods, Leaving, Hands, ip) /\ MadeOnce(ip[1])
    <3>1. InUse(ip)
      BY <1>3, <1>6, <2>3 DEF Addresses
    <3>2. PICK i \in DOMAIN pool : pool[i].cidr = ip[1] /\ ip \in pool[i].used \ pool[i].usable
      BY <3>1 DEF InUse
    <3>3. i = k
      BY <1>5, <1>6, <2>3, <3>2 DEF MadeOnce
    <3> QED BY <1>6, <3>2, <3>3
  <2>4. CASE ~MadeOnce(ip[1])
    <3>1. a # ip
      BY <2>1, <2>4
    <3> DEFINE G == Hands'
    <3>2. Pods' = Pods /\ Leaving' = Leaving
      BY <1>2 DEF Pods, Leaving
    <3>3. /\ \A s \in DOMAIN Hands : Hands'[s] = Hands[s] \/ Hands'[s] = ip
          /\ DOMAIN Hands' = DOMAIN Hands
      BY <1>7, <1>10 DEF Hands, Hand
    <3>4. /\ Alone(Pods, Leaving, Hands, a) => Alone(Pods, Leaving, Hands', a)
          /\ Owned(Pods, Leaving, Hands', a) => Owned(Pods, Leaving, Hands, a)
      BY <3>1, <3>3 DEF Alone, Owned
    <3> QED BY <1>9, <2>2, <3>2, <3>4
  <2>5. CASE ~Owned(Pods, Leaving, Hands, ip)
    <3>1. Pods' = Pods /\ Leaving' = Leaving
      BY <1>2 DEF Pods, Leaving
    <3>2. /\ DOMAIN Hands' = DOMAIN Hands /\ t \in DOMAIN Hands
          /\ \A s \in DOMAIN Hands \ {t} : Hands'[s] = Hands[s]
          /\ Hands'[t] = ip
      BY <1>7, <1>10 DEF Hands, Hand
    <3>3. /\ Alone(Pods, Leaving, Hands, a) => Alone(Pods, Leaving, Hands', a)
          /\ Owned(Pods, Leaving, Hands', a) => Owned(Pods, Leaving, Hands, a) \/ a = ip
      BY <2>5, <3>2, NewInHand
    <3>4. InUse(ip)'
      BY <1>5, <1>6, <1>9 DEF InUse
    <3> QED BY <1>9, <2>2, <3>1, <3>3, <3>4
  <2> QED BY <2>3, <2>4, <2>5
<1> QED BY <1>11, <1>13, <1>14 DEF PodInv

LEMMA MarkStep ==
  ASSUME PodInv, NEW t \in Threads, markPodIP(t) PROVE PodInv'
<1> DEFINE th == thread[t]
           k == th.pool
           q == Use(pool[k], th.obj.ip)
           new == [th EXCEPT !.pc = "call"]
<1>1. /\ th.pc = "act" /\ th.want = "use" /\ pool' = [pool EXCEPT ![k] = q]
      /\ thread' = [thread EXCEPT ![t] = new]
      /\ UNCHANGED <<api, node, ctl, events, job, pools, count>>
  BY DEF markPodIP
<1>2. TypeOK /\ Sound /\ Addresses /\ ThreadOK(th)
  BY DEF PodInv, Sound
<1>3. /\ th \in ThreadType /\ DOMAIN thread = Threads /\ \A i \in DOMAIN pool : pool[i] \in PoolType
  BY <1>2, ThreadFields
<1>4. k \in DOMAIN pool /\ pool[k] \in PoolType /\ th.obj.ip \in IP
  BY <1>1, <1>2, <1>3 DEF ThreadOK
<1>5. /\ q \in PoolType /\ q.cidr = pool[k].cidr /\ q.usable = pool[k].usable
      /\ \A b : b \in pool[k].used \ pool[k].usable => b \in q.used \ q.usable
  BY <1>4, PoolOperations
<1>6. /\ new \in ThreadType /\ new.want = "use" /\ new.obj = th.obj /\ new.pod = th.pod
      /\ new.pc = "call"
  BY ZenonT(60), ZenonT(90), <1>1, <1>3 DEF ThreadType
<1> HIDE DEF q, new, k, th
<1>7. /\ pool' \in Seq(PoolType) /\ Len(pool') = Len(pool) /\ PoolsStay
      /\ pools' \in [CIDR -> 0..Len(pool')]
      /\ \A c \in CIDR : pools'[c] # 0 => pool'[pools'[c]].cidr = c
      /\ \A i \in DOMAIN pool' : \A a \in pool'[i].usable : a[1] = pool'[i].cidr
      /\ \A a : InUse(a) => InUse(a)'
  BY ZenonT(60), ZenonT(90), <1>1, <1>2, <1>4, <1>5, PoolChanges
<1>8. thread'[t] = new /\ \A s \in Threads \ {t} : thread'[s] = thread[s]
  BY <1>1, <1>3
<1>9. TypeOK'
  <2>1. thread' \in [Threads -> ThreadType]
    BY <1>1, <1>2, <1>6 DEF TypeOK
  <2> QED BY Zenon, ZenonT(60), <1>1, <1>2, <1>7, <2>1 DEF TypeOK
<1>10. ThreadOK(thread[t])'
  BY ZenonT(60), ZenonT(90), <1>1, <1>2, <1>6, <1>8 DEF ThreadOK
<1>11. Sound'
  BY <1>1, <1>2, <1>7, <1>8, <1>10, SoundStep
<1>12. Addresses'
  <2>1. \A s \in Threads : Hand(thread'[s]) \in {Hand(thread[s]), NoIP}
    BY <1>6, <1>8 DEF Hand
  <2> QED BY <1>1, <1>2, <1>7, <2>1, QuietStep
<1> QED BY <1>9, <1>11, <1>12 DEF PodInv

LEMMA RecycleStep ==
  ASSUME PodInv, NEW t \in Threads, recyclingPodIP(t) PROVE PodInv'
<1> DEFINE th == thread[t]
           k == th.pool
           ip == th.obj.ip
           q == Put(pool[k], ip)
<1>1. /\ th.pc = "act" /\ th.want = "put" /\ pool' = [pool EXCEPT ![k] = q]
      /\ thread' = [thread EXCEPT ![t] = Idle] /\ job' = [job EXCEPT ![th.pod] = NoPod]
      /\ UNCHANGED <<api, node, ctl, events, pools, count>>
  BY DEF recyclingPodIP
<1>2. TypeOK /\ Sound /\ Addresses /\ ThreadOK(th)
  BY DEF PodInv, Sound
<1>3. /\ th \in ThreadType /\ DOMAIN thread = Threads /\ \A i \in DOMAIN pool : pool[i] \in PoolType
      /\ th.pod \in Pod /\ DOMAIN job = Pod
  BY <1>2, ThreadFields
<1>4. k \in DOMAIN pool /\ pool[k] \in PoolType /\ ip \in IP
  BY <1>1, <1>2, <1>3 DEF ThreadOK
<1>5. /\ q \in PoolType /\ q.cidr = pool[k].cidr
      /\ \A b : b # ip /\ b \in pool[k].used \ pool[k].usable => b \in q.used \ q.usable
      /\ \A b \in q.usable : b \in pool[k].usable \/ b[1] = q.cidr
  BY <1>4, PoolOperations
<1>6. Hand(th) = ip
  BY <1>1 DEF Hand
<1> HIDE DEF q, k, ip
<1>7. /\ pool' \in Seq(PoolType) /\ Len(pool') = Len(pool) /\ PoolsStay
      /\ pools' \in [CIDR -> 0..Len(pool')]
      /\ \A c \in CIDR : pools'[c] # 0 => pool'[pools'[c]].cidr = c
      /\ \A i \in DOMAIN pool' : \A a \in pool'[i].usable : a[1] = pool'[i].cidr
      /\ \A a : a # ip /\ InUse(a) => InUse(a)'
  BY ZenonT(60), ZenonT(90), <1>1, <1>2, <1>4, <1>5, PoolChanges
<1>8. thread'[t] = Idle /\ \A s \in Threads \ {t} : thread'[s] = thread[s]
  BY <1>1, <1>3
<1>9. TypeOK'
  <2>1. thread' \in [Threads -> ThreadType] /\ job' \in [Pod -> PodType]
    BY ZenonT(60), ZenonT(90), <1>1, <1>2, IdleType DEF TypeOK
  <2> QED BY <1>1, <1>2, <1>7, <2>1 DEF TypeOK
<1>10. ThreadOK(thread[t])'
  BY ZenonT(60), ZenonT(90), <1>8, IdleType DEF ThreadOK
<1>11. Sound'
  <2>1. \A p \in Pod : job'[p] = job[p] \/ job'[p] = NoPod
    BY <1>1, <1>3
  <2> QED BY <1>1, <1>2, <1>7, <1>8, <1>10, <2>1, SoundStep
<1>12. Addresses'
  <2> SUFFICES ASSUME NEW a \in IP, MadeOnce(a[1])'
               PROVE  /\ Alone(Pods, Leaving, Hands, a)'
                      /\ Owned(Pods, Leaving, Hands, a)' => InUse(a)'
    BY DEF Addresses
  <2>1. MadeOnce(a[1]) /\ a # NoIP
    BY <1>7, Once, AddressShape
  <2>2. Alone(Pods, Leaving, Hands, a) /\ (Owned(Pods, Leaving, Hands, a) => InUse(a))
    BY <2>1, <1>2 DEF Addresses
  <2>3. Pods' = Pods /\ Leaving' = Leaving
    BY <1>1 DEF Pods, Leaving
  <2>4. /\ DOMAIN Hands' = DOMAIN Hands /\ t \in DOMAIN Hands
        /\ Hands[t] = ip /\ Hands'[t] = NoIP /\ \A s \in DOMAIN Hands \ {t} : Hands'[s] = Hands[s]
    BY ZenonT(60), ZenonT(90), <1>6, <1>8, IdleType DEF Hands
  <2>5. /\ Alone(Pods, Leaving, Hands, a) => Alone(Pods, Leaving, Hands', a)
        /\ Owned(Pods, Leaving, Hands', a) => Owned(Pods, Leaving, Hands, a)
    BY <2>1, <2>4, Dropped
  <2>6. ~Owned(Pods, Leaving, Hands', ip) \/ a # ip
    BY <2>1, <2>2, <2>4 DEF Owned, Alone
  <2> QED BY <1>7, <2>2, <2>3, <2>5, <2>6
<1> QED BY <1>9, <1>11, <1>12 DEF PodInv

-----------------------------------------------------------------------------
(* watchResources.                                                         *)
WatchEvent == EventType({"added", "modified", "deleted", "sync"})

LEMMA EventFields ==
  ASSUME TypeOK
  PROVE  /\ events.watch \in Seq(WatchEvent) /\ events.sync \in Seq(EventType({"sync"}))
         /\ events.node \in Seq([node : Node, there : BOOLEAN])
         /\ DOMAIN events = {"watch", "sync", "node"}
         /\ \A e \in WatchEvent : e.pod \in Pod /\ e.obj \in PodType /\ e.obj.ip \in IP \cup {NoIP}
         /\ \A e \in EventType({"sync"}) : e \in WatchEvent /\ e.type = "sync"
         /\ \A v \in Seq(WatchEvent), y \in Seq(EventType({"sync"})) :
              /\ [events EXCEPT !.watch = v] \in [watch : Seq(WatchEvent), sync : Seq(EventType({"sync"})),
                                                  node : Seq([node : Node, there : BOOLEAN])]
              /\ [events EXCEPT !.sync = y] \in [watch : Seq(WatchEvent), sync : Seq(EventType({"sync"})),
                                                 node : Seq([node : Node, there : BOOLEAN])]
<1>1. events \in [watch : Seq(WatchEvent), sync : Seq(EventType({"sync"})),
                  node : Seq([node : Node, there : BOOLEAN])]
  BY DEF TypeOK, WatchEvent
<1>2. \A e \in WatchEvent : e.pod \in Pod /\ e.obj \in PodType /\ e.obj.ip \in IP \cup {NoIP}
  BY DEF WatchEvent, EventType, PodType
<1>3. \A e \in EventType({"sync"}) : e \in WatchEvent /\ e.type = "sync"
  BY DEF WatchEvent, EventType
<1> QED BY Zenon, ZenonT(60), <1>1, <1>2, <1>3

(* What HandleEvent does with the first event of a source.                 *)
LEMMA HandleStep ==
  ASSUME PodInv, NEW source \in {"watch", "sync"}, HandleEvent(source) PROVE PodInv'
<1> DEFINE e == Head(events[source])
           n == Len(events.watch)
           new == [Idle EXCEPT !.pc = "lookup", !.want = "put", !.pod = e.pod, !.obj = e.obj,
                               !.cidr = Cidr(e.obj.node)]
           sent == [Idle EXCEPT !.pc = "send", !.pod = e.pod, !.obj = e.obj]
           sends == e.type # "deleted" /\ thread' = [thread EXCEPT ![Watcher] = sent]
           frees == /\ e.type = "deleted" /\ e.obj.ip # NoIP
                    /\ thread' = [thread EXCEPT ![Watcher] = new]
<1>1. TypeOK /\ Sound /\ Addresses
  BY DEF PodInv
<1>2. /\ thread[Watcher].pc = "idle" /\ events[source] # <<>>
      /\ events' = [events EXCEPT ![source] = Tail(@)]
      /\ UNCHANGED <<api, node, ctl, pools, pool, count>>
  BY DEF HandleEvent
<1>3. e \in WatchEvent /\ (source = "sync" => e.type = "sync")
  BY <1>1, <1>2, EventFields
<1>4. e.pod \in Pod /\ e.obj \in PodType /\ e.obj.ip \in IP \cup {NoIP} /\ Cidr(e.obj.node) \in CIDR
  BY <1>1, <1>3, EventFields DEF Cidr, CIDR
<1>5. /\ sends \/ frees \/ UNCHANGED thread
      /\ UNCHANGED job \/ job' = [job EXCEPT ![e.pod] = NoPod]
  BY DEF HandleEvent
<1>6. /\ new \in ThreadType /\ new.pc = "lookup" /\ new.want = "put" /\ new.obj = e.obj
      /\ sent \in ThreadType /\ sent.pc = "send" /\ sent.want = ""
  <2> HIDE DEF e
  <2> QED BY ZenonT(60), ZenonT(90), <1>4, IdleType DEF ThreadType
<1>7. Watcher \in Threads /\ DOMAIN thread = Threads /\ DOMAIN job = Pod
  BY Zenon, ZenonT(60), <1>1, ThreadFields DEF Threads
<1> HIDE DEF new, sent, e
<1>8. events' \in [watch : Seq(WatchEvent), sync : Seq(EventType({"sync"})),
                   node : Seq([node : Node, there : BOOLEAN])]
  <2>1. CASE source = "watch"
    <3>1. Tail(events.watch) \in Seq(WatchEvent)
      BY <1>1, <1>2, <2>1, EventFields
    <3> QED BY Zenon, ZenonT(60), <1>1, <1>2, <2>1, <3>1, EventFields
  <2>2. CASE source = "sync"
    <3>1. Tail(events.sync) \in Seq(EventType({"sync"}))
      BY <1>1, <1>2, <2>2, EventFields
    <3> QED BY Zenon, ZenonT(60), <1>1, <1>2, <2>2, <3>1, EventFields
  <2> QED BY <2>1, <2>2
<1>9. TypeOK'
  <2>1. thread' \in [Threads -> ThreadType]
    BY ZenonT(60), ZenonT(90), <1>1, <1>5, <1>6 DEF TypeOK
  <2>2. job' \in [Pod -> PodType]
    BY Zenon, ZenonT(60), <1>1, <1>4, <1>5, IdleType DEF TypeOK
  <2> QED BY <1>1, <1>2, <1>8, <2>1, <2>2 DEF TypeOK, WatchEvent
<1>10. PoolsStay
  BY <1>2 DEF PoolsStay
<1>11. Sound'
  <2>1. ThreadOK(thread[Watcher])'
    <3>1. CASE frees
      <4>1. thread'[Watcher] = new /\ e.obj.ip \in IP
        BY <1>4, <1>7, <3>1
      <4> QED BY ZenonT(60), ZenonT(90), <1>6, <4>1 DEF ThreadOK
    <3>2. CASE sends
      <4>1. thread'[Watcher] = sent
        BY <1>7, <3>2
      <4> QED BY ZenonT(60), ZenonT(90), <1>6, <4>1 DEF ThreadOK
    <3>3. CASE UNCHANGED thread
      BY ZenonT(60), ZenonT(90), <1>1, <1>2, <1>7, <3>3 DEF Sound, ThreadOK
    <3> QED BY <1>5, <3>1, <3>2, <3>3
  <2>2. \A s \in Threads \ {Watcher} : thread'[s] = thread[s]
    BY <1>5, <1>7
  <2>3. \A p \in Pod : job'[p] = job[p] \/ job'[p] = NoPod \/ Match(p, job'[p]) # "none"
    BY <1>4, <1>5, <1>7
  <2>4. \A i \in DOMAIN pool' : \A a \in pool'[i].usable : a[1] = pool'[i].cidr
    BY <1>1, <1>2 DEF Sound
  <2> QED BY <1>1, <1>2, <1>10, <2>1, <2>2, <2>3, <2>4, SoundStep
<1>12. Hand(thread[Watcher]) = NoIP
  BY ZenonT(60), ZenonT(90), <1>1, <1>2, <1>7 DEF Sound, ThreadOK, Hand
<1>13. \A a : InUse(a) <=> InUse(a)'
  BY <1>2 DEF InUse
<1>14. CASE source = "sync"
  <2>1. ~frees /\ events'.watch = events.watch
    BY <1>1, <1>2, <1>3, <1>14, EventFields
  <2>2. \A t \in Threads : Hand(thread'[t]) \in {Hand(thread[t]), NoIP}
    <3>1. Hand(sent) = NoIP
      BY <1>6 DEF Hand
    <3> QED BY <1>5, <1>7, <2>1, <3>1
  <2> QED BY <2>2, <1>1, <1>2, <1>9, <1>10, <1>11, <1>13, <2>1, QuietStep DEF PodInv
<1>15. CASE source = "watch"
  <2>1. /\ n \in Nat /\ n > 0 /\ DOMAIN events.watch = 1..n /\ events.watch[1] = e
        /\ DOMAIN events'.watch = 1..(n - 1)
        /\ \A k \in 1..(n - 1) : events'.watch[k] = events.watch[k + 1]
    <3>1. events.watch \in Seq(WatchEvent) /\ events.watch # <<>> /\ events'.watch = Tail(events.watch)
      BY <1>1, <1>2, <1>15, EventFields
    <3> QED BY <1>15, <3>1 DEF e
  <2>2. /\ DOMAIN Leaving = 1..n /\ DOMAIN Leaving' = 1..(n - 1) /\ Leaving[1] = Lost(e)
        /\ \A k \in 1..(n - 1) : Leaving'[k] = Leaving[k + 1]
    BY <2>1 DEF Leaving
  <2>3. /\ DOMAIN Hands' = DOMAIN Hands /\ Watcher \in DOMAIN Hands
        /\ \A s \in DOMAIN Hands \ {Watcher} : Hands'[s] = Hands[s]
        /\ Hands'[Watcher] \in {Lost(e), NoIP}
    <3>1. CASE frees
      <4>1. Hand(new) = Lost(e)
        BY <1>6, <3>1 DEF Hand, Lost
      <4> QED BY <1>7, <3>1, <4>1 DEF Hands
    <3>2. CASE sends
      <4>1. Hand(sent) = NoIP
        BY <1>6 DEF Hand
      <4> QED BY <1>7, <3>2, <4>1 DEF Hands
    <3>3. CASE UNCHANGED thread
      BY <1>7, <1>12, <3>3 DEF Hands
    <3> QED BY <1>5, <3>1, <3>2, <3>3
  <2>4. Addresses'
    <3> SUFFICES ASSUME NEW a \in IP, MadeOnce(a[1])'
                 PROVE  /\ Alone(Pods, Leaving, Hands, a)'
                        /\ Owned(Pods, Leaving, Hands, a)' => InUse(a)'
      BY DEF Addresses
    <3>1. MadeOnce(a[1]) /\ a # NoIP
      BY <1>10, Once, AddressShape
    <3>2. Alone(Pods, Leaving, Hands, a) /\ (Owned(Pods, Leaving, Hands, a) => InUse(a))
      BY <3>1, <1>1 DEF Addresses
    <3>3. Pods' = Pods
      BY <1>2 DEF Pods
    <3>4. /\ Alone(Pods, Leaving, Hands, a) => Alone(Pods, Leaving', Hands', a)
          /\ Owned(Pods, Leaving', Hands', a) => Owned(Pods, Leaving, Hands, a)
      <4> HIDE DEF n
      <4> QED BY Zenon, ZenonT(60), <2>1, <2>2, <2>3, <3>1, EventToHand
    <3> QED BY <1>13, <3>2, <3>3, <3>4
  <2> QED BY <1>9, <1>11, <2>4 DEF PodInv
<1> QED BY <1>14, <1>15


-----------------------------------------------------------------------------
(* A write to the API server: the event of a pod that is gone has the      *)
(* address the pod had.                                                    *)
LEMMA WriteFacts ==
  ASSUME TypeOK, NEW p \in Pod, NEW new \in PodType, Write(p, new)
  PROVE  /\ api' \in [Pod -> PodType] /\ api'[p] = new /\ \A q \in Pod \ {p} : api'[q] = api[q]
         /\ events' \in [watch : Seq(WatchEvent), sync : Seq(EventType({"sync"})),
                         node : Seq([node : Node, there : BOOLEAN])]
         /\ Len(events.watch) \in Nat /\ DOMAIN Leaving = 1..Len(events.watch)
         /\ \/ UNCHANGED <<api, events>>
            \/ /\ DOMAIN Leaving' = 1..(Len(events.watch) + 1)
               /\ \A k \in 1..Len(events.watch) : Leaving'[k] = Leaving[k]
               /\ Leaving'[Len(events.watch) + 1] = IF new = NoPod THEN api[p].ip ELSE NoIP
<1> DEFINE n == Len(events.watch)
           e == IF new = NoPod THEN Sent("deleted", p, api[p])
                ELSE Sent(IF api[p] = NoPod THEN "added" ELSE "modified", p, new)
<1>1. api \in [Pod -> PodType] /\ api' = [api EXCEPT ![p] = new]
  BY DEF TypeOK, Write
<1>2. events.watch \in Seq(WatchEvent) /\ n \in Nat /\ DOMAIN events.watch = 1..n
  BY EventFields, LenProperties
<1>3. DOMAIN Leaving = 1..n
  BY <1>2 DEF Leaving
<1>4. CASE new = api[p]
  <2>1. UNCHANGED <<api, events>>
    BY <1>1, <1>4 DEF Write
  <2>2. events' \in [watch : Seq(WatchEvent), sync : Seq(EventType({"sync"})),
                     node : Seq([node : Node, there : BOOLEAN])]
    BY ZenonT(60), ZenonT(90), <2>1 DEF TypeOK, WatchEvent
  <2> QED BY ZenonT(60), ZenonT(90), <1>1, <1>2, <1>3, <2>1, <2>2
<1>5. CASE new # api[p]
  <2>1. events' = [events EXCEPT !.watch = Append(@, e)]
    BY <1>5 DEF Write
  <2>2. e \in WatchEvent /\ Lost(e) = IF new = NoPod THEN api[p].ip ELSE NoIP
    BY <1>1 DEF Sent, WatchEvent, EventType, Lost
  <2> HIDE DEF e
  <2>3. Append(events.watch, e) \in Seq(WatchEvent)
    BY <1>2, <2>2
  <2>4. events'.watch = Append(events.watch, e) /\
        events' \in [watch : Seq(WatchEvent), sync : Seq(EventType({"sync"})),
                     node : Seq([node : Node, there : BOOLEAN])]
    BY ZenonT(60), ZenonT(90), <2>1, <2>3, EventFields
  <2>5. /\ DOMAIN events'.watch = 1..(n + 1) /\ events'.watch[n + 1] = e
        /\ \A k \in 1..n : events'.watch[k] = events.watch[k]
    BY <1>2, <2>2, <2>4, AppendProperties
  <2>6. /\ DOMAIN Leaving' = 1..(n + 1) /\ Leaving'[n + 1] = Lost(e)
        /\ \A k \in 1..n : Leaving'[k] = Leaving[k]
    <3> HIDE DEF n
    <3> QED BY <1>2, <2>5 DEF Leaving
  <2> QED BY <1>1, <1>2, <1>3, <2>2, <2>4, <2>6
<1> QED BY <1>4, <1>5

(* The pod keeps its address, or loses it, to its Deleted event if it is   *)
(* gone.                                                                   *)
LEMMA WriteKeeps ==
  ASSUME TypeOK, Addresses, NEW p \in Pod, NEW new \in PodType, Write(p, new),
         new.ip \in {api[p].ip, NoIP}, UNCHANGED pool,
         \A t \in Threads : Hand(thread'[t]) = Hand(thread[t])
  PROVE  Addresses'
<1> SUFFICES ASSUME NEW a \in IP, MadeOnce(a[1])'
             PROVE  /\ Alone(Pods, Leaving, Hands, a)'
                    /\ Owned(Pods, Leaving, Hands, a)' => InUse(a)'
  BY DEF Addresses
<1>1. MadeOnce(a[1]) /\ a # NoIP
  BY AddressShape DEF MadeOnce
<1>2. Alone(Pods, Leaving, Hands, a) /\ (Owned(Pods, Leaving, Hands, a) => InUse(a))
  BY <1>1 DEF Addresses
<1>3. Hands' = Hands /\ (InUse(a) => InUse(a)')
  BY DEF Hands, InUse
<1>4. CASE UNCHANGED <<api, events>>
  <2>1. Pods' = Pods /\ Leaving' = Leaving
    BY <1>4 DEF Pods, Leaving
  <2> QED BY <1>2, <1>3, <2>1
<1>5. CASE ~UNCHANGED <<api, events>>
  <2> DEFINE n == Len(events.watch)
  <2>1. /\ n \in Nat /\ DOMAIN Leaving = 1..n /\ DOMAIN Leaving' = 1..(n + 1)
        /\ \A k \in 1..n : Leaving'[k] = Leaving[k]
        /\ Leaving'[n + 1] = IF new = NoPod THEN api[p].ip ELSE NoIP
        /\ api'[p] = new /\ \A q \in Pod \ {p} : api'[q] = api[q]
    BY <1>5, WriteFacts
  <2>2. /\ DOMAIN Pods' = DOMAIN Pods /\ p \in DOMAIN Pods
        /\ \A q \in DOMAIN Pods \ {p} : Pods'[q] = Pods[q]
        /\ Pods'[p] \in {Pods[p], NoIP} /\ Leaving'[n + 1] \in {Pods[p], NoIP}
        /\ Pods'[p] = NoIP \/ Leaving'[n + 1] = NoIP
    BY ZenonT(60), ZenonT(90), <2>1, IdleType DEF Pods
  <2> HIDE DEF n
  <2>3. /\ Alone(Pods, Leaving, Hands, a) => Alone(Pods', Leaving', Hands, a)
        /\ Owned(Pods', Leaving', Hands, a) => Owned(Pods, Leaving, Hands, a)
    BY ZenonT(60), ZenonT(90), <1>1, <2>1, <2>2, PodToEvent
  <2> QED BY <1>2, <1>3, <2>3
<1> QED BY <1>4, <1>5

(* The pod is given the address a goroutine had for it.                    *)
LEMMA WriteGives ==
  ASSUME TypeOK, Addresses, NEW p \in Pod, NEW new \in PodType, Write(p, new), new # NoPod,
         NEW t \in Threads, new.ip = Hand(thread[t]), UNCHANGED pool,
         Hand(thread'[t]) = NoIP, \A s \in Threads \ {t} : thread'[s] = thread[s]
  PROVE  Addresses'
<1> SUFFICES ASSUME NEW a \in IP, MadeOnce(a[1])'
             PROVE  /\ Alone(Pods, Leaving, Hands, a)'
                    /\ Owned(Pods, Leaving, Hands, a)' => InUse(a)'
  BY DEF Addresses
<1>1. MadeOnce(a[1]) /\ a # NoIP
  BY AddressShape DEF MadeOnce
<1>2. Alone(Pods, Leaving, Hands, a) /\ (Owned(Pods, Leaving, Hands, a) => InUse(a))
  BY <1>1 DEF Addresses
<1>3. /\ DOMAIN Hands' = DOMAIN Hands /\ t \in DOMAIN Hands /\ Hands'[t] = NoIP
      /\ \A s \in DOMAIN Hands \ {t} : Hands'[s] = Hands[s] 
      /\ InUse(a) => InUse(a)'
  BY DEF Hands, InUse
<1> DEFINE n == Len(events.watch)
<1>4. /\ n \in Nat /\ DOMAIN Leaving = 1..n /\ (DOMAIN Leaving' = 1..n \/ DOMAIN Leaving' = 1..(n + 1))
      /\ \A k \in 1..n : Leaving'[k] = Leaving[k]
      /\ n + 1 \in DOMAIN Leaving' => Leaving'[n + 1] = NoIP
      /\ api'[p] = new /\ \A q \in Pod \ {p} : api'[q] = api[q]
  <2>1. /\ n \in Nat /\ DOMAIN Leaving = 1..n /\ api'[p] = new /\ \A q \in Pod \ {p} : api'[q] = api[q]
    BY WriteFacts
  <2>2. CASE UNCHANGED <<api, events>>
    <3>1. Leaving' = Leaving
      BY <2>2 DEF Leaving
    <3> QED BY <2>1, <3>1
  <2>3. CASE ~UNCHANGED <<api, events>>
    BY <2>1, <2>3, WriteFacts
  <2> QED BY ZenonT(60), ZenonT(90), <2>2, <2>3
<1>5. /\ DOMAIN Pods' = DOMAIN Pods /\ p \in DOMAIN Pods
      /\ \A q \in DOMAIN Pods \ {p} : Pods'[q] = Pods[q]
      /\ Pods'[p] \in {Hands[t], NoIP}
  BY <1>4 DEF Pods, Hands
<1> HIDE DEF n
<1>6. /\ Alone(Pods, Leaving, Hands, a) => Alone(Pods', Leaving', Hands', a)
      /\ Owned(Pods', Leaving', Hands', a) => Owned(Pods, Leaving, Hands, a)
  <2> DEFINE P == Pods  L == Leaving  H == Hands  Q == Pods'  M == Leaving'  G == Hands'
  <2>1. /\ a # NoIP /\ n \in Nat /\ t \in DOMAIN H /\ p \in DOMAIN P
        /\ DOMAIN Q = DOMAIN P /\ \A q \in DOMAIN P \ {p} : Q[q] = P[q]
        /\ DOMAIN G = DOMAIN H /\ \A s \in DOMAIN H \ {t} : G[s] = H[s]
        /\ DOMAIN L = 1..n /\ (DOMAIN M = 1..n \/ DOMAIN M = 1..(n + 1))
        /\ \A k \in 1..n : M[k] = L[k]
        /\ n + 1 \in DOMAIN M => M[n + 1] = NoIP
        /\ Q[p] \in {H[t], NoIP} /\ G[t] = NoIP
    BY <1>1, <1>3, <1>4, <1>5
  <2> HIDE DEF P, L, H, Q, M, G
  <2>2. (Alone(P, L, H, a) => Alone(Q, M, G, a)) /\ (Owned(Q, M, G, a) => Owned(P, L, H, a))
    <3>1. \A k \in DOMAIN M : k \in DOMAIN L \/ M[k] = NoIP
      BY <2>1
    <3>2. \A k \in DOMAIN M : M[k] = a => k \in DOMAIN L /\ L[k] = a
      BY <2>1, <3>1
    <3>3. \A q \in DOMAIN Q : Q[q] = a => (q # p /\ P[q] = a) \/ (q = p /\ H[t] = a)
      BY <2>1
    <3>4. \A s \in DOMAIN G : G[s] = a => s \in DOMAIN H /\ s # t /\ H[s] = a
      BY <2>1
    <3>5. p \in DOMAIN P /\ t \in DOMAIN H /\ DOMAIN Q = DOMAIN P
      BY <2>1
    <3>6. Owned(Q, M, G, a) => Owned(P, L, H, a)
      BY <3>2, <3>3, <3>4, <3>5 DEF Owned
    <3>7. ASSUME Alone(P, L, H, a) PROVE Alone(Q, M, G, a)
      <4>1. \A q, r \in DOMAIN Q : Q[q] = a /\ Q[r] = a => q = r
        BY <3>3, <3>5, <3>7 DEF Alone
      <4>2. \A j, k \in DOMAIN M : M[j] = a /\ M[k] = a => j = k
        BY <3>2, <3>7 DEF Alone
      <4>3. \A r, s \in DOMAIN G : G[r] = a /\ G[s] = a => r = s
        BY <3>4, <3>7 DEF Alone
      <4>4. \A q \in DOMAIN Q, k \in DOMAIN M : ~(Q[q] = a /\ M[k] = a)
        BY <3>2, <3>3, <3>5, <3>7 DEF Alone
      <4>5. \A q \in DOMAIN Q, s \in DOMAIN G : ~(Q[q] = a /\ G[s] = a)
        BY <3>3, <3>4, <3>5, <3>7 DEF Alone
      <4>6. \A k \in DOMAIN M, s \in DOMAIN G : ~(M[k] = a /\ G[s] = a)
        BY <3>2, <3>4, <3>7 DEF Alone
      <4> QED BY <4>1, <4>2, <4>3, <4>4, <4>5, <4>6 DEF Alone
    <3> QED BY <3>6, <3>7
  <2> QED BY <2>2 DEF P, L, H, Q, M, G
<1> QED BY ZenonT(60), ZenonT(90), <1>2, <1>3, <1>6

CtlSet == [nodes : BOOLEAN, pods : BOOLEAN, readOnly : BOOLEAN, queue : SUBSET Node, handed : HandedType]
CountSet == [user : Nat, faults : Nat, restarts : Nat, failed : BOOLEAN]

(* A user's write: no goroutine moves.                                     *)
LEMMA UserWrite ==
  ASSUME PodInv, NEW p \in Pod, NEW new \in PodType, Write(p, new),
         \/ new.ip = NoIP
         \/ new.ip = api[p].ip /\ new.from = api[p].from,
         UNCHANGED <<node, ctl, job, thread, pools, pool>>,
         count' \in CountSet
  PROVE  PodInv'
<1>1. TypeOK /\ Sound /\ Addresses
  BY DEF PodInv
<1>2. /\ api' \in [Pod -> PodType] /\ api'[p] = new /\ \A q \in Pod \ {p} : api'[q] = api[q]
      /\ events' \in [watch : Seq(WatchEvent), sync : Seq(EventType({"sync"})),
                      node : Seq([node : Node, there : BOOLEAN])]
  BY Zenon, ZenonT(60), <1>1, WriteFacts
<1>3. TypeOK'
  BY ZenonT(60), ZenonT(90), <1>1, <1>2 DEF TypeOK, WatchEvent, CountSet
<1>4. PoolsStay /\ ThreadOK(thread[Watcher])'
  BY ZenonT(60), ZenonT(90), <1>1 DEF PoolsStay, Sound, Threads, ThreadOK
<1>5. Sound'
  <2>1. \A i \in DOMAIN pool' : \A a \in pool'[i].usable : a[1] = pool'[i].cidr
    BY ZenonT(60), ZenonT(90), <1>1 DEF Sound
  <2>2. \A q \in Pod : \/ api'[q].ip = NoIP
                       \/ api'[q].ip = api[q].ip /\ api'[q].from = api[q].from
    BY <1>2
  <2> QED BY ZenonT(60), ZenonT(90), <1>1, <1>4, <2>1, <2>2, SoundStep
<1>6. Addresses'
  BY <1>1, WriteKeeps
<1> QED BY <1>3, <1>5, <1>6 DEF PodInv

(* A call that had its effect: the goroutine keeps no address.             *)
LEMMA CallWrite ==
  ASSUME PodInv, NEW w \in Threads, thread[w].pc = "call", api[thread[w].pod].there,
         Write(thread[w].pod, Patched(thread[w])),
         NEW then \in ThreadType, thread' = [thread EXCEPT ![w] = then],
         ThreadOK(then), Hand(then) = NoIP,
         UNCHANGED <<node, ctl, job, pools, pool>>,
         count' \in CountSet
  PROVE  PodInv'
<1> DEFINE th == thread[w]
           p == th.pod
           new == Patched(th)
<1>1. TypeOK /\ Sound /\ Addresses /\ ThreadOK(th)
  BY Zenon DEF PodInv, Sound
<1>2. /\ th \in ThreadType /\ p \in Pod /\ api[p] \in PodType /\ th.pool \in 0..MaxPools
      /\ th.ip \in IP \cup {NoIP} /\ DOMAIN thread = Threads
  BY ZenonT(60), ZenonT(90), <1>1, ThreadFields DEF TypeOK
<1>3. /\ Match(p, th.obj) \in {"delete", "ready", "complete"} /\ th.want # "put"
      /\ th.want = "get" <=> Match(p, th.obj) = "ready"
      /\ th.want = "get" => th.ip \in IP /\ th.pool \in DOMAIN pool /\ pool[th.pool].cidr = th.ip[1]
  <2>1. Match(p, th.obj) \in {"delete", "ready", "complete", "none"}
    BY DEF Match
  <2> QED BY ZenonT(60), ZenonT(90), <1>1, <2>1 DEF ThreadOK
<1>4. /\ new \in PodType
      /\ Match(p, th.obj) = "delete" => new = NoPod
      /\ Match(p, th.obj) = "ready" => new.ip = th.ip /\ new.from = th.pool /\ new.there
      /\ Match(p, th.obj) = "complete" => new.ip = api[p].ip /\ new.from = api[p].from
  <2>1. CASE Match(p, th.obj) = "delete"
    BY ZenonT(60), ZenonT(90), <2>1, IdleType DEF Patched
  <2>2. CASE Match(p, th.obj) = "ready"
    <3>1. new = [api[p] EXCEPT !.ip = th.ip, !.from = th.pool, !.done = FALSE]
      BY <2>2 DEF Patched
    <3> HIDE DEF new, th
    <3> QED BY Zenon, ZenonT(60), <1>2, <2>2, <3>1 DEF PodType, th
  <2>3. CASE Match(p, th.obj) = "complete"
    <3>1. new = [api[p] EXCEPT !.done = TRUE]
      BY <2>3 DEF Patched
    <3> HIDE DEF new, th
    <3> QED BY ZenonT(60), ZenonT(90), <1>2, <2>3, <3>1 DEF PodType
  <2> QED BY ZenonT(60), ZenonT(90), <1>3, <2>1, <2>2, <2>3
<1>5. Write(p, new)
  OBVIOUS
<1> HIDE DEF new, p, th
<1>6. /\ api' \in [Pod -> PodType] /\ api'[p] = new /\ \A q \in Pod \ {p} : api'[q] = api[q]
      /\ events' \in [watch : Seq(WatchEvent), sync : Seq(EventType({"sync"})),
                      node : Seq([node : Node, there : BOOLEAN])]
  BY Zenon, ZenonT(60), <1>1, <1>2, <1>4, <1>5, WriteFacts
<1>7. TypeOK'
  <2>1. thread' \in [Threads -> ThreadType]
    BY <1>1 DEF TypeOK
  <2> QED BY <1>1, <1>6, <2>1 DEF TypeOK, WatchEvent, CountSet
<1>8. thread'[w] = then /\ \A s \in Threads \ {w} : thread'[s] = thread[s]
  BY <1>2
<1>9. Sound'
  <2>1. \A i \in DOMAIN pool' : \A a \in pool'[i].usable : a[1] = pool'[i].cidr
    BY ZenonT(60), ZenonT(90), <1>1 DEF Sound
  <2>2. \A q \in Pod : \/ api'[q].ip = NoIP
                       \/ api'[q].ip = api[q].ip /\ api'[q].from = api[q].from
                       \/ api'[q].from \in DOMAIN pool' /\ pool'[api'[q].from].cidr = api'[q].ip[1]
    BY ZenonT(60), ZenonT(90), <1>3, <1>4, <1>6, IdleType
  <2>3. PoolsStay /\ ThreadOK(thread[w])'
    BY ZenonT(60), ZenonT(90), <1>8 DEF PoolsStay, ThreadOK
  <2>4. \A q \in Pod : job'[q] = job[q]
    OBVIOUS
  <2> QED BY ZenonT(60), ZenonT(90), <1>1, <1>8, <2>1, <2>2, <2>3, <2>4, SoundStep
<1>10. Hand(th) = IF Match(p, th.obj) = "ready" THEN th.ip ELSE NoIP
  BY <1>3 DEF Hand, th
<1>11. Addresses'
  <2>1. CASE Match(p, th.obj) = "ready"
    <3>1. new # NoPod /\ new.ip = Hand(thread[w]) /\ Hand(thread'[w]) = NoIP
      BY ZenonT(60), ZenonT(90), <1>4, <1>8, <1>10, <2>1, IdleType DEF th
    <3> QED BY <1>1, <1>2, <1>4, <1>5, <1>8, <3>1, WriteGives
  <2>2. CASE Match(p, th.obj) # "ready"
    <3>1. new.ip \in {api[p].ip, NoIP} /\ \A t \in Threads : Hand(thread'[t]) = Hand(thread[t])
      BY ZenonT(60), ZenonT(90), <1>3, <1>4, <1>8, <1>10, <2>2, IdleType DEF th
    <3> QED BY <1>1, <1>2, <1>4, <1>5, <3>1, WriteKeeps
  <2> QED BY <2>1, <2>2
<1> QED BY ZenonT(60), <1>7, <1>9, <1>11 DEF PodInv

(* Nothing changes but one goroutine, which keeps no address, and the jobs *)
(* and counters.                                                           *)
LEMMA Quiet ==
  ASSUME PodInv, NEW w \in Threads,
         NEW then \in ThreadType, thread' = [thread EXCEPT ![w] = then],
         ThreadOK(then), Hand(then) = NoIP,
         job' \in [Pod -> PodType],
         \A p \in Pod : job'[p] = job[p] \/ job'[p] = NoPod \/ Match(p, job'[p]) # "none",
         UNCHANGED <<api, node, events, pools, pool>>,
         ctl' \in CtlSet, count' \in CountSet
  PROVE  PodInv'
<1>1. TypeOK /\ Sound /\ Addresses
  BY DEF PodInv
<1>2. DOMAIN thread = Threads
  BY <1>1, ThreadFields
<1>3. thread'[w] = then /\ \A s \in Threads \ {w} : thread'[s] = thread[s]
  BY <1>2
<1>4. TypeOK'
  <2>1. thread' \in [Threads -> ThreadType]
    BY <1>1 DEF TypeOK
  <2> QED BY <1>1, <2>1 DEF TypeOK, CountSet, CtlSet
<1>5. PoolsStay /\ ThreadOK(thread[w])'
  BY ZenonT(60), ZenonT(90), <1>3 DEF PoolsStay, ThreadOK
<1>6. \A i \in DOMAIN pool' : \A a \in pool'[i].usable : a[1] = pool'[i].cidr
  BY <1>1 DEF Sound
<1>7. Sound'
  BY ZenonT(60), ZenonT(90), <1>1, <1>3, <1>5, <1>6, SoundStep
<1>8. Addresses'
  <2>1. \A a \in IP : InUse(a) => InUse(a)'
    BY DEF InUse
  <2> QED BY <1>1, <1>3, <1>5, <2>1, QuietStep
<1> QED BY <1>4, <1>7, <1>8 DEF PodInv

-----------------------------------------------------------------------------
(* playStage.                                                              *)
LEMMA IdleOK == ThreadOK(Idle)
  BY ZenonT(60), ZenonT(90), IdleType DEF ThreadOK

LEMMA CountType ==
  ASSUME count \in CountSet
  PROVE  /\ [count EXCEPT !.user = count.user + 1] \in CountSet
         /\ [count EXCEPT !.faults = count.faults + 1] \in CountSet
         /\ [count EXCEPT !.faults = count.faults + 1, !.failed = TRUE] \in CountSet
         /\ [count EXCEPT !.restarts = count.restarts + 1, !.faults = count.faults + 1] \in CountSet
<1>1. /\ count.user + 1 \in Nat /\ count.faults + 1 \in Nat /\ count.restarts + 1 \in Nat
  BY DEF CountSet
<1>2. \A x \in Nat, y \in Nat :
        /\ [count EXCEPT !.user = x] \in CountSet /\ [count EXCEPT !.faults = x] \in CountSet
        /\ [count EXCEPT !.faults = x, !.failed = TRUE] \in CountSet
        /\ [count EXCEPT !.restarts = x, !.faults = y] \in CountSet
  BY Zenon, ZenonT(60) DEF CountSet
<1> QED BY ZenonT(60), ZenonT(90), <1>1, <1>2

LEMMA TakeStep ==
  ASSUME PodInv, NEW w \in Threads, NEW p \in Pod, Take(w, p) PROVE PodInv'
<1> DEFINE obj == job[p]
           want == CASE Match(p, obj) = "ready" -> "get"
                     [] Match(p, obj) = "complete" /\ Managed(obj.node) /\ Cached(obj.node) -> "use"
                     [] OTHER -> ""
           pc == IF want = "" THEN "call" ELSE "lookup"
           cid == Cidr(obj.node)
           then == [Idle EXCEPT !.pc = pc, !.want = want, !.pod = p, !.obj = obj, !.cidr = cid]
<1>1. TypeOK /\ Sound
  BY DEF PodInv
<1>2. /\ obj # NoPod /\ job' = [job EXCEPT ![p] = NoPod]
      /\ thread' = [thread EXCEPT ![w] = then]
      /\ UNCHANGED <<api, node, ctl, events, pools, pool, count>>
  BY DEF Take
<1>3. obj \in PodType /\ obj.ip \in IP \cup {NoIP} /\ Match(p, obj) # "none"
  BY <1>1, <1>2 DEF TypeOK, Sound, PodType
<1>4. cid \in CIDR
  BY DEF Cidr, CIDR
<1>5. /\ want \in {"", "get", "use"} /\ (want = "get" <=> Match(p, obj) = "ready")
      /\ want = "use" => Match(p, obj) = "complete"
  OBVIOUS
<1>6. Match(p, obj) = "complete" => obj.ip # NoIP
  BY DEF Match
<1>7. pc \in {"call", "lookup"} /\ (pc = "call" => want = "")
  OBVIOUS
<1> HIDE DEF obj, want, pc, cid
<1>8. /\ then \in ThreadType /\ then.pc = pc /\ then.want = want /\ then.pod = p /\ then.obj = obj
  BY ZenonT(60), ZenonT(90), <1>3, <1>4, <1>5, <1>7, IdleType DEF ThreadType
<1> HIDE DEF then
<1>9. ThreadOK(then) /\ Hand(then) = NoIP
  BY ZenonT(60), ZenonT(90), <1>3, <1>5, <1>6, <1>7, <1>8 DEF ThreadOK, Hand
<1>10. /\ job' \in [Pod -> PodType]
       /\ \A q \in Pod : job'[q] = job[q] \/ job'[q] = NoPod \/ Match(q, job'[q]) # "none"
  BY ZenonT(60), ZenonT(90), <1>1, <1>2, IdleType DEF TypeOK
<1>11. count' \in CountSet /\ ctl' \in CtlSet
  BY <1>1, <1>2 DEF TypeOK, CountSet, CtlSet
<1> QED BY Zenon, ZenonT(60), <1>2, <1>8, <1>9, <1>10, <1>11, Quiet

LEMMA CallStep ==
  ASSUME PodInv, NEW w \in Threads, Call(w) PROVE PodInv'
<1>1. count' \in CountSet
  BY DEF Call, PodInv, TypeOK, CountSet
<1> QED BY ZenonT(60), ZenonT(90), <1>1, IdleType, IdleOK, CallWrite DEF Call

LEMMA HandedStep ==
  ASSUME PodInv, SendPod \/ Preprocess PROVE PodInv'
<1>1. TypeOK /\ Sound /\ ctl \in CtlSet /\ count \in CountSet /\ Watcher \in Threads
  BY DEF PodInv, TypeOK, CtlSet, CountSet, Threads
<1>2. \A x \in HandedType : [ctl EXCEPT !.handed = x] \in CtlSet
  BY <1>1 DEF CtlSet
<1>3. CASE SendPod
  <2> DEFINE th == thread[Watcher]
             x == <<[pod |-> th.pod, obj |-> th.obj]>>
  <2>1. th.pod \in Pod /\ th.obj \in PodType
    BY <1>1, ThreadFields
  <2> HIDE DEF th
  <2>2. x \in HandedType
    BY <2>1 DEF HandedType
  <2>3. ctl' = [ctl EXCEPT !.handed = x]
    BY <1>3 DEF SendPod, th
  <2> HIDE DEF x
  <2>4. ctl' \in CtlSet
    BY <1>2, <2>2, <2>3
  <2>5. job' \in [Pod -> PodType] /\ \A p \in Pod : job'[p] = job[p]
    BY <1>1, <1>3 DEF SendPod, TypeOK
  <2> QED BY ZenonT(60), ZenonT(90), <1>1, <1>3, <2>4, <2>5, IdleType, IdleOK, Quiet DEF SendPod
<1>4. CASE Preprocess
  <2> DEFINE h == ctl.handed[1]
  <2>1. h.pod \in Pod /\ h.obj \in PodType
    BY <1>1, <1>4 DEF Preprocess, CtlSet, HandedType
  <2>2. /\ \/ UNCHANGED job
           \/ Match(h.pod, h.obj) # "none" /\ job' = [job EXCEPT ![h.pod] = h.obj]
        /\ ctl' = [ctl EXCEPT !.handed = <<>>]
        /\ UNCHANGED <<api, node, events, thread, pools, pool, count>>
    BY <1>4 DEF Preprocess
  <2> HIDE DEF h
  <2>3. ctl' \in CtlSet
    BY <1>2, <2>2 DEF HandedType
  <2>4. /\ job' \in [Pod -> PodType]
        /\ \A p \in Pod : job'[p] = job[p] \/ job'[p] = NoPod \/ Match(p, job'[p]) # "none"
    BY <1>1, <2>1, <2>2 DEF TypeOK
  <2>5. thread[Watcher] \in ThreadType /\ ThreadOK(thread[Watcher]) /\ DOMAIN thread = Threads
    BY <1>1, ThreadFields DEF Sound
  <2>6. PoolsStay /\ \A a \in IP : InUse(a) => InUse(a)'
    BY <2>2 DEF PoolsStay, InUse
  <2>7. TypeOK'
    BY <1>1, <2>2, <2>3, <2>4 DEF TypeOK, CtlSet
  <2>8. \A i \in DOMAIN pool' : \A a \in pool'[i].usable : a[1] = pool'[i].cidr
    BY <1>1, <2>2 DEF Sound
  <2>9. ThreadOK(thread[Watcher])'
    BY ZenonT(60), ZenonT(90), <2>2, <2>5 DEF ThreadOK
  <2>10. Sound'
    BY ZenonT(60), ZenonT(90), <1>1, <2>2, <2>4, <2>6, <2>8, <2>9, SoundStep
  <2>11. Addresses'
    BY <2>2, <2>6, QuietStep DEF PodInv
  <2> QED BY <2>7, <2>10, <2>11 DEF PodInv
<1> QED BY <1>3, <1>4

LEMMA NotFoundStep ==
  ASSUME PodInv, NEW w \in Threads, NotFound(w) PROVE PodInv'
<1>1. /\ count' \in CountSet /\ ctl' \in CtlSet
      /\ job' \in [Pod -> PodType] /\ \A p \in Pod : job'[p] = job[p]
  BY DEF NotFound, PodInv, TypeOK, CountSet, CtlSet
<1> QED BY ZenonT(60), ZenonT(90), <1>1, IdleType, IdleOK, Quiet DEF NotFound

LEMMA RetryStep ==
  ASSUME PodInv, NEW w \in Threads, Retry(w) PROVE PodInv'
<1>1. TypeOK /\ Sound /\ ThreadOK(thread[w]) /\ thread[w].pc = "retry"
  BY DEF PodInv, Sound, Retry
<1>2. thread[w].pod \in Pod /\ thread[w].obj \in PodType /\ DOMAIN job = Pod
  BY <1>1, ThreadFields
<1>3. Match(thread[w].pod, thread[w].obj) # "none"
  BY <1>1 DEF ThreadOK
<1>4. job' = [job EXCEPT ![thread[w].pod] = thread[w].obj]
  BY DEF Retry
<1>5. /\ job' \in [Pod -> PodType]
      /\ \A q \in Pod : job'[q] = job[q] \/ job'[q] = NoPod \/ Match(q, job'[q]) # "none"
  BY <1>1, <1>2, <1>3, <1>4 DEF TypeOK
<1>6. count' \in CountSet /\ ctl' \in CtlSet
  BY <1>1 DEF TypeOK, Retry, CountSet, CtlSet
<1> QED BY ZenonT(60), ZenonT(90), <1>5, <1>6, IdleType, IdleOK, Quiet DEF Retry

LEMMA CallFailsStep ==
  ASSUME PodInv, NEW w \in Threads, CallFails(w) PROVE PodInv'
<1> DEFINE then == [thread[w] EXCEPT !.pc = "retry"]
<1>1. TypeOK /\ Sound /\ ThreadOK(thread[w]) /\ thread[w].pc = "call"
  BY DEF PodInv, Sound, CallFails
<1>2. thread[w] \in ThreadType
  BY <1>1, ThreadFields
<1>3. /\ then \in ThreadType /\ then.pc = "retry" /\ then.want = thread[w].want
      /\ then.pod = thread[w].pod /\ then.obj = thread[w].obj
  BY Zenon, ZenonT(60), <1>2 DEF ThreadType
<1>4. thread' = [thread EXCEPT ![w] = then]
  BY DEF CallFails
<1>5. count' \in CountSet
  BY <1>1, CountType DEF TypeOK, CountSet, CallFails
<1>6. UNCHANGED <<node, ctl, job, pools, pool>>
  BY DEF CallFails
<1>7. /\ job' \in [Pod -> PodType] /\ \A p \in Pod : job'[p] = job[p]
  BY <1>1, <1>6 DEF TypeOK
<1> HIDE DEF then
<1>8. ThreadOK(then) /\ Hand(then) = NoIP
  BY <1>1, <1>3 DEF ThreadOK, Hand
<1>9. CASE UNCHANGED <<api, events>>
  <2>1. ctl' \in CtlSet
    BY <1>1, <1>6 DEF TypeOK, CtlSet
  <2> QED BY ZenonT(60), ZenonT(90), <2>1, <1>3, <1>4, <1>5, <1>6, <1>7, <1>8, <1>9, Quiet
<1>10. CASE api[thread[w].pod].there /\ Write(thread[w].pod, Patched(thread[w]))
  BY Zenon, ZenonT(60), <1>1, <1>3, <1>4, <1>5, <1>6, <1>8, <1>10, CallWrite
<1> QED BY <1>9, <1>10 DEF CallFails

-----------------------------------------------------------------------------
(* Users.                                                                  *)
LEMMA UserStep ==
  ASSUME PodInv, NEW p \in Pod, DeletePod(p) \/ RemovePod(p) \/ \E n \in Node : CreatePod(p, n)
  PROVE  PodInv'
<1>1. TypeOK /\ api[p] \in PodType
  BY ZenonT(60), ZenonT(90) DEF PodInv, TypeOK
<1>2. count' \in CountSet
  BY ZenonT(60), ZenonT(90), <1>1, CountType DEF TypeOK, CountSet, DeletePod, RemovePod, CreatePod, Changed
<1>3. UNCHANGED <<node, ctl, job, thread, pools, pool>>
  BY ZenonT(60), ZenonT(90) DEF DeletePod, RemovePod, CreatePod
<1>4. PICK new \in PodType : /\ Write(p, new)
                             /\ new.ip = NoIP \/ (new.ip = api[p].ip /\ new.from = api[p].from)
  <2>1. CASE DeletePod(p)
    <3> DEFINE new == [api[p] EXCEPT !.leaving = TRUE]
    <3>1. new \in PodType /\ new.ip = api[p].ip /\ new.from = api[p].from
      BY ZenonT(60), ZenonT(90), <1>1 DEF PodType
    <3> QED BY Zenon, ZenonT(60), <2>1, <3>1 DEF DeletePod
  <2>2. CASE RemovePod(p)
    BY Zenon, ZenonT(60), <2>2, IdleType DEF RemovePod
  <2>3. CASE \E n \in Node : CreatePod(p, n)
    <3>1. PICK n \in Node, marked \in Marks : Write(p, [NoPod EXCEPT !.there = TRUE, !.node = n, !.marked = marked])
      BY <2>3 DEF CreatePod
    <3> DEFINE new == [NoPod EXCEPT !.there = TRUE, !.node = n, !.marked = marked]
    <3>2. marked \in BOOLEAN
      BY PodAssumption
    <3>3. new \in PodType /\ new.ip = NoIP
      BY Zenon, ZenonT(60), <3>2, IdleType DEF PodType
    <3> QED BY ZenonT(60), ZenonT(90), <3>1, <3>3
  <2> QED BY <2>1, <2>2, <2>3
<1> QED BY ZenonT(60), ZenonT(90), <1>2, <1>3, <1>4, UserWrite

-----------------------------------------------------------------------------
(* The pods that are listed: one event for each, none of a deleted pod.    *)
LEMMA ListFacts ==
  ASSUME TypeOK, NEW ps \in SUBSET Pod
  PROVE  ListPods(ps) \in Seq(EventType({"sync"}))
<1> DEFINE E == {Sent("sync", p, api[p]) : p \in ps}
           n == Cardinality(ps)
           listed(s) == {s[i].pod : i \in DOMAIN s} = ps
<1>1. IsFiniteSet(ps)
  BY PodAssumption, FS_Subset
<1>2. n \in Nat /\ ExistsBijection(1..n, ps)
  BY <1>1, FS_CardinalityType
<1>3. PICK f \in [1..n -> ps] : \A p \in ps : \E i \in 1..n : f[i] = p
  BY <1>2 DEF ExistsBijection, Bijection, Surjection
<1> DEFINE g == [i \in 1..n |-> Sent("sync", f[i], api[f[i]])]
<1>4. g \in [1..n -> E]
  BY <1>3
<1>5. listed(g)
  <2>1. DOMAIN g = 1..n /\ \A i \in 1..n : g[i].pod = f[i]
    BY DEF Sent
  <2> QED BY <1>3, <2>1
<1> HIDE DEF g, n
<1>6. \E s \in [1..n -> E] : listed(s)
  BY Zenon, ZenonT(60), <1>4, <1>5
<1>7. ListPods(ps) \in [1..n -> E]
  BY ZenonT(60), ZenonT(90), <1>6 DEF ListPods, n
<1>8. E \subseteq EventType({"sync"})
  BY DEF TypeOK, EventType, Sent
<1> QED BY <1>2, <1>7, <1>8, SeqDef

NodeSet == [api : BOOLEAN, cached : BOOLEAN, managed : BOOLEAN, lease : {"none", "wanted", "held"}]
EventSet == [watch : Seq(WatchEvent), sync : Seq(EventType({"sync"})),
             node : Seq([node : Node, there : BOOLEAN])]

(* Nodes: pods, jobs, goroutines and pools stay as they are.               *)
LEMMA NodeStep ==
  ASSUME PodInv, UNCHANGED <<api, job, thread, pools, pool>>, events'.watch = events.watch,
         node' \in [Node -> NodeSet], ctl' \in CtlSet, events' \in EventSet, count' \in CountSet
  PROVE  PodInv'
<1>1. TypeOK /\ Sound /\ Addresses
  BY DEF PodInv
<1>2. TypeOK'
  BY <1>1 DEF TypeOK, WatchEvent, CountSet, NodeSet, CtlSet, EventSet
<1>3. Sound'
  BY ZenonT(60), ZenonT(90), <1>1 DEF Sound, ThreadOK
<1>4. Addresses'
  <2>1. PoolsStay /\ \A a \in IP : InUse(a) => InUse(a)'
    BY Zenon, ZenonT(60) DEF PoolsStay, InUse
  <2> QED BY <1>1, <2>1, QuietStep
<1> QED BY <1>2, <1>3, <1>4 DEF PodInv

LEMMA NodesStep ==
  ASSUME PodInv,
         \/ HandleNode \/ StartNodes \/ StartPods
         \/ \E n \in Node : NodeCached(n) \/ LeaseHeld(n) \/ LeaseLost(n) \/ SyncPods(n) \/ ChangeNode(n)
  PROVE  PodInv'
<1>1. /\ TypeOK /\ node \in [Node -> NodeSet] /\ ctl \in CtlSet /\ events \in EventSet /\ count \in CountSet
  BY DEF PodInv, TypeOK, WatchEvent, CountSet, NodeSet, CtlSet, EventSet
<1>2. \A l \in Seq([node : Node, there : BOOLEAN]) :
        [events EXCEPT !.node = l] \in EventSet /\ [events EXCEPT !.node = l].watch = events.watch
  BY <1>1 DEF EventSet
<1>3. \A n \in Node, c \in NodeSet : [node EXCEPT ![n] = c] \in [Node -> NodeSet]
  BY <1>1
<1>4. \A n \in Node : \A b \in BOOLEAN, l \in {"none", "wanted", "held"} :
        /\ [node[n] EXCEPT !.cached = b] \in NodeSet /\ [node[n] EXCEPT !.api = b] \in NodeSet
        /\ [node[n] EXCEPT !.lease = l] \in NodeSet
        /\ [node[n] EXCEPT !.managed = b, !.lease = l] \in NodeSet
  BY ZenonT(60), ZenonT(90), <1>1 DEF NodeSet
<1>5. \A q \in SUBSET Node : [ctl EXCEPT !.queue = q] \in CtlSet
  BY <1>1 DEF CtlSet
<1>6. ctl.queue \in SUBSET Node
  BY <1>1 DEF CtlSet
<1>7. CASE HandleNode
  <2> DEFINE e == Head(events.node)
             q == IF e.there /\ ~UseLeases THEN ctl.queue \cup {e.node} ELSE ctl.queue
             l == IF e.there /\ UseLeases THEN "wanted" ELSE "none"
             c == [node[e.node] EXCEPT !.managed = e.there, !.lease = l]
  <2>1. /\ events.node # <<>> /\ events.node \in Seq([node : Node, there : BOOLEAN])
        /\ e.node \in Node /\ e.there \in BOOLEAN /\ Tail(events.node) \in Seq([node : Node, there : BOOLEAN])
    <3>1. events.node # <<>> /\ events.node \in Seq([node : Node, there : BOOLEAN])
      BY <1>1, <1>7 DEF HandleNode, EventSet
    <3>2. e \in [node : Node, there : BOOLEAN] /\ Tail(events.node) \in Seq([node : Node, there : BOOLEAN])
      <4>1. ASSUME NEW S, NEW v \in Seq(S), v # <<>> PROVE Head(v) \in S /\ Tail(v) \in Seq(S)
        BY <4>1
      <4> QED BY <3>1, <4>1, Zenon
    <3> QED BY <3>1, <3>2
  <2>2. /\ events' = [events EXCEPT !.node = Tail(events.node)] /\ ctl' = [ctl EXCEPT !.queue = q]
        /\ UNCHANGED <<api, job, thread, pools, pool, count>>
    BY <1>7 DEF HandleNode
  <2>3. node' = [node EXCEPT ![e.node] = c]
    <3> DEFINE x == e.node
    <3>1. node' = [node EXCEPT ![x].managed = e.there, ![x].lease = l]
      BY <1>7 DEF HandleNode
    <3>2. x \in Node /\ DOMAIN node = Node /\ DOMAIN node[x] = {"api", "cached", "managed", "lease"}
      BY <1>1, <2>1 DEF NodeSet
    <3> HIDE DEF x, l
    <3>3. node' = [node EXCEPT ![x] = [node[x] EXCEPT !.managed = e.there, !.lease = l]]
      BY Zenon, ZenonT(60), <3>1, <3>2
    <3> QED BY <3>3 DEF x
  <2>4. q \in SUBSET Node /\ l \in {"none", "wanted", "held"}
    BY <1>6, <2>1
  <2> HIDE DEF e, q, l
  <2>5. c \in NodeSet
    BY ZenonT(60), ZenonT(90), <1>4, <2>1, <2>4
  <2> HIDE DEF c
  <2>6. node' \in [Node -> NodeSet] /\ ctl' \in CtlSet
    BY Zenon, ZenonT(60), <1>3, <1>5, <2>1, <2>2, <2>3, <2>4, <2>5
  <2>7. events' \in EventSet /\ events'.watch = events.watch
    BY Zenon, ZenonT(60), <1>2, <2>1, <2>2
  <2> QED BY <1>1, <2>2, <2>6, <2>7, NodeStep
<1>8. CASE StartNodes \/ StartPods
  <2>1. ctl' \in CtlSet
    BY ZenonT(60), ZenonT(90), <1>1, <1>8, PodAssumption DEF CtlSet, StartNodes, StartPods
  <2> QED BY <1>1, <1>8, <2>1, NodeStep DEF StartNodes, StartPods
<1>9. ASSUME NEW n \in Node, NodeCached(n) PROVE PodInv'
  <2> DEFINE m == Append(events.node, [node |-> n, there |-> node[n].api])
  <2>1. /\ events' = [events EXCEPT !.node = m] /\ node' = [node EXCEPT ![n] = [node[n] EXCEPT !.cached = node[n].api]]
        /\ UNCHANGED <<api, ctl, job, thread, pools, pool, count>>
    BY <1>9 DEF NodeCached
  <2>2. node[n].api \in BOOLEAN
    BY <1>1 DEF NodeSet
  <2>3. m \in Seq([node : Node, there : BOOLEAN])
    BY <1>1, <2>2 DEF EventSet
  <2> HIDE DEF m
  <2>4. node' \in [Node -> NodeSet]
    BY ZenonT(60), ZenonT(90), <1>3, <1>4, <2>1, <2>2
  <2>5. events' \in EventSet /\ events'.watch = events.watch
    BY <1>2, <2>1, <2>3
  <2> QED BY <1>1, <2>1, <2>4, <2>5, NodeStep
<1>10. ASSUME NEW n \in Node, LeaseHeld(n) PROVE PodInv'
  <2>1. node' \in [Node -> NodeSet]
    BY ZenonT(60), ZenonT(90), <1>3, <1>4, <1>10 DEF LeaseHeld
  <2>2. ctl' \in CtlSet
    BY <1>5, <1>6, <1>10 DEF LeaseHeld
  <2> QED BY <1>1, <1>10, <2>1, <2>2, NodeStep DEF LeaseHeld
<1>11. ASSUME NEW n \in Node, LeaseLost(n) PROVE PodInv'
  <2>1. node' \in [Node -> NodeSet] /\ count' \in CountSet
    BY ZenonT(60), ZenonT(90), <1>1, <1>3, <1>4, <1>11, CountType DEF LeaseLost
  <2> QED BY <1>1, <1>11, <2>1, NodeStep DEF LeaseLost
<1>12. ASSUME NEW n \in Node, SyncPods(n) PROVE PodInv'
  <2> DEFINE l == ListPods({p \in Pod : api[p].there /\ api[p].node = n})
  <2>1. l \in Seq(EventType({"sync"}))
    BY <1>1, ListFacts
  <2>2. events' = [events EXCEPT !.sync = l] /\ ctl' = [ctl EXCEPT !.queue = ctl.queue \ {n}]
        /\ UNCHANGED <<api, node, job, thread, pools, pool, count>>
    BY <1>12 DEF SyncPods
  <2> HIDE DEF l
  <2>3. events' \in EventSet /\ events'.watch = events.watch
    BY <1>1, <2>1, <2>2 DEF EventSet
  <2>4. ctl' \in CtlSet
    BY <1>5, <1>6, <2>2
  <2> QED BY <1>1, <2>2, <2>3, <2>4, NodeStep
<1>13. ASSUME NEW n \in Node, ChangeNode(n) PROVE PodInv'
  <2> DEFINE b == ~node[n].api
  <2>1. b \in BOOLEAN
    OBVIOUS
  <2>2. node' = [node EXCEPT ![n] = [node[n] EXCEPT !.api = b]]
    BY <1>13 DEF ChangeNode
  <2> HIDE DEF b
  <2>3. node' \in [Node -> NodeSet]
    BY ZenonT(60), ZenonT(90), <1>3, <1>4, <2>1, <2>2
  <2>4. count' \in CountSet
    BY <1>1, <1>13, CountType DEF ChangeNode, Changed
  <2> QED BY <1>1, <1>13, <2>3, <2>4, NodeStep DEF ChangeNode
<1> QED BY <1>7, <1>8, <1>9, <1>10, <1>11, <1>12, <1>13

(* A new process: addresses on their way and in hand are forgotten, and    *)
(* the pools are made again.                                               *)
LEMMA RestartStep ==
  ASSUME PodInv, Restart PROVE PodInv'
<1> DEFINE l == ListPods({p \in Pod : api[p].there})
<1>1. TypeOK /\ Sound /\ Addresses
  BY DEF PodInv
<1>2. l \in Seq(EventType({"sync"}))
  BY <1>1, ListFacts
<1>3. /\ events' = [watch |-> l, sync |-> <<>>, node |-> <<>>] /\ UNCHANGED <<api, pool>>
      /\ job' = [p \in Pod |-> NoPod] /\ thread' = [t \in Threads |-> Idle]
      /\ pools' = [c \in CIDR |-> 0]
      /\ node' = [n \in Node |-> NewNode(node[n].api)] /\ ctl' = NotStarted
  BY DEF Restart, Begin
<1>4. count' \in CountSet
  BY <1>1, CountType DEF Restart, TypeOK, CountSet
<1> HIDE DEF l
<1>5. TypeOK'
  <2>1. l \in Seq(WatchEvent)
    BY <1>1, <1>2, EventFields, LenProperties, ElementOfSeq, SeqDef
  <2>2. events' \in EventSet
    BY <1>3, <2>1 DEF EventSet
  <2>3. node' \in [Node -> NodeSet]
    BY <1>1, <1>3 DEF TypeOK, NodeSet, NewNode
  <2>4. ctl' \in CtlSet
    BY <1>3 DEF CtlSet, NotStarted, HandedType
  <2>5. job' \in [Pod -> PodType] /\ thread' \in [Threads -> ThreadType]
    BY ZenonT(60), ZenonT(90), <1>3, IdleType
  <2>6. /\ pool' \in Seq(PoolType) /\ Len(pool') <= MaxPools /\ Len(pool') \in Nat
        /\ api' \in [Pod -> PodType]
    BY <1>1, <1>3, LenProperties DEF TypeOK
  <2>7. pools' \in [CIDR -> 0..Len(pool')] /\ \A c \in CIDR : pools'[c] = 0
    BY <1>3, <2>6
  <2> QED BY <1>4, <2>2, <2>3, <2>4, <2>5, <2>6, <2>7
          DEF TypeOK, EventSet, WatchEvent, NodeSet, CtlSet, CountSet
<1>6. Sound'
  <2>1. \A t \in Threads : ThreadOK(thread[t])'
    BY ZenonT(60), ZenonT(90), <1>3, IdleType DEF ThreadOK
  <2>2. \A p \in Pod : job'[p] = NoPod
    BY <1>3
  <2> QED BY <1>1, <1>3, <2>1, <2>2 DEF Sound
<1>7. Pods' = Pods /\ (\A a : MadeOnce(a)' => MadeOnce(a)) /\ \A a : InUse(a) => InUse(a)'
  BY <1>3 DEF Pods, MadeOnce, InUse
<1>8. \A k \in DOMAIN Leaving' : Leaving'[k] = NoIP
  <2>1. \A k \in DOMAIN l : l[k].type = "sync"
    BY <1>1, <1>2, EventFields, LenProperties, ElementOfSeq
  <2> QED BY <1>3, <2>1 DEF Leaving, Lost
<1>9. \A t \in DOMAIN Hands' : Hands'[t] = NoIP
  BY ZenonT(60), ZenonT(90), <1>3, IdleType DEF Hands
<1>10. Addresses'
  <2> SUFFICES ASSUME NEW a \in IP, MadeOnce(a[1])'
               PROVE  /\ Alone(Pods, Leaving, Hands, a)'
                      /\ Owned(Pods, Leaving, Hands, a)' => InUse(a)'
    BY DEF Addresses
  <2>1. MadeOnce(a[1]) /\ a # NoIP
    BY <1>7, AddressShape
  <2>2. Alone(Pods, Leaving, Hands, a) /\ (Owned(Pods, Leaving, Hands, a) => InUse(a))
    BY <1>1, <2>1 DEF Addresses
  <2>3. /\ Alone(Pods', Leaving', Hands', a)
        /\ Owned(Pods', Leaving', Hands', a) => Owned(Pods, Leaving, Hands, a)
    <3> DEFINE P == Pods  L == Leaving  H == Hands  Q == Pods'  M == Leaving'  G == Hands'
    <3>1. /\ a # NoIP /\ Q = P /\ Alone(P, L, H, a)
          /\ \A k \in DOMAIN M : M[k] = NoIP
          /\ \A s \in DOMAIN G : G[s] = NoIP
      BY <1>7, <1>8, <1>9, <2>1, <2>2
    <3> HIDE DEF P, L, H, Q, M, G
    <3>2. Alone(Q, M, G, a)
      BY <3>1 DEF Alone
    <3>3. Owned(Q, M, G, a) => Owned(P, L, H, a)
      BY <3>1 DEF Owned
    <3> QED BY <3>2, <3>3 DEF P, L, H, Q, M, G
  <2> QED BY ZenonT(60), <1>7, <2>2, <2>3
<1> QED BY <1>5, <1>6, <1>10 DEF PodInv

LEMMA InitInv == Init => PodInv
<1> SUFFICES ASSUME Init PROVE PodInv
  OBVIOUS
<1>1. /\ api = [p \in Pod |-> NoPod] /\ node = [n \in Node |-> NewNode(TRUE)]
      /\ ctl = NotStarted /\ events = [watch |-> <<>>, sync |-> <<>>, node |-> <<>>]
      /\ job = [p \in Pod |-> NoPod] /\ thread = [t \in Threads |-> Idle]
      /\ pools = [c \in CIDR |-> 0] /\ pool = <<>>
      /\ count = [user |-> 0, faults |-> 0, restarts |-> 0, failed |-> FALSE]
  BY DEF Init, Begin
<1>2. TypeOK
  <2>1. /\ pool \in Seq(PoolType) /\ Len(pool) = 0 /\ Len(pool) <= MaxPools
        /\ pools \in [CIDR -> 0..Len(pool)] /\ \A c \in CIDR : pools[c] = 0
    BY <1>1, PodAssumption
  <2>2. node \in [Node -> NodeSet]
    BY <1>1 DEF NodeSet, NewNode
  <2>3. ctl \in CtlSet
    BY <1>1 DEF CtlSet, NotStarted, HandedType
  <2>4. events \in EventSet
    BY <1>1 DEF EventSet
  <2>5. api \in [Pod -> PodType] /\ job \in [Pod -> PodType] /\ thread \in [Threads -> ThreadType]
    BY ZenonT(60), ZenonT(90), <1>1, IdleType
  <2>6. count \in CountSet
    BY <1>1 DEF CountSet
  <2> QED BY <2>1, <2>2, <2>3, <2>4, <2>5, <2>6
          DEF TypeOK, EventSet, WatchEvent, NodeSet, CtlSet, CountSet
<1>3. Sound
  <2>1. \A t \in Threads : ThreadOK(thread[t])
    BY <1>1, IdleOK
  <2>2. \A p \in Pod : job[p] = NoPod /\ api[p].ip = NoIP
    BY ZenonT(60), ZenonT(90), <1>1, IdleType
  <2>3. DOMAIN pool = {}
    BY <1>1
  <2> QED BY ZenonT(60), ZenonT(90), <2>1, <2>2, <2>3 DEF Sound
<1>4. Addresses
  <2>1. \A p \in DOMAIN Pods : Pods[p] = NoIP
    BY ZenonT(60), ZenonT(90), <1>1, IdleType DEF Pods
  <2>2. DOMAIN Leaving = {}
    BY <1>1 DEF Leaving
  <2>3. \A t \in DOMAIN Hands : Hands[t] = NoIP
    BY ZenonT(60), ZenonT(90), <1>1, IdleType DEF Hands
  <2>4. \A a \in IP : a # NoIP
    BY AddressShape
  <2> QED BY <2>1, <2>2, <2>3, <2>4 DEF Addresses, Alone, Owned
<1> QED BY <1>2, <1>3, <1>4 DEF PodInv

LEMMA PodNext ==
  ASSUME PodInv, [Next]_vars PROVE PodInv'
<1>1. ASSUME NEW t \in Threads, Thread(t) PROVE PodInv'
  BY <1>1, LookupStep, MakeStep, GetStep, MarkStep, RecycleStep DEF Thread
<1>2. ASSUME NEW w \in Worker, Play(w) PROVE PodInv'
  <2>1. w \in Threads
    BY DEF Threads
  <2> QED BY <1>1, <1>2, <2>1, CallStep, NotFoundStep, RetryStep, TakeStep DEF Play
<1>3. ASSUME Watch PROVE PodInv'
  <2>1. Watcher \in Threads
    BY DEF Threads
  <2> QED BY <1>1, <1>3, <2>1, HandleStep, HandedStep DEF Watch
<1>4. ASSUME System PROVE PodInv'
  BY <1>2, <1>3, <1>4, NodesStep DEF System, Nodes
<1>5. ASSUME User PROVE PodInv'
  BY <1>5, UserStep, NodesStep DEF User
<1>6. ASSUME Faults PROVE PodInv'
  <2>1. ASSUME NEW w \in Worker, CallFails(w) PROVE PodInv'
    <3>1. w \in Threads
      BY DEF Threads
    <3> QED BY <2>1, <3>1, CallFailsStep
  <2> QED BY <1>6, <2>1, RestartStep, NodesStep DEF Faults
<1>7. ASSUME UNCHANGED vars PROVE PodInv'
  <2>1. TypeOK /\ events \in EventSet /\ node \in [Node -> NodeSet] /\ ctl \in CtlSet /\ count \in CountSet
    BY DEF PodInv, TypeOK, EventSet, WatchEvent, NodeSet, CtlSet, CountSet
  <2> QED BY <1>7, <2>1, NodeStep DEF vars
<1> QED BY <1>4, <1>5, <1>6, <1>7 DEF Next

LEMMA PodInvHolds == Spec => []PodInv
  BY InitInv, PodNext, PTL DEF Spec

(***************************************************************************)
(* Every variable keeps its type, and ipPools maps a CIDR to a pool of its *)
(* own addresses, whatever goroutines store over each other.               *)
(***************************************************************************)
THEOREM TypeCorrect == Spec => []TypeOK
<1>1. PodInv => TypeOK
  BY DEF PodInv
<1> QED BY <1>1, PodInvHolds, PTL

(***************************************************************************)
(* Two pods never have the same address of a pool that was made once, and  *)
(* that address is in use and not to be given again: PodController gives,  *)
(* marks and recycles addresses correctly whatever is retried, repeated,   *)
(* deleted and created again under the same name, as long as no two        *)
(* goroutines and no two processes made a pool for the CIDR.               *)
(***************************************************************************)
THEOREM AddressesUnique == Spec => []NoSharedIP
<1>1. ASSUME PodInv PROVE NoSharedIP
  <2>1. TypeOK /\ Sound /\ Addresses
    BY <1>1 DEF PodInv
  <2>2. \A p \in Pod : api[p].ip # NoIP => api[p].ip \in IP
    BY <2>1 DEF TypeOK, PodType
  <2>3. \A p \in Pod : p \in DOMAIN Pods /\ Pods[p] = api[p].ip
    BY DEF Pods
  <2>4. ASSUME NEW p \in Pod, NEW q \in Pod, p # q, api[p].ip # NoIP, api[p].ip = api[q].ip,
               MadeOnce(api[p].ip[1])
        PROVE  FALSE
    <3>1. Alone(Pods, Leaving, Hands, api[p].ip)
      BY ZenonT(60), ZenonT(90), <2>1, <2>2, <2>4 DEF Addresses
    <3> QED BY ZenonT(60), ZenonT(90), <2>3, <2>4, <3>1 DEF Alone
  <2>5. ASSUME NEW p \in Pod, api[p].ip # NoIP, MadeOnce(api[p].ip[1])
        PROVE  api[p].ip \in pool[api[p].from].used \ pool[api[p].from].usable
    <3>1. Owned(Pods, Leaving, Hands, api[p].ip)
      BY <2>3 DEF Owned
    <3>2. InUse(api[p].ip)
      BY ZenonT(60), <2>1, <2>2, <2>5, <3>1 DEF Addresses
    <3>3. api[p].from \in DOMAIN pool /\ pool[api[p].from].cidr = api[p].ip[1]
      BY <2>1, <2>5 DEF Sound
    <3> QED BY <2>5, <3>2, <3>3 DEF InUse, MadeOnce
  <2> QED BY <2>4, <2>5 DEF NoSharedIP
<1> QED BY <1>1, PodInvHolds, PTL
=============================================================================
