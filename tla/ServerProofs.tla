----------------------------- MODULE ServerProofs -----------------------------
(***************************************************************************)
(* Proofs that a kwok process has one source for every kind of rule and    *)
(* that an endpoint uses the target that is meant for the container, for   *)
(* every set of endpoints, containers, rules, flags and configurations.    *)
(***************************************************************************)
EXTENDS Server, TLAPS, WellFoundedInduction, NaturalsInduction, SequenceTheorems

(* The provers that try a step whose proof names none, in this order.      *)
USE SMTT(10), ZenonT(30), SMTT(60)

-----------------------------------------------------------------------------
(* The least of some numbers.                                              *)
LEMMA MinLeast ==
  ASSUME NEW S \in SUBSET Nat, S # {}
  PROVE  Min(S) \in S /\ \A y \in S : Min(S) <= y
<1>1. PICK x \in S : \A y \in S : <<y, x>> \notin OpToRel(<, Nat)
  BY Zenon, NatLessThanWellFounded, WFMin
<1>2. ASSUME NEW y \in S PROVE x <= y
  <2>1. x \in Nat /\ y \in Nat
    OBVIOUS
  <2>2. ~(<<y, x>> \in Nat \X Nat /\ <<y, x>>[1] < <<y, x>>[2])
    BY <1>1 DEF OpToRel
  <2>3. ~(y < x)
    BY <2>1, <2>2
  <2> QED BY <2>1, <2>3
<1> QED BY Zenon, <1>2 DEF Min

(* A target of a rule covers a container that it names, or that none names.*)
Covers(c, ts) == \E i \in DOMAIN ts : c \in ts[i].names \/ ts[i].names = {}

Right(c, ts, t) ==
    \E i \in DOMAIN ts :
      /\ ts[i] = t
      /\ \/ c \in t.names /\ \A h \in 1..(i - 1) : c \notin ts[h].names
         \/ /\ t.names = {}
            /\ \A h \in DOMAIN ts : c \notin ts[h].names
            /\ \A h \in 1..(i - 1) : ts[h].names # {}

(* Find gives the target that is meant for the container, and 0 when no    *)
(* target covers it.                                                       *)
LEMMA FindRight ==
  ASSUME NEW c, NEW ts \in Seq(Target)
  PROVE  /\ ~Covers(c, ts) => Find(c, ts) = 0
         /\ Covers(c, ts) => /\ Find(c, ts) # 0
                             /\ Find(c, ts) \in DOMAIN ts
                             /\ Right(c, ts, ts[Find(c, ts)])
<1> DEFINE named == {i \in DOMAIN ts : c \in ts[i].names}
           all == {i \in DOMAIN ts : ts[i].names = {}}
<1>1. DOMAIN ts = 1..Len(ts) /\ Len(ts) \in Nat
  BY LenProperties
<1>2. named \in SUBSET Nat /\ all \in SUBSET Nat
  BY <1>1
<1>3. Find(c, ts) = CASE named # {} -> Min(named)
                      [] named = {} /\ all # {} -> Min(all)
                      [] OTHER -> 0
  BY DEF Find
<1>4. Covers(c, ts) <=> named # {} \/ all # {}
  BY DEF Covers
<1>5. CASE named # {}
  <2>1. Find(c, ts) = Min(named)
    BY <1>3, <1>5
  <2>2. Min(named) \in named /\ \A y \in named : Min(named) <= y
    BY Zenon, <1>2, <1>5, MinLeast
  <2> DEFINE m == Min(named)
  <2> HIDE DEF m
  <2>3. m \in named /\ \A y \in named : m <= y
    BY <2>2 DEF m
  <2>4. ASSUME NEW h \in 1..(m - 1) PROVE c \notin ts[h].names
    BY <1>1, <2>3
  <2>5. Right(c, ts, ts[m])
    BY <2>3, <2>4 DEF Right
  <2> QED BY <1>1, <1>4, <1>5, <2>1, <2>3, <2>5 DEF m
<1>6. CASE named = {} /\ all # {}
  <2>1. Find(c, ts) = Min(all)
    BY <1>3, <1>6
  <2>2. Min(all) \in all /\ \A y \in all : Min(all) <= y
    BY Zenon, <1>2, <1>6, MinLeast
  <2> DEFINE m == Min(all)
  <2> HIDE DEF m
  <2>3. m \in all /\ \A y \in all : m <= y
    BY Zenon, <2>2 DEF m
  <2>4. ASSUME NEW h \in 1..(m - 1) PROVE ts[h].names # {}
    BY <1>1, <2>3
  <2>5. Right(c, ts, ts[m])
    BY Zenon, <1>6, <2>3, <2>4 DEF Right
  <2> QED BY <1>1, <1>4, <1>6, <2>1, <2>3, <2>5 DEF m
<1>7. CASE named = {} /\ all = {}
  <2>1. Find(c, ts) = 0
    BY <1>3, <1>7
  <2> QED BY <2>1, <1>4, <1>7
<1> QED BY <1>5, <1>6, <1>7

-----------------------------------------------------------------------------
(* Whatever the endpoint, the answer is what Lookup finds with Find.       *)
Found(own, cluster, c) == Use(Lookup(Find, own, cluster, c))

LEMMA HandleIs ==
  ASSUME NEW e \in {"exec", "attach", "logs", "portForward", "usage"},
         NEW own, NEW cluster, NEW c
  PROVE  Handle(e, own, cluster, c) = Found(own, cluster, c)
BY DEF Found, Handle, ExecInContainer, GetContainerLogs, AttachContainer, PortForward,
       evaluateContainerResourceUsage, getExecTarget, getPodLogs, getPodAttach,
       getPodsForward, getResourceUsage, Lookup, findContainerInExecs, findLogInLogs,
       findAttachInAttaches, findPortInForwards, findUsageInUsages

(* The answer with the rules own and cluster: what RightTarget says of it. *)
RightAnswer(a, own, cluster, c) ==
    CASE own # NoRule /\ Covers(c, own)  -> a.target # <<>> /\ Right(c, own, a.target[1])
      [] own # NoRule /\ ~Covers(c, own) -> a.result = "error"
      [] own = NoRule ->
           IF \A j \in DOMAIN cluster : ~cluster[j].selects \/ ~Covers(c, cluster[j].targets)
             THEN a.result = "error"
             ELSE \E j \in DOMAIN cluster :
                    /\ cluster[j].selects /\ Covers(c, cluster[j].targets)
                    /\ \A h \in 1..(j - 1) : ~cluster[h].selects \/ ~Covers(c, cluster[h].targets)
                    /\ a.target # <<>> /\ Right(c, cluster[j].targets, a.target[1])

LEMMA UseFound ==
  ASSUME NEW t
  PROVE  Use(<<t>>).target # <<>> /\ Use(<<t>>).target[1] = t /\ Use(NotFound).result = "error"
BY DEF Use, NotFound

LEMMA LookupRight ==
  ASSUME NEW own \in OwnRule, NEW cluster \in Seq(ManyRule), NEW c
  PROVE  RightAnswer(Found(own, cluster, c), own, cluster, c)
<1> USE DEF Found
<1>1. CASE own # NoRule
  <2>1. own \in Seq(Target)
    BY <1>1 DEF OwnRule
  <2>2. CASE Covers(c, own)
    <3>1. Lookup(Find, own, cluster, c) = <<own[Find(c, own)]>>
      BY <1>1, <2>1, <2>2, FindRight DEF Lookup
    <3>2. Right(c, own, own[Find(c, own)])
      BY <2>1, <2>2, FindRight
    <3> QED BY <1>1, <2>2, <3>1, <3>2, UseFound DEF RightAnswer
  <2>3. CASE ~Covers(c, own)
    <3>1. Lookup(Find, own, cluster, c) = NotFound
      BY <1>1, <2>1, <2>3, FindRight DEF Lookup
    <3> QED BY Zenon, <1>1, <2>3, <3>1, UseFound DEF RightAnswer
  <2> QED BY <2>2, <2>3
<1>2. CASE own = NoRule
  <2> DEFINE has == {j \in DOMAIN cluster :
                       cluster[j].selects /\ Find(c, cluster[j].targets) # 0}
             at == Min(has)
  <2>1. DOMAIN cluster = 1..Len(cluster) /\ Len(cluster) \in Nat
    BY LenProperties
  <2>2. ASSUME NEW j \in DOMAIN cluster PROVE cluster[j].targets \in Seq(Target)
    <3>1. cluster[j] \in ManyRule
      BY <2>1, ElementOfSeq
    <3> QED BY <3>1 DEF ManyRule
  <2>3. ASSUME NEW j \in DOMAIN cluster
        PROVE  j \in has <=> cluster[j].selects /\ Covers(c, cluster[j].targets)
    BY <2>2, FindRight
  <2>4. Lookup(Find, own, cluster, c)
          = IF has = {} THEN NotFound
            ELSE <<cluster[at].targets[Find(c, cluster[at].targets)]>>
    BY <1>2 DEF Lookup
  <2>5. CASE has = {}
    <3>1. Lookup(Find, own, cluster, c) = NotFound
      BY <2>4, <2>5
    <3>2. \A j \in DOMAIN cluster : ~cluster[j].selects \/ ~Covers(c, cluster[j].targets)
      BY <2>3, <2>5
    <3> QED BY Zenon, <1>2, <3>1, <3>2, UseFound DEF RightAnswer
  <2>6. CASE has # {}
    <3>1. at \in has /\ \A y \in has : at <= y
      <4>1. has \in SUBSET Nat
        BY <2>1
      <4> HIDE DEF has
      <4> QED BY <4>1, <2>6, MinLeast
    <3>2. Lookup(Find, own, cluster, c) = <<cluster[at].targets[Find(c, cluster[at].targets)]>>
      BY <2>4, <2>6
    <3>3. at \in DOMAIN cluster /\ cluster[at].selects /\ Covers(c, cluster[at].targets)
      BY <2>3, <3>1
    <3>4. Right(c, cluster[at].targets, cluster[at].targets[Find(c, cluster[at].targets)])
      BY <2>2, <3>3, FindRight
    <3> HIDE DEF at
    <3>5. ASSUME NEW h \in 1..(at - 1)
          PROVE  ~cluster[h].selects \/ ~Covers(c, cluster[h].targets)
      <4>1. h \in DOMAIN cluster /\ h \notin has
        BY <2>1, <3>1, <3>3
      <4> QED BY <4>1, <2>3
    <3>6. ~\A j \in DOMAIN cluster : ~cluster[j].selects \/ ~Covers(c, cluster[j].targets)
      BY <3>3
    <3> QED BY <1>2, <3>2, <3>3, <3>4, <3>5, <3>6, UseFound DEF RightAnswer
  <2> QED BY Zenon, <2>5, <2>6
<1> QED BY <1>1, <1>2

-----------------------------------------------------------------------------
(* How far a process has come.                                             *)
Checked == {"ready", "controllers", "rules", "headless", "install", "crds", "metrics",
            "listen", "serving"}
Agreed == {"install", "crds", "metrics", "listen", "serving"}
HasGetters == {"crds", "metrics", "listen", "serving"}

ProcessType ==
    [pc : {"flags", "stages", "refused", "failed"} \cup Checked,
     crds : SUBSET (RuleKind \cup {StageKind}), configured : SUBSET UNION ConfiguredKinds,
     stages : SUBSET {"node", "pod", "other"}, address : BOOLEAN, debugging : BOOLEAN,
     simulating : BOOLEAN]

ServerType ==
    /\ process \in ProcessType
    /\ DOMAIN rules = RuleKind /\ \A k \in RuleKind : rules[k] \in RuleType(k)
    /\ DOMAIN seen = RuleKind /\ \A k \in RuleKind : seen[k] \in RuleType(k)

(* The checks of runE and startServer, as far as they are done.            *)
StagesKnown == \/ {"node", "pod"} \subseteq process.stages
               \/ StageKind \in process.crds \ process.configured

StartInv ==
    /\ process.pc \in {"flags", "stages"} => ~process.simulating
    /\ process.pc = "refused" => process.crds \cap process.configured # {}
    /\ process.simulating \/ process.pc \in {"ready", "controllers"} => StagesKnown
    /\ process.pc \in Checked => StageKind \notin process.crds \cap process.configured
    /\ process.pc \in Agreed => process.crds \cap process.configured = {}
    /\ process.pc \in HasGetters =>
         \A k \in process.configured \cap RuleKind : \E objects \in Configured : seen[k] = objects[k]

(* The kinds of rules are told apart by their type.                        *)
LEMMA KindTypes ==
  ASSUME Shapes
  PROVE  /\ MetricKind \in RuleKind /\ RuleType(MetricKind) = Seq(Metric)
         /\ MetricKind # StageKind /\ StageKind \notin RuleKind
         /\ \A e \in Endpoint : /\ OwnKind(e) \in RuleKind /\ RuleType(OwnKind(e)) = OwnRule
                                /\ ClusterKind(e) \in RuleKind /\ RuleType(ClusterKind(e)) = Seq(ManyRule)
                                /\ OwnKind(e) # MetricKind /\ ClusterKind(e) # MetricKind
<1>1. \A e \in Endpoint : /\ <<e, "own">> # <<"metric", "cluster">> /\ <<e, "cluster">> # <<"metric", "cluster">>
                          /\ <<e, "own">> # <<"stage", "cluster">> /\ <<e, "cluster">> # <<"stage", "cluster">>
                          /\ \A f \in Endpoint : <<e, "cluster">> # <<f, "own">>
  BY DEF Shapes
<1> QED BY <1>1 DEF RuleKind, RuleType, MetricKind, StageKind, OwnKind, ClusterKind

LEMMA NoRulesType ==
  ASSUME Shapes, NEW k \in RuleKind
  PROVE  NoRules(k) \in RuleType(k)
<1>1. <<>> \in Seq(Metric) /\ <<>> \in Seq(ManyRule) /\ NoRule \in OwnRule
  BY DEF OwnRule
<1>2. MetricKind \notin {OwnKind(e) : e \in Endpoint}
  BY KindTypes
<1> QED BY Zenon, <1>1, <1>2 DEF NoRules, RuleType

LEMMA TypeInit ==
  ASSUME Shapes, Init
  PROVE  ServerType
<1>1. process \in ProcessType
  BY DEF Init, ProcessType
<1> QED BY <1>1, NoRulesType DEF Init, ServerType

(* A listing of the store of a getter is of the type of its kind.          *)
LEMMA ListingType ==
  ASSUME Shapes, ServerType, NEW k \in RuleKind, NEW listing \in Listings(k)
  PROVE  listing \in RuleType(k)
<1>1. rules[k] \in RuleType(k)
  BY DEF ServerType
<1>2. CASE k \in {OwnKind(e) : e \in Endpoint}
  BY <1>1, <1>2 DEF Listings
<1>3. CASE k \notin {OwnKind(e) : e \in Endpoint}
  <2>1. PICK R : RuleType(k) = Seq(R)
    BY <1>3 DEF RuleType
  <2>2. rules[k] \in Seq(R)
    BY <1>1, <2>1
  <2> DEFINE l == rules[k]
  <2>3. PICK p \in Bijection(DOMAIN l, DOMAIN l) : listing = [i \in DOMAIN l |-> l[p[i]]]
    BY <1>3 DEF Listings
  <2>4. p \in [DOMAIN l -> DOMAIN l]
    BY <2>3 DEF Bijection, Injection
  <2> HIDE DEF l
  <2>5. l \in Seq(R)
    BY <2>2 DEF l
  <2>6. DOMAIN l = 1..Len(l) /\ Len(l) \in Nat /\ \A i \in 1..Len(l) : l[i] \in R
    BY <2>5, LenProperties, ElementOfSeq
  <2>7. listing \in [1..Len(l) -> R]
    BY <2>3, <2>4, <2>6
  <2>8. listing \in Seq(R)
    BY <2>6, <2>7, SeqDef
  <2> QED BY <2>1, <2>8
<1> QED BY <1>2, <1>3

LEMMA TypeNext ==
  ASSUME Shapes, ServerType, [Next]_vars
  PROVE  ServerType'
<1> USE DEF ServerType
<1>1. CASE UNCHANGED vars
  BY <1>1 DEF vars, RuleType
<1>2. ASSUME NEW pc \in {"failed", "refused"} \cup Checked, Advance(pc)
      PROVE  process' \in ProcessType
  BY <1>2 DEF Advance, ProcessType
<1>3. CASE Flags
  <2>1. PICK crds \in EnableCRDs, configured \in ConfiguredKinds,
             stages \in SUBSET {"node", "pod", "other"}, address, debugging \in BOOLEAN :
          /\ StageKind \in configured <=> stages # {}
          /\ process' = [process EXCEPT !.pc = "stages", !.crds = crds, !.configured = configured,
                                        !.address = address, !.debugging = debugging,
                                        !.stages = stages]
    BY Zenon, <1>3 DEF Flags
  <2>2. crds \in SUBSET (RuleKind \cup {StageKind}) /\ configured \in SUBSET UNION ConfiguredKinds
    BY DEF Shapes
  <2>3. process' \in ProcessType
    BY Zenon, <2>1, <2>2 DEF ProcessType
  <2> QED BY <1>3, <2>3 DEF Flags
<1>4. CASE CheckStages
  <2>1. DefaultStages(process) \subseteq {"node", "pod"}
    BY DEF DefaultStages
  <2>2. process' \in ProcessType
    BY Zenon, <1>4, <2>1 DEF CheckStages, ProcessType, Checked
  <2> QED BY <1>4, <2>2 DEF CheckStages
<1>5. CASE waitForReady
  BY <1>2, <1>5 DEF waitForReady, Checked
<1>6. CASE StartControllers
  <2>1. PICK p \in {"failed", "rules", "headless"} :
          \/ process' = [process EXCEPT !.pc = p]
          \/ process' = [process EXCEPT !.pc = p, !.simulating = TRUE]
    BY Zenon, <1>6 DEF StartControllers
  <2>2. p \in {"flags", "stages", "refused", "failed"} \cup Checked
    BY DEF Checked
  <2>3. process' \in ProcessType
    BY ZenonT(60), <2>1, <2>2 DEF ProcessType
  <2> QED BY <1>6, <2>3 DEF StartControllers
<1>7. CASE CheckRules
  BY <1>2, <1>7 DEF CheckRules, Checked
<1>8. CASE NewServer
  <2>1. process' \in ProcessType
    BY <1>2, <1>8 DEF NewServer, Checked
  <2>2. DOMAIN seen' = RuleKind /\ \A k \in RuleKind : seen'[k] \in RuleType(k)
    BY <1>8, NoRulesType DEF NewServer, Shapes
  <2> QED BY <1>8, <2>1, <2>2 DEF NewServer
<1>9. CASE InstallCRD
  <2>1. process' \in ProcessType
    BY <1>2, <1>9 DEF InstallCRD, Checked
  <2>2. DOMAIN seen' = RuleKind /\ \A k \in RuleKind : seen'[k] \in RuleType(k)
    BY <1>9, NoRulesType DEF InstallCRD, initWatchCRD
  <2> QED BY <1>9, <2>1, <2>2 DEF InstallCRD
<1>10. CASE InstallMetrics
  BY <1>2, <1>10 DEF InstallMetrics, Checked
<1>11. CASE Run
  BY <1>2, <1>11 DEF Run, Checked
<1>12. CASE dynamicMetricsPath \/ Ask \/ Answer \/ Forget
  BY Zenon, <1>12 DEF dynamicMetricsPath, Ask, Answer, Forget
<1>13. CASE ChangeRules
  <2>1. PICK k \in RuleKind : \E v \in Values(k) : rules' = [rules EXCEPT ![k] = v]
    BY Zenon, <1>13 DEF ChangeRules
  <2>2. DOMAIN rules' = RuleKind /\ \A j \in RuleKind : rules'[j] \in RuleType(j)
    BY <2>1 DEF Shapes
  <2> QED BY <1>13, <2>2 DEF ChangeRules
<1>14. CASE Sync
  <2>1. PICK k \in process.crds \cap RuleKind :
          \E listing \in Listings(k) : seen' = [seen EXCEPT ![k] = listing]
    BY ZenonT(60), <1>14 DEF Sync
  <2>2. DOMAIN seen' = RuleKind /\ \A j \in RuleKind : seen'[j] \in RuleType(j)
    BY <2>1, ListingType
  <2> QED BY <1>14, <2>2 DEF Sync
<1> QED BY <1>1, <1>3, <1>4, <1>5, <1>6, <1>7, <1>8, <1>9, <1>10, <1>11, <1>12, <1>13, <1>14
        DEF Next

-----------------------------------------------------------------------------
(* The checks hold once they are done.                                     *)
LEMMA StartNext ==
  ASSUME Shapes, ServerType, StartInv, [Next]_vars
  PROVE  StartInv'
<1>0. process \in ProcessType /\ DOMAIN seen = RuleKind
  BY DEF ServerType
<1> USE <1>0 DEF StartInv, StagesKnown, Agreed, HasGetters, Checked
<1>1. CASE UNCHANGED <<process, seen>>
  BY <1>1
<1>2. CASE Flags
  <2>1. ~process.simulating /\ process'.simulating = process.simulating /\ process'.pc = "stages"
    BY <1>2 DEF Flags, ProcessType
  <2> QED BY <2>1
<1>3. CASE CheckStages
  <2> USE DEF checkConfigOrCRD, ProcessType
  <2>1. /\ process.pc = "stages" /\ ~process.simulating /\ seen' = seen
        /\ process'.simulating = process.simulating /\ process'.crds = process.crds
        /\ process'.configured = process.configured
    BY <1>3 DEF CheckStages
  <2>2. CASE checkConfigOrCRD(process, StageKind)
    <3>1. process'.pc = "refused"
      BY <1>3, <2>2 DEF CheckStages
    <3> QED BY <2>1, <2>2, <3>1
  <2>3. CASE ~checkConfigOrCRD(process, StageKind)
    <3>1. process'.pc = "ready" /\ process'.stages = process.stages \cup DefaultStages(process)
      BY <1>3, <2>3 DEF CheckStages
    <3> QED BY <2>1, <2>3, <3>1 DEF DefaultStages
  <2> QED BY <2>2, <2>3
<1>4. CASE waitForReady \/ Run \/ InstallMetrics
  <2>1. /\ process' = [process EXCEPT !.pc = process'.pc] /\ seen' = seen
        /\ \/ process.pc = "ready" /\ process'.pc \in {"controllers", "failed"}
           \/ process.pc = "listen" /\ process'.pc \in {"serving", "failed", "headless"}
           \/ process.pc = "metrics" /\ process'.pc \in {"listen", "failed"}
    BY <1>4 DEF waitForReady, Run, InstallMetrics, Advance, ProcessType
  <2> QED BY <2>1 DEF ProcessType
<1>5. CASE StartControllers
  <2>1. /\ process.pc = "controllers" /\ seen' = seen
        /\ process'.pc \in {"failed", "rules", "headless"}
        /\ process'.stages = process.stages /\ process'.crds = process.crds
        /\ process'.configured = process.configured
    BY <1>5 DEF StartControllers, ProcessType
  <2> QED BY <2>1
<1>6. CASE CheckRules
  <2>1. /\ process.pc = "rules" /\ seen' = seen
        /\ process'.pc = IF \E k \in RuleKind : checkConfigOrCRD(process, k) THEN "refused" ELSE "install"
        /\ process'.stages = process.stages /\ process'.crds = process.crds
        /\ process'.configured = process.configured /\ process'.simulating = process.simulating
    BY <1>6 DEF CheckRules, Advance, ProcessType
  <2>2. process.crds \subseteq RuleKind \cup {StageKind}
    BY DEF ProcessType
  <2> QED BY <2>1, <2>2 DEF checkConfigOrCRD
<1>7. CASE NewServer
  <2>1. /\ process.pc = "install" /\ process'.pc = "crds"
        /\ process'.stages = process.stages /\ process'.crds = process.crds
        /\ process'.configured = process.configured /\ process'.simulating = process.simulating
    BY <1>7 DEF NewServer, Advance, ProcessType
  <2>2. \A k \in process.configured \cap RuleKind : \E objects \in Configured : seen'[k] = objects[k]
    BY <1>7 DEF NewServer
  <2> QED BY <2>1, <2>2
<1>8. CASE InstallCRD
  <2>1. /\ process.pc = "crds" /\ process'.pc \in {"metrics", "failed"}
        /\ process'.stages = process.stages /\ process'.crds = process.crds
        /\ process'.configured = process.configured /\ process'.simulating = process.simulating
    BY <1>8 DEF InstallCRD, Advance, ProcessType
  <2>2. \A k \in process.configured \cap RuleKind : seen'[k] = seen[k]
    BY <1>8, <2>1 DEF InstallCRD, initWatchCRD
  <2> QED BY <2>1, <2>2
<1>9. CASE Sync
  <2>1. process' = process /\ process.pc = "serving"
    BY <1>9 DEF Sync
  <2>2. \A k \in process.configured \cap RuleKind : seen'[k] = seen[k]
    BY <1>9, <2>1 DEF Sync
  <2> QED BY <2>1, <2>2
<1>10. CASE dynamicMetricsPath \/ Ask \/ Answer \/ Forget \/ ChangeRules
  BY ZenonT(60), <1>1, <1>10 DEF dynamicMetricsPath, Ask, Answer, Forget, ChangeRules
<1> QED BY ZenonT(60), <1>1, <1>2, <1>3, <1>4, <1>5, <1>6, <1>7, <1>8, <1>9, <1>10 DEF Next, vars

-----------------------------------------------------------------------------
(* The request: what it has read is what the getters still give, unless    *)
(* one of them has changed meanwhile.                                      *)
RequestInv ==
    /\ DOMAIN request = DOMAIN NoRequest
    /\ process.pc # "serving" => request = NoRequest
    /\ request.pc # "none" => request.endpoint \in Endpoint
    /\ request.pc = "cluster" /\ request.calm => request.own = seen[OwnKind(request.endpoint)]
    /\ request.pc = "answered" /\ request.result # "disabled" /\ request.calm =>
         RightAnswer(request, seen[OwnKind(request.endpoint)],
                     seen[ClusterKind(request.endpoint)], request.container)

LEMMA RequestNext ==
  ASSUME Shapes, ServerType, RequestInv, [Next]_vars
  PROVE  RequestInv'
<1>0. process \in ProcessType
  BY DEF ServerType
<1>b. /\ NoRequest.pc = "none"
      /\ DOMAIN NoRequest = {"pc", "endpoint", "container", "own", "result", "target", "calm"}
  BY DEF NoRequest
<1> DEFINE own == seen[OwnKind(request.endpoint)]
           cluster == seen[ClusterKind(request.endpoint)]
<1> USE <1>0, <1>b DEF RequestInv
<1>1. CASE UNCHANGED <<process, seen, request>>
  BY <1>1
<1>2. CASE Flags \/ CheckStages \/ waitForReady \/ StartControllers \/ CheckRules \/ NewServer
             \/ InstallCRD \/ InstallMetrics \/ Run
  <2>1. process.pc # "serving" /\ request' = request
    BY Zenon, <1>2 DEF Flags, CheckStages, waitForReady, StartControllers, CheckRules, NewServer,
                InstallCRD, InstallMetrics, Run, Advance, ProcessType
  <2>2. request' = NoRequest
    BY <2>1
  <2> QED BY <2>2
<1>3. CASE Ask
  <2>1. PICK e \in Endpoint, c \in Container :
         request' = IF e # "usage" /\ ~process.debugging
                      THEN [NoRequest EXCEPT !.pc = "answered", !.endpoint = e, !.container = c,
                                             !.result = "disabled"]
                      ELSE [NoRequest EXCEPT !.pc = "cluster", !.endpoint = e, !.container = c,
                                             !.own = seen[OwnKind(e)]]
    BY Zenon, <1>3 DEF Ask
  <2>2. process.pc = "serving" /\ process' = process /\ seen' = seen
    BY <1>3 DEF Ask
  <2>3. CASE e # "usage" /\ ~process.debugging
    <3>1. /\ DOMAIN request' = DOMAIN NoRequest /\ request'.pc = "answered"
          /\ request'.endpoint = e /\ request'.result = "disabled"
      BY <2>1, <2>3
    <3> QED BY <2>2, <3>1
  <2>4. CASE ~(e # "usage" /\ ~process.debugging)
    <3>1. /\ DOMAIN request' = DOMAIN NoRequest /\ request'.pc = "cluster"
          /\ request'.endpoint = e /\ request'.own = seen[OwnKind(e)]
      BY <2>1, <2>4
    <3> QED BY <2>2, <3>1
  <2> QED BY <2>3, <2>4
<1>4. CASE Answer
  <2> DEFINE a == Handle(request.endpoint, request.own, cluster, request.container)
  <2>1. /\ request.pc = "cluster" /\ process' = process /\ seen' = seen
        /\ request' = [request EXCEPT !.pc = "answered", !.result = a.result, !.target = a.target]
    BY <1>4 DEF Answer
  <2>2. /\ DOMAIN request' = DOMAIN request /\ request'.pc = "answered"
        /\ request'.endpoint = request.endpoint /\ request'.container = request.container
        /\ request'.calm = request.calm /\ request'.result = a.result /\ request'.target = a.target
    BY <2>1
  <2>3. request.endpoint \in Endpoint /\ process.pc = "serving"
    BY <2>1
  <2>4. ASSUME request.calm PROVE RightAnswer(request', own, cluster, request.container)
    <3>1. request.own = own
      BY <2>1, <2>4
    <3>2. own \in OwnRule /\ cluster \in Seq(ManyRule)
      BY <2>3, KindTypes DEF ServerType
    <3>3. request.endpoint \in {"exec", "attach", "logs", "portForward", "usage"}
      BY <2>3 DEF Shapes
    <3> HIDE DEF own, cluster
    <3>4. Handle(request.endpoint, own, cluster, request.container)
            = Found(own, cluster, request.container)
      BY <3>3, HandleIs
    <3>5. RightAnswer(a, own, cluster, request.container)
      BY <3>1, <3>2, <3>4, LookupRight
    <3> HIDE DEF a
    <3> QED BY ZenonT(60), <2>2, <3>5 DEF RightAnswer
  <2> HIDE DEF a
  <2> QED BY <2>1, <2>2, <2>3, <2>4
<1>5. CASE Forget
  <2>1. request' = NoRequest
    BY <1>5 DEF Forget
  <2> QED BY <2>1
<1>6. CASE Sync
  <2>1. process' = process /\ process.pc = "serving" /\ request' = [request EXCEPT !.calm = FALSE]
    BY <1>6 DEF Sync
  <2>2. /\ DOMAIN request' = DOMAIN request /\ request'.pc = request.pc
        /\ request'.endpoint = request.endpoint /\ request'.calm = FALSE
    BY <2>1
  <2> QED BY <2>1, <2>2
<1>7. CASE dynamicMetricsPath \/ ChangeRules
  BY <1>1, <1>7 DEF dynamicMetricsPath, ChangeRules
<1> QED BY <1>1, <1>2, <1>3, <1>4, <1>5, <1>6, <1>7 DEF Next, vars

-----------------------------------------------------------------------------
ServerInv == ServerType /\ StartInv /\ RequestInv

LEMMA ServerInit ==
  ASSUME Shapes
  PROVE  Init => ServerInv
<1> SUFFICES ASSUME Init PROVE ServerInv
  OBVIOUS
<1>1. StartInv
  BY DEF Init, StartInv, StagesKnown, Checked, Agreed, HasGetters
<1>2. RequestInv
  BY Zenon DEF Init, RequestInv, NoRequest
<1> QED BY <1>1, <1>2, TypeInit DEF ServerInv

LEMMA ServerNext ==
  ASSUME Shapes
  PROVE  ServerInv /\ [Next]_vars => ServerInv'
BY TypeNext, StartNext, RequestNext DEF ServerInv

(***************************************************************************)
(* Whatever the flags, the configuration and the objects in the cluster    *)
(* are: a server that serves has one source for every kind, configured     *)
(* rules stay what they were, a process refuses to start only over a kind  *)
(* with two sources, and one that simulates has stages for nodes and pods  *)
(* or takes them from the cluster (runE, startServer, initWatchCRD).       *)
(***************************************************************************)
THEOREM SourcesAreOne ==
  ASSUME Shapes
  PROVE  Spec => []OneSource
<1>1. ServerInv => OneSource
  BY DEF ServerInv, StartInv, OneSource, StagesKnown, Agreed, HasGetters
<1> QED BY <1>1, ServerInit, ServerNext, PTL DEF Spec

(***************************************************************************)
(* Every endpoint gives the target that is meant for the container: that   *)
(* of the pod's own rule, or of the first rule for many pods that covers   *)
(* it, and in a rule the first target that names the container, or else    *)
(* the first that names none.  For rules of any length, in whichever order *)
(* the store of a getter lists them.                                       *)
(***************************************************************************)
THEOREM TargetsAreRight ==
  ASSUME Shapes
  PROVE  Spec => []RightTarget
<1>1. ServerInv => RightTarget
  BY Zenon DEF ServerInv, RequestInv, RightTarget, RightAnswer, Right, Covers
<1> QED BY <1>1, ServerInit, ServerNext, PTL DEF Spec
=============================================================================
