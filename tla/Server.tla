-------------------------------- MODULE Server --------------------------------
(***************************************************************************)
(* A kwok process from its flags to its answers: runE and startServer of   *)
(* pkg/kwok/cmd/root.go, and the debugging endpoints of pkg/kwok/server.   *)
(*                                                                         *)
(* Every kind of rule comes from the configuration, or from objects in the *)
(* cluster when the kind is in --enable-crds.  An endpoint looks a target  *)
(* up in the rule of the pod, then in the rules for many pods.             *)
(*                                                                         *)
(* A rule is a sequence of targets, a target the containers (or ports) it  *)
(* names, none meaning all, and whether it is complete: has a local exec,  *)
(* a log file to read, a command or an address to forward to.  The dynamic *)
(* getter is the one of module StagesManager.                              *)
(***************************************************************************)
EXTENDS Naturals, Sequences, FiniteSets, FiniteSetsExt, TLC

CONSTANTS Endpoint,     \* of "exec", "attach", "logs", "portForward", "usage"
          Container,
          OwnRules,     \* rules a pod can have of its own, NoRule included
          ClusterRules, \* lists of rules for many pods
          NoRule,
          Metrics,      \* lists of metrics: a path, whether it is below /metrics,
                        \* and what the metric is
          EnableCRDs,   \* sets of kinds that can be in --enable-crds
          ConfiguredKinds, \* sets of kinds the configuration can have objects of
          Configured,   \* functions from the kinds to the objects the configuration has
          MaxEvents     \* bound on changes of the rules in the cluster

VARIABLES process,      \* how far the process has come
          rules,        \* rules[k]: the rules of kind k in the cluster
          seen,         \* seen[k]: what the getter of kind k has
          routes,       \* the metric that answers for each path, and the list
                        \* that dynamicMetricsPath has read last
          request,      \* one request
          events

vars == <<process, rules, seen, routes, request, events>>

(* The kinds in crdDefines that the server has a getter for: two for each  *)
(* endpoint, and the metrics; and the stages.                              *)
OwnKind(e) == <<e, "own">>
ClusterKind(e) == <<e, "cluster">>
MetricKind == <<"metric", "cluster">>
StageKind == <<"stage", "cluster">>
RuleKind == {OwnKind(e) : e \in Endpoint} \cup {ClusterKind(e) : e \in Endpoint} \cup {MetricKind}

NoRules(k) == IF k \in {OwnKind(e) : e \in Endpoint} THEN NoRule ELSE <<>>

Values(k) == CASE k = MetricKind -> Metrics
               [] k \in {OwnKind(e) : e \in Endpoint} -> OwnRules
               [] OTHER -> ClusterRules

(* What the rules are: sequences of targets, and lists of such sequences   *)
(* for the pods they select.                                               *)
Target == [names : SUBSET Container, complete : BOOLEAN]
OwnRule == {NoRule} \cup Seq(Target)
ManyRule == [selects : BOOLEAN, targets : Seq(Target)]
Metric == [path : STRING, below : BOOLEAN, id : Nat]

RuleType(k) ==
    CASE k = MetricKind -> Seq(Metric)
      [] k \in {OwnKind(e) : e \in Endpoint} -> OwnRule
      [] OTHER -> Seq(ManyRule)

(* The endpoints are among the five that the server installs, --enable-crds*)
(* names kinds that runE or initWatchCRD know, and rules are of their      *)
(* type wherever they come from.                                           *)
Shapes ==
    /\ Endpoint \subseteq {"exec", "attach", "logs", "portForward", "usage"}
    /\ EnableCRDs \subseteq SUBSET (RuleKind \cup {StageKind})
    /\ \A k \in RuleKind : Values(k) \subseteq RuleType(k)
    /\ \A objects \in Configured, k \in RuleKind : objects[k] \in RuleType(k)

-----------------------------------------------------------------------------
(* The process starts.                                                     *)

checkConfigOrCRD(p, k) == k \in p.crds /\ k \in p.configured

Advance(pc) == process' = [process EXCEPT !.pc = pc]

(* The flags, what kinds the configuration has objects of, and whether its *)
(* stages are for nodes, for pods or for others.                           *)
Flags ==
    /\ process.pc = "flags"
    /\ \E crds \in EnableCRDs, configured \in ConfiguredKinds, stages \in SUBSET {"node", "pod", "other"},
          address, debugging \in BOOLEAN :
         /\ StageKind \in configured <=> stages # {}
         /\ process' = [process EXCEPT !.pc = "stages", !.crds = crds, !.configured = configured,
                                       !.address = address, !.debugging = debugging,
                                       !.stages = stages]
    /\ UNCHANGED <<rules, seen, routes, request, events>>

(* Mutant: the default stages only when there are none at all.             *)
DefaultStagesIfNone(p) == IF StageKind \in p.crds \cup p.configured THEN {} ELSE {"node", "pod"}

(* Nodes and pods without stages get the default ones, unless stages are   *)
(* objects of the cluster.                                                 *)
DefaultStages(p) == IF StageKind \in p.crds THEN {} ELSE {"node", "pod"} \ p.stages

CheckStages ==
    /\ process.pc = "stages"
    /\ process' = IF checkConfigOrCRD(process, StageKind)
                    THEN [process EXCEPT !.pc = "refused"]
                    ELSE [process EXCEPT !.pc = "ready",
                                         !.stages = process.stages \cup DefaultStages(process)]
    /\ UNCHANGED <<rules, seen, routes, request, events>>

(* Nodes are listed until the apiserver answers, at most five times.       *)
waitForReady ==
    /\ process.pc = "ready"
    /\ \E pc \in {"controllers", "failed"} : Advance(pc)
    /\ UNCHANGED <<rules, seen, routes, request, events>>

(* The controllers run from here on, whatever becomes of the server.       *)
StartControllers ==
    /\ process.pc = "controllers"
    /\ \E failed \in BOOLEAN :
         process' = IF failed THEN [process EXCEPT !.pc = "failed"]
                    ELSE [process EXCEPT !.pc = IF process.address THEN "rules" ELSE "headless",
                                         !.simulating = TRUE]
    /\ UNCHANGED <<rules, seen, routes, request, events>>

(* startServer checks the other kinds, but only when there is an address.  *)
CheckRules ==
    /\ process.pc = "rules"
    /\ Advance(IF \E k \in RuleKind : checkConfigOrCRD(process, k) THEN "refused" ELSE "install")
    /\ UNCHANGED <<rules, seen, routes, request, events>>

(* NewServer gives every kind a getter of its configured objects.          *)
NewServer ==
    /\ process.pc = "install"
    /\ \E objects \in Configured :
         seen' = [k \in RuleKind |-> IF k \in process.configured THEN objects[k] ELSE NoRules(k)]
    /\ Advance("crds")
    /\ UNCHANGED <<rules, routes, request, events>>

(* initWatchCRD refuses a kind that has objects already, and gives every   *)
(* enabled kind a getter of the objects in the cluster, empty at first.    *)
initWatchCRD(getters) ==
    [k \in RuleKind |-> IF k \in process.crds THEN NoRules(k) ELSE getters[k]]

InstallCRD ==
    /\ process.pc = "crds"
    /\ IF \E k \in process.crds \cap RuleKind : seen[k] # NoRules(k)
         THEN Advance("failed") /\ UNCHANGED seen
         ELSE \/ Advance("metrics") /\ seen' = initWatchCRD(seen)
              \/ Advance("failed") /\ process.crds # {} /\ UNCHANGED seen
    /\ UNCHANGED <<rules, routes, request, events>>

(* The paths of metrics that are below /metrics, each with the metric of   *)
(* the first route that is made for it.                                    *)
Paths(metrics) == {metrics[i].path : i \in {j \in DOMAIN metrics : metrics[j].below}}

FirstOf(metrics) ==
    [p \in Paths(metrics) |->
        metrics[Min({i \in DOMAIN metrics : metrics[i].below /\ metrics[i].path = p})].id]

(* A route is added behind the ones there are, and go-restful takes the    *)
(* first of a path.                                                        *)
Route(metrics) == routes.answers @@ FirstOf(metrics)

(* The paths of configured metrics must be below /metrics.                 *)
InstallMetrics ==
    /\ process.pc = "metrics"
    /\ IF \A i \in DOMAIN seen[MetricKind] : seen[MetricKind][i].below
         THEN Advance("listen") /\ routes' = [routes EXCEPT !.answers = Route(seen[MetricKind])]
         ELSE Advance("failed") /\ UNCHANGED routes
    /\ UNCHANGED <<rules, seen, request, events>>

(* Run fails to listen: the process exits, unless it is on the host's      *)
(* network, where it goes on without a server.                             *)
Run ==
    /\ process.pc = "listen"
    /\ \E pc \in {"serving", "failed", "headless"} : Advance(pc)
    /\ UNCHANGED <<rules, seen, routes, request, events>>

(* After every change of the metrics each path below /metrics is routed    *)
(* anew.  RemoveRoute, called before for a path that was there and after   *)
(* for one that is gone, is given method and path in each other's place,   *)
(* and routes of a web service cannot be removed unless SetDynamicRoutes   *)
(* allows it: it fails, which is only logged, and the old route stays.     *)
dynamicMetricsPath ==
    /\ process.pc = "serving" /\ MetricKind \in process.crds
    /\ routes.current # seen[MetricKind]
    /\ routes' = [answers |-> Route(seen[MetricKind]), current |-> seen[MetricKind]]
    /\ UNCHANGED <<process, rules, seen, request, events>>

-----------------------------------------------------------------------------
(* The lookup.  Every endpoint has functions of its own for it, which all  *)
(* do the same: in a rule, the first target that names the container, else *)
(* the first one that names none; 0 is "not found".                        *)

(* Mutant: the first target that fits wins, named or not.                  *)
FindFirst(container, targets) ==
    LET fits == {i \in DOMAIN targets : targets[i].names \in {{}} \/ container \in targets[i].names}
    IN  IF fits = {} THEN 0 ELSE Min(fits)

Find(container, targets) ==
    LET named == {i \in DOMAIN targets : container \in targets[i].names}
        all == {i \in DOMAIN targets : targets[i].names = {}}
    IN  CASE named # {} -> Min(named)
          [] named = {} /\ all # {} -> Min(all)
          [] OTHER -> 0

findContainerInExecs(container, execs) == Find(container, execs)
findLogInLogs(container, logs) == Find(container, logs)
findAttachInAttaches(container, attaches) == Find(container, attaches)
findPortInForwards(port, forwards) == Find(port, forwards)
findUsageInUsages(container, usages) == Find(container, usages)

NotFound == <<>>

(* The rule of the pod decides alone; the rules for many pods are tried in *)
(* order, and one that selects the pod and has no target is passed over.   *)
(* "selects" is what ObjectSelector.Match says of the pod.                 *)
Lookup(find(_, _), own, cluster, container) ==
    IF own # NoRule
      THEN LET i == find(container, own) IN IF i = 0 THEN NotFound ELSE <<own[i]>>
      ELSE LET has == {j \in DOMAIN cluster :
                         cluster[j].selects /\ find(container, cluster[j].targets) # 0}
           IN  IF has = {} THEN NotFound
               ELSE LET j == Min(has)
                    IN  <<cluster[j].targets[find(container, cluster[j].targets)]>>

getExecTarget(own, cluster, container) == Lookup(findContainerInExecs, own, cluster, container)
getPodLogs(own, cluster, container) == Lookup(findLogInLogs, own, cluster, container)
getPodAttach(own, cluster, container) == Lookup(findAttachInAttaches, own, cluster, container)
getPodsForward(own, cluster, port) == Lookup(findPortInForwards, own, cluster, port)
getResourceUsage(own, cluster, container) == Lookup(findUsageInUsages, own, cluster, container)

(* What the handlers do with the target: an incomplete one is an error.    *)
Use(found) == IF found = NotFound THEN [result |-> "error", target |-> NotFound]
              ELSE [result |-> IF found[1].complete THEN "ok" ELSE "error", target |-> found]

ExecInContainer(own, cluster, c) == Use(getExecTarget(own, cluster, c))
GetContainerLogs(own, cluster, c) == Use(getPodLogs(own, cluster, c))
AttachContainer(own, cluster, c) == Use(getPodAttach(own, cluster, c))
PortForward(own, cluster, port) == Use(getPodsForward(own, cluster, port))
evaluateContainerResourceUsage(own, cluster, c) == Use(getResourceUsage(own, cluster, c))

Handle(e, own, cluster, c) ==
    CASE e = "exec"        -> ExecInContainer(own, cluster, c)
      [] e = "logs"        -> GetContainerLogs(own, cluster, c)
      [] e = "attach"      -> AttachContainer(own, cluster, c)
      [] e = "portForward" -> PortForward(own, cluster, c)
      [] e = "usage"       -> evaluateContainerResourceUsage(own, cluster, c)

-----------------------------------------------------------------------------
(* A request.  The endpoints other than usage answer "disabled" without    *)
(* --enable-debugging-handlers; the two getters are read one by one.       *)

NoRequest == [pc |-> "none", endpoint |-> "", container |-> 0, own |-> NoRule,
              result |-> "", target |-> NotFound, calm |-> TRUE]

Ask ==
    /\ process.pc = "serving" /\ request.pc = "none"
    /\ \E e \in Endpoint, c \in Container :
         request' = IF e # "usage" /\ ~process.debugging
                      THEN [NoRequest EXCEPT !.pc = "answered", !.endpoint = e, !.container = c,
                                             !.result = "disabled"]
                      ELSE [NoRequest EXCEPT !.pc = "cluster", !.endpoint = e, !.container = c,
                                             !.own = seen[OwnKind(e)]]
    /\ UNCHANGED <<process, rules, seen, routes, events>>

Answer ==
    /\ request.pc = "cluster"
    /\ LET a == Handle(request.endpoint, request.own, seen[ClusterKind(request.endpoint)],
                       request.container)
       IN  request' = [request EXCEPT !.pc = "answered", !.result = a.result,
                                      !.target = a.target]
    /\ UNCHANGED <<process, rules, seen, routes, events>>

Forget ==
    /\ request.pc = "answered"
    /\ request' = NoRequest
    /\ UNCHANGED <<process, rules, seen, routes, events>>

(* A rule changes in the cluster; the getter of an enabled kind follows.   *)
ChangeRules ==
    /\ process.pc = "serving" /\ events < MaxEvents
    /\ events' = events + 1
    /\ \E k \in RuleKind : \E v \in Values(k) \ {rules[k]} : rules' = [rules EXCEPT ![k] = v]
    /\ UNCHANGED <<process, seen, routes, request>>

(* The store of a getter has no order: the list is in any.                 *)
Listings(k) ==
    IF k \in {OwnKind(e) : e \in Endpoint} THEN {rules[k]}
    ELSE {[i \in DOMAIN rules[k] |-> rules[k][p[i]]] :
          p \in Bijection(DOMAIN rules[k], DOMAIN rules[k])}

Sync ==
    /\ process.pc = "serving"
    /\ \E k \in process.crds \cap RuleKind :
         /\ seen[k] \notin Listings(k)
         /\ \E listing \in Listings(k) : seen' = [seen EXCEPT ![k] = listing]
    /\ request' = [request EXCEPT !.calm = FALSE]
    /\ UNCHANGED <<process, rules, routes, events>>

Init ==
    /\ process = [pc |-> "flags", crds |-> {}, configured |-> {}, stages |-> {},
                  address |-> FALSE, debugging |-> FALSE, simulating |-> FALSE]
    /\ rules = [k \in RuleKind |-> NoRules(k)]
    /\ seen = [k \in RuleKind |-> NoRules(k)]
    /\ routes = [answers |-> [p \in {} |-> 0], current |-> <<>>]
    /\ request = NoRequest
    /\ events = 0

Next == \/ Flags \/ CheckStages \/ waitForReady \/ StartControllers \/ CheckRules \/ NewServer
        \/ InstallCRD \/ InstallMetrics \/ Run \/ dynamicMetricsPath
        \/ Ask \/ Answer \/ Forget \/ ChangeRules \/ Sync

Spec == Init /\ [][Next]_vars

-----------------------------------------------------------------------------
(* A server that serves has one source for every kind, a process refuses   *)
(* to start only over a kind with two, and every process that simulates    *)
(* has stages for nodes and pods or takes them from the cluster            *)
(* (checkConfigOrCRD in runE and startServer, initWatchCRD).               *)
OneSource ==
    /\ process.pc = "refused" => process.crds \cap process.configured # {}
    /\ process.simulating => \/ {"node", "pod"} \subseteq process.stages
                             \/ StageKind \in process.crds \ process.configured
    /\ process.pc = "serving" =>
         /\ process.crds \cap process.configured = {}
         /\ \A k \in process.configured \cap RuleKind : \E objects \in Configured : seen[k] = objects[k]

(* The target of a request during which no getter changed: the rule of the *)
(* pod if it has one, whatever the others say; in a rule a target that     *)
(* names the container before one that names none; and no earlier rule or  *)
(* target of the same standing is passed over (getExecTarget, getPodLogs,  *)
(* getPodAttach, getPodsForward, getResourceUsage).                        *)
RightTarget ==
    request.pc = "answered" /\ request.result # "disabled" /\ request.calm =>
      LET c == request.container
          own == seen[OwnKind(request.endpoint)]
          cluster == seen[ClusterKind(request.endpoint)]
          covers(ts) == \E i \in DOMAIN ts : c \in ts[i].names \/ ts[i].names = {}
          right(ts, t) == \E i \in DOMAIN ts :
            /\ ts[i] = t
            /\ \/ c \in t.names /\ \A h \in 1..(i - 1) : c \notin ts[h].names
               \/ /\ t.names = {}
                  /\ \A h \in DOMAIN ts : c \notin ts[h].names
                  /\ \A h \in 1..(i - 1) : ts[h].names # {}
      IN  CASE own # NoRule /\ covers(own)  -> request.target # <<>> /\ right(own, request.target[1])
            [] own # NoRule /\ ~covers(own) -> request.result = "error"
            [] own = NoRule ->
                 IF \A j \in DOMAIN cluster : ~cluster[j].selects \/ ~covers(cluster[j].targets)
                   THEN request.result = "error"
                   ELSE \E j \in DOMAIN cluster :
                          /\ cluster[j].selects /\ covers(cluster[j].targets)
                          /\ \A h \in 1..(j - 1) : ~cluster[h].selects \/ ~covers(cluster[h].targets)
                          /\ request.target # <<>> /\ right(cluster[j].targets, request.target[1])
=============================================================================
