----------------------------- MODULE Components -----------------------------
(***************************************************************************)
(* The components kwokctl puts into a cluster, and the order in which it   *)
(* handles them: the builders of pkg/kwokctl/components, the functions of  *)
(* the three runtimes that decide which of them a cluster has, and         *)
(* GroupByLinks, which orders them by the components they link to.         *)
(*                                                                         *)
(* A component is its name and the names it links to.  Arguments, ports,   *)
(* volumes, images and environment are left out; a port that the user asks *)
(* for (of the proxy, prometheus, jaeger, the dashboard) shows as the      *)
(* option that turns the component on.                                     *)
(***************************************************************************)
EXTENDS Naturals, Sequences, FiniteSets

(* The runtimes that differ in what follows: podman goes the way of        *)
(* docker, lima and finch that of nerdctl, every kind runtime that of      *)
(* kind.  "oldnerdctl" is a nerdctl without --restart=unless-stopped.      *)
Runtimes == {"binary", "docker", "nerdctl", "oldnerdctl", "kind"}

Names == {"etcd", "kube-apiserver", "kubectl-proxy", "kube-controller-manager",
          "kube-scheduler", "kwok-controller", "metrics-server", "prometheus",
          "jaeger", "dashboard", "dashboard-metrics-scraper"}

(* The options of `kwokctl create cluster` that decide on the components:  *)
(* the optional ones, and the two that can be disabled.                    *)
OptionNames == {"insecure", "kcm", "scheduler", "metrics", "prometheus", "jaeger", "dashboard"}

-----------------------------------------------------------------------------
(* The builders; the links do not depend on the runtime.                   *)

Built(name, links) == [name |-> name, links |-> links]

BuildEtcdComponent == Built("etcd", {})
BuildKubeApiserverComponent(tracing) ==
    Built("kube-apiserver", {"etcd"} \cup (IF tracing THEN {"jaeger"} ELSE {}))
BuildKubectlProxyComponent == Built("kubectl-proxy", {"kube-apiserver"})
BuildKubeControllerManagerComponent == Built("kube-controller-manager", {"kube-apiserver"})
BuildKubeSchedulerComponent == Built("kube-scheduler", {"kube-apiserver"})
BuildKwokControllerComponent == Built("kwok-controller", {"kube-apiserver"})
BuildMetricsServerComponent == Built("metrics-server", {"kwok-controller"})
BuildPrometheusComponent(kcm, scheduler) ==
    Built("prometheus",
          {"etcd", "kube-apiserver", "kwok-controller"}
            \cup (IF kcm THEN {"kube-controller-manager"} ELSE {})
            \cup (IF scheduler THEN {"kube-scheduler"} ELSE {}))
BuildJaegerComponent == Built("jaeger", {})
BuildDashboardComponent == Built("dashboard", {"kube-apiserver"})
BuildDashboardMetricsScraperComponent == Built("dashboard-metrics-scraper", {"metrics-server"})

(* What kind itself runs as static pods is only named in the config.       *)
KindBuiltin(name) == Built(name, {})

-----------------------------------------------------------------------------
(* What each function of the runtimes appends to the components.           *)

When(cond, component) == IF cond THEN <<component>> ELSE <<>>

BinaryAddEtcd(o) == <<BuildEtcdComponent>>
BinaryAddKubeApiserver(o) == <<BuildKubeApiserverComponent(o.jaeger)>>
BinaryAddKubectlProxy(o) == When(o.insecure, BuildKubectlProxyComponent)
BinaryAddKubeControllerManager(o) ==
    When(o.kcm, BuildKubeControllerManagerComponent)
BinaryAddKubeScheduler(o) == When(o.scheduler, BuildKubeSchedulerComponent)
BinaryAddKwokController(o) == <<BuildKwokControllerComponent>>
BinaryAddMetricsServer(o) == When(o.metrics, BuildMetricsServerComponent)
BinaryAddPrometheus(o) ==
    When(o.prometheus, BuildPrometheusComponent(o.kcm, o.scheduler))
BinaryAddJaeger(o) == When(o.jaeger, BuildJaegerComponent)

ComposeAddEtcd(o) == <<BuildEtcdComponent>>
ComposeAddKubeApiserver(o) == <<BuildKubeApiserverComponent(o.jaeger)>>
ComposeAddKubectlProxy(o) == When(o.insecure, BuildKubectlProxyComponent)
ComposeAddKubeControllerManager(o) ==
    When(o.kcm, BuildKubeControllerManagerComponent)
ComposeAddKubeScheduler(o) == When(o.scheduler, BuildKubeSchedulerComponent)
ComposeAddKwokController(o) == <<BuildKwokControllerComponent>>
ComposeAddMetricsServer(o) == When(o.metrics, BuildMetricsServerComponent)
ComposeAddPrometheus(o) ==
    When(o.prometheus, BuildPrometheusComponent(o.kcm, o.scheduler))
ComposeAddJaeger(o) == When(o.jaeger, BuildJaegerComponent)
ComposeAddDashboard(o) ==
    When(o.dashboard, BuildDashboardComponent)
      \o When(o.dashboard /\ o.metrics, BuildDashboardMetricsScraperComponent)

KindAddEtcd(o) == <<KindBuiltin("etcd")>>
KindAddKubeApiserver(o) == <<KindBuiltin("kube-apiserver")>>
KindAddKubectlProxy(o) == When(o.insecure, BuildKubectlProxyComponent)
KindAddKubeControllerManager(o) == When(o.kcm, KindBuiltin("kube-controller-manager"))
KindAddKubeScheduler(o) == When(o.scheduler, KindBuiltin("kube-scheduler"))
KindAddKwokController(o) == <<BuildKwokControllerComponent>>
KindAddDashboard(o) ==
    When(o.dashboard, BuildDashboardComponent)
      \o When(o.dashboard /\ o.metrics, BuildDashboardMetricsScraperComponent)
KindAddMetricsServer(o) == When(o.metrics, BuildMetricsServerComponent)
KindAddPrometheus(o) ==
    When(o.prometheus, BuildPrometheusComponent(o.kcm, o.scheduler))
KindAddJaeger(o) == When(o.jaeger, BuildJaegerComponent)

(* What the calls that Install makes append to the components, in order;   *)
(* the first of them only chooses ports.                                   *)
BinaryInstall(o) ==
    << <<>>, BinaryAddEtcd(o), BinaryAddKubeApiserver(o), BinaryAddKubectlProxy(o),
       BinaryAddKubeControllerManager(o), BinaryAddKubeScheduler(o),
       BinaryAddKwokController(o), BinaryAddMetricsServer(o), BinaryAddPrometheus(o),
       BinaryAddJaeger(o) >>

ComposeInstall(o) ==
    << <<>>, ComposeAddEtcd(o), ComposeAddKubeApiserver(o), ComposeAddKubectlProxy(o),
       ComposeAddKubeControllerManager(o), ComposeAddKubeScheduler(o),
       ComposeAddKwokController(o), ComposeAddMetricsServer(o), ComposeAddPrometheus(o),
       ComposeAddJaeger(o), ComposeAddDashboard(o) >>

KindInstall(o) ==
    << <<>>, KindAddEtcd(o), KindAddKubeApiserver(o), KindAddKubectlProxy(o),
       KindAddKubeControllerManager(o), KindAddKubeScheduler(o), KindAddKwokController(o),
       KindAddDashboard(o), KindAddMetricsServer(o), KindAddPrometheus(o), KindAddJaeger(o) >>

InstallCalls(rt, o) ==
    CASE rt = "binary" -> BinaryInstall(o)
      [] rt = "kind"   -> KindInstall(o)
      [] OTHER         -> ComposeInstall(o)

-----------------------------------------------------------------------------
(* GroupByLinks: a pass over what is left puts into a group the components *)
(* whose links are all in earlier groups, and keeps the others for the     *)
(* next pass.  A pass that finds none while some are left is an error.     *)

NamesOf(cs) == {cs[i].name : i \in 1..Len(cs)}

Pass(cs, had) == {cs[i].name : i \in {j \in 1..Len(cs) : cs[j].links \subseteq had}}

HadAfter(cs) ==
    LET had[k \in 0..Len(cs)] == IF k = 0 THEN {} ELSE had[k - 1] \cup Pass(cs, had[k - 1])
    IN  had

BrokenLinks(cs) == HadAfter(cs)[Len(cs)] # NamesOf(cs)

GroupByLinks(cs) ==
    LET had == HadAfter(cs)
        all == [k \in 1..Len(cs) |-> had[k] \ had[k - 1]]
    IN  SelectSeq(all, LAMBDA group : group # {})
=============================================================================
