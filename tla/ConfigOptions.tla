----------------------------- MODULE ConfigOptions -----------------------------
(***************************************************************************)
(* The options of kwokctl and how they get their values                    *)
(* (pkg/config/vars.go, setKwokctlConfigurationDefaults), for module       *)
(* Config.                                                                 *)
(*                                                                         *)
(* The value of an option is where it comes from: <<"file", v>>,           *)
(* <<"env", v>> and <<"flag", v>> for a given one, and for a default the   *)
(* option with the values it is computed from.  Linux is assumed.          *)
(***************************************************************************)
EXTENDS Naturals, Sequences, FiniteSets, FiniteSetsExt, Functions

Unset == <<>>

-----------------------------------------------------------------------------
(* The options, as steps taken one after the other.                        *)

Default(o, from) == [op |-> "default", opt |-> o, from |-> from]
Env(o) == [op |-> "env", opt |-> o, from |-> <<>>]
Keep(o, p) == [op |-> "keep", opt |-> o, from |-> <<p>>]
Special(op, o, from) == [op |-> op, opt |-> o, from |-> from]

(* A default that the variable of the option then replaces.                *)
Set(o, from) == <<Default(o, from), Env(o)>>

SetObjectDefaults_KwokctlConfiguration ==
    << Default("QuietPull", <<>>), Default("DisableKubeScheduler", <<>>),
       Default("DisableKubeControllerManager", <<>>), Default("EnableMetricsServer", <<>>),
       Default("EtcdPrefix", <<>>),
       Default("KubeControllerManagerNodeMonitorPeriodMilliseconds", <<>>),
       Default("KubeControllerManagerNodeMonitorGracePeriodMilliseconds", <<>>),
       Default("NodeStatusUpdateFrequencyMilliseconds", <<>>),
       Default("NodeLeaseDurationSeconds", <<>>), Default("HeartbeatFactor", <<>>),
       Default("BindAddress", <<>>), Default("DisableQPSLimits", <<>>),
       Default("EtcdQuotaBackendSize", <<>>) >>

(* kubectlBinaryPrefix is a local variable, assigned before the variable   *)
(* of KubeBinaryPrefix is looked at.                                       *)
setKwokctlKubernetesConfig ==
    << Env("DisableKubeScheduler"), Env("DisableKubeControllerManager"),
       Env("KubeAuthorization"), Env("KubeAdmission"), Env("KubeApiserverPort"),
       Env("KubeApiserverInsecurePort") >>
    \o << Special("stable", "KubeFeatureGates", <<"KubeVersion", "Mode">>),
          Env("KubeFeatureGates"),
          Special("stable", "KubeRuntimeConfig", <<"KubeVersion", "Mode">>),
          Env("KubeRuntimeConfig"), Env("KubeAuditPolicy"),
          Default("KubeBinaryPrefix", <<"KubeVersion">>),
          Keep("kubectlBinaryPrefix", "KubeBinaryPrefix"), Env("KubeBinaryPrefix") >>
    \o Set("KubectlBinary", <<"kubectlBinaryPrefix", "BinSuffix">>)
    \o Set("KubeApiserverBinary", <<"KubeBinaryPrefix", "BinSuffix">>)
    \o Set("KubeControllerManagerBinary", <<"KubeBinaryPrefix", "BinSuffix">>)
    \o Set("KubeSchedulerBinary", <<"KubeBinaryPrefix", "BinSuffix">>)
    \o Set("KubeImagePrefix", <<>>)
    \o Set("KubeApiserverImage", <<"KubeImagePrefix", "KubeVersion">>)
    \o Set("KubeControllerManagerImage", <<"KubeImagePrefix", "KubeVersion">>)
    \o << Env("KubeControllerManagerPort") >>
    \o Set("KubeSchedulerImage", <<"KubeImagePrefix", "KubeVersion">>)
    \o Set("KubectlImage", <<"KubeImagePrefix", "KubeVersion">>)
    \o << Env("KubeSchedulerPort") >>

setKwokctlKwokConfig ==
    Set("KwokBinaryPrefix", <<"KwokVersion">>)
    \o Set("KwokControllerBinary", <<"KwokBinaryPrefix", "BinSuffix">>)
    \o Set("KwokImagePrefix", <<>>)
    \o Set("KwokControllerImage", <<"KwokImagePrefix", "KwokVersion">>)
    \o << Env("KwokControllerPort") >>

(* Mutant: the binary is derived before the variable of the tar is read.   *)
setKwokctlEtcdConfigEarly ==
    Set("EtcdVersion", <<"KubeVersion">>)
    \o Set("EtcdBinaryPrefix", <<"EtcdVersion">>)
    \o << Env("EtcdBinary"), Default("EtcdBinaryTar", <<"EtcdBinaryPrefix", "EtcdVersion">>),
          Default("EtcdBinary", <<"EtcdBinaryTar", "BinSuffix">>), Env("EtcdBinaryTar") >>
    \o Set("EtcdImagePrefix", <<"KubeImagePrefix">>)
    \o Set("EtcdImage", <<"EtcdImagePrefix", "EtcdVersion">>)
    \o << Env("EtcdPort"), Default("EtcdctlBinary", <<"EtcdBinaryTar", "BinSuffix">>) >>

setKwokctlEtcdConfig ==
    Set("EtcdVersion", <<"KubeVersion">>)
    \o Set("EtcdBinaryPrefix", <<"EtcdVersion">>)
    \o << Env("EtcdBinary") >>
    \o Set("EtcdBinaryTar", <<"EtcdBinaryPrefix", "EtcdVersion">>)
    \o Set("EtcdImagePrefix", <<"KubeImagePrefix">>)
    \o Set("EtcdImage", <<"EtcdImagePrefix", "EtcdVersion">>)
    \o << Env("EtcdPort"), Default("EtcdBinary", <<"EtcdBinaryTar", "BinSuffix">>),
          Default("EtcdctlBinary", <<"EtcdBinaryTar", "BinSuffix">>) >>

setKwokctlKindConfig ==
    Set("KindNodeImagePrefix", <<>>)
    \o Set("KindNodeImage", <<"KindNodeImagePrefix", "KubeVersion">>)
    \o Set("KindVersion", <<>>)
    \o Set("KindBinaryPrefix", <<"KindVersion">>)
    \o Set("KindBinary", <<"KindBinaryPrefix", "BinSuffix">>)

setKwokctlDashboardConfig ==
    Set("DashboardVersion", <<>>)
    \o Set("DashboardImagePrefix", <<>>)
    \o Set("DashboardImage", <<"DashboardImagePrefix", "DashboardVersion">>)
    \o Set("DashboardMetricsScraperVersion", <<>>)
    \o Set("DashboardMetricsScraperImage",
           <<"DashboardImagePrefix", "DashboardMetricsScraperVersion">>)

setKwokctlPrometheusConfig ==
    << Env("PrometheusPort") >>
    \o Set("PrometheusVersion", <<>>)
    \o Set("PrometheusImagePrefix", <<>>)
    \o Set("PrometheusImage", <<"PrometheusImagePrefix", "PrometheusVersion">>)
    \o Set("PrometheusBinaryPrefix", <<"PrometheusVersion">>)
    \o << Env("PrometheusBinary") >>
    \o Set("PrometheusBinaryTar", <<"PrometheusBinaryPrefix", "PrometheusVersion">>)
    \o << Default("PrometheusBinary", <<"PrometheusBinaryTar", "BinSuffix">>) >>

setKwokctlJaegerConfig ==
    << Env("JaegerPort") >>
    \o Set("JaegerVersion", <<>>)
    \o Set("JaegerImagePrefix", <<>>)
    \o Set("JaegerImage", <<"JaegerImagePrefix", "JaegerVersion">>)
    \o Set("JaegerBinaryPrefix", <<"JaegerVersion">>)
    \o << Env("JaegerBinary") >>
    \o Set("JaegerBinaryTar", <<"JaegerBinaryPrefix", "JaegerVersion">>)
    \o << Default("JaegerBinary", <<"JaegerBinaryTar", "BinSuffix">>) >>

setMetricsServerConfig ==
    Set("MetricsServerVersion", <<>>)
    \o Set("MetricsServerImagePrefix", <<>>)
    \o Set("MetricsServerImage", <<"MetricsServerImagePrefix", "MetricsServerVersion">>)
    \o Set("MetricsServerBinaryPrefix", <<"MetricsServerVersion">>)
    \o Set("MetricsServerBinary", <<"MetricsServerBinaryPrefix", "BinSuffix">>)

Steps ==
    SetObjectDefaults_KwokctlConfiguration
    \o Set("KwokVersion", <<>>) \o Set("KubeVersion", <<>>)
    \o Set("SecurePort", <<"KubeVersion">>)
    \o << Default("KubeAuthorization", <<"SecurePort">>),
          Default("KubeAdmission", <<"KubeAuthorization">>), Env("QuietPull"),
          Env("Runtime"), Special("runtimes", "Runtimes", <<"Runtime">>),
          Special("runtime", "Runtime", <<"Runtimes">>), Env("Mode"),
          Default("CacheDir", <<>>), Special("lease", "NodeLeaseDurationSeconds", <<"KubeVersion">>) >>
    \o setKwokctlKubernetesConfig \o setKwokctlKwokConfig \o setKwokctlEtcdConfig
    \o setKwokctlKindConfig \o setKwokctlDashboardConfig \o setKwokctlPrometheusConfig
    \o setKwokctlJaegerConfig \o setMetricsServerConfig

Local == {"kubectlBinaryPrefix"}
Option == ({Steps[i].opt : i \in DOMAIN Steps} \cup {"Mode", "Runtimes", "BinSuffix", "EnableCRDs"})
            \ Local

Given(v) == v # Unset /\ v[1] \in {"file", "env", "flag"}
Old(v) == Given(v) /\ v[2] = "old"        \* a Kubernetes before 1.14
One(v) == Given(v) /\ v[2] = "one"        \* a list of one runtime

Derived(conf, o, from) == <<o, [i \in DOMAIN from |-> conf[from[i]]]>>

(* The value a step gives its option: "old" is the value before it, "conf" *)
(* the options it reads, "e" the options whose variable is set.            *)
Step(s, old, conf, e) ==
    LET default(when) == IF old = Unset /\ when THEN Derived(conf, s.opt, s.from) ELSE old
    IN  CASE s.op = "default"  -> default(TRUE)
          [] s.op = "env"      -> IF s.opt \in e THEN <<"env", "x">> ELSE old
          [] s.op = "keep"     -> conf[s.from[1]]
          [] s.op = "runtimes" -> default(conf["Runtime"] = Unset)
          [] s.op = "runtime"  -> default(One(conf["Runtimes"]))
          [] s.op = "lease"    -> IF Old(conf["KubeVersion"]) THEN Unset ELSE old
          [] s.op = "stable"   -> default(conf["Mode"] # Unset)

(* The last of the first i steps that assigns an option, 0 if none does.   *)
LastSet == [i \in 0..Len(Steps) |->
           [o \in Option \cup Local |-> Max({0} \cup {j \in 1..i : Steps[j].opt = o})]]

(* The value of an option after the first i steps.                         *)
RECURSIVE After(_, _, _, _)
After(o, i, opts, e) ==
    LET j == LastSet[i][o]
    IN  IF j = 0 THEN IF o \in DOMAIN opts THEN opts[o] ELSE Unset
        ELSE Step(Steps[j], After(o, j - 1, opts, e),
                  [p \in Range(Steps[j].from) |-> After(p, j - 1, opts, e)], e)

setKwokctlConfigurationDefaults(opts, e) == [o \in Option |-> After(o, Len(Steps), opts, e)]
=============================================================================
