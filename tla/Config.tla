-------------------------------- MODULE Config --------------------------------
(***************************************************************************)
(* The configuration of kwokctl: how configuration files are loaded,       *)
(* merged, converted and saved (pkg/config/config.go and flags.go, the     *)
(* conversions of pkg/apis/internalversion), and the commands that do so:  *)
(* create cluster, the commands on a created cluster, config tidy, reset,  *)
(* view.  How the options get their values is in module ConfigOptions.     *)
(***************************************************************************)
EXTENDS ConfigOptions, SequencesExt

CONSTANTS Files,      \* contents a configuration file of the user can have
          Envs,       \* sets of options whose variable can be set
          Flags,      \* sets of options given as flags to create cluster
          MaxCommands \* bound on the commands

VARIABLES home,       \* the default file, ~/.kwok/kwok.yaml
          workdir,    \* the file of the cluster
          env,        \* the options whose variable is set
          made,       \* what create saved, from what
          commands

vars == <<home, workdir, env, made, commands>>

-----------------------------------------------------------------------------
(* Documents and objects: a kind, a name, a form, and options.  The form   *)
(* is what the conversions change: a stage that gives a status template,   *)
(* patches, or both; logs in a file below the home or at a full path.  The *)
(* internal version of the options of kwokctl has no prefixes, no mode,    *)
(* and tars only as flags give them.                                       *)

Doc(kind, name, form, opts) == [kind |-> kind, name |-> name, form |-> form, opts |-> opts]

Missing == <<Doc("missing", "", "", <<>>)>>

(* In the order of their names, as Load sorts them; others are skipped.    *)
Kinds == <<"KwokConfiguration", "KwokctlConfiguration", "Logs", "Stage">>

(* A status template becomes a patch, unless there are patches already; a  *)
(* path below the home is made a full one.                                 *)
ConvertStageNextToInternal(d) ==
    IF d.form \in {"template", "both"} THEN [d EXCEPT !.form = "patches"] ELSE d
ConvertLogsToInternal(d) == IF d.form = "home" THEN [d EXCEPT !.form = "full"] ELSE d

(* The options that are opted out of the conversion (EtcdPrefix is not).   *)
OptedOut ==
    {"KubeImagePrefix", "EtcdImagePrefix", "KwokImagePrefix", "DashboardImagePrefix",
     "PrometheusImagePrefix", "JaegerImagePrefix", "MetricsServerImagePrefix",
     "KindNodeImagePrefix", "KubeBinaryPrefix", "EtcdBinaryPrefix", "EtcdBinaryTar",
     "KwokBinaryPrefix", "PrometheusBinaryPrefix", "PrometheusBinaryTar",
     "JaegerBinaryPrefix", "JaegerBinaryTar", "MetricsServerBinaryPrefix",
     "KindBinaryPrefix", "Mode"}

ConvertKwokctlConfigurationToInternal(d) ==
    [d EXCEPT !.opts = [o \in DOMAIN @ |-> IF o \in OptedOut THEN Unset ELSE @[o]]]

ConvertToInternal(d) ==
    CASE d.kind = "Stage" -> ConvertStageNextToInternal(d)
      [] d.kind = "Logs"  -> ConvertLogsToInternal(d)
      [] d.kind = "KwokctlConfiguration" -> ConvertKwokctlConfigurationToInternal(d)
      [] OTHER            -> d

(* The first patch of a stage is written as its status template as well.   *)
ConvertToV1alpha1(d) == IF d.form = "patches" THEN [d EXCEPT !.form = "both"] ELSE d

(* Later documents win, option by option.                                  *)
StrategicMerge(docs) ==
    FoldLeft(LAMBDA opts, d : [o \in DOMAIN opts \cup DOMAIN d.opts |->
                                 IF o \in DOMAIN d.opts THEN d.opts[o] ELSE opts[o]],
             <<>>, docs)

mutateToInternalConfig(docs) == [i \in DOMAIN docs |-> ConvertToInternal(docs[i])]

mergeAndMutateToInternalConfig(docs, e) ==
    IF docs = <<>> THEN <<>>
    ELSE LET merged == StrategicMerge(docs)
         IN  <<ConvertToInternal(Doc(docs[1].kind, docs[1].name, "",
                   IF docs[1].kind = "KwokctlConfiguration"
                     THEN setKwokctlConfigurationDefaults(merged, e) ELSE merged))>>

Load(docs, e) ==
    LET of(kind) == SelectSeq(docs, LAMBDA d : d.kind = kind)
        objs(kind) == IF kind \in {"KwokConfiguration", "KwokctlConfiguration"}
                        THEN mergeAndMutateToInternalConfig(of(kind), e)
                        ELSE mutateToInternalConfig(of(kind))
    IN  FlattenSeq([i \in DOMAIN Kinds |-> objs(Kinds[i])])

(* Mutant: only what the user gave is written.                             *)
MarshalGiven(obj) ==
    [ConvertToV1alpha1(obj) EXCEPT
       !.opts = [o \in {p \in DOMAIN obj.opts : Given(obj.opts[p])} |-> obj.opts[o]]]

(* An option without value is not written.                                 *)
Marshal(obj) ==
    [ConvertToV1alpha1(obj) EXCEPT
       !.opts = [o \in {p \in DOMAIN obj.opts : obj.opts[p] # Unset} |-> obj.opts[o]]]

SaveTo(objs) == [i \in DOMAIN objs |-> Marshal(objs[i])]

FilterWithType(objs, kind) == SelectSeq(objs, LAMBDA o : o.kind = kind)

(* The configuration in use: the one loaded, or all defaults.              *)
GetKwokctlConfiguration(objs, e) ==
    LET found == FilterWithType(objs, "KwokctlConfiguration")
        none == Doc("KwokctlConfiguration", "", "", setKwokctlConfigurationDefaults(<<>>, e))
    IN  IF found # <<>> THEN found[1].opts ELSE ConvertToInternal(none).opts

-----------------------------------------------------------------------------
(* The commands.                                                           *)

(* The default file is loaded first, if there is one.                      *)
loadConfig(extra) == (IF home = Missing THEN <<>> ELSE home) \o extra

InitFlags(extra) == Load(loadConfig(extra), env)

DefaultStages ==
    << Doc("Stage", "node-init", "patches", <<>>), Doc("Stage", "heartbeat", "patches", <<>>) >>

EnabledCRDs(conf) == IF conf["EnableCRDs"] = Unset THEN {} ELSE {"Stage", "Logs"}

(* The objects Cluster.Save writes, but those of the kinds that are CRDs.  *)
(* The default stages are added twice.                                     *)
ClusterObjects(conf, objs) ==
    LET kind == Given(conf["Runtime"]) /\ conf["Runtime"][2] = "kind"
        local(k) == IF k \in EnabledCRDs(conf) THEN <<>> ELSE FilterWithType(objs, k)
        defaults == "Stage" \notin EnabledCRDs(conf) /\ ~kind /\ local("Stage") = <<>>
    IN  <<Doc("KwokctlConfiguration", "", "", conf)>>
          \o FilterWithType(objs, "KwokConfiguration")
          \o (IF defaults THEN DefaultStages \o DefaultStages ELSE local("Stage"))
          \o local("Logs")

Heartbeats == {"NodeLeaseDurationSeconds", "NodeStatusUpdateFrequencyMilliseconds",
               "KubeControllerManagerNodeMonitorGracePeriodMilliseconds",
               "KubeControllerManagerNodeMonitorPeriodMilliseconds"}

(* A factor that is neither 0 nor 1 is applied to the heartbeat's options, *)
(* once.                                                                   *)
mutationHeartbeat(conf) ==
    IF Given(conf["HeartbeatFactor"]) /\ conf["HeartbeatFactor"][2] \in {"0", "1"} THEN conf
    ELSE [o \in Option |->
            CASE o = "HeartbeatFactor"                   -> <<"flag", "1">>
              [] o \in Heartbeats /\ conf[o] # Unset     -> <<"scaled", <<conf[o]>>>>
              [] OTHER                                   -> conf[o]]

Count == commands < MaxCommands /\ commands' = commands + 1

(* kwokctl create cluster, up to its Save; the flags overwrite the loaded  *)
(* options, and the first available runtime is taken if none is chosen.    *)
Create ==
    /\ Count /\ workdir = Missing
    /\ \E extra \in Files, flags \in Flags :
         LET objs == InitFlags(extra)
             loaded == GetKwokctlConfiguration(objs, env)
             asked == mutationHeartbeat([o \in Option |-> IF o \in flags THEN <<"flag", "x">>
                                                          ELSE loaded[o]])
             conf == IF asked["Runtime"] # Unset THEN asked
                     ELSE [asked EXCEPT !["Runtime"] = <<"flag", "found">>]
             given == StrategicMerge(FilterWithType(loadConfig(extra), "KwokctlConfiguration"))
         IN  /\ workdir' = SaveTo(ClusterObjects(conf, objs))
             /\ made' = [conf |-> conf, given |-> given, env |-> env,
                         versioned |-> setKwokctlConfigurationDefaults(given, env)]
    /\ UNCHANGED <<home, env>>

(* Any later command on the cluster reads its file.                        *)
ClusterLoad == GetKwokctlConfiguration(Load(workdir, env), env)

Delete ==
    /\ Count /\ workdir # Missing
    /\ workdir' = Missing
    /\ UNCHANGED <<home, env, made>>

(* kwokctl config tidy: all that was loaded becomes the default file.      *)
Tidy ==
    /\ Count
    /\ \E extra \in Files : home' = SaveTo(InitFlags(extra))
    /\ UNCHANGED <<workdir, env, made>>

Reset ==
    /\ Count /\ home # Missing
    /\ home' = Missing
    /\ UNCHANGED <<workdir, env, made>>

(* kwokctl config view prints what tidy would save.                        *)
View(extra) == SaveTo(InitFlags(extra))

(* The user sets other variables, or writes the default file.              *)
OtherEnv ==
    /\ Count
    /\ env' \in Envs \ {env}
    /\ UNCHANGED <<home, workdir, made>>

Edit ==
    /\ Count
    /\ home' \in Files \ {home}
    /\ UNCHANGED <<workdir, env, made>>

Init ==
    /\ home = Missing /\ workdir = Missing
    /\ env = {}
    /\ made = [conf |-> <<>>, given |-> <<>>, env |-> {}, versioned |-> <<>>]
    /\ commands = 0

Next == \/ Create \/ Delete \/ Tidy \/ Reset \/ OtherEnv \/ Edit

Spec == Init /\ [][Next]_vars

-----------------------------------------------------------------------------
(* In what is converted to the internal version, a default follows the     *)
(* final values of the options it is made from, and a given option is not  *)
(* replaced by a default (the set*Config functions).                       *)
(* Three do not: the lease duration is 0 before Kubernetes 1.14, kubectl   *)
(* does not see the variable of the binary prefix, nor admission the one   *)
(* of authorization.                                                       *)
Coherent ==
    workdir # Missing =>
      /\ \A o \in DOMAIN made.given \ (made.env \cup {"NodeLeaseDurationSeconds"}) :
           made.versioned[o] = made.given[o]
      /\ \A i \in DOMAIN Steps :
           LET s == Steps[i]
               v == made.versioned[s.opt]
               prefix == made.versioned["KubeBinaryPrefix"]
               conf == made.versioned @@ ("kubectlBinaryPrefix" :> prefix)
           IN  /\ s.op = "default" /\ s.opt \notin Local
               /\ s.opt # "NodeLeaseDurationSeconds"
               /\ ~(s.opt = "KubectlBinary" /\ "KubeBinaryPrefix" \in made.env)
               /\ ~(s.opt = "KubeAdmission" /\ "KubeAuthorization" \in made.env)
               => \/ s.opt \in made.env \cup DOMAIN made.given
                  \/ v = Derived(conf, s.opt, s.from)

(* What is saved is what is loaded.  A cluster keeps the options it was    *)
(* created with: in any later environment an option that create settled is *)
(* read back as it was, unless its own variable is set.  So it is although *)
(* the prefixes, the tars and the mode that the others were made from are  *)
(* not saved, and are computed anew in the later environment.  Two cases   *)
(* are left out: the lease duration, which is not written when it is 0 and *)
(* depends on the version, and a tar given as a flag, which is saved and   *)
(* never read (Cluster.Save and Load, where                                *)
(* setKwokctlConfigurationDefaults runs once more on what was saved).  And *)
(* tidying the default file changes nothing: in the same environment the   *)
(* file gives the objects that were loaded (config tidy, Save and the      *)
(* conversions both ways).                                                 *)
SavedIsLoaded ==
    /\ workdir # Missing =>
         \A o \in Option \ (env \cup OptedOut \cup {"NodeLeaseDurationSeconds"}) :
           made.conf[o] # Unset => ClusterLoad[o] = made.conf[o]
    /\ \A extra \in Files : Load(View(extra), env) = InitFlags(extra)
=============================================================================
