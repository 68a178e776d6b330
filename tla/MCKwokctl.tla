------------------------------ MODULE MCKwokctl ------------------------------
(***************************************************************************)
(* The commands of kwokctl that share nothing but the files and clusters   *)
(* they work on: snapshots (Snapshot), the timing of a replay (Replay),    *)
(* scale (Scale), the configuration (Config), the user's kubeconfig        *)
(* (Kubeconfig), the cache of binaries (Download), and the life of a       *)
(* cluster (Cluster).  A behaviour takes one of them; the variables of the *)
(* others stand still.                                                     *)
(***************************************************************************)
EXTENDS Replay, TLC

VARIABLES part,
          objects, clock, command, scalings, deletes,                \* Scale
          mode, writes, rec, file, ld, target,                       \* Snapshot
          home, workdir, env, made, commands,                        \* Config
          kubeconfig, locked, exist, kindUp, inHost, asked,          \* Kubeconfig
          changes, started, loose, calm,
          source, inode, path, dest, cmd, runs, broken, torn,        \* Download
          rt, opt, host, process, count                              \* Cluster

snapshotVars == <<mode, writes, rec, file, ld, target>>
scaleVars == <<objects, clock, command, scalings, deletes>>
configVars == <<home, workdir, env, made, commands>>
kubeconfigVars == <<kubeconfig, locked, exist, kindUp, inHost, asked, changes, started, loose, calm>>
downloadVars == <<source, inode, path, dest, cmd, runs, broken, torn>>
clusterVars == <<rt, opt, host, process, count>>

Scaling == INSTANCE Scale
  WITH commands <- scalings, MaxSerial <- 3, MaxReplicas <- 3, MaxDeletes <- 1, MaxTime <- 2,
       MaxCommands <- 3

(* A pod with two owners, one of which is saved before it and one after,   *)
(* and which have the same name.                                           *)
D == <<"deployments", "x">>
J == <<"jobs", "x">>
P == <<"pods", "z">>

Snapshots == INSTANCE Snapshot
  WITH Keys <- {D, J, P}, Owners <- (D :> {}) @@ (J :> {}) @@ (P :> {D, J}),
       Kinds <- <<"deployments", "pods", "jobs">>,
       Filters <- {{"deployments", "pods", "jobs"}, {"jobs", "pods"}},
       JsonKinds <- {"jobs"}, Extends <- {}, HeapSize <- 2, MaxEvents <- 3

(* A recording in order, one with a patch that is late by one, one with a  *)
(* patch that is late by two, one with two patches of the same time.       *)
MCRecordings == {<<0, 1500, 3000>>, <<500, 300, 2500>>, <<2000, 2500, 100>>, <<0, 0>>}

Contexts == INSTANCE Kubeconfig
  WITH file <- kubeconfig, cmd <- changes, commands <- started,
       Cluster <- {"a", "k"}, Kind <- {"k"}, MaxCommands <- 3

Downloads == INSTANCE Download WITH Command <- {"a", "b"}, Blocks <- 2, MaxRuns <- 3

Clusters == INSTANCE Cluster
  WITH cmd <- process, OptionSet <- {{}, {"jaeger", "metrics"}}, Attempts <- 2, MaxOps <- 4,
       MaxTrouble <- 1, MaxWrites <- 1, MaxRevived <- 1

Doc(kind, name, form, opts) == [kind |-> kind, name |-> name, form |-> form, opts |-> opts]
Values(os, v) == Doc("KwokctlConfiguration", "", "", [o \in os |-> <<"file", v>>])
Stage(form) == Doc("Stage", "s", form, <<>>)

(* Files with a Kubernetes before 1.14, with every form of a stage, with   *)
(* options on which others depend, and with kinds that kwokctl skips.      *)
MCFiles ==
    {<<>>, <<Values({"KubeVersion"}, "old"), Stage("template"), Stage("both")>>,
     <<Stage("patches"), Values({"KubeBinaryPrefix", "EtcdBinary"}, "x"),
       Values({"HeartbeatFactor"}, "0"),
       Doc("KwokConfiguration", "", "", [o \in {"CIDR"} |-> <<"file", "x">>])>>,
     <<Doc("ConfigMap", "c", "", <<>>), Values({"EtcdVersion", "Mode"}, "x"),
       Values({"Runtimes"}, "one"), Doc("Logs", "l", "home", <<>>)>>}
MCEnvs == {{}, {"KubeVersion", "Mode"}, {"KubeAuthorization", "KubeImagePrefix", "Runtime"},
           {"EtcdBinaryTar", "KubeBinaryPrefix", "SecurePort"}}
MCFlags == {{}, {"Runtime", "EtcdImage", "EtcdBinaryTar", "EnableCRDs"}}

Configuring == INSTANCE Config
  WITH Files <- MCFiles, Envs <- MCEnvs, Flags <- MCFlags, MaxCommands <- 3

(* A part that is not taken has no state; the replay stays as it begins,   *)
(* with one of the recordings.                                             *)
NoSnapshot ==
    /\ mode = 0 /\ writes = 0 /\ rec = 0 /\ file = 0 /\ ld = 0 /\ target = 0

NoScale ==
    /\ objects = 0 /\ clock = 0 /\ command = 0 /\ scalings = 0 /\ deletes = 0

NoConfig ==
    /\ home = 0 /\ workdir = 0 /\ env = 0 /\ made = 0 /\ commands = 0

NoKubeconfig ==
    /\ kubeconfig = 0 /\ locked = 0 /\ exist = 0 /\ kindUp = 0 /\ inHost = 0
    /\ asked = 0 /\ changes = 0 /\ started = 0 /\ loose = 0 /\ calm = 0

NoDownload ==
    /\ source = 0 /\ inode = 0 /\ path = 0 /\ dest = 0 /\ cmd = 0 /\ runs = 0
    /\ broken = 0 /\ torn = 0

NoCluster ==
    /\ rt = 0 /\ opt = 0 /\ host = 0 /\ process = 0 /\ count = 0

MCInit ==
    /\ Init
    /\ part \in {"config", "snapshot", "scale", "replay", "kubeconfig", "download", "cluster"}
    /\ IF part = "snapshot" THEN Snapshots!Init ELSE NoSnapshot
    /\ IF part = "scale" THEN Scaling!Init ELSE NoScale
    /\ part # "replay" => recording = <<0, 0>> /\ handle
    /\ IF part = "config" THEN Configuring!Init ELSE NoConfig
    /\ IF part = "kubeconfig" THEN Contexts!Init ELSE NoKubeconfig
    /\ IF part = "download" THEN Downloads!Init ELSE NoDownload
    /\ IF part = "cluster" THEN Clusters!Init ELSE NoCluster

MCNext ==
    /\ UNCHANGED part
    /\ IF part = "replay" THEN Next ELSE UNCHANGED vars
    /\ IF part = "config" THEN Configuring!Next ELSE UNCHANGED configVars
    /\ IF part = "snapshot" THEN Snapshots!Next ELSE UNCHANGED snapshotVars
    /\ IF part = "scale" THEN Scaling!Next ELSE UNCHANGED scaleVars
    /\ IF part = "kubeconfig" THEN Contexts!Next ELSE UNCHANGED kubeconfigVars
    /\ IF part = "download" THEN Downloads!Next ELSE UNCHANGED downloadVars
    /\ IF part = "cluster" THEN Clusters!Next ELSE UNCHANGED clusterVars

MCSpec ==
    MCInit /\ [][MCNext]_<<part, vars, snapshotVars, scaleVars, configVars,
                           kubeconfigVars, downloadVars, clusterVars>>

-----------------------------------------------------------------------------
(* A replay of a recording reproduces it (Recorder and Loader; see module  *)
(* Snapshot).                                                              *)
ReplayReproduces == part = "snapshot" => Snapshots!ReplayReproduces

(* A restore brings back the objects of the file, with owner references    *)
(* that resolve (Loader.Load; see module Snapshot).                        *)
Restored == part = "snapshot" => Snapshots!Restored

(* The pages of `hack get` are etcd at one revision (client.Get; see       *)
(* module Snapshot).                                                       *)
GetConsistent == part = "snapshot" => Snapshots!GetConsistent

(* A restore brings back the objects of the kinds that are asked for       *)
(* (Loader.Load; see module Snapshot).                                     *)
FilteredRestored == part = "snapshot" => Snapshots!FilteredRestored

(* A command that nothing disturbs leaves as many objects as it was asked  *)
(* for (Scale; see module Scale).                                          *)
ScaledInOrder == part = "scale" => Scaling!ScaledInOrder

(* The options saved for a cluster, and those of the tidied file, are the  *)
(* ones loaded later (Cluster.Save and Load, config tidy; see module       *)
(* Config).                                                                *)
ConfigurationKept == part = "config" => Configuring!SavedIsLoaded

(* A default follows the options it is made from, and no default replaces  *)
(* a given option (setKwokctlConfigurationDefaults; see module Config).    *)
OptionsCoherent == part = "config" => Configuring!Coherent

(* Contexts of the kubeconfig resolve, and between undisturbed commands    *)
(* they are those of the clusters that exist (ModifyContext, AddContext    *)
(* and RemoveContext; see module Kubeconfig).                              *)
ContextsKept == part = "kubeconfig" => Contexts!ContextsKept

(* A binary that a finished command linked is whole, unless a command was  *)
(* cut short while writing it or two wrote it at a time                    *)
(* (DownloadWithCacheAndExtract; see module Download).                     *)
BinaryWhole == part = "download" => Downloads!BinaryWhole

(* A successful delete, and a create that cleans up, leave nothing of the  *)
(* cluster (Down, Uninstall, cleanUp; see module Cluster).                 *)
LeavesNothing == part = "cluster" => Clusters!LeavesNothing

(* Restores, starts and stops keep the data (SnapshotRestore, restart.db;  *)
(* see module Cluster).                                                    *)
KeepsData == part = "cluster" => Clusters!KeepsData

(* Commands that report success leave the components running (Up, Start,   *)
(* SnapshotRestore; see module Cluster).                                   *)
EndsRunning == part = "cluster" => Clusters!EndsRunning

(* Components are started and stopped in the order of their links          *)
(* (ForeachComponents; see module Cluster).                                *)
LinksRespected == [][part = "cluster" => Clusters!LinksFollowed]_clusterVars
=============================================================================
