------------------------------ MODULE Cluster ------------------------------
(***************************************************************************)
(* One cluster on a host and the kwokctl commands run on it one after      *)
(* another: create, delete, start and stop cluster, snapshot save and      *)
(* restore.  pkg/kwokctl/cmd, and pkg/kwokctl/runtime with the runtimes    *)
(* binary, compose (docker, nerdctl) and kind.                             *)
(*                                                                         *)
(* host is what is outside the kwokctl process and survives it: the files  *)
(* of the cluster, processes, containers, and etcd's data.  cmd is the     *)
(* running kwokctl process: the steps it has still to take, each one       *)
(* effect on the host.  A step may be deferred (taken on the error path as *)
(* well) and its error may be only logged; an error otherwise drops the    *)
(* steps that are not deferred.  The operators named after Go functions    *)
(* give the steps of that function.                                        *)
(*                                                                         *)
(* A step of the host may fail, components of the binary runtime may die,  *)
(* kwokctl may be killed at any point, and clients write to the cluster    *)
(* while kwokctl works.                                                    *)
(***************************************************************************)
EXTENDS Components, SequencesExt

CONSTANTS
    OptionSet,     \* the sets of options a cluster may be created with
    Attempts,      \* wait.WithContinueOnError(5)
    MaxOps,        \* bound on the commands run
    MaxTrouble,    \* bound on failing steps, dying components, killed commands
    MaxWrites,     \* bound on the writes to etcd
    MaxRevived     \* bound on the containers restarted by their policy

VARIABLES
    rt, opt,       \* the runtime and the options of the cluster
    host,          \* what is outside the kwokctl process
    cmd,           \* the running kwokctl command
    count          \* how many commands, troubles, writes, revivals there have been

vars == <<rt, opt, host, cmd, count>>

None == "none"

(* etcd's data is the sequence of the writes it holds, each known by its   *)
(* number.                                                                 *)
NoData == <<0>>
NewData == <<>>
Writes(d) == ToSet(d) \ ToSet(NoData)

Ops == {"create", "delete", "start", "stop", "save", "restore", "restoreYAML"}

IsNerdctl == rt \in {"nerdctl", "oldnerdctl"}
isCanNerdctlUnlessStopped == rt # "oldnerdctl"
IsCompose == rt \in {"docker", "nerdctl", "oldnerdctl"}

-----------------------------------------------------------------------------
(* The host.                                                               *)

NoHost ==
    [conf   |-> FALSE,                  \* kwok.yaml is in the workdir
     comps  |-> <<>>,                   \* the components in it
     ctx    |-> FALSE,                  \* the context in the kubeconfig
     proc   |-> [n \in Names |-> "none"],  \* or "up" or "orphan"
     made   |-> {},                     \* containers that exist
     net    |-> FALSE,                  \* the containers' network
     node   |-> "none",                 \* the node container of kind, or "up" or "stopped"
     off    |-> {},                     \* manifests moved away (.yaml.bak)
     data   |-> NoData,                 \* etcd's data directory
     ghost  |-> NoData,                 \* what etcd serves after it lost that
     tmp    |-> NoData,                 \* the temporary restored directory
     snap   |-> NoData,                 \* the user's snapshot file
     backup |-> NoData]                 \* restart.db

Static == {"etcd", "kube-apiserver", "kube-controller-manager", "kube-scheduler"}

(* The components that run.  A process whose pid file was never written    *)
(* runs, but kwokctl does not see it (an orphan).                          *)
Alive(h) ==
    IF rt = "kind"
    THEN IF h.node = "up" THEN (Static \cup NamesOf(h.comps)) \ h.off ELSE {}
    ELSE {n \in Names : h.proc[n] # "none"}

Serving(h) == {"etcd", "kube-apiserver"} \subseteq Alive(h)
Served(h) == IF h.ghost # NoData THEN h.ghost ELSE h.data

(* A stopped cluster of an old nerdctl has its data in restart.db.         *)
Kept(h) == IF h.backup # NoData THEN h.backup ELSE Served(h)

(* Ready: every component of the config is seen running, and the apiserver *)
(* answers.                                                                *)
Seen(h) == IF rt = "kind" THEN Alive(h) ELSE {n \in Names : h.proc[n] = "up"}
Ready(h) == NamesOf(h.comps) \subseteq Seen(h) /\ Serving(h)

-----------------------------------------------------------------------------
(* Steps.                                                                  *)

Step(do, on) ==
    [do |-> do, on |-> on, left |-> 0, call |-> None, always |-> FALSE, log |-> FALSE]
Do(do) == <<Step(do, {})>>
Logged(steps) == [i \in DOMAIN steps |-> [steps[i] EXCEPT !.log = TRUE]]
Deferred(steps) ==
    [i \in DOMAIN steps |-> [steps[i] EXCEPT !.log = TRUE, !.always = TRUE]]
Each(do, names) == [i \in DOMAIN names |-> Step(do, {names[i]})]
Poll(do) == <<[Step(do, {}) EXCEPT !.left = Attempts]>>

ForeachComponents(do, comps, reverse, order) ==
    IF BrokenLinks(comps) THEN Do("brokenLinks")
    ELSE LET groups == IF order THEN GroupByLinks(comps)
                       ELSE SelectSeq(<<NamesOf(comps)>>, LAMBDA g : g # {})
             inOrder == IF reverse THEN Reverse(groups) ELSE groups
         IN  [i \in DOMAIN inOrder |-> Step(do, inOrder[i])]

startComponents(comps) == ForeachComponents("start", comps, FALSE, TRUE)
(* Mutant: the groups are stopped in the order they are started in.        *)
stopComponentsForward(comps) == ForeachComponents("stop", comps, FALSE, rt = "binary")

stopComponents(comps) == ForeachComponents("stop", comps, TRUE, rt = "binary")
createComponents(comps) == ForeachComponents("create", comps, FALSE, TRUE)
deleteComponents(comps) == ForeachComponents("delete", comps, TRUE, TRUE)

Restart(names) ==
    [i \in 1..(2 * Len(names)) |->
        Step(IF i % 2 = 1 THEN "stop" ELSE "start", {names[(i + 1) \div 2]})]

Stores == <<"etcd", "kube-apiserver">>
Controllers == <<"kwok-controller", "kube-controller-manager", "kube-scheduler">>
YAMLStopped == <<"kube-scheduler", "kube-controller-manager", "kwok-controller">>

-----------------------------------------------------------------------------
(* The functions of the runtimes.                                          *)

Install ==
    [k \in 1..Len(InstallCalls(rt, opt)) |-> [Step("add", {}) EXCEPT !.left = k]]
      \o (CASE rt = "binary" -> Do("save")
           [] rt = "kind"   -> <<>>
           [] OTHER         -> Do("save") \o Do("createNetwork") \o Poll("createAll"))

BinaryUninstall == Do("removeWorkdir")
(* Mutant: the network is forgotten.                                       *)
ComposeUninstallNoNetwork == Poll("deleteAll") \o Do("removeWorkdir")

ComposeUninstall == Poll("deleteAll") \o Do("deleteNetwork") \o Do("removeWorkdir")
KindUninstall == Do("removeWorkdir")

BinaryStart == Poll("startAll")
BinaryStop == Poll("stopAll")

ComposeStart ==
    IF isCanNerdctlUnlessStopped THEN Poll("startAll")
    ELSE Do("createAll") \o Poll("startAll") \o Do("restoreBackup")

ComposeStop ==
    IF isCanNerdctlUnlessStopped THEN Poll("stopAll")
    ELSE Do("saveBackup") \o Poll("stopAll") \o Do("deleteAll")

(* Both options stop the scheduler.                                        *)
KindUp ==
    Do("save") \o Do("preDownloadKind") \o Do("kindCreate") \o Do("loadImages")
      \o Do("fillKubeconfigContextServer") \o Do("viewKubeconfig") \o Do("writeKubeconfig")
      \o Logged(Do("cordon")) \o Logged(Do("chmod"))
      \o Deferred(IF opt.kcm THEN <<>> ELSE Each("stop", <<"kube-scheduler">>))
      \o Deferred(IF opt.scheduler THEN <<>> ELSE Each("stop", <<"kube-scheduler">>))

KindDown == Do("preDownloadKind") \o Logged(Do("kindDelete"))
KindStart == Do("nodeStart")
KindStop == Do("nodeStop")

Uninstall == CASE rt = "binary" -> BinaryUninstall [] rt = "kind" -> KindUninstall
               [] OTHER -> ComposeUninstall
Up    == CASE rt = "binary" -> BinaryStart [] rt = "kind" -> KindUp [] OTHER -> ComposeStart
Down  == CASE rt = "binary" -> BinaryStop [] rt = "kind" -> KindDown [] OTHER -> ComposeStop
Start == CASE rt = "binary" -> BinaryStart [] rt = "kind" -> KindStart [] OTHER -> ComposeStart
Stop  == CASE rt = "binary" -> BinaryStop [] rt = "kind" -> KindStop [] OTHER -> ComposeStop

RestartAll == Each("start", Stores) \o Restart(Controllers)

(* Mutant: the data is removed before there is anything to replace it.     *)
BinaryRestoreRemoveFirst ==
    Logged(Each("stop", Stores)) \o Do("clearTmp") \o Do("removeData")
      \o Do("restoreTmp") \o Do("renameTmp") \o Deferred(RestartAll)

BinarySnapshotRestore ==
    Logged(Each("stop", Stores)) \o Do("clearTmp") \o Do("restoreTmp")
      \o Do("removeData") \o Do("renameTmp") \o Deferred(RestartAll)

(* What follows the first deferred call of the function is a step of its   *)
(* own: it is not there when the function returned before.                 *)
ComposeSnapshotRestore == Do("restoreTmp") \o Do("composeCopy")

composeCopy ==
    IF IsNerdctl
    THEN Logged(Each("stop", <<"kube-apiserver">>)) \o Do("copyData") \o Do("nerdctlRestart")
           \o Deferred(Each("start", <<"kube-apiserver">>)) \o Deferred(Do("clearTmp"))
    ELSE Logged(Each("stop", Stores)) \o Do("copyData")
           \o Deferred(RestartAll) \o Deferred(Do("clearTmp"))

nerdctlRestart == Logged(Each("stop", <<"etcd">>)) \o Deferred(RestartAll)

KindSnapshotRestore ==
    Logged(Each("stop", <<"etcd">>)) \o Do("restoreTmp") \o Do("kindCopy")
      \o Deferred(Each("start", <<"etcd">>) \o Do("nodeStop") \o Do("nodeStart"))

kindCopy == Do("copyData") \o Deferred(Do("clearTmp"))

SnapshotRestore == CASE rt = "binary" -> BinarySnapshotRestore
                     [] rt = "kind" -> KindSnapshotRestore
                     [] OTHER -> ComposeSnapshotRestore

SnapshotRestoreWithYAML ==
    Logged(Each("stop", YAMLStopped)) \o Do("loadYAML") \o Deferred(Each("start", YAMLStopped))

(* The steps a step that is a call stands for.                             *)
Calls == {"startAll", "stopAll", "createAll", "deleteAll", "restoreBackup",
          "composeCopy", "nerdctlRestart", "kindCopy"}

Called(do, comps, h) ==
    CASE do = "startAll"  -> startComponents(comps)
      [] do = "stopAll"   -> stopComponents(comps)
      [] do = "createAll" -> createComponents(comps)
      [] do = "deleteAll" -> deleteComponents(comps)
      [] do = "restoreBackup" -> IF h.backup = NoData THEN <<>>
                                 ELSE SnapshotRestore \o Do("removeBackup")
      [] do = "composeCopy"    -> composeCopy
      [] do = "nerdctlRestart" -> nerdctlRestart
      [] do = "kindCopy"       -> kindCopy

-----------------------------------------------------------------------------
(* The commands.                                                           *)

AddContext == Logged(Do("addContext"))

createCluster(exists) ==
    (IF exists THEN <<>> ELSE Do("save") \o Install \o Do("cleanUp"))
      \o (IF rt = "kind" THEN Up \o Do("initCRs") \o Deferred(Do("addContext"))
          ELSE AddContext \o Up \o Do("initCRs"))

deleteCluster == Down \o Logged(Do("removeContext")) \o Uninstall

Program(op) ==
    CASE op = "create"      -> createCluster(host.conf)
      [] op = "delete"      -> deleteCluster
      [] op = "start"       -> Start
      [] op = "stop"        -> Stop
      [] op = "save"        -> Do("saveSnapshot")
      [] op = "restore"     -> SnapshotRestore
      [] op = "restoreYAML" -> SnapshotRestoreWithYAML

-----------------------------------------------------------------------------
(* What a step does to the host, and whether it reports success.           *)

Done(h) == [h |-> h, ok |-> TRUE]
Refused(h) == [h |-> h, ok |-> FALSE]
DoneIf(cond, h, new) == IF cond THEN Done(new) ELSE Refused(h)

Run(h, n) ==
    [h EXCEPT !.proc[n] = "up",
              !.data = IF n = "etcd" /\ h.data = NoData THEN NewData ELSE @]

Halt(h, n) ==
    [h EXCEPT !.proc[n] = "none", !.ghost = IF n = "etcd" THEN NoData ELSE @]

(* etcd keeps serving what it has open when its directory is replaced.     *)
Replace(h, new) ==
    [h EXCEPT !.data = new,
              !.ghost = IF "etcd" \in Alive(h) /\ @ = NoData THEN h.data ELSE @]

(* A second process finds the orphan's port taken and dies.                *)
BinaryStartComponent(h, comps, n) ==
    IF n \notin NamesOf(comps) THEN Refused(h)
    ELSE Done(IF h.proc[n] = "none" THEN Run(h, n) ELSE h)

BinaryStopComponent(h, comps, n) ==
    IF n \notin NamesOf(comps) THEN Refused(h)
    ELSE Done(IF h.proc[n] = "up" THEN Halt(h, n) ELSE h)

createComponent(h, n) == Done([h EXCEPT !.made = @ \cup {n}])

deleteComponent(h, n) ==
    IF n \notin h.made THEN Done(h)
    ELSE DoneIf(h.proc[n] = "none" \/ ~isCanNerdctlUnlessStopped, h,
                [Halt(h, n) EXCEPT !.made = @ \ {n},
                                   !.data = IF n = "etcd" THEN NoData ELSE @])

ComposeStartComponent(h, n) ==
    DoneIf(n \in h.made, h, IF h.proc[n] = "up" THEN h ELSE Run(h, n))

ComposeStopComponent(h, n) == Done(IF h.proc[n] = "up" THEN Halt(h, n) ELSE h)

(* The manifest is moved back, after a look at the pod unless it is etcd.  *)
KindStartComponent(h, n) ==
    LET look == n # "etcd" IN
    IF look /\ ~Serving(h) THEN Refused(h)
    ELSE IF look /\ n \in Alive(h) THEN Done(h)
    ELSE DoneIf(h.node = "up" /\ n \in h.off, h, [h EXCEPT !.off = @ \ {n}])

KindStopComponent(h, n) ==
    LET look == n \notin {"etcd", "kube-apiserver"} IN
    IF look /\ ~Serving(h) THEN Refused(h)
    ELSE IF look /\ n \notin Alive(h) THEN Done(h)
    ELSE DoneIf(n \in Alive(h), h,
                [h EXCEPT !.off = @ \cup {n}, !.ghost = IF n = "etcd" THEN NoData ELSE @])

(* A step on one component.                                                *)
Works == {"start", "stop", "create", "delete"}

Work(do, h, comps, n) ==
    CASE do = "create" -> createComponent(h, n)
      [] do = "delete" -> deleteComponent(h, n)
      [] do = "start" /\ rt = "binary" -> BinaryStartComponent(h, comps, n)
      [] do = "start" /\ rt = "kind"   -> KindStartComponent(h, n)
      [] do = "start" /\ IsCompose     -> ComposeStartComponent(h, n)
      [] do = "stop" /\ rt = "binary"  -> BinaryStopComponent(h, comps, n)
      [] do = "stop" /\ rt = "kind"    -> KindStopComponent(h, n)
      [] do = "stop" /\ IsCompose      -> ComposeStopComponent(h, n)

Save(h, comps) == Done([h EXCEPT !.conf = TRUE, !.comps = comps])

RemoveWorkdir(h) ==
    LET kept == IF rt = "binary" THEN Replace(h, NoData) ELSE h
    IN  Done([kept EXCEPT !.conf = FALSE, !.comps = <<>>, !.tmp = NoData, !.backup = NoData])

KindCreate(h) ==
    DoneIf(h.node = "none", h, [h EXCEPT !.node = "up", !.off = {}, !.data = NewData])

KindDelete(h) == Done([h EXCEPT !.node = "none", !.off = {}, !.data = NoData, !.ghost = NoData])

NodeStart(h) == DoneIf(h.node # "none", h, [h EXCEPT !.node = "up"])
NodeStop(h) == DoneIf(h.node # "none", h, [h EXCEPT !.node = "stopped", !.ghost = NoData])

SnapshotSave(h, file) ==
    DoneIf(IF rt = "kind" THEN Serving(h) ELSE "etcd" \in Alive(h), h,
           [h EXCEPT ![file] = Served(h)])

(* etcdctl refuses to restore into a directory that is there.              *)
RestoreTmp(h, file) == DoneIf(h.tmp = NoData, h, [h EXCEPT !.tmp = h[file]])

CopyData(h) ==
    DoneIf(CASE rt = "kind" -> h.node # "none"
             [] IsNerdctl   -> "etcd" \in Alive(h)
             [] OTHER       -> "etcd" \in h.made,
           h, Replace(h, h.tmp))

Effect(do, h, op, comps) ==
    CASE do = "save"            -> Save(h, comps)
      [] do = "createNetwork"   -> Done([h EXCEPT !.net = TRUE])
      [] do = "deleteNetwork"   -> Done([h EXCEPT !.net = FALSE])
      [] do = "removeWorkdir"   -> RemoveWorkdir(h)
      [] do = "addContext"      -> Done([h EXCEPT !.ctx = TRUE])
      [] do = "removeContext"   -> Done([h EXCEPT !.ctx = FALSE])
      [] do = "initCRs"         -> DoneIf(opt.metrics => Serving(h), h, h)
      [] do \in {"preDownloadKind", "fillKubeconfigContextServer", "viewKubeconfig",
                 "writeKubeconfig", "cordon", "chmod"} -> Done(h)
      [] do = "kindCreate"      -> KindCreate(h)
      [] do = "loadImages"      -> DoneIf(h.node = "up", h, h)
      [] do = "kindDelete"      -> KindDelete(h)
      [] do = "nodeStart"       -> NodeStart(h)
      [] do = "nodeStop"        -> NodeStop(h)
      [] do = "saveSnapshot"    -> SnapshotSave(h, "snap")
      [] do = "saveBackup"      -> SnapshotSave(h, "backup")
      [] do = "removeBackup"    -> Done([h EXCEPT !.backup = NoData])
      [] do = "clearTmp"        -> Done([h EXCEPT !.tmp = NoData])
      [] do = "restoreTmp"      -> RestoreTmp(h, IF op = "restore" THEN "snap" ELSE "backup")
      [] do = "removeData"      -> Done(Replace(h, NoData))
      [] do = "renameTmp"       -> Done([h EXCEPT !.data = h.tmp, !.tmp = NoData])
      [] do = "copyData"        -> CopyData(h)

-----------------------------------------------------------------------------
(* The kwokctl process.                                                    *)

Idle == [op |-> None, todo |-> <<>>, err |-> FALSE, pollErr |-> FALSE, groupErr |-> FALSE,
         comps |-> <<>>, failed |-> {}, cleaned |-> FALSE,
         before |-> {}, data |-> NoData, torn |-> FALSE]

Busy == cmd.op # None
Now == Head(cmd.todo)
Next1(c) == [c EXCEPT !.todo = Tail(@)]

From(c, do) ==
    LET at == CHOOSE i \in DOMAIN c.todo :
                 c.todo[i].do = do /\ \A j \in 1..(i - 1) : c.todo[j].do # do
    IN  SubSeq(c.todo, at, Len(c.todo))

(* A function returned an error: it is handled by the enclosing Poll, by   *)
(* the clean up of create, or it ends the command but for deferred calls.  *)
Failed(c) ==
    LET dos == {c.todo[i].do : i \in DOMAIN c.todo} IN
    IF "again" \in dos THEN [c EXCEPT !.todo = From(c, "again"), !.pollErr = TRUE]
    ELSE IF "cleanUp" \in dos THEN [c EXCEPT !.todo = From(c, "cleanUp"), !.err = TRUE]
    ELSE [c EXCEPT !.todo = SelectSeq(@, LAMBDA s : s.always), !.err = TRUE]

After(c, ok) == IF ok \/ Head(c.todo).log THEN Next1(c) ELSE Failed(Next1(c))

(* The call is replaced by its steps; under a Poll they are followed by    *)
(* the decision to try again.                                              *)
Expanded(c, do, left, rest) ==
    [c EXCEPT !.todo = Called(do, c.comps, host)
                         \o (IF left = 0 THEN <<>>
                             ELSE <<[Step("again", {}) EXCEPT !.left = left, !.call = do]>>)
                         \o rest]

Command(op) ==
    [Idle EXCEPT !.op = op, !.todo = Program(op), !.comps = host.comps,
                 !.before = Alive(host), !.data = Kept(host),
                 !.torn = host.ghost # NoData]

Noted(c, what) == [c EXCEPT !.failed = @ \cup {what}]

(* A command that returns before it changes anything.                      *)
EarlyReturn(op) ==
    CASE op = "create"  -> host.conf /\ Ready(host)
      [] op = "save"    -> ~host.conf \/ host.snap # NoData
      [] op \in {"restore", "restoreYAML"} -> ~host.conf \/ host.snap = NoData
      [] OTHER          -> ~host.conf

Begin(op) ==
    /\ ~Busy /\ count.ops < MaxOps
    /\ count' = [count EXCEPT !.ops = @ + 1]
    /\ cmd' = IF EarlyReturn(op) THEN Idle ELSE Command(op)
    /\ UNCHANGED <<rt, opt, host>>

End ==
    /\ Busy /\ cmd.todo = <<>>
    /\ cmd' = Idle
    /\ UNCHANGED <<rt, opt, host, count>>

Working == Busy /\ cmd.todo # <<>>

AppendWrite ==
    /\ host' = [host EXCEPT ![IF host.ghost # NoData THEN "ghost" ELSE "data"] =
                               Append(@, count.writes + 1)]
    /\ count' = [count EXCEPT !.writes = @ + 1]

(* One of the Install functions: the component is added to the config in   *)
(* memory.                                                                 *)
Add ==
    /\ Working /\ Now.do = "add"
    /\ cmd' = Next1([cmd EXCEPT !.comps = @ \o InstallCalls(rt, opt)[Now.left]])
    /\ UNCHANGED <<rt, opt, host, count>>

EnterCall ==
    /\ Working /\ Now.do \in Calls
    /\ cmd' = Expanded(cmd, Now.do, Now.left, Tail(cmd.todo))
    /\ UNCHANGED <<rt, opt, host, count>>

BrokenLinksError ==
    /\ Working /\ Now.do = "brokenLinks"
    /\ cmd' = After(cmd, FALSE)
    /\ UNCHANGED <<rt, opt, host, count>>

(* Mutant: the last error of a Poll is lost.                               *)
AgainSwallowed ==
    /\ Working /\ Now.do = "again"
    /\ LET c == [cmd EXCEPT !.pollErr = FALSE]
       IN  cmd' = IF cmd.pollErr /\ Now.left > 1
                  THEN Expanded(c, Now.call, Now.left - 1, Tail(cmd.todo))
                  ELSE Next1(c)
    /\ UNCHANGED <<rt, opt, host, count>>

Again ==
    /\ Working /\ Now.do = "again"
    /\ LET c == [cmd EXCEPT !.pollErr = FALSE]
       IN  cmd' = IF ~cmd.pollErr THEN Next1(c)
                  ELSE IF Now.left > 1
                  THEN Expanded(c, Now.call, Now.left - 1, Tail(cmd.todo))
                  ELSE Failed(Next1(c))
    /\ UNCHANGED <<rt, opt, host, count>>

CleanUp ==
    /\ Working /\ Now.do = "cleanUp"
    /\ cmd' = IF cmd.err THEN [cmd EXCEPT !.todo = Uninstall, !.cleaned = TRUE]
              ELSE Next1(cmd)
    /\ UNCHANGED <<rt, opt, host, count>>

Perform ==
    /\ Working
    /\ Now.do \notin Calls \cup Works
                        \cup {"add", "again", "cleanUp", "brokenLinks", "loadYAML"}
    /\ LET e == Effect(Now.do, host, cmd.op, cmd.comps)
       IN  host' = e.h /\ cmd' = After(cmd, e.ok)
    /\ UNCHANGED <<rt, opt, count>>

(* The objects of a YAML snapshot are written to the cluster.              *)
LoadYAML ==
    /\ Working /\ Now.do = "loadYAML"
    /\ cmd' = After(cmd, Serving(host))
    /\ IF Serving(host) /\ count.writes < MaxWrites THEN AppendWrite
       ELSE UNCHANGED <<host, count>>
    /\ UNCHANGED <<rt, opt>>

(* The components of a group are worked on at the same time; the first     *)
(* error cancels the others, at any point, and is reported at the end.     *)
GroupDone(c) == After([c EXCEPT !.groupErr = FALSE], ~c.groupErr)

Worked(c, n, ok) ==
    LET d == [c EXCEPT !.todo[1].on = @ \ {n}, !.groupErr = @ \/ ~ok]
    IN  IF Head(d.todo).on = {} THEN GroupDone(d) ELSE d

WorkOn(n) ==
    /\ Working /\ Now.do \in Works /\ n \in Now.on
    /\ LET e == Work(Now.do, host, cmd.comps, n)
       IN  host' = e.h /\ cmd' = Worked(cmd, n, e.ok)
    /\ UNCHANGED <<rt, opt, count>>

CancelWork ==
    /\ Working /\ Now.do \in Works /\ cmd.groupErr
    /\ cmd' = GroupDone(cmd)
    /\ UNCHANGED <<rt, opt, host, count>>

-----------------------------------------------------------------------------
(* What goes wrong, and the cluster's clients.                             *)

CanFail == count.trouble < MaxTrouble
Trouble == count' = [count EXCEPT !.trouble = @ + 1]

StepFails ==
    /\ Working /\ CanFail
    /\ Now.do \notin Calls \cup Works \cup {"again", "cleanUp", "brokenLinks"}
    /\ cmd' = After(Noted(cmd, Now.do), FALSE)
    /\ Trouble /\ UNCHANGED <<rt, opt, host>>

(* ForkExec writes the pid file after the fork, which may fail or be cut   *)
(* off: the process is there and nothing tells of it.                      *)
Forked(n) ==
    IF rt = "binary" /\ Now.do = "start" /\ host.proc[n] = "none"
    THEN {host, [Run(host, n) EXCEPT !.proc[n] = "orphan"]} ELSE {host}

WorkFails(n) ==
    /\ Working /\ CanFail /\ Now.do \in Works /\ n \in Now.on
    /\ host' \in Forked(n)
    /\ cmd' = Worked(Noted(cmd, Now.do), n, FALSE)
    /\ Trouble /\ UNCHANGED <<rt, opt>>

Killed ==
    /\ Busy /\ CanFail
    /\ host' \in IF Working /\ Now.do = "start" /\ Now.on # {}
                  THEN UNION {Forked(n) : n \in Now.on} ELSE {host}
    /\ cmd' = Idle
    /\ Trouble /\ UNCHANGED <<rt, opt>>

Die(n) ==
    /\ rt = "binary" /\ CanFail /\ host.proc[n] = "up"
    /\ host' = Halt(host, n)
    /\ cmd' = IF Busy THEN Noted(cmd, "die") ELSE cmd
    /\ Trouble /\ UNCHANGED <<rt, opt>>

(* The restart policy "always" brings a stopped container back.            *)
Revive(n) ==
    /\ ~isCanNerdctlUnlessStopped /\ n \in host.made /\ host.proc[n] = "none"
    /\ count.revived < MaxRevived
    /\ host' = Run(host, n)
    /\ count' = [count EXCEPT !.revived = @ + 1]
    /\ UNCHANGED <<rt, opt, cmd>>

Write ==
    /\ Serving(host) /\ count.writes < MaxWrites
    /\ AppendWrite
    /\ UNCHANGED <<rt, opt, cmd>>

-----------------------------------------------------------------------------
Init ==
    /\ rt \in Runtimes
    /\ \E on \in OptionSet : opt = [o \in OptionNames |-> o \in on]
    /\ host = NoHost /\ cmd = Idle
    /\ count = [ops |-> 0, trouble |-> 0, writes |-> 0, revived |-> 0]

Kwokctl ==
    \/ End \/ Add \/ EnterCall \/ BrokenLinksError \/ Again \/ CleanUp \/ Perform \/ LoadYAML
    \/ CancelWork \/ \E n \in Names : WorkOn(n)

Next ==
    \/ \E op \in Ops : Begin(op)
    \/ Kwokctl
    \/ StepFails \/ Killed \/ Write
    \/ \E n \in Names : WorkFails(n) \/ Die(n) \/ Revive(n)

Spec == Init /\ [][Next]_vars

-----------------------------------------------------------------------------
InPoll == \E i \in DOMAIN cmd.todo : cmd.todo[i].do = "again"

(* startComponents starts a component when all it links to runs, and       *)
(* stopComponents of the binary runtime stops one when nothing that links  *)
(* to it is still seen running, also when they are retried after an error  *)
(* of a group or in a cluster that was left half started.                  *)
LinksFollowed ==
    (Working /\ InPoll /\ cmd' # cmd /\ "die" \notin cmd'.failed) =>
       \A i \in DOMAIN cmd.comps : LET n == cmd.comps[i].name IN
          /\ (Now.do = "start" /\ host.proc[n] = "none" /\ host'.proc[n] # "none")
               => cmd.comps[i].links \subseteq Alive(host)
          /\ (rt = "binary" /\ Now.do = "stop" /\ host.proc[n] = "up" /\ host'.proc[n] = "none")
               => \A j \in DOMAIN cmd.comps :
                     n \in cmd.comps[j].links => host.proc[cmd.comps[j].name] # "up"

LinksRespected == [][LinksFollowed]_vars

(* A command that has come to its end and is about to report.              *)
Ends(ops) == cmd.op \in ops /\ cmd.todo = <<>>
Succeeds == ~cmd.err
NoFailure(dos) == cmd.failed \cap dos = {}

Gone ==
    /\ ~host.conf /\ host.made = {} /\ ~host.net
    /\ \A n \in Names : host.proc[n] # "up"
    /\ NoFailure({"kindDelete"}) => host.node = "none"
    /\ NoFailure({"removeContext"}) => ~host.ctx

(* When delete reports success there are no containers, no network, no     *)
(* processes kwokctl knows of, no context and no files of the cluster,     *)
(* whatever state earlier failed or killed commands left it in.  What the  *)
(* code only logs (kind's own delete, the context) may remain.  A create   *)
(* that fails in Install and cleans up leaves nothing either, unless the   *)
(* clean up fails: by a fault of its own, or because the components added  *)
(* so far link to one that is not there yet.                               *)
LeavesNothing ==
    /\ (Ends({"delete"}) /\ Succeeds) => Gone
    /\ (/\ Ends({"create"}) /\ cmd.cleaned /\ ~BrokenLinks(cmd.comps)
        /\ NoFailure({"delete", "deleteNetwork", "removeWorkdir"})) => Gone

(* After a successful restore the cluster serves the snapshot: all its     *)
(* writes and none of the others there were before.  A restore that        *)
(* reports an error has left the data as it was, unless the old directory  *)
(* was removed and the new one could not take its place.  Stopping and     *)
(* starting a cluster keeps every write made before the command, also      *)
(* where the containers are deleted and the data travels through           *)
(* restart.db.  (A killed restore may have replaced the data that etcd     *)
(* still served.)                                                          *)
KeepsData ==
    /\ (/\ Ends({"restore"}) /\ Succeeds /\ NoFailure({"start", "stop", "die"})
        /\ host.proc["etcd"] # "orphan")
         => /\ Writes(host.snap) \subseteq Writes(Served(host))
            /\ Writes(cmd.data) \cap Writes(Served(host)) \subseteq Writes(host.snap)
    /\ \/ Ends({"restore"}) /\ ~Succeeds /\ NoFailure({"renameTmp"})
       \/ Ends({"start", "stop"}) /\ ~cmd.torn /\ (rt = "oldnerdctl" => count.trouble = 0)
       => Writes(cmd.data) \subseteq Writes(Kept(host))

(* When create or start reports success, all components in the cluster's   *)
(* config run; a snapshot restore, successful or not, ends with every      *)
(* component running that ran before it.                                   *)
EndsRunning ==
    /\ (/\ Ends({"create", "start"}) /\ Succeeds /\ NoFailure({"die"})
        /\ rt \in {"kind", "oldnerdctl"} => count.trouble = 0)
         => NamesOf(cmd.comps) \subseteq Alive(host)
    /\ (Ends({"restore", "restoreYAML"}) /\ NoFailure({"start", "stop", "die", "nodeStart"}))
         => cmd.before \subseteq Alive(host)
=============================================================================
