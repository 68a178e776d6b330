----------------------------- MODULE Kubeconfig -----------------------------
(***************************************************************************)
(* The user's kubeconfig file, which the commands of several clusters      *)
(* change: `create cluster` adds the context of a cluster, `delete         *)
(* cluster` removes it, and for a cluster of kind the program kind adds    *)
(* and removes entries of its own.  Of the two commands only what concerns *)
(* the file is here; what they do to a cluster is in module Cluster.       *)
(*                                                                         *)
(* ModifyContext reads the file, without a lock, changes the copy and      *)
(* hands it to clientcmd.ModifyConfig.  That takes a lock file and makes   *)
(* the file equal to the copy in several writes.  Who finds the lock file  *)
(* fails, and who is killed leaves it.                                     *)
(***************************************************************************)
EXTENDS Naturals, Sequences

CONSTANTS Cluster,      \* names of clusters, each with one command at a time
          Kind,         \* those of them that are created with kind
          MaxCommands   \* bound on the commands

VARIABLES file,         \* the kubeconfig
          locked,       \* the lock file is there
          exist,        \* cluster -> "no", or "secure" or "insecure"
          kindUp,       \* the clusters that kind has
          inHost,       \* cluster -> the context in its own kubeconfig
          asked,        \* the clusters whose create was given a kubeconfig
          cmd,          \* cluster -> the command that runs for it
          commands,     \* bounded by MaxCommands
          loose,        \* clusters whose command was killed, or whose delete
                        \* left the kubeconfig alone
          calm          \* no command has met another one so far

vars == <<file, locked, exist, kindUp, inHost, asked, cmd, commands, loose, calm>>

(* Entries are known by the name they are under: that of a cluster, that   *)
(* which kind gives to it, or the user's own.  A context leads to a        *)
(* cluster and, unless it is insecure, to a user.  "hostless" are the      *)
(* clusters whose server lacks a host.                                     *)
Name(c) == <<"kwok", c>>
KindName(c) == <<"kind", c>>
Own == <<"own", "own">>
NoName == <<"", "">>

Context(n, u) == [cluster |-> n, user |-> u]

Empty == [clusters |-> {}, users |-> {}, contexts |-> <<>>, current |-> NoName, hostless |-> {}]

Put(k, n, context, clusters, users) ==
    [k EXCEPT !.clusters = @ \cup clusters, !.users = @ \cup users, !.current = n,
              !.contexts = [x \in DOMAIN @ \cup {n} |-> IF x = n THEN context ELSE @[x]]]

Drop(k, n) ==
    [k EXCEPT !.clusters = @ \ {n}, !.users = @ \ {n}, !.hostless = @ \ {n},
              !.contexts = [x \in DOMAIN @ \ {n} |-> @[x]],
              !.current = IF @ = n THEN NoName ELSE @]

(* AddContext of the runtimes: a secure kind cluster uses the cluster and  *)
(* the user that kind wrote.                                               *)
AddContext(k, c) ==
    CASE exist[c] = "insecure" -> Put(k, Name(c), Context(Name(c), NoName), {Name(c)}, {})
      [] exist[c] = "secure" /\ c \in Kind ->
           Put(k, Name(c), Context(KindName(c), KindName(c)), {}, {})
      [] exist[c] = "secure" /\ c \notin Kind ->
           Put(k, Name(c), Context(Name(c), Name(c)), {Name(c)}, {Name(c)})

(* Mutant: the entry of the user is forgotten.                             *)
RemoveContextButUser(k, c) == [Drop(k, Name(c)) EXCEPT !.users = k.users]

RemoveContext(k, c) == Drop(k, Name(c))

(* withFillContextServer.                                                  *)
fillContextServer(k, c) == [k EXCEPT !.hostless = @ \ {KindName(c)}]

Modified(k, step, c) ==
    CASE step = "add"    -> AddContext(k, c)
      [] step = "remove" -> RemoveContext(k, c)
      [] step = "fill"   -> fillContextServer(k, c)

-----------------------------------------------------------------------------
(* A command is the steps it has still to do, the copy of the file that    *)
(* the first of them has made, and whether it was given a kubeconfig.      *)
Idle == [steps |-> <<>>, phase |-> "begin", copy |-> Empty, context |-> FALSE]

Running(c) == cmd[c].steps # <<>>
At(c, step) == Running(c) /\ Head(cmd[c].steps) = step /\ cmd[c].phase = "begin"

Go(c, steps) ==
    IF steps = <<>> THEN Idle ELSE [Idle EXCEPT !.steps = steps, !.context = cmd[c].context]

Done(c) == Go(c, Tail(cmd[c].steps))

(* A step that fails: Up of kind returns, and the deferred setContext      *)
(* still runs; elsewhere the error is only logged.                         *)
Failed(c) ==
    IF Head(cmd[c].steps) \in {"kindCreate", "fill", "view"}
      THEN Go(c, SelectSeq(cmd[c].steps, LAMBDA s : s = "add"))
      ELSE Done(c)

Begin(c, steps, context) ==
    /\ ~Running(c) /\ commands < MaxCommands
    /\ commands' = commands + 1
    /\ cmd' = [cmd EXCEPT ![c] = IF steps = <<>> THEN Idle
                                  ELSE [Idle EXCEPT !.steps = steps, !.context = context]]
    /\ calm' = (calm /\ \A d \in Cluster : ~Running(d))

UpSteps(c, context) ==
    (IF c \in Kind THEN <<"kindCreate", "fill", "view">> ELSE <<>>)
      \o (IF context THEN <<"add">> ELSE <<>>)

(* runE of create.  A cluster that exists and is not ready is continued    *)
(* with the configuration it has; for one that is ready nothing is done.   *)
Create(c, mode, context) ==
    /\ Begin(c, UpSteps(c, context), context)
    /\ exist' = [exist EXCEPT ![c] = IF @ = "no" THEN mode ELSE @]
    /\ asked' = IF context THEN asked \cup {c} ELSE asked
    /\ UNCHANGED <<file, locked, kindUp, inHost, loose>>

(* deleteCluster.  With an empty --kubeconfig the context stays.           *)
Delete(c, context) ==
    /\ exist[c] # "no"
    /\ Begin(c, (IF c \in Kind THEN <<"kindDelete">> ELSE <<>>)
                  \o (IF context THEN <<"remove">> ELSE <<>>) \o <<"uninstall">>, context)
    /\ UNCHANGED <<file, locked, exist, kindUp, inHost, asked, loose>>

-----------------------------------------------------------------------------
(* ModifyContext.  A copy that does not differ is not written.             *)
Load(c) ==
    /\ \E step \in {"add", "remove", "fill"} :
         /\ At(c, step)
         /\ LET k == Modified(file, step, c)
            IN  cmd' = [cmd EXCEPT ![c] = IF k = file THEN Done(c)
                                          ELSE [@ EXCEPT !.phase = "loaded", !.copy = k]]
    /\ UNCHANGED <<file, locked, exist, kindUp, inHost, asked, commands, loose, calm>>

Lock(c) ==
    /\ Running(c) /\ cmd[c].phase = "loaded"
    /\ \/ locked /\ cmd' = [cmd EXCEPT ![c] = Failed(c)] /\ UNCHANGED locked
       \/ ~locked /\ cmd' = [cmd EXCEPT ![c].phase = "locked"] /\ locked' = TRUE
    /\ UNCHANGED <<file, exist, kindUp, inHost, asked, commands, loose, calm>>

(* The writes of ModifyConfig: the current context, then what is new or    *)
(* has changed, then what is gone.                                         *)
Stanzas(k, f) ==
    LET current  == [f EXCEPT !.current = k.current]
        clusters == [current EXCEPT !.clusters = @ \cup k.clusters,
                                    !.hostless = (@ \ k.clusters) \cup k.hostless]
        contexts == [clusters EXCEPT
                       !.contexts = [x \in DOMAIN @ \cup DOMAIN k.contexts |->
                                       IF x \in DOMAIN k.contexts THEN k.contexts[x] ELSE @[x]]]
        users    == [contexts EXCEPT !.users = @ \cup k.users]
        noCluster == [users EXCEPT !.clusters = k.clusters, !.hostless = k.hostless]
        noContext == [noCluster EXCEPT !.contexts = k.contexts]
    IN  <<current, clusters, contexts, users, noCluster, noContext, k>>

(* A stanza that does not differ is not written; in the end the lock file  *)
(* is removed.                                                             *)
Write(c) ==
    /\ Running(c) /\ cmd[c].phase = "locked"
    /\ \/ /\ file # cmd[c].copy
          /\ file' = Head(SelectSeq(Stanzas(cmd[c].copy, file), LAMBDA f : f # file))
          /\ UNCHANGED <<locked, cmd>>
       \/ /\ file = cmd[c].copy
          /\ locked' = FALSE /\ cmd' = [cmd EXCEPT ![c] = Done(c)]
          /\ UNCHANGED file
    /\ UNCHANGED <<exist, kindUp, inHost, asked, commands, loose, calm>>

(* kind create: a cluster that kind has already, or a locked kubeconfig,   *)
(* is an error, after which kind has made nothing.                         *)
KindCreate(c) ==
    /\ At(c, "kindCreate")
    /\ \/ /\ c \in kindUp \/ locked
          /\ cmd' = [cmd EXCEPT ![c] = Failed(c)]
          /\ UNCHANGED <<file, kindUp>>
       \/ /\ c \notin kindUp /\ ~locked
          /\ kindUp' = kindUp \cup {c}
          /\ \E h \in SUBSET {KindName(c)} :
               file' = [Put(file, KindName(c), Context(KindName(c), KindName(c)),
                            {KindName(c)}, {KindName(c)}) EXCEPT !.hostless = @ \cup h]
          /\ cmd' = [cmd EXCEPT ![c] = Done(c)]
    /\ UNCHANGED <<locked, exist, inHost, asked, commands, loose, calm>>

(* kubectl config view --minify: what the current context is by now is     *)
(* written to the cluster's own kubeconfig.                                *)
View(c) ==
    /\ At(c, "view")
    /\ \/ /\ file.current \notin DOMAIN file.contexts
          /\ cmd' = [cmd EXCEPT ![c] = Failed(c)] /\ UNCHANGED inHost
       \/ /\ file.current \in DOMAIN file.contexts
          /\ inHost' = [inHost EXCEPT ![c] = file.current]
          /\ cmd' = [cmd EXCEPT ![c] = Done(c)]
    /\ UNCHANGED <<file, locked, exist, kindUp, asked, commands, loose, calm>>

KindDelete(c) ==
    /\ At(c, "kindDelete")
    /\ kindUp' = kindUp \ {c}
    /\ file' = IF locked THEN file ELSE Drop(file, KindName(c))
    /\ cmd' = [cmd EXCEPT ![c] = Done(c)]
    /\ UNCHANGED <<locked, exist, inHost, asked, commands, loose, calm>>

Uninstall(c) ==
    /\ At(c, "uninstall")
    /\ exist' = [exist EXCEPT ![c] = "no"]
    /\ inHost' = [inHost EXCEPT ![c] = NoName]
    /\ asked' = asked \ {c}
    /\ loose' = IF cmd[c].context /\ ~locked THEN loose \ {c} ELSE loose \cup {c}
    /\ cmd' = [cmd EXCEPT ![c] = Done(c)]
    /\ UNCHANGED <<file, locked, kindUp, commands, calm>>

(* The command is killed.                                                  *)
Kill(c) ==
    /\ Running(c)
    /\ cmd' = [cmd EXCEPT ![c] = Idle]
    /\ loose' = loose \cup {c}
    /\ UNCHANGED <<file, locked, exist, kindUp, inHost, asked, commands, calm>>

Init ==
    /\ file \in {Empty, Put(Empty, Own, Context(Own, Own), {Own}, {Own})}
    /\ locked = FALSE /\ kindUp = {} /\ asked = {} /\ commands = 0
    /\ loose = {} /\ calm = TRUE
    /\ exist = [c \in Cluster |-> "no"]
    /\ inHost = [c \in Cluster |-> NoName]
    /\ cmd = [c \in Cluster |-> Idle]

Next ==
    \E c \in Cluster :
      \/ \E mode \in {"secure", "insecure"}, context \in BOOLEAN : Create(c, mode, context)
      \/ \E context \in BOOLEAN : Delete(c, context)
      \/ Load(c) \/ Lock(c) \/ Write(c) \/ KindCreate(c) \/ View(c)
      \/ KindDelete(c) \/ Uninstall(c) \/ Kill(c)

Spec == Init /\ [][Next]_vars

-----------------------------------------------------------------------------
Resolves(n) ==
    LET x == file.contexts[n]
    IN  x.cluster \in file.clusters /\ x.user \in file.users \cup {NoName}

Entries == file.clusters \cup file.users \cup DOMAIN file.contexts

(* As long as commands do not overlap, killing one never costs another     *)
(* cluster its context: whatever is in the kubeconfig for a cluster that   *)
(* is not of kind leads to a server and a user, but for the cluster whose  *)
(* command runs or was killed among the writes.  Between commands, unless  *)
(* a killed one has left its lock file, the kubeconfig has moreover the    *)
(* contexts of the clusters that exist and asked for one, nothing of those *)
(* that do not exist, no server without a host and no current context that *)
(* is not there, and a kind cluster's own kubeconfig leads to that cluster *)
(* (ModifyContext, AddContext, RemoveContext and Up of kind).              *)
ContextsKept ==
    calm =>
      /\ \A c \in Cluster \ (Kind \cup loose) :
           ~Running(c) /\ Name(c) \in DOMAIN file.contexts => Resolves(Name(c))
      /\ ~locked /\ (\A c \in Cluster : ~Running(c)) =>
           \A c \in Cluster \ loose :
             /\ KindName(c) \notin file.hostless
             /\ file.current \in {Name(c), KindName(c)} => file.current \in DOMAIN file.contexts
             /\ exist[c] = "no" => {Name(c), KindName(c)} \cap Entries = {}
             /\ c \in asked => Name(c) \in DOMAIN file.contexts /\ Resolves(Name(c))
             /\ c \in kindUp => inHost[c] = KindName(c)
=============================================================================
