------------------------------ MODULE Snapshot ------------------------------
(***************************************************************************)
(* Copying the objects of one cluster to another through a file.           *)
(*                                                                         *)
(* Two programs write the file: `snapshot record` reads etcd (etcd.Saver), *)
(* `snapshot export` and `snapshot save` read the API server               *)
(* (snapshot.Saver).  Both write the objects first and then, when they     *)
(* record, a patch for every change.  Two programs read it: `snapshot      *)
(* replay` writes objects and patches into etcd (etcd.Loader), `snapshot   *)
(* restore` creates the objects in the API server (snapshot.Loader), which *)
(* gives them new UIDs, and follows their owner references.                *)
(*                                                                         *)
(* Besides, `hack get` reads etcd page by page and then watches it, and    *)
(* `hack put` and `hack delete` write it.                                  *)
(*                                                                         *)
(* An object has some content, a UID and references to its owners, in one  *)
(* of two encodings.  Two changes are never stamped with the same time, so *)
(* the heaps that sort patches by time keep their order: what they do is   *)
(* to hold patches back.  Patches of the same time are in module Replay.   *)
(***************************************************************************)
EXTENDS Naturals, Sequences, FiniteSets, SequencesExt

CONSTANTS
    Keys,          \* the objects there may be: pairs of a kind and a name
    Kinds,         \* the kinds, in the order in which they are saved
    Owners,        \* the owners of an object
    JsonKinds,     \* the kinds that are stored as JSON, those of custom resources
    Extends,       \* pairs of kinds whose etcd directories begin alike
    Filters,       \* the sets of kinds that `snapshot restore` may be asked to restore
    HeapSize,      \* how many patches are held back (128 and 1024)
    MaxEvents      \* bound on the changes to the first cluster together with the faults:
                   \* watches that end, killed commands, failing reads and writes

VARIABLES
    mode,          \* who saves and who loads
    writes,        \* the changes to the first cluster, with their revisions
    rec,           \* the saver, or `hack get`
    file,          \* what is in the file: objects and patches
    ld,            \* the loader
    target         \* the second cluster

vars == <<mode, writes, rec, file, ld, target>>

(* How an object is encoded: in etcd as its kind says, in a file as JSON.  *)
Json == "json"
StorageBinary == "binary"
MediaTypeFromGVR(kind) == IF kind \in JsonKinds THEN Json ELSE StorageBinary
DetectMediaType(obj) == obj.media
Convert(obj, media) ==
    IF DetectMediaType(obj) = media THEN obj ELSE [obj EXCEPT !.media = media]
Stored(key, obj) == Convert(obj, MediaTypeFromGVR(key[1]))

Absent == [a |-> 0, uid |-> <<>>, refs |-> {}, media |-> Json]
SomeObject(key) == Stored(key, [Absent EXCEPT !.a = 1, !.uid = <<"other", key>>])
Names == {k[2] : k \in Keys}
Etcd == "etcd"
K8s == "k8s"
Hack == "hack"

(* The objects of the first cluster after k changes.                       *)
At(k) ==
    [key \in Keys |->
        LET own == {i \in 1..k : writes[i].key = key}
        IN  IF own = {} THEN Absent
            ELSE writes[CHOOSE i \in own : \A j \in own : j <= i].obj]
Now == At(Len(writes))
Revision == IF writes = <<>> THEN 0 ELSE writes[Len(writes)].rev

-----------------------------------------------------------------------------
(* Changes to the first cluster through its API server.                    *)

MayFail == Len(writes) + ld.faults < MaxEvents
Saving == rec.pc \in {"save", "watch"}

Change(key, obj) ==
    /\ Saving /\ MayFail
    /\ writes' = Append(writes, [key |-> key, obj |-> obj, rev |-> Revision + 1])
    /\ UNCHANGED <<mode, rec, file, ld, target>>

NewObject(key) == Stored(key, [Absent EXCEPT !.uid = <<"first", Len(writes)>>])

Create(key) ==
    /\ Now[key] = Absent /\ \A o \in Owners[key] : Now[o] # Absent
    /\ Change(key, [NewObject(key) EXCEPT !.refs = {<<o, Now[o].uid>> : o \in Owners[key]}])

Modify(key) ==
    /\ Now[key] # Absent
    /\ Change(key, [Now[key] EXCEPT !.a = 1 - @])

Delete(key) == Now[key] # Absent /\ Change(key, Absent)

(* The arguments of the hack commands: nothing, a kind, a kind and a name. *)
Args == {<<>>} \cup {<<Kinds[i]>> : i \in DOMAIN Kinds} \cup Keys

(* The keys that arguments stand for: all those that begin with the        *)
(* directory, or the one key when there is a name.                         *)
PrefixFromGVR(kind) == {kind} \cup {k \in {key[1] : key \in Keys} : <<kind, k>> \in Extends}
getPrefix(args) ==
    {key \in Keys : CASE Len(args) = 0 -> TRUE
                      [] Len(args) = 1 -> key[1] \in PrefixFromGVR(args[1])
                      [] Len(args) = 2 -> key = args}

(* `hack put` writes those objects of a file that the arguments select,    *)
(* one after the other, each over whatever is there.                       *)
HackPut(args, key) ==
    /\ SubSeq(key, 1, Len(args)) = args
    /\ Change(key, NewObject(key))

(* `hack delete` deletes the keys of its arguments in one revision.        *)
HackDelete(args) ==
    /\ Saving
    /\ LET gone == {key \in getPrefix(args) : Now[key] # Absent}
           del == SetToSeq({[key |-> key, obj |-> Absent, rev |-> Revision + 1] : key \in gone})
       IN  /\ gone # {} /\ Len(writes) + ld.faults + Len(del) <= MaxEvents
           /\ writes' = writes \o del
    /\ UNCHANGED <<mode, rec, file, ld, target>>

-----------------------------------------------------------------------------
(* The commands that write a file.  None of them overwrites one.           *)

Command(saver, only, args) ==
    /\ mode.saver = saver /\ rec.pc = "off"
    /\ rec' = [rec EXCEPT !.pc = "save", !.only = only, !.args = args]
    /\ UNCHANGED <<mode, writes, file, ld, target>>

RecordCommand == \E snapshot \in BOOLEAN : Command(Etcd, snapshot, <<>>)
ExportCommand == \E record \in BOOLEAN : Command(K8s, ~record, <<>>)
SnapshotSaveWithYAML == Command(K8s, TRUE, <<>>)
SaveCommand == SnapshotSaveWithYAML
HackGetCommand == \E watch \in BOOLEAN, args \in Args : Command(Hack, ~watch, args)

-----------------------------------------------------------------------------
(* Saving.                                                                 *)

Doc(key, obj) == [key |-> key, obj |-> obj]
Present(keys) == {key \in keys : Now[key] # Absent}
Docs(keys) == SetToSeq({Doc(key, Convert(Now[key], Json)) : key \in keys})
OfKind(kind) == {key \in Keys : key[1] = kind}

(* etcd.Saver keeps the last version of an object under its name alone,    *)
(* snapshot.Saver under its kind and name.                                 *)
TrackKey(key) == IF mode.saver = Etcd THEN key[2] ELSE key

Streams == IF mode.saver = K8s THEN {Kinds[i] : i \in DOMAIN Kinds} ELSE {"all"}
StreamOf(key) == IF mode.saver = K8s THEN key[1] ELSE "all"

(* The keys are read in order of their kind, so the last kind with a name  *)
(* is the one that is tracked.                                             *)
save ==
    [t \in Names |->
        LET is == {i \in DOMAIN Kinds : <<Kinds[i], t>> \in Present(Keys)}
        IN  IF is = {} THEN Absent 
            ELSE Convert(Now[<<Kinds[CHOOSE i \in is : \A j \in is : j <= i], t>>], Json)]

(* A watch of etcd from a revision on begins with the changes that made    *)
(* this revision.                                                          *)
WithRevision(rev) ==
    LET from == {i \in DOMAIN writes : writes[i].rev >= rev}
    IN  IF from = {} THEN Len(writes) + 1 ELSE CHOOSE i \in from : \A j \in from : i <= j

(* etcd.Saver.Save: one read of everything.                                *)
EtcdSave ==
    /\ mode.saver = Etcd /\ rec.pc = "save"
    /\ file' = [file EXCEPT !.objs = Docs(Present(Keys))]
    /\ rec' = [rec EXCEPT !.pc = IF rec.only THEN "done" ELSE "watch",
                          !.rev = ("all" :> Len(writes)),
                          !.next = ("all" :> WithRevision(Revision)),
                          !.track = save, !.open = Streams]
    /\ UNCHANGED <<mode, writes, ld, target>>

(* snapshot.Saver.Save: one list for each kind.  Record watches from the   *)
(* version of the list on.                                                 *)
Save ==
    /\ mode.saver = K8s /\ rec.pc = "save"
    /\ LET kind == Kinds[Cardinality(DOMAIN rec.rev) + 1]
           keys == Present(OfKind(kind))
           last == Cardinality(DOMAIN rec.rev) + 1 = Len(Kinds)
           objs == file.objs \o Docs(keys)
       IN
       /\ file' = [file EXCEPT !.objs = objs]
       /\ rec' = [rec EXCEPT !.rev = @ @@ (kind :> Len(writes)),
                             !.open = @ \cup {kind},
                             !.next = @ @@ (kind :> Len(writes) + 1),
                             !.track = [k \in keys |-> Convert(Now[k], Json)] @@ @,
                             !.pc = CASE ~last -> "save"
                                      [] last /\ ~rec.only -> "watch"
                                      [] last /\ rec.only /\ objs # <<>> -> "done"
                                      [] OTHER -> "nothandled"]
    /\ UNCHANGED <<mode, writes, ld, target>>

(* A list or a write to the file fails: the command ends and leaves the    *)
(* file as it is.                                                          *)
SaveFails ==
    /\ rec.pc = "save" /\ MayFail
    /\ rec' = [rec EXCEPT !.pc = "failed"]
    /\ ld' = [ld EXCEPT !.faults = @ + 1]
    /\ UNCHANGED <<mode, writes, file, target>>

(* `hack get`: a page at a time, all of them at the revision of the first, *)
(* then a watch from this revision on.                                     *)
KeyOrder == SetToSeq(Keys)

(* Mutant: every page is read at the revision of its own.                  *)
PageRevisionOwn == Len(writes)

PageRevision == IF rec.rev = <<>> THEN Len(writes) ELSE rec.rev["all"]

GetPage ==
    /\ mode.saver = Hack /\ rec.pc = "save"
    /\ LET rev == PageRevision
           left == {i \in DOMAIN KeyOrder : /\ i > rec.cursor /\ At(rev)[KeyOrder[i]] # Absent
                                           /\ KeyOrder[i] \in getPrefix(rec.args)}
           i == CHOOSE j \in left : \A k \in left : j <= k
       IN  /\ file' = IF left = {} THEN file
                      ELSE [file EXCEPT !.objs = Append(@, Doc(KeyOrder[i], At(rev)[KeyOrder[i]]))]
           /\ rec' = [rec EXCEPT !.cursor = IF left = {} THEN @ ELSE i,
                                 !.rev = IF @ = <<>> THEN ("all" :> rev) ELSE @,
                                 !.next = ("all" :> WithRevision(IF rev = 0 THEN 1 ELSE writes[rev].rev)),
                                 !.pc = CASE Cardinality(left) > 1 -> "save"
                                          [] rec.only -> "done"
                                          [] OTHER -> "watch",
                                 !.open = Streams]
    /\ UNCHANGED <<mode, writes, ld, target>>

-----------------------------------------------------------------------------
(* Recording.                                                              *)

(* A merge patch, and what it does.                                        *)
TwoWayMergePatch(old, new) == [f \in {g \in DOMAIN new : old[g] # new[g]} |-> new[f]]
MergePatch(old, patch) == patch @@ old

(* Mutant: the last version is not noted.                                  *)
SetContentStale(t, obj) ==
    [method |-> IF t = Absent THEN "create" ELSE "patch",
     template |-> IF t = Absent THEN obj ELSE TwoWayMergePatch(t, obj),
     track |-> IF t = Absent THEN obj ELSE t]

SetContent(t, obj) ==
    [method |-> IF t = Absent THEN "create" ELSE "patch",
     template |-> IF t = Absent THEN obj ELSE TwoWayMergePatch(t, obj),
     track |-> obj]

SetDelete == [method |-> "delete", template |-> Absent, track |-> Absent]

(* The change, and the number of it, that a watch sees next.               *)
Upcoming(s) ==
    {i \in rec.next[s]..Len(writes) : /\ StreamOf(writes[i].key) = s
                                         /\ writes[i].key \in getPrefix(rec.args)}

FirstOf(s) == CHOOSE j \in Upcoming(s) : \A k \in Upcoming(s) : j <= k

(* `hack get --watch` prints the changes as they come.                     *)
HackWatch ==
    /\ mode.saver = Hack /\ rec.pc = "watch" /\ Upcoming("all") # {}
    /\ LET i == FirstOf("all") IN
       /\ rec' = [rec EXCEPT !.next["all"] = i + 1]
       /\ file' = [file EXCEPT !.patches = Append(@, [method |-> IF writes[i].obj = Absent THEN "delete"
                                                                ELSE "create",
                                                     template |-> writes[i].obj,
                                                     key |-> writes[i].key, at |-> i])]
    /\ UNCHANGED <<mode, writes, ld, target>>

(* A patch goes into the heap, and the first one out when the heap is full. *)
Push(r, p) ==
    LET heap == Append(r.heap, p)
        full == Len(heap) >= HeapSize
    IN  /\ rec' = [r EXCEPT !.heap = IF full THEN Tail(heap) ELSE heap]
        /\ file' = IF full THEN [file EXCEPT !.patches = Append(@, Head(heap))] ELSE file

buildResourcePatch(s) ==
    /\ mode.saver # Hack /\ rec.pc = "watch" /\ s \in rec.open /\ Upcoming(s) # {}
    /\ LET i == FirstOf(s)
           w == writes[i]
           t == TrackKey(w.key)
           c == IF w.obj = Absent THEN SetDelete
                ELSE SetContent(IF t \in DOMAIN rec.track THEN rec.track[t] ELSE Absent,
                                Convert(w.obj, Json))
           p == [method |-> c.method, template |-> c.template, key |-> w.key, at |-> i]
           r == [rec EXCEPT !.next[s] = i + 1, !.track = (t :> c.track) @@ @]
       IN  IF mode.saver = Etcd THEN Push(r, p)
           ELSE rec' = [r EXCEPT !.que = Append(@, p)] /\ UNCHANGED file
    /\ UNCHANGED <<mode, writes, ld, target>>

(* The API server ends a watch: the worker returns, and the other workers  *)
(* go on.                                                                  *)
WatchEnds(s) ==
    /\ mode.saver = K8s /\ rec.pc = "watch" /\ s \in rec.open
    /\ MayFail
    /\ rec' = [rec EXCEPT !.open = @ \ {s}]
    /\ ld' = [ld EXCEPT !.faults = @ + 1]
    /\ UNCHANGED <<mode, writes, file, target>>

(* What snapshot.Saver has queued goes into its heap.                      *)
Collect ==
    /\ rec.pc = "watch" /\ rec.que # <<>>
    /\ Push([rec EXCEPT !.que = Tail(@)], Head(rec.que))
    /\ UNCHANGED <<mode, writes, ld, target>>

(* The user stops the recording: the heap is written.  What snapshot.Saver *)
(* has queued is lost.                                                     *)
Stop ==
    /\ rec.pc = "watch"
    /\ file' = [file EXCEPT !.patches = @ \o rec.heap]
    /\ rec' = [rec EXCEPT !.pc = "done", !.que = <<>>, !.heap = <<>>]
    /\ UNCHANGED <<mode, writes, ld, target>>

(* The recording is killed, or fails on a change: the heap is lost.        *)
Abort ==
    /\ rec.pc = "watch" /\ (rec.que # <<>> \/ rec.heap # <<>>)
    /\ MayFail
    /\ rec' = [rec EXCEPT !.pc = "done", !.que = <<>>, !.heap = <<>>]
    /\ ld' = [ld EXCEPT !.faults = @ + 1]
    /\ UNCHANGED <<mode, writes, file, target>>

-----------------------------------------------------------------------------
(* Loading into etcd: Load and Replay.                                     *)

Tracked(key) == IF key \in DOMAIN ld.track THEN ld.track[key] ELSE Absent

putData(key, obj) ==
    \/ /\ target' = [target EXCEPT ![key] = Stored(key, obj)]
       /\ ld' = [ld EXCEPT !.pos = @ + 1, !.track = (key :> obj) @@ @]
    \/ /\ MayFail
       /\ ld' = [ld EXCEPT !.pos = @ + 1, !.faults = @ + 1, !.failed = TRUE]
       /\ UNCHANGED target

delData(key) ==
    \/ /\ target' = [target EXCEPT ![key] = Absent]
       /\ ld' = [ld EXCEPT !.pos = @ + 1, !.track = (key :> Absent) @@ @]
    \/ /\ MayFail
       /\ ld' = [ld EXCEPT !.pos = @ + 1, !.faults = @ + 1, !.failed = TRUE]
       /\ UNCHANGED target

applyResource ==
    /\ mode.loader = Etcd /\ ld.pc = "load" /\ ld.pos <= Len(file.objs)
    /\ putData(file.objs[ld.pos].key, file.objs[ld.pos].obj)
    /\ UNCHANGED <<mode, writes, rec, file>>

Replay ==
    /\ mode.loader = Etcd /\ ld.pc = "load" /\ ~ld.only /\ ld.pos > Len(file.objs)
    /\ ld' = [ld EXCEPT !.pc = "replay", !.pos = 1]
    /\ UNCHANGED <<mode, writes, rec, file, target>>

(* A patch of an object that was not written is made to what is in etcd,   *)
(* and dropped when there is nothing.                                      *)
applyResourcePatch ==
    /\ ld.pc = "replay" /\ ld.pos <= Len(file.patches)
    /\ LET p == file.patches[ld.pos]
           original == IF Tracked(p.key) # Absent THEN Tracked(p.key)
                       ELSE IF target[p.key] = Absent THEN Absent
                       ELSE Convert(target[p.key], Json) IN
       \/ p.method = "delete" /\ delData(p.key)
       \/ p.method = "create" /\ putData(p.key, p.template)
       \/ /\ p.method = "patch" /\ original # Absent
          /\ putData(p.key, MergePatch(original, p.template))
       \/ /\ p.method = "patch" /\ original = Absent
          /\ ld' = [ld EXCEPT !.pos = @ + 1]
          /\ UNCHANGED target
    /\ UNCHANGED <<mode, writes, rec, file>>

Ended(pc) ==
    /\ ld' = [ld EXCEPT !.pc = pc, !.faults = IF pc = "done" THEN @ ELSE @ + 1]
    /\ UNCHANGED <<mode, writes, rec, file, target>>

(* With --snapshot the command ends when the objects are loaded.           *)
EndReplay ==
    /\ mode.loader = Etcd
    /\ \/ ld.pc = "load" /\ ld.only /\ ld.pos > Len(file.objs)
       \/ ld.pc = "replay" /\ ld.pos > Len(file.patches)
    /\ Ended("done")

(* The command returns an error: a client, the loader or the file cannot   *)
(* be had, or a patch cannot be decoded.                                   *)
ReplayFails ==
    /\ mode.loader = Etcd /\ MayFail
    /\ (ld.pc = "load" /\ ld.pos = 1) \/ ld.pc = "replay"
    /\ Ended("failed")

(* Both loops end.                                                         *)
Interrupt ==
    /\ mode.loader = Etcd /\ ld.pc \in {"load", "replay"} /\ MayFail
    /\ Ended("interrupted")

-----------------------------------------------------------------------------
(* Loading through the API server.  The state of the loader is the UIDs of *)
(* what it has created, under the identity the object had in the file, and *)
(* the objects that wait for an owner.                                     *)

Id(doc) == <<doc.key, doc.obj.uid>>
Waiting(l, id) == IF id \in DOMAIN l.pending THEN l.pending[id] ELSE <<>>
hasAllOwnerReferences(l, doc) == doc.obj.refs \subseteq DOMAIN l.exist

updateOwnerReferences(l, doc) ==
    {IF r \in DOMAIN l.exist THEN <<r[1], l.exist[r]>> ELSE r : r \in doc.obj.refs}

(* The API server gives a new object a UID, and refuses an update of an    *)
(* object with another UID.                                                *)
apply(l, doc, fails) ==
    LET old == l.target[doc.key]
        uid == IF old = Absent THEN <<"new", doc.key>> ELSE old.uid
    IN  IF doc.key \in fails \/ (old # Absent /\ old.uid # doc.obj.uid)
        THEN l
        ELSE [l EXCEPT !.target[doc.key] = [Stored(doc.key, doc.obj) EXCEPT !.uid = uid,
                                                           !.refs = updateOwnerReferences(l, doc)],
                       !.exist = (Id(doc) :> uid) @@ @]

(* Mutant: an object with several owners is not looked at again.           *)
applyPendingSingle(l, id, fails) ==
    LET one(m, doc) == IF Cardinality(doc.obj.refs) = 1 THEN apply(m, doc, fails) ELSE m
        all == FoldLeft(one, l, Waiting(l, id))
    IN  [all EXCEPT !.pending = [i \in DOMAIN @ \ {id} |-> @[i]]]

(* An object that waits is applied when its last owner is, but those that  *)
(* wait for it are not looked at.                                          *)
applyPending(l, id, fails) ==
    LET one(m, doc) == IF hasAllOwnerReferences(m, doc) THEN apply(m, doc, fails) ELSE m
        all == FoldLeft(one, l, Waiting(l, id))
    IN  [all EXCEPT !.pending = [i \in DOMAIN @ \ {id} |-> @[i]]]

load(l, doc, fails) ==
    LET missing == doc.obj.refs \ DOMAIN l.exist
        applied == apply(l, doc, fails)
    IN  IF missing # {}
        THEN [l EXCEPT !.pending = [i \in missing |-> Append(Waiting(l, i), doc)] @@ @]
        ELSE IF Id(doc) \notin DOMAIN applied.exist THEN applied
        ELSE [applyPending(applied, Id(doc), fails) EXCEPT !.direct = @ \cup {doc.key}]

(* Whose writes may fail while a document is loaded.                       *)
Applicable(doc) ==
    {k \in Keys : /\ MayFail /\ doc.obj.refs \subseteq DOMAIN ld.exist
                  /\ k = doc.key \/ \E i \in DOMAIN ld.pending : ld.pending[i][1].key = k}

(* Load stops at the first object that is filtered out, without an error   *)
(* and without the report of finishLoad.                                   *)
Load ==
    /\ mode.loader = K8s /\ ld.pc = "load" /\ ld.pos <= Len(file.objs)
    /\ LET doc == file.objs[ld.pos]
           l == [target |-> target, exist |-> ld.exist, pending |-> ld.pending,
                 direct |-> ld.direct]
       IN  \/ /\ doc.key[1] \notin ld.wanted
              /\ ld' = [ld EXCEPT !.pc = "done"]
              /\ UNCHANGED target
           \/ /\ doc.key[1] \in ld.wanted
              /\ \E fails \in {{}} \cup {{k} : k \in Applicable(doc)} :
                    LET m == load(l, doc, fails) IN
                    /\ target' = m.target
                    /\ ld' = [ld EXCEPT !.pos = @ + 1, !.exist = m.exist,
                                        !.pending = m.pending, !.direct = m.direct,
                                        !.faults = @ + Cardinality(fails),
                                        !.failed = @ \/ fails # {}]
    /\ UNCHANGED <<mode, writes, rec, file>>

finishLoad ==
    /\ mode.loader = K8s /\ ld.pc = "load" /\ ld.pos > Len(file.objs)
    /\ ld' = [ld EXCEPT !.pc = IF DOMAIN ld.exist = {} THEN "nothandled" ELSE "done"]
    /\ UNCHANGED <<mode, writes, rec, file, target>>

-----------------------------------------------------------------------------
Nothing == [k \in Keys |-> Absent]
Used == [k \in Keys |-> IF Owners[k] = {} THEN SomeObject(k) ELSE Absent]

(* The second cluster is a new one, one with objects of its own, or the    *)
(* cluster that was saved.                                                 *)
StartLoad(loader, then) ==
    /\ rec.pc = "done" /\ ld.pc = "wait" /\ mode.saver # Hack
    /\ mode' = [mode EXCEPT !.loader = loader]
    /\ target' \in {Nothing, Used, Now}
    /\ ld' = [then EXCEPT !.pc = "load", !.before = target']
    /\ UNCHANGED <<writes, rec, file>>

(* (That `snapshot replay` stops every component but etcd and the API      *)
(* server, and starts them again in the end, is left out: it is only       *)
(* logged when it fails.)                                                  *)
ReplayCommand == \E snapshot \in BOOLEAN : StartLoad(Etcd, [ld EXCEPT !.only = snapshot])

SnapshotRestoreWithYAML == \E wanted \in Filters : StartLoad(K8s, [ld EXCEPT !.wanted = wanted])
RestoreCommand == SnapshotRestoreWithYAML

Init ==
    /\ mode \in [saver : {Etcd, K8s, Hack}, loader : {"none"}]
    /\ writes = <<>>
    /\ rec = [pc |-> "off", only |-> FALSE, args |-> <<>>, rev |-> <<>>, next |-> <<>>, open |-> {},
              track |-> <<>>, que |-> <<>>, heap |-> <<>>, cursor |-> 0]
    /\ file = [objs |-> <<>>, patches |-> <<>>]
    /\ ld = [pc |-> "wait", pos |-> 1, track |-> <<>>, faults |-> 0, failed |-> FALSE,
             exist |-> <<>>, pending |-> <<>>, direct |-> {}, before |-> Nothing,
             wanted |-> {}, only |-> FALSE]
    /\ target = Nothing

Changes ==
    \/ \E key \in Keys : Create(key) \/ Modify(key) \/ Delete(key) 
    \/ \E args \in Args : HackDelete(args) \/ \E key \in Keys : HackPut(args, key)

Next ==
    \/ Changes
    \/ RecordCommand \/ ExportCommand \/ SaveCommand \/ HackGetCommand
    \/ EtcdSave \/ Save \/ SaveFails \/ GetPage \/ HackWatch
    \/ \E s \in Streams : buildResourcePatch(s) \/ WatchEnds(s)
    \/ Collect \/ Stop \/ Abort
    \/ ReplayCommand \/ RestoreCommand
    \/ applyResource \/ Replay \/ applyResourcePatch \/ EndReplay \/ ReplayFails \/ Interrupt
    \/ Load \/ finishLoad

Spec == Init /\ [][Next]_vars

-----------------------------------------------------------------------------
(* Properties.                                                             *)

(* What is replayed of the file, and how much of a stream of changes that  *)
(* is.                                                                     *)
Replayed == IF ld.only THEN <<>> ELSE file.patches
Recorded(s) ==
    LET ps == {Replayed[i].at : i \in {j \in DOMAIN Replayed : StreamOf(Replayed[j].key) = s}}
    IN  CHOOSE n \in ps \cup {rec.rev[s]} : \A m \in ps \cup {rec.rev[s]} : m <= n

InFile(key) ==
    \/ \E i \in DOMAIN file.objs : file.objs[i].key = key
    \/ \E i \in DOMAIN Replayed : Replayed[i].key = key

(* Another object that the saver keeps under the same key has been there.  *)
Shared(key) ==
    \E i \in DOMAIN writes : writes[i].key # key /\ TrackKey(writes[i].key) = TrackKey(key)

(* A replay leaves in the second cluster, for every object the file speaks *)
(* of, exactly what was in the first one after the last change of that     *)
(* stream that reached the file, and leaves the other objects alone.  The  *)
(* patches are differences, so this needs every patch to be made against   *)
(* the version the replay will have at that point (SetContent and          *)
(* applyResourcePatch), although the change at the revision of the save is *)
(* seen twice, the recording may be cut off with patches in the heap, and  *)
(* watches may end.  It is not so for an object whose name an object of    *)
(* another kind has in the recording of etcd.Saver, which keeps the last   *)
(* versions by namespace and name: of a Service and its Endpoints, each is *)
(* compared with whichever was seen last.                                  *)
ReplayReproduces ==
    mode.loader = Etcd /\ ld.pc = "done" /\ ~ld.failed =>
        \A key \in Keys :
            \/ Shared(key)
            \/ target[key] = IF InFile(key) THEN At(Recorded(StreamOf(key)))[key]
                             ELSE ld.before[key]

(* An owner reference that a restore writes names an owner that is in the  *)
(* cluster, by the UID it has there: "handle the ownerReference so that    *)
(* the resources remain relative to each other".                           *)
OwnersResolve ==
    \A key \in Keys :
        target[key] # ld.before[key] =>
            \A r \in target[key].refs : target[r[1]].uid = r[2]

(* The object of the file is in the second cluster, unless an object of    *)
(* the same name with another UID was there before.                        *)
Back(doc) ==
    \/ ld.before[doc.key] # Absent /\ ld.before[doc.key].uid # doc.obj.uid
    \/ target[doc.key].a = doc.obj.a /\ Id(doc) \in DOMAIN ld.exist

(* The owner references a restore writes resolve, and a restore that comes *)
(* to the end of the file without failures brings back every object whose  *)
(* owners were all applied when they were read, in whatever order owners   *)
(* and dependents come.  It does not come to the end when the file has an  *)
(* object of a kind that the filter leaves out (Load returns at the first  *)
(* one; see FilteredRestored), and it does not bring back an object whose  *)
(* owner had to wait for an owner itself (load looks at the objects that   *)
(* wait for the one it was called with, and not further).                  *)
Restored ==
    mode.loader = K8s =>
        /\ OwnersResolve
        /\ (ld.pc = "done" /\ ~ld.failed /\ ld.pos > Len(file.objs)) =>
             \A i \in DOMAIN file.objs :
                LET doc == file.objs[i]
                IN  \/ \E r \in doc.obj.refs : r \notin DOMAIN ld.exist \/ r[1] \notin ld.direct
                    \/ Back(doc)

(* A restore without failures brings back every object of the file that    *)
(* has no owners and is of a kind the user asks for: "We can use           *)
(* `--filter` to filter the resources you want to save or restore."        *)
(* Violated: Load returns at the first object of another kind.             *)
FilteredRestored ==
    (mode.loader = K8s /\ ld.pc = "done" /\ ~ld.failed) =>
        \A i \in DOMAIN file.objs :
            LET doc == file.objs[i]
            IN  doc.key[1] \in ld.wanted /\ doc.obj.refs = {} => Back(doc)

(* The pages that `hack get` prints are together the content of etcd at    *)
(* one revision, although it changes while they are read, and the watch    *)
(* that follows leaves out no change after it.                             *)
GetConsistent ==
    mode.saver = Hack /\ rec.pc \in {"watch", "done"} =>
        /\ {file.objs[i] : i \in DOMAIN file.objs} =
              {Doc(k, At(rec.rev["all"])[k]) :
                    k \in {j \in getPrefix(rec.args) : At(rec.rev["all"])[j] # Absent}}
        /\ \A n \in (rec.rev["all"] + 1)..(rec.next["all"] - 1) :
              writes[n].key \in getPrefix(rec.args) =>
                  \E i \in DOMAIN file.patches : file.patches[i].at = n
=============================================================================
