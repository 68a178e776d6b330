---------------------------- MODULE StagesManager ----------------------------
(***************************************************************************)
(* The stages a user configures as objects of the API server, and the      *)
(* controllers kwok runs for them: the dynamic getter with its caches      *)
(* (pkg/config/resources), and StagesManager, which starts a controller    *)
(* for every kind of resource some stage is about and stops it when there  *)
(* is none left.                                                           *)
(*                                                                         *)
(* A change sets or removes the stages of one kind (Ref); what is known of *)
(* a kind is the number of the last change to it that has been seen.       *)
(***************************************************************************)
EXTENDS Naturals, Sequences, FiniteSets

CONSTANTS
    Ref,           \* the kinds of resources stages are about
    MaxChanges,    \* bound on the changes of the user
    MaxTrouble     \* bound on broken watches and on controllers that fail to start

VARIABLES
    log,           \* the changes made so far, each [ref, set]
    inf,           \* the informer
    cache,         \* the cacheGetter around the dynamicGetter
    mgr,           \* the goroutine of StagesManager, and its map
    ctl            \* the controllers: their filters, and who is reading

vars == <<log, inf, cache, mgr, ctl>>

None == [r \in Ref |-> 0]

(* The last change of each kind among the first k.                         *)
AsOf(k) ==
    [r \in Ref |->
        LET own == {i \in 1..k : log[i].ref = r}
        IN  IF own = {} THEN 0 ELSE CHOOSE i \in own : \A j \in own : j <= i]

Now == AsOf(Len(log))
Refs(data) == {r \in Ref : data[r] # 0 /\ log[data[r]].set}

MoreTrouble == inf.relists + mgr.failures < MaxTrouble

(* The resource version of a list: that of an empty log is not "".         *)
Version(k) == k + 1

-----------------------------------------------------------------------------
(* The informer of client-go.  The reflector puts what it sees into a      *)
(* queue in which a kind has one place, and then notes the version; the    *)
(* controller takes kinds from the queue to the store and calls the        *)
(* handlers, which all call sync.                                          *)

Queued(fifo, rs) ==
    fifo \o (LET new == rs \ {fifo[i] : i \in DOMAIN fifo}
             IN  CHOOSE s \in [1..Cardinality(new) -> new] :
                    {s[i] : i \in DOMAIN s} = new)

List ==
    /\ inf.fed = 0
    /\ inf' = [inf EXCEPT !.fed = Version(Len(log)), !.pending = Now,
                          !.fifo = Queued(@, Refs(Now))]
    /\ UNCHANGED <<log, cache, mgr, ctl>>

Relist ==
    /\ inf.fed > 0 /\ inf.fed = inf.version /\ MoreTrouble
    /\ inf' = [inf EXCEPT !.fed = Version(Len(log)), !.pending = Now, !.relists = @ + 1,
                          !.fifo = Queued(@, Refs(Now) \cup Refs(inf.store))]
    /\ UNCHANGED <<log, cache, mgr, ctl>>

Watch ==
    /\ inf.fed > 0 /\ inf.fed = inf.version /\ inf.fed < Version(Len(log))
    /\ inf' = [inf EXCEPT !.fed = @ + 1, !.pending[log[inf.fed].ref] = inf.fed,
                          !.fifo = Queued(@, {log[inf.fed].ref})]
    /\ UNCHANGED <<log, cache, mgr, ctl>>

SetVersion ==
    /\ inf.version # inf.fed
    /\ inf' = [inf EXCEPT !.version = inf.fed]
    /\ UNCHANGED <<log, cache, mgr, ctl>>

(* Mutant: the handler for deletions does not call sync.                   *)
PopNoDelete ==
    /\ inf.fifo # <<>>
    /\ LET r == Head(inf.fifo)
       IN  inf' = [inf EXCEPT !.fifo = Tail(@), !.store[r] = inf.pending[r],
                              !.sync = @ \/ r \in Refs(inf.pending)]
    /\ UNCHANGED <<log, cache, mgr, ctl>>

Pop ==
    /\ inf.fifo # <<>>
    /\ LET r == Head(inf.fifo)
       IN  inf' = [inf EXCEPT !.fifo = Tail(@), !.store[r] = inf.pending[r], !.sync = TRUE]
    /\ UNCHANGED <<log, cache, mgr, ctl>>

-----------------------------------------------------------------------------
(* cacheGetter.Get: the version is compared under the read lock, and the   *)
(* list is made and noted under the write lock, by readers in two steps.   *)

(* Mutant: a list that was made once is never made again.                  *)
FreshOnce(c) == c.version # 0

Fresh(c) == c.version = inf.version
Made(c, version) == IF c.version = version THEN c
                    ELSE [version |-> version, data |-> inf.store]

-----------------------------------------------------------------------------
(* StagesManager.run and manage.                                           *)

Manage ==
    /\ mgr.pc = "run" /\ inf.sync
    /\ inf' = [inf EXCEPT !.sync = FALSE]
    /\ mgr' = [mgr EXCEPT !.pc = IF Fresh(cache) THEN "start" ELSE "get",
                          !.version = inf.version, !.tried = {}, !.refused = {},
                          !.early = @ \/ inf.version # inf.fed,
                          !.set = IF Fresh(cache) THEN Refs(cache.data) ELSE {}]
    /\ UNCHANGED <<log, cache, ctl>>

ManageGet ==
    /\ mgr.pc = "get"
    /\ cache' = Made(cache, mgr.version)
    /\ mgr' = [mgr EXCEPT !.pc = "start", !.set = Refs(cache'.data)]
    /\ UNCHANGED <<log, inf, ctl>>

NoFilter == [version |-> 0, data |-> None]
NoReader == [pc |-> "none", version |-> 0, inner |-> 0]

StartFunc(r) ==
    /\ mgr.pc = "start" /\ r \in mgr.set \ (mgr.cache \cup mgr.tried)
    /\ mgr' = [mgr EXCEPT !.tried = @ \cup {r}, !.cache = @ \cup {r}]
    /\ ctl' = [ctl EXCEPT ![r] = [filter |-> NoFilter, reader |-> NoReader]]
    /\ UNCHANGED <<log, inf, cache>>

StartFails(r) ==
    /\ mgr.pc = "start" /\ r \in mgr.set \ (mgr.cache \cup mgr.tried)
    /\ MoreTrouble
    /\ mgr' = [mgr EXCEPT !.tried = @ \cup {r}, !.refused = @ \cup {r}, !.failures = @ + 1]
    /\ UNCHANGED <<log, inf, cache, ctl>>

Stop ==
    /\ mgr.pc = "start" /\ mgr.set \subseteq mgr.cache \cup mgr.tried
    /\ mgr' = [mgr EXCEPT !.pc = "run", !.cache = @ \cap mgr.set]
    /\ UNCHANGED <<log, inf, cache, ctl>>

-----------------------------------------------------------------------------
(* A controller asks for its lifecycle: the filter of the stages of its    *)
(* kind, itself behind a cache, around the cached list.                    *)

ReadFilter(r) ==
    /\ r \in mgr.cache /\ ctl[r].reader.pc = "none" /\ ~Fresh(ctl[r].filter)
    /\ ctl' = [ctl EXCEPT ![r].reader = [pc |-> "filter", version |-> inf.version, inner |-> 0]]
    /\ UNCHANGED <<log, inf, cache, mgr>>

Filtered(r, c) ==
    [ctl EXCEPT ![r] = [filter |-> [version |-> ctl[r].reader.version, data |-> c.data],
                        reader |-> NoReader]]

ReadCache(r) ==
    /\ ctl[r].reader.pc = "filter"
    /\ ctl' = IF Fresh(cache) THEN Filtered(r, cache)
              ELSE [ctl EXCEPT ![r].reader.pc = "get", ![r].reader.inner = inf.version]
    /\ UNCHANGED <<log, inf, cache, mgr>>

ReadStore(r) ==
    /\ ctl[r].reader.pc = "get"
    /\ cache' = Made(cache, ctl[r].reader.inner)
    /\ ctl' = Filtered(r, cache')
    /\ UNCHANGED <<log, inf, mgr>>

-----------------------------------------------------------------------------
Change(r, set) ==
    /\ Len(log) < MaxChanges
    /\ set \/ r \in Refs(Now)
    /\ log' = Append(log, [ref |-> r, set |-> set])
    /\ UNCHANGED <<inf, cache, mgr, ctl>>

Init ==
    /\ log = <<>>
    /\ inf = [fed |-> 0, version |-> 0, pending |-> None, fifo |-> <<>>, store |-> None,
              sync |-> TRUE, relists |-> 0]
    /\ cache = [version |-> 0, data |-> None]
    /\ mgr = [pc |-> "run", version |-> 0, set |-> {}, tried |-> {}, refused |-> {},
              cache |-> {}, failures |-> 0, early |-> FALSE]
    /\ ctl = [r \in Ref |-> [filter |-> NoFilter, reader |-> NoReader]]

Informer == List \/ Watch \/ SetVersion \/ Pop
Manager == Manage \/ ManageGet \/ Stop \/ \E r \in Ref : StartFunc(r)
Controller(r) == ReadFilter(r) \/ ReadCache(r) \/ ReadStore(r)

Next ==
    \/ Informer \/ Relist \/ Manager
    \/ \E r \in Ref : StartFails(r) \/ Controller(r) \/ \E set \in BOOLEAN : Change(r, set)

Spec == Init /\ [][Next]_vars

(* Every goroutine that can run is run; a resource event makes every       *)
(* running controller ask for its stages again and again.                  *)
Fairness ==
    /\ WF_vars(Informer) /\ WF_vars(Manager)
    /\ \A r \in Ref : WF_vars(Controller(r))

FairSpec == Spec /\ Fairness

-----------------------------------------------------------------------------
(* A list that is kept under a version lacks a change of this version: it  *)
(* was made after the version was noted and before the change was in the   *)
(* store.                                                                  *)
Torn(c) == c.version > 0 /\ \E r \in Ref : c.data[r] < AsOf(c.version - 1)[r]

SomeTorn == Torn(cache) \/ \E r \in Ref : Torn(ctl[r].filter)

(* When the user stops changing the stages, the controllers that run are   *)
(* in the end those of the kinds that have stages, but for those that the  *)
(* manager last failed to start.  Two races can prevent it, and only they: *)
(* a torn list, and a manager that is woken by a change before the version *)
(* of the change is noted.                                                 *)
RunsConfigured ==
    []~(Torn(cache) \/ mgr.early) => <>[](mgr.cache = Refs(Now) \ mgr.refused)

(* What a controller is given when it asks for its stages.                 *)
Got(r) == IF Fresh(ctl[r].filter) THEN ctl[r].filter.data[r]
          ELSE IF Fresh(cache) THEN cache.data[r]
          ELSE inf.store[r]

(* When the user stops changing the stages, every controller is in the end *)
(* given the latest stages of its kind ("returns a new Getter that returns *)
(* the latest list of resources").                                         *)
LatestList == <>[](\A r \in mgr.cache : Got(r) = Now[r])

(* Only a torn list, of the getter or of a filter around it, can keep a    *)
(* controller from the latest stages, whatever watches end and whoever     *)
(* else reads meanwhile.                                                   *)
OnlyTornIsStale == []~SomeTorn => LatestList
=============================================================================
