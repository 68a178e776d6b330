------------------------------- MODULE Metrics -------------------------------
(***************************************************************************)
(* The metrics a kwok process serves for one simulated node: getMetrics    *)
(* and the resource usage functions of pkg/kwok/server, UpdateHandler of   *)
(* pkg/kwok/metrics.                                                       *)
(*                                                                         *)
(* A scrape is an HTTP request.  It finds the handler of the node, brings  *)
(* the handler's collectors up to date with the metrics of the requested   *)
(* Metric object, removes the collectors it did not need, and writes out   *)
(* what the registry has.  Handler, collectors and registry have no common *)
(* lock, so scrapes of one node interleave at every access.                *)
(*                                                                         *)
(* Pods have one container.  A metric of the model is labelled with its    *)
(* target, the node or a pod; its value is an expression over the object   *)
(* ("object", which fails for a pod that lacks what it asks for), or one   *)
(* of the functions Usage and CumulativeUsage.  The evaluator's cache of   *)
(* results belongs to the Evaluator that Compile makes anew for every      *)
(* expression of every scrape and never answers, so it is left out.        *)
(***************************************************************************)
EXTENDS Integers, Histogram, TLC

CONSTANTS Pod,          \* pods that come and go on the node
          Scraper,      \* clients, each with one request at a time
          Configs,      \* Metric object -> sequence of its metrics
          Quantities,   \* what a container can use of the resource
          MaxEvents,    \* bound on changes of pods and node and ticks of the clock,
                        \* one less once requests have overlapped
          MaxScrapes    \* bound on the requests

VARIABLES pods,         \* the pod cache: is it there, its usage, is it odd
          listed,       \* the pods podsOnNode has for the node
          node,         \* is the node in the node cache and in podsOnNode
          now,          \* the clock
          events,       \* changes and ticks so far
          cumulatives,  \* Server.cumulatives
          current,      \* metricsUpdateHandler of the node, 0 when there is none
          handlers,     \* the handlers made so far
          scrape,       \* the requests
          scrapes,      \* requests so far
          overlap,      \* history: were two requests in progress at a time
          first         \* history: the first reading of CumulativeUsage, and
                        \* whether all later ones read the same usage

cluster == <<pods, listed, node, now, events>>
vars == <<cluster, cumulatives, current, handlers, scrape, scrapes, overlap, first>>
rest == <<scrapes, overlap, first>>

NodeTarget == "node"
Kinds == <<"gauge", "counter", "histogram">>
Gone == [there |-> FALSE, usage |-> 0, odd |-> FALSE]
Empty == [k \in {} |-> 0]

(* The metric a request is at, and the target of it.                       *)
Config(r) == Configs[r.metric][r.i]
At(r) == Head(r.todo)

-----------------------------------------------------------------------------
(* Resource usage, metrics_resource_usage.go.                              *)

containerResourceUsage(p) == IF pods[p].there /\ node THEN pods[p].usage ELSE 0

nodeResourceUsage ==
    IF node
      THEN MapThenSumSet(LAMBDA p : pods[p].usage, {p \in listed : pods[p].there})
      ELSE 0

Usage(t) == IF t = NodeTarget THEN nodeResourceUsage ELSE containerResourceUsage(t)

(* Mutant: the entry keeps the time of its first use.                      *)
accumulateFromStart(t, usage, time) ==
    IF t \in DOMAIN cumulatives
      THEN [cumulatives EXCEPT ![t].value = @ + (time - cumulatives[t].time) * usage]
      ELSE cumulatives @@ (t :> [time |-> time, value |-> 0])

(* The usage and the time were read before the mutex was taken.            *)
accumulate(t, usage, time) ==
    IF t \in DOMAIN cumulatives
      THEN [cumulatives EXCEPT ![t] = [time |-> time,
                                       value |-> @.value + (time - @.time) * usage]]
      ELSE cumulatives @@ (t :> [time |-> time, value |-> 0])

-----------------------------------------------------------------------------
(* The handler of a node: the collectors it has stored by key, and the     *)
(* registry of prometheus.  The registry knows a collector by name and     *)
(* labels, whatever its kind: Register refuses what it has already, and    *)
(* Unregister removes whatever is registered under the description.        *)

(* What a collector gives out: the number of a gauge or counter, or the    *)
(* buckets, the count and the sum of a histogram.                          *)
Number(n) == <<n>>
Buckets(c, stored) ==
    LET w == Write(NewHistogram(c.buckets), stored) IN w.counts \o <<w.count, w.sum>>

NewMetricsUpdateHandler == [stored |-> Empty, registry |-> Empty, value |-> Empty]

uniqueKey(c, t) == [name |-> c.name, kind |-> c.kind, target |-> t]
Desc(key) == [name |-> key.name, target |-> key.target]

Without(f, k) == [x \in DOMAIN f \ {k} |-> f[x]]

(* The number of a new collector: one that nothing refers to.              *)
Fresh(h) ==
    LET hd == handlers[h]
        used == {hd.stored[k] : k \in DOMAIN hd.stored}
                  \cup {hd.registry[d] : d \in DOMAIN hd.registry}
                  \cup {scrape[s].id : s \in {x \in Scraper : scrape[x].h = h}}
    IN  Min((1..(Cardinality(used) + 1)) \ used)

-----------------------------------------------------------------------------
(* A request.                                                              *)

Idle == [pc |-> "idle", metric |-> "", h |-> 0, i |-> 0, todo |-> <<>>, id |-> 0,
         object |-> Gone, keys |-> {}, has |-> {}, usage |-> 0, time |-> 0,
         sweep |-> 0, old |-> {}, response |-> {}, calm |-> FALSE]

Step(s, r) == scrape' = [scrape EXCEPT ![s] = r]

(* getMetrics: the handler of the node is looked up; when there is none,   *)
(* one is made and stored in a step of its own.                            *)
GetMetrics(s) ==
    /\ scrape[s].pc = "idle"
    /\ scrapes < MaxScrapes
    /\ scrapes' = scrapes + 1
    /\ overlap' = (overlap \/ \E t \in Scraper : scrape[t].pc # "idle")
    /\ \E m \in DOMAIN Configs :
         scrape' = [scrape EXCEPT ![s] =
            [Idle EXCEPT !.pc = IF current = 0 THEN "new" ELSE "metric",
                         !.metric = m, !.h = current, !.i = 1, !.calm = TRUE]]
    /\ UNCHANGED <<cluster, cumulatives, current, handlers, first>>

StoreHandler(s) ==
    /\ scrape[s].pc = "new"
    /\ handlers' = Append(handlers, NewMetricsUpdateHandler)
    /\ current' = Len(handlers')
    /\ Step(s, [scrape[s] EXCEPT !.pc = "metric", !.h = current'])
    /\ UNCHANGED <<cluster, cumulatives, rest>>

(* Update takes the next metric.  Without the node, or without a list of   *)
(* its pods, there is nothing to do and nothing to keep.                   *)
Targets(dimension) ==
    CASE ~node                -> <<>>
      [] dimension = "node"   -> <<NodeTarget>>
      [] OTHER                -> SetToSeq(listed)

(* updateMetric returns: its keys are kept, or none of them after an error.*)
Returned(r, keys) == [r EXCEPT !.pc = "metric", !.i = @ + 1, !.has = @ \cup keys,
                               !.keys = {}, !.todo = <<>>, !.id = 0]

(* On to the next target, or back when there is none left.                 *)
NextTarget(r) == IF Len(r.todo) <= 1 THEN Returned(r, r.keys)
                 ELSE [r EXCEPT !.pc = "target", !.todo = Tail(@), !.id = 0]

UpdateMetric(s) ==
    LET r == scrape[s] IN
    /\ r.pc = "metric" /\ r.i <= Len(Configs[r.metric])
    /\ LET ts == Targets(Config(r).dimension)
       IN  Step(s, IF ts = <<>> THEN Returned(r, {})
                   ELSE [r EXCEPT !.pc = "target", !.todo = ts])
    /\ UNCHANGED <<cluster, cumulatives, current, handlers, rest>>

(* getOrRegister up to the lookup of the collector; a pod the cache does   *)
(* not have is passed over.                                                *)
FindCollector(s) ==
    LET r == scrape[s] IN
    /\ r.pc = "target"
    /\ \/ /\ At(r) \in Pod /\ ~pods[At(r)].there
          /\ Step(s, NextTarget(r))
       \/ /\ At(r) \in Pod => pods[At(r)].there
          /\ LET key == uniqueKey(Config(r), At(r))
                 stored == handlers[r.h].stored
                 seen == [r EXCEPT !.object = IF At(r) \in Pod THEN pods[At(r)] ELSE Gone]
             IN  Step(s, IF key \in DOMAIN stored
                        THEN [seen EXCEPT !.pc = "evaluate", !.id = stored[key]]
                        ELSE [seen EXCEPT !.pc = "store", !.id = Fresh(r.h)])
    /\ UNCHANGED <<cluster, cumulatives, current, handlers, rest>>

StoreCollector(s) ==
    LET r == scrape[s]
        key == uniqueKey(Config(r), At(r))
    IN  /\ r.pc = "store"
        /\ Step(s, [r EXCEPT !.pc = "register"])
        /\ handlers' = [handlers EXCEPT ![r.h].stored = (key :> r.id) @@ @,
                                        ![r.h].value = (r.id :> IF Config(r).kind = "histogram"
                                                            THEN Buckets(Config(r), Empty)
                                                            ELSE Number(0)) @@ @]
        /\ UNCHANGED <<cluster, cumulatives, current, rest>>

Register(s) ==
    LET r == scrape[s]
        desc == Desc(uniqueKey(Config(r), At(r)))
    IN  /\ r.pc = "register"
        /\ IF desc \in DOMAIN handlers[r.h].registry
             THEN Step(s, Returned(r, {})) /\ UNCHANGED handlers
             ELSE /\ Step(s, [r EXCEPT !.pc = "evaluate"])
                  /\ handlers' = [handlers EXCEPT ![r.h].registry = (desc :> r.id) @@ @]
        /\ UNCHANGED <<cluster, cumulatives, current, rest>>

(* CumulativeUsage reads usage and clock before the mutex.                 *)
Reading(r) == [r EXCEPT !.pc = "lock", !.usage = Usage(At(r)), !.time = now]

(* The value: an expression over the object may fail, which drops what     *)
(* the metric has so far.  CumulativeUsage of a node or a pod that is not  *)
(* in the cache is 0 and accumulates nothing; that of a pod goes on to its *)
(* containers, which look the pod up again.                                *)
Evaluate(s) ==
    LET r == scrape[s] IN
    /\ r.pc = "evaluate"
    /\ \/ /\ Config(r).kind = "histogram"
          /\ Step(s, [r EXCEPT !.pc = "set"])
       \/ /\ Config(r).value = "object"
          /\ Step(s, IF r.object.odd THEN Returned(r, {})
                                 ELSE [r EXCEPT !.pc = "set", !.usage = r.object.usage])
       \/ /\ Config(r).value = "Usage"
          /\ Step(s, [r EXCEPT !.pc = "set", !.usage = Usage(At(r))])
       \/ /\ Config(r).value = "CumulativeUsage"
          /\ Step(s, CASE Config(r).dimension = "container" -> Reading(r)
                       [] Config(r).dimension = "pod" /\ pods[At(r)].there ->
                            [r EXCEPT !.pc = "container"]
                       [] Config(r).dimension = "node" /\ node -> Reading(r)
                       [] OTHER -> [r EXCEPT !.pc = "set", !.usage = 0])
    /\ UNCHANGED <<cluster, cumulatives, current, handlers, rest>>

ReadContainer(s) ==
    /\ scrape[s].pc = "container"
    /\ Step(s, Reading(scrape[s]))
    /\ UNCHANGED <<cluster, cumulatives, current, handlers, rest>>

Accumulate(s) ==
    LET r == scrape[s]
        t == At(r)
    IN  /\ r.pc = "lock"
        /\ cumulatives' = accumulate(t, r.usage, r.time)
        /\ Step(s, [r EXCEPT !.pc = "set", !.usage = cumulatives'[t].value])
        /\ first' = IF t \in DOMAIN first
                      THEN [first EXCEPT ![t].steady = @ /\ r.usage = first[t].usage]
                      ELSE (t :> [time |-> r.time, usage |-> r.usage, steady |-> TRUE]) @@ first
        /\ UNCHANGED <<cluster, current, handlers, scrapes, overlap>>

SetValue(s) ==
    LET r == scrape[s]
        c == Config(r)
        value == IF c.kind = "histogram" THEN Buckets(c, SetAll(c.buckets))
                 ELSE Number(r.usage)
    IN  /\ r.pc = "set"
        /\ Step(s, NextTarget([r EXCEPT !.keys = @ \cup {uniqueKey(c, At(r))}]))
        /\ handlers' = [handlers EXCEPT ![r.h].value = (r.id :> value) @@ @]
        /\ UNCHANGED <<cluster, cumulatives, current, rest>>

(* Removing old metrics: per kind the keys are listed, and each that was   *)
(* not needed is taken out of the map, then out of the registry.           *)
Sweeping(r) == IF r.pc = "metric" THEN 1 ELSE r.sweep + 1

(* Mutant: gauges are not removed.                                         *)
ListCounters(s) ==
    LET r == scrape[s] IN
    /\ \/ r.pc = "metric" /\ r.i > Len(Configs[r.metric])
       \/ r.pc = "sweep" /\ r.old = {} /\ r.sweep < Len(Kinds)
    /\ LET n == Sweeping(r)
       IN  scrape' = [scrape EXCEPT ![s] = [r EXCEPT !.pc = "sweep", !.sweep = n,
             !.old = {k \in DOMAIN handlers[r.h].stored :
                         k.kind = Kinds[n] /\ k.kind # "gauge" /\ k \notin r.has}]]
    /\ UNCHANGED <<cluster, cumulatives, current, handlers, rest>>

ListOld(s) ==
    LET r == scrape[s] IN
    /\ \/ r.pc = "metric" /\ r.i > Len(Configs[r.metric])
       \/ r.pc = "sweep" /\ r.old = {} /\ r.sweep < Len(Kinds)
    /\ LET n == Sweeping(r)
       IN  scrape' = [scrape EXCEPT ![s] = [r EXCEPT !.pc = "sweep", !.sweep = n,
             !.old = {k \in DOMAIN handlers[r.h].stored :
                         k.kind = Kinds[n] /\ k \notin r.has}]]
    /\ UNCHANGED <<cluster, cumulatives, current, handlers, rest>>

LoadAndDelete(s) ==
    LET r == scrape[s] IN
    \E k \in r.old :
      /\ r.pc = "sweep"
      /\ IF k \in DOMAIN handlers[r.h].stored
           THEN /\ Step(s, [r EXCEPT !.pc = "unregister", !.keys = {k},
                                              !.old = @ \ {k}])
                /\ handlers' = [handlers EXCEPT ![r.h].stored = Without(@, k)]
           ELSE /\ Step(s, [r EXCEPT !.old = @ \ {k}])
                /\ UNCHANGED handlers
      /\ UNCHANGED <<cluster, cumulatives, current, rest>>

Unregister(s) ==
    LET r == scrape[s]
        desc == Desc(CHOOSE k \in r.keys : TRUE)
    IN  /\ r.pc = "unregister"
        /\ Step(s, [r EXCEPT !.pc = "sweep", !.keys = {}])
        /\ handlers' = [handlers EXCEPT ![r.h].registry = Without(@, desc)]
        /\ UNCHANGED <<cluster, cumulatives, current, rest>>

ServeHTTP(s) ==
    LET r == scrape[s]
        hd == handlers[r.h]
    IN  /\ r.pc = "sweep"
        /\ r.sweep = Len(Kinds) /\ r.old = {}
        /\ Step(s, [r EXCEPT !.pc = "done", !.response =
                {[desc |-> d, value |-> hd.value[hd.registry[d]]] : d \in DOMAIN hd.registry}])
        /\ UNCHANGED <<cluster, cumulatives, current, handlers, rest>>

Done(s) ==
    /\ scrape[s].pc = "done"
    /\ Step(s, Idle)
    /\ UNCHANGED <<cluster, cumulatives, current, handlers, rest>>

-----------------------------------------------------------------------------
(* The cluster around it: the pod cache, podsOnNode and the clock.         *)

MoreEvents == events + (IF overlap THEN 1 ELSE 0) < MaxEvents

Changed == /\ MoreEvents
           /\ events' = events + 1
           /\ scrape' = [s \in Scraper |-> [scrape[s] EXCEPT !.calm = FALSE]]
           /\ UNCHANGED <<now, cumulatives, current, handlers, rest>>

PodChanges ==
    /\ Changed
    /\ \E p \in Pod, u \in Quantities, there, odd \in BOOLEAN :
         pods' = [pods EXCEPT ![p] = IF there THEN [there |-> TRUE, usage |-> u, odd |-> odd]
                                     ELSE Gone]
    /\ pods' # pods
    /\ UNCHANGED <<listed, node>>

ListChanges ==
    /\ Changed
    /\ \E p \in Pod : listed' = IF pods[p].there THEN listed \cup {p} ELSE listed \ {p}
    /\ listed' # listed
    /\ UNCHANGED <<pods, node>>

NodeChanges ==
    /\ Changed
    /\ node' = ~node
    /\ UNCHANGED <<pods, listed>>

Tick ==
    /\ MoreEvents
    /\ events' = events + 1
    /\ now' = now + 1
    /\ UNCHANGED <<pods, listed, node, cumulatives, current, handlers, scrape, rest>>

Init ==
    /\ \E u \in Quantities : pods = [p \in Pod |-> [there |-> TRUE, usage |-> u, odd |-> FALSE]]
    /\ listed = Pod
    /\ node = TRUE
    /\ now = 0
    /\ events = 0
    /\ cumulatives = Empty
    /\ current = 0
    /\ handlers = <<>>
    /\ scrape = [s \in Scraper |-> Idle]
    /\ scrapes = 0
    /\ overlap = FALSE
    /\ first = Empty

Next ==
    \/ PodChanges \/ ListChanges \/ NodeChanges \/ Tick
    \/ \E s \in Scraper :
         GetMetrics(s) \/ StoreHandler(s) \/ UpdateMetric(s)
           \/ FindCollector(s) \/ StoreCollector(s) \/ Register(s) \/ Evaluate(s)
           \/ ReadContainer(s) \/ Accumulate(s) \/ SetValue(s) \/ ListOld(s) \/ LoadAndDelete(s)
           \/ Unregister(s) \/ ServeHTTP(s) \/ Done(s)

Spec == Init /\ [][Next]_vars

-----------------------------------------------------------------------------
(* What a Metric object asks for: for every metric whose expressions can   *)
(* be evaluated for all its targets, one entry per target.                 *)
Present(c) ==
    CASE ~node                  -> {}
      [] c.dimension = "node"   -> {NodeTarget}
      [] OTHER                  -> {p \in listed : pods[p].there}

Fails(c) == c.value = "object" /\ \E p \in Present(c) \cap Pod : pods[p].odd

(* Every visible bucket of a histogram counts everything up to its bound,  *)
(* the hidden buckets below it included, and +Inf counts all there is.     *)
Cumulative(c) ==
    LET stored == SetAll(c.buckets)
        bounds == NewHistogram(c.buckets)
        total == UpTo(stored, Max(DOMAIN stored))
    IN  [k \in DOMAIN bounds |-> UpTo(stored, bounds[k])]
          \o << total, total, MapThenSumSet(LAMBDA le : le * stored[le], DOMAIN stored) >>

Value(c, t) ==
    CASE c.kind = "histogram"           -> Cumulative(c)
      [] c.value = "object"             -> Number(IF t \in Pod THEN pods[t].usage ELSE 0)
      [] c.value = "Usage"              -> Number(Usage(t))
      [] c.value = "CumulativeUsage"    -> Number(cumulatives[t].value)

Wanted(m) ==
    UNION {{[desc |-> Desc(uniqueKey(Configs[m][i], t)), value |-> Value(Configs[m][i], t)]
              : t \in Present(Configs[m][i])}
           : i \in {j \in DOMAIN Configs[m] : ~Fails(Configs[m][j])}}

(* A histogram without its bucket +Inf, and any other value.               *)
WithoutInf(value) ==
    IF Len(value) = 1 THEN value
    ELSE SubSeq(value, 1, Len(value) - 3) \o SubSeq(value, Len(value) - 1, Len(value))

Visible(response) == {[r EXCEPT !.value = WithoutInf(@)] : r \in response}

(* A request that no other overlaps and during which pods and node do not  *)
(* change is answered with exactly the metrics its Metric object asks for, *)
(* at their present values: nothing is left of pods that are gone, of      *)
(* metrics that another Metric object put into the shared handler of the   *)
(* node, or of a metric that failed half-way, and the visible buckets of a *)
(* histogram count the hidden ones below them (getMetrics,                 *)
(* UpdateHandler.Update, histogram.Write).  The bucket +Inf, which Write   *)
(* adds, is not spoken of here: see EveryBucketCounts.                     *)
ScrapeExact ==
    \A s \in Scraper :
      scrape[s].pc = "done" /\ scrape[s].calm /\ ~overlap =>
        Visible(scrape[s].response) = Visible(Wanted(scrape[s].metric))

(* A bucket that is given out has the meaning it has for Prometheus: "each *)
(* bucket contains values less than or equal to le", of which +Inf is one  *)
(* (histogram.Write).                                                      *)
EveryBucketCounts ==
    \A s \in Scraper :
      scrape[s].pc = "done" /\ scrape[s].calm /\ ~overlap =>
        scrape[s].response = Wanted(scrape[s].metric)

(* CumulativeUsage of a target whose usage was the same whenever it was    *)
(* read is the usage times the time since it was first asked for, however  *)
(* many requests asked meanwhile and in whichever order they took the mutex*)
(* (containerResourceCumulativeUsage, nodeResourceCumulativeUsage).        *)
UsageIntegrated ==
    \A t \in DOMAIN cumulatives :
      first[t].steady =>
        cumulatives[t].value = first[t].usage * (cumulatives[t].time - first[t].time)
=============================================================================
