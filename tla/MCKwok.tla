-------------------------------- MODULE MCKwok --------------------------------
(***************************************************************************)
(* The parts of the kwok process that do not act on each other: the queue  *)
(* of the controllers (WeightDelayingQueue), the node leases (NodeLease),  *)
(* the metrics of a node (Metrics), the server and its start (Server), and *)
(* a stage's way from selection to play (Lifecycle).  A behaviour takes    *)
(* one of them; the variables of the others stand still.                   *)
(***************************************************************************)
EXTENDS WeightDelayingQueue, Integers, TLC

CONSTANTS Pod, None, NoRule

VARIABLES part,
          process, rules, seen, routes, request, events,                  \* Server
          node, rv, lease, status, mem, cached, act, faults, crashes,     \* NodeLease
          pods, listed, nodeCached, clock, changes, cumulatives, current, \* Metrics
          handlers, scrape, scrapes, overlap, first,
          life                                                            \* Lifecycle

serverVars == <<process, rules, seen, routes, request, events>>
leaseVars == <<node, rv, lease, status, mem, cached, act, faults, crashes>>
metricsVars == <<pods, listed, nodeCached, clock, changes, cumulatives, current,
                 handlers, scrape, scrapes, overlap, first>>

(* Two instances, and two of a change, a failing request and a crash.      *)
Trouble(cs, fs, ks) == [instances |-> 2, changes |-> cs, faults |-> fs, crashes |-> ks]
MCBounds == {Trouble(1, 1, 0), Trouble(1, 0, 1), Trouble(0, 1, 1)}

Leasing == INSTANCE NodeLease
  WITH Instance <- Item, Node <- {"n"}, Existing <- {"n"}, Changing <- {"n"}, Worker <- {"w"}, seen <- cached,
       Duration <- 8, Interval <- 2, Second <- 1, Latency <- 1,
       Needs <- {TRUE}, Vacant <- {}, Prompt <- {"caches", "requests", "workers"}, MaxLag <- 1,
       Bounds <- MCBounds

(* Items and workers of the queue are interchangeable; the instances are   *)
(* named as the items, the scrapers as the workers.                        *)
Symmetry == Permutations(Item) \cup Permutations(Worker)

-----------------------------------------------------------------------------
(* Two Metric objects of one node, which share its handler.                *)
Config1(name, kind, dimension, value) ==
    [name |-> name, kind |-> kind, dimension |-> dimension, value |-> value, buckets |-> <<>>]

Configs ==
    [resource |-> << Config1("g", "gauge", "container", "object"),
                     Config1("c", "counter", "pod", "CumulativeUsage") >>,
     summary |-> << Config1("n", "gauge", "node", "Usage"),
                    [Config1("h", "histogram", "node", "") EXCEPT !.buckets =
                        << [le |-> 1, value |-> 1, hidden |-> FALSE],
                           [le |-> 2, value |-> 2, hidden |-> TRUE],
                           [le |-> 3, value |-> 1, hidden |-> FALSE] >>] >>]

Scraping == INSTANCE Metrics
  WITH node <- nodeCached, now <- clock, events <- changes, Scraper <- Worker, Quantities <- {1}, MaxEvents <- 2, MaxScrapes <- 2

-----------------------------------------------------------------------------
(* A pod's own rule that names all containers, and one that is incomplete; *)
(* two rules for many pods; metrics with and without a path below /metrics.*)
MCEndpoint == {"exec", "attach", "logs", "portForward", "usage"}
T(names, complete) == [names |-> names, complete |-> complete]
Many(selects, targets) == [selects |-> selects, targets |-> targets]
AtPath(path, below, id) == [path |-> path, below |-> below, id |-> id]

MCOwnRules == {NoRule, <<T({}, TRUE), T({1}, FALSE)>>}
MCClusterRules == {<<>>, <<Many(TRUE, <<T({2}, TRUE)>>),
                           Many(TRUE, <<T({}, TRUE), T({1}, TRUE), T({}, FALSE)>>)>>}
MCMetrics == {<<>>, <<AtPath("a", TRUE, 1), AtPath("b", TRUE, 2)>>,
              <<AtPath("b", TRUE, 1), AtPath("b", TRUE, 2), AtPath("c", FALSE, 3)>>}

Own == {<<e, "own">> : e \in MCEndpoint}
Shared == {<<e, "cluster">> : e \in MCEndpoint}
MetricKind == <<"metric", "cluster">>
StageKind == <<"stage", "cluster">>
RuleKind == Own \cup Shared \cup {MetricKind}

MCConfigured ==
    {[k \in RuleKind |-> CASE k = MetricKind -> <<AtPath("a", below, 1)>>
                            [] k \in Own -> <<T({1}, TRUE)>>
                            [] OTHER -> <<Many(FALSE, <<T({}, TRUE)>>)>>] : below \in BOOLEAN}
MCEnableCRDs == {{}, {StageKind}, {MetricKind}, RuleKind, {<<"exec", "own">>, <<"usage", "own">>}}
MCConfiguredKinds == {{}, {StageKind}, {MetricKind}, RuleKind,
                      {<<"exec", "cluster">>, <<"usage", "cluster">>, StageKind}}

Serving == INSTANCE Server
  WITH Endpoint <- MCEndpoint, Container <- {1, 2}, OwnRules <- MCOwnRules,
       ClusterRules <- MCClusterRules, Metrics <- MCMetrics, EnableCRDs <- MCEnableCRDs,
       ConfiguredKinds <- MCConfiguredKinds, Configured <- MCConfigured, MaxEvents <- 2

-----------------------------------------------------------------------------
(* Objects whose queries give nothing, values or errors, and whose weights *)
(* and times can or cannot be read; stages that select, weigh, delay and   *)
(* do in every way.                                                        *)
Blank == [failed |-> FALSE, values |-> <<>>]
Broken == [failed |-> TRUE, values |-> <<>>]
Gives(vs) == [failed |-> FALSE, values |-> vs]
It(is, n) == [is |-> is, n |-> n]

Object(q, w, t, fs) ==
    [labels |-> {"l"}, annotations |-> {}, query |-> [phase |-> q], weight |-> w, time |-> t,
     now |-> 1, finalizers |-> fs, needs |-> {1}]

MCObjects ==
    << Object(Blank, It("number", 2), It("time", 4), <<"x", "y", "z">>),
       Object(Gives(<<"Running", "map">>), It("badString", 0), It("duration", 1), <<>>),
       Object(Broken, It("nothing", 0), It("other", 0), <<"x">>),
       [Object(Gives(<<"Pending">>), It("number", -2), It("nothing", 0), <<"y", "x">>)
          EXCEPT !.labels = {}] >>

Need(op, vs) == [key |-> "phase", operator |-> op, values |-> vs]
Fixed(n) == [from |-> FALSE, set |-> TRUE, value |-> n]
From(n) == [from |-> TRUE, set |-> TRUE, value |-> n]
NotSet == [from |-> FALSE, set |-> FALSE, value |-> 0]
FromOnly == [from |-> TRUE, set |-> FALSE, value |-> 0]

NoFinalizers == [empty |-> FALSE, add |-> <<>>, remove |-> <<>>]

Base == [selector |-> TRUE, labels |-> {}, annotations |-> {}, expressions |-> <<>>,
         weight |-> Fixed(0), delay |-> FALSE, duration |-> NotSet, jitter |-> NotSet,
         immediate |-> FALSE,
         next |-> [finalizers |-> NoFinalizers, delete |-> FALSE, patches |-> <<>>]]

Selecting == {[Base EXCEPT !.expressions = <<Need("In", {"Running"})>>],
              [Base EXCEPT !.expressions = <<Need("NotIn", {"Running"})>>],
              [Base EXCEPT !.expressions = <<Need("Exists", {}), Need("NotIn", {"Pending"})>>],
              [Base EXCEPT !.expressions = <<Need("DoesNotExist", {})>>, !.labels = {"l"}],
              [Base EXCEPT !.annotations = {"a"}],
              [Base EXCEPT !.selector = FALSE],
              [Base EXCEPT !.expressions = <<Need("In", {})>>]}
Weighing == {[Base EXCEPT !.weight = w] : w \in {Fixed(0), Fixed(1), Fixed(2), From(1), From(3)}}
Delaying == {[Base EXCEPT !.delay = TRUE, !.duration = d, !.jitter = j] :
               d \in {Fixed(0), Fixed(2), From(1), FromOnly}, j \in {NotSet, Fixed(3), From(2), FromOnly}}
Doing == {[Base EXCEPT !.immediate = i,
                       !.next = [finalizers |-> [empty |-> e, add |-> a, remove |-> r],
                                 delete |-> d, patches |-> p]] :
            i, e, d \in BOOLEAN, a \in {<<>>, <<"x">>, <<"w", "y">>},
            r \in {<<>>, <<"x">>, <<"z", "x">>}, p \in {<<>>, <<1, 2>>, <<2>>}}

MCLists == {<<s>> : s \in Delaying \cup Doing}
             \cup {<<s, t>> : s, t \in Selecting}
             \cup {<<s, t, u>> : s, t, u \in Weighing}

Playing == INSTANCE Lifecycle WITH Objects <- MCObjects, Lists <- MCLists

-----------------------------------------------------------------------------
(* A part that is not taken has no state; the queue stays as it begins.    *)
NoServer ==
    /\ process = 0 /\ rules = 0 /\ seen = 0 /\ routes = 0 /\ request = 0 /\ events = 0

NoLeases ==
    /\ node = 0 /\ rv = 0 /\ lease = 0 /\ status = 0 /\ mem = 0 /\ cached = 0
    /\ act = 0 /\ faults = 0 /\ crashes = 0

NoMetrics ==
    /\ pods = 0 /\ listed = 0 /\ nodeCached = 0 /\ clock = 0 /\ changes = 0
    /\ cumulatives = 0 /\ current = 0 /\ handlers = 0 /\ scrape = 0 /\ scrapes = 0
    /\ overlap = 0 /\ first = 0

MCInit ==
    /\ Init
    /\ part \in {"queue", "leases", "metrics", "server", "stages"}
    /\ IF part = "server" THEN Serving!Init ELSE NoServer
    /\ IF part = "leases" THEN Leasing!Init ELSE NoLeases
    /\ IF part = "metrics" THEN Scraping!Init ELSE NoMetrics
    /\ IF part = "stages" THEN Playing!Init ELSE life = 0

MCNext ==
    /\ UNCHANGED part
    /\ IF part = "queue" THEN Next ELSE UNCHANGED vars
    /\ IF part = "server" THEN Serving!Next ELSE UNCHANGED serverVars
    /\ IF part = "leases" THEN Leasing!Next ELSE UNCHANGED leaseVars
    /\ IF part = "metrics" THEN Scraping!Next ELSE UNCHANGED metricsVars
    /\ IF part = "stages" THEN Playing!Next ELSE UNCHANGED life

MCSpec == MCInit /\ [][MCNext]_<<part, vars, serverVars, leaseVars, metricsVars, life>>

-----------------------------------------------------------------------------
(* An instance that runs and keeps up does not lose a lease it holds       *)
(* (nextTryDuration; see module NodeLease).                                *)
HolderKeepsLease == [][part = "leases" => Leasing!HolderStays]_leaseVars

(* A request is answered with exactly the metrics that are asked for, at   *)
(* their present values (UpdateHandler.Update; see module Metrics).        *)
ScrapeExact == part = "metrics" => Scraping!ScrapeExact

(* CumulativeUsage is the usage times the time                             *)
(* (containerResourceCumulativeUsage; see module Metrics).                 *)
UsageIntegrated == part = "metrics" => Scraping!UsageIntegrated

(* What a bucket of a histogram has counted (histogram.Write; see module   *)
(* Metrics).                                                               *)
EveryBucketCounts == part = "metrics" => Scraping!EveryBucketCounts

(* Every kind of rule has one source (runE, startServer; see module        *)
(* Server).                                                                *)
OneSource == part = "server" => Serving!OneSource

(* An endpoint gives the target that is meant for the container            *)
(* (getPodLogs and the others; see module Server).                         *)
RightTarget == part = "server" => Serving!RightTarget

(* A controller does what the tester foretells (playStage and              *)
(* testingStage; see module Lifecycle).                                    *)
Foretold == part = "stages" => Playing!Foretold

(* Stages are chosen by their weights (Lifecycle.Match; see module         *)
(* Lifecycle).                                                             *)
MatchProportional == part = "stages" => Playing!MatchProportional

(* A stage leaves the finalizers it should (finalizersModify; see module   *)
(* Lifecycle).                                                             *)
FinalizersExact == part = "stages" => Playing!FinalizersExact
=============================================================================
