------------------------------ MODULE Lifecycle ------------------------------
(***************************************************************************)
(* What a stage does to an object: pkg/utils/lifecycle with the selectors  *)
(* and value getters of pkg/utils/expression, the way a controller uses it *)
(* (preprocess, playStage), and the stage tester of pkg/tools/stage, which *)
(* foretells the same with functions of its own.                           *)
(*                                                                         *)
(* An object is what the queries find in it.  A query gives a sequence of  *)
(* values, or nothing because jq reports an error; nulls are never in it.  *)
(* Patches are numbers; rendering them is left out.                        *)
(***************************************************************************)
EXTENDS Integers, Sequences, FiniteSets, FiniteSetsExt, SequencesExt

CONSTANTS Objects,      \* the objects
          Lists         \* the lists of stages

VARIABLE life           \* one object on its way through a controller

-----------------------------------------------------------------------------
(* Selectors.  A requirement asks about the query its key is; "Scalar" are *)
(* the values hasValue can compare, every other value exists only.         *)

NewRequirementFails(r) ==
    CASE r.operator \in {"In", "NotIn"}             -> r.values = {}
      [] r.operator \in {"Exists", "DoesNotExist"}  -> r.values # {}
      [] OTHER                                      -> TRUE

Matches(r, out) ==
    LET has == \E i \in DOMAIN out.values : out.values[i] \in r.values
    IN  IF out.failed
          THEN r.operator \in {"NotIn", "DoesNotExist"}
          ELSE CASE r.operator = "In"           -> has
                 [] r.operator = "NotIn"        -> ~has
                 [] r.operator = "Exists"       -> out.values # <<>>
                 [] r.operator = "DoesNotExist" -> out.values = <<>>

(* Stage.match: labels, then annotations, then every expression.           *)
match(stage, o) ==
    /\ stage.labels \subseteq o.labels
    /\ stage.annotations \subseteq o.annotations
    /\ \A i \in DOMAIN stage.expressions :
         Matches(stage.expressions[i], o.query[stage.expressions[i].key])

(* NewLifecycle: a stage without a selector is dropped, one that cannot    *)
(* be compiled fails the whole list.                                       *)
NewLifecycleFails(list) ==
    \E i \in DOMAIN list : /\ list[i].selector
                           /\ \E j \in DOMAIN list[i].expressions :
                                NewRequirementFails(list[i].expressions[j])

NewLifecycle(list) == SelectSeq(list, LAMBDA stage : stage.selector)

matchAll(list, o) == SelectSeq(NewLifecycle(list), LAMBDA stage : match(stage, o))

-----------------------------------------------------------------------------
(* Values that come from the object: the first value of the query, the     *)
(* constant when there is none.  A getter answers [ok, n].                 *)

Got(n) == [ok |-> TRUE, n |-> n]
NotGot == [ok |-> FALSE, n |-> 0]

(* "number" is a number or a string that parses as one.                    *)
IntFrom(g, o) ==
    CASE ~g.from                            -> Got(g.value)
      [] g.from /\ o.weight.is = "nothing"  -> Got(g.value)
      [] g.from /\ o.weight.is = "other"    -> Got(g.value)
      [] g.from /\ o.weight.is = "badString" -> NotGot
      [] g.from /\ o.weight.is = "number"   -> Got(o.weight.n)

(* A time counts from now, a duration is itself; "set" is the constant.    *)
DurationFrom(g, o, now) ==
    CASE ~g.from                            -> IF g.set THEN Got(g.value) ELSE NotGot
      [] g.from /\ o.time.is = "nothing"    -> IF g.set THEN Got(g.value) ELSE NotGot
      [] g.from /\ o.time.is = "other"      -> NotGot
      [] g.from /\ o.time.is = "time"       -> Got(o.time.n - now)
      [] g.from /\ o.time.is = "duration"   -> Got(o.time.n)

-----------------------------------------------------------------------------
(* Match: one of the matching stages, by weight.  A stage whose weight     *)
(* cannot be got counts as -1 and is chosen only when no weight can be got.*)

WeightsOf(stages, o) ==
    [i \in DOMAIN stages |-> LET w == IntFrom(stages[i].weight, o)
                             IN  IF w.ok THEN w.n ELSE -1]

CountError(stages, o) ==
    Cardinality({i \in DOMAIN stages : ~IntFrom(stages[i].weight, o).ok})

TotalWeights(stages, o) ==
    MapThenSumSet(LAMBDA i : IntFrom(stages[i].weight, o).n, DOMAIN stages)

AtLeast(ws, n) == {i \in DOMAIN ws : ws[i] >= n}

(* The candidates of a uniform draw, when the weights do not decide.       *)
Uniform(stages, o) ==
    IF CountError(stages, o) \in {0, Len(stages)} THEN DOMAIN stages
    ELSE AtLeast(WeightsOf(stages, o), 0)

ByWeight(stages, o) ==
    Len(stages) > 1 /\ CountError(stages, o) < Len(stages) /\ TotalWeights(stages, o) # 0

(* The bound of the random number.  math/rand panics unless it is > 0.     *)
DrawBound(stages, o) ==
    CASE Len(stages) = 1     -> 1
      [] ByWeight(stages, o) -> TotalWeights(stages, o)
      [] OTHER               -> Cardinality(Uniform(stages, o))

(* Mutant: the stage whose share ends at the number is taken.              *)
MatchLate(stages, o, draw) ==
    IF ByWeight(stages, o)
      THEN LET ws == WeightsOf(stages, o)
               upTo(i) == MapThenSumSet(LAMBDA j : ws[j], {j \in AtLeast(ws, 1) : j <= i})
           IN  Min({Len(stages)} \cup {i \in AtLeast(ws, 1) : draw - upTo(i) <= 0})
      ELSE SetToSortSeq(Uniform(stages, o), <)[draw + 1]

Match(stages, o, draw) ==
    IF ByWeight(stages, o)
      THEN LET ws == WeightsOf(stages, o)
               upTo(i) == MapThenSumSet(LAMBDA j : ws[j], {j \in AtLeast(ws, 1) : j <= i})
           IN  Min({Len(stages)} \cup {i \in AtLeast(ws, 1) : draw - upTo(i) < 0})
      ELSE SetToSortSeq(Uniform(stages, o), <)[draw + 1]

ListAllPossible(stages, o) ==
    CASE Len(stages) <= 1                            -> DOMAIN stages
      [] CountError(stages, o) = Len(stages)         -> DOMAIN stages
      [] OTHER ->
           CASE TotalWeights(stages, o) # 0 -> AtLeast(WeightsOf(stages, o), 1)
             [] CountError(stages, o) = 0   -> DOMAIN stages
             [] OTHER                       -> AtLeast(WeightsOf(stages, o), 0)

-----------------------------------------------------------------------------
(* Delay, and the range the tester shows for it.  A jitter that is not     *)
(* longer than the duration replaces it.                                   *)

(* Mutant: the jitter itself can be drawn.                                 *)
DelaysThrough(stage, o, now) ==
    LET d == DurationFrom(stage.duration, o, now)
        j == DurationFrom(stage.jitter, o, now)
    IN  CASE ~stage.delay \/ ~d.ok -> {0}
          [] OTHER -> CASE ~j.ok        -> {d.n}
                        [] j.n <= d.n   -> {j.n}
                        [] OTHER        -> d.n..j.n

Delays(stage, o, now) ==
    LET d == DurationFrom(stage.duration, o, now)
        j == DurationFrom(stage.jitter, o, now)
    IN  CASE ~stage.delay \/ ~d.ok -> {0}
          [] OTHER -> CASE ~j.ok        -> {d.n}
                        [] j.n <= d.n   -> {j.n}
                        [] OTHER        -> d.n..(j.n - 1)

DelayRangePossible(stage, o, now) ==
    LET d == DurationFrom(stage.duration, o, now)
        j == DurationFrom(stage.jitter, o, now)
    IN  CASE ~stage.delay \/ ~d.ok -> <<>>
          [] OTHER -> CASE ~j.ok        -> <<d.n>>
                        [] j.n <= d.n   -> <<j.n>>
                        [] OTHER        -> <<d.n, j.n>>

-----------------------------------------------------------------------------
(* Finalizers, as operations of a JSON patch on metadata.finalizers.       *)

Op(op, at, value) == [op |-> op, at |-> at, value |-> value]

finalizersAdd(meta, add) ==
    IF meta = <<>> THEN <<Op("add", "list", add)>>
    ELSE LET new == SelectSeq(add, LAMBDA f : ~Contains(meta, f))
         IN  [i \in DOMAIN new |-> Op("add", "end", <<new[i]>>)]

(* Mutant: the indexes are removed from the front.                         *)
finalizersRemoveForward(meta, remove) ==
    LET at == {i \in DOMAIN meta : Contains(remove, meta[i])}
        front == SetToSortSeq(at, <)
    IN  [k \in DOMAIN front |-> Op("remove", "index", <<front[k]>>)]

finalizersRemove(meta, remove) ==
    LET at == {i \in DOMAIN meta : Contains(remove, meta[i])}
        back == SetToSortSeq(at, >)
    IN  [k \in DOMAIN back |-> Op("remove", "index", <<back[k]>>)]

finalizersModify(meta, f) ==
    LET removed == finalizersRemove(meta, f.remove)
        isEmpty == f.empty \/ (f.remove # <<>> /\ Len(removed) = Len(meta))
        added(from) == IF f.add = <<>> THEN <<>> ELSE finalizersAdd(from, f.add)
    IN  IF isEmpty
          THEN (IF meta = <<>> THEN <<>> ELSE <<Op("remove", "list", <<>>)>>) \o added(<<>>)
          ELSE (IF f.remove = <<>> THEN <<>> ELSE removed) \o added(meta)

(* The API server applies such a patch.                                    *)
ApplyOp(fs, op) ==
    CASE op.op = "add" /\ op.at = "list"     -> op.value
      [] op.op = "add" /\ op.at = "end"      -> fs \o op.value
      [] op.op = "remove" /\ op.at = "list"  -> <<>>
      [] op.op = "remove" /\ op.at = "index" ->
           SubSeq(fs, 1, op.value[1] - 1) \o SubSeq(fs, op.value[1] + 1, Len(fs))

Applied(fs, ops) == FoldLeft(ApplyOp, fs, ops)

-----------------------------------------------------------------------------
(* playStage: what it asks of the API server, in order.  A patch the       *)
(* object does not need is skipped; the immediate next stage follows only  *)
(* on an object that a patch has returned.                                 *)

Act(kind, n) == <<[kind |-> kind, n |-> n]>>

Finalizers(next, o) == finalizersModify(o.finalizers, next.finalizers)

playStage(stage, o) ==
    LET next == stage.next
        finalizers == IF Finalizers(next, o) = <<>> THEN <<>> ELSE Act("finalizers", 0)
        needed == SelectSeq(next.patches, LAMBDA p : p \in o.needs)
        patches == [i \in DOMAIN needed |-> [kind |-> "patch", n |-> needed[i]]]
        sent == finalizers \o patches
    IN  IF next.delete THEN finalizers \o Act("delete", 0)
        ELSE sent \o (IF sent # <<>> /\ stage.immediate THEN Act("immediate", 0) ELSE <<>>)

(* The tester's clock stands at a day in 2006.                             *)
TesterNow == 0

(* testingStage: what the tester shows.  It knows nothing of needs.        *)
testingStage(stage, o) ==
    LET next == stage.next
        finalizers == IF Finalizers(next, o) = <<>> THEN <<>> ELSE Act("finalizers", 0)
        patches == [i \in DOMAIN next.patches |-> [kind |-> "patch", n |-> next.patches[i]]]
    IN  [stage |-> stage, delay |-> DelayRangePossible(stage, o, TesterNow),
         next |-> IF next.delete THEN finalizers \o Act("delete", 0)
                  ELSE finalizers \o patches
                         \o (IF stage.immediate THEN Act("immediate", 0) ELSE <<>>)]

TestingStages(list, o) ==
    LET stages == matchAll(list, o)
    IN  {testingStage(stages[i], o) : i \in ListAllPossible(stages, o)}

-----------------------------------------------------------------------------
(* An object on its way through a controller.                              *)

NoStage == 0
Waiting == [pc |-> "waiting", list |-> <<>>, object |-> 0, stage |-> NoStage,
            delay |-> 0, did |-> <<>>, finalizers |-> <<>>]

(* The lists that NewLifecycle refuses never reach a controller.           *)
Preprocess ==
    /\ life.pc = "waiting"
    /\ \E list \in Lists, k \in DOMAIN Objects :
         LET o == Objects[k]
             stages == matchAll(list, o)
             seen == [life EXCEPT !.list = list, !.object = k]
         IN  /\ ~NewLifecycleFails(list)
             /\ \/ /\ stages = <<>>
                   /\ life' = [seen EXCEPT !.pc = "skipped"]
                \/ /\ stages # <<>> /\ DrawBound(stages, o) <= 0
                   /\ life' = [seen EXCEPT !.pc = "panic"]
                \/ /\ stages # <<>>
                   /\ \E draw \in 0..(DrawBound(stages, o) - 1) :
                        LET i == Match(stages, o, draw)
                        IN  \E d \in Delays(stages[i], o, o.now) :
                              life' = [seen EXCEPT !.pc = "queued", !.stage = i, !.delay = d]

Play ==
    /\ life.pc = "queued"
    /\ LET o == Objects[life.object]
           stage == matchAll(life.list, o)[life.stage]
       IN  life' = [life EXCEPT !.pc = "played", !.did = playStage(stage, o),
                                !.finalizers = Applied(o.finalizers, Finalizers(stage.next, o))]

Init == life = Waiting
Next == Preprocess \/ Play
Spec == Init /\ [][Next]_life

-----------------------------------------------------------------------------
TheObject == Objects[life.object]
TheStages == matchAll(life.list, TheObject)
TheStage == TheStages[life.stage]

CountsFromTime(stage, o) ==
    stage.delay /\ o.time.is = "time" /\ (stage.duration.from \/ stage.jitter.from)

(* A controller only does what the tester foretells for the object: it     *)
(* plays a stage the tester lists and sends what it shows in the same      *)
(* order, less the patches the object does not need.  The delay is in the  *)
(* range it shows, except for one that counts from a time in the object:   *)
(* the tester's clock is not the controller's (Lifecycle.Match and         *)
(* ListAllPossible, Stage.Delay and DelayRangePossible, playStage and      *)
(* testingStage are separate functions).                                   *)
Foretold ==
    life.pc = "played" =>
      \E e \in TestingStages(life.list, TheObject) :
        /\ e.stage = TheStage
        /\ \/ CountsFromTime(TheStage, TheObject)
           \/ e.delay = <<>> /\ life.delay = 0
           \/ Len(e.delay) = 1 /\ life.delay = e.delay[1]
           \/ Len(e.delay) = 2 /\ e.delay[1] <= life.delay /\ life.delay < e.delay[2]
        /\ LET needed(a) == CASE a.kind = "patch"     -> a.n \in TheObject.needs
                              [] a.kind = "immediate" -> \E i \in DOMAIN life.did :
                                                           life.did[i].kind = "immediate"
                              [] OTHER                -> TRUE
           IN  life.did = SelectSeq(e.next, needed)

(* Over all draws every stage is chosen as often as its weight says; when  *)
(* no weight decides, every stage the tester lists is chosen once.  None   *)
(* that could be drawn is missing, as long as no weight is negative        *)
(* (Lifecycle.Match).                                                      *)
MatchProportional ==
    life.pc = "queued" /\ TheStages # <<>> /\
    (\A i \in DOMAIN TheStages : IntFrom(TheStages[i].weight, TheObject).n >= 0) =>
      \A i \in DOMAIN TheStages :
        Cardinality({draw \in 0..(DrawBound(TheStages, TheObject) - 1) :
                       Match(TheStages, TheObject, draw) = i})
          = IF ByWeight(TheStages, TheObject) THEN Max({0, WeightsOf(TheStages, TheObject)[i]})
            ELSE IF i \in ListAllPossible(TheStages, TheObject) THEN 1 ELSE 0

(* A stage leaves the object with its finalizers less those to remove, and *)
(* then those to add that it does not have, whatever indexes the patch is  *)
(* made of; removing and adding the same one is not considered             *)
(* (finalizersModify).                                                     *)
FinalizersExact ==
    life.pc = "played" =>
      LET f == TheStage.next.finalizers
          left == IF f.empty THEN <<>>
                  ELSE SelectSeq(TheObject.finalizers, LAMBDA x : ~Contains(f.remove, x))
      IN  (\A i \in DOMAIN f.add : ~Contains(f.remove, f.add[i])) =>
            life.finalizers = left \o SelectSeq(f.add, LAMBDA x : ~Contains(left, x))
=============================================================================
