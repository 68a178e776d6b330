------------------------------ MODULE ExtraArgs ------------------------------
(***************************************************************************)
(* The extra arguments of the components: the flag --extra-args of         *)
(* `kwokctl create cluster` is turned into component patches               *)
(* (mutationComponentPatches), and the patches, those of the configuration *)
(* file first, are applied to the components' arguments                    *)
(* (ApplyComponentPatches) or, in kind, merged by key (BuildKind's input). *)
(*                                                                         *)
(* An argument is a key and a value; the positions of the code's slices    *)
(* start at 0, those of the sequences here at 1.                           *)
(***************************************************************************)
EXTENDS Naturals, Sequences, FiniteSets, SequencesExt, Functions, TLC

CONSTANTS Component, Key,
          FilePatches,  \* the ComponentsPatches a file can give
          MaxArgs       \* bound on the --extra-args given

VARIABLES extraArgs,    \* the flag: component, key and value, or malformed
          i,            \* the loop of mutationComponentPatches
          componentPatches, componentNames,
          patches,      \* KwokctlConfiguration.ComponentsPatches
          args,         \* the arguments of each component
          pc

vars == <<extraArgs, i, componentPatches, componentNames, patches, args, pc>>

Malformed == [ok |-> FALSE, name |-> "", key |-> "", value |-> 0]

(* The n-th --extra-args has the value n.                                  *)
Given(n) == {Malformed} \cup
            {[ok |-> TRUE, name |-> c, key |-> k, value |-> n] : c \in Component, k \in Key}

Arg(a) == [key |-> a.key, value |-> a.value, override |-> FALSE]

(* One turn of the loop.  A component seen before is looked up by the      *)
(* index noted for it, which is that of its first argument in the flag; an *)
(* index past the patches is a panic.                                      *)
mutationComponentPatches ==
    /\ pc = "parse" /\ i <= Len(extraArgs)
    /\ i' = i + 1
    /\ LET a == extraArgs[i]
           n == IF a.name \in DOMAIN componentNames THEN componentNames[a.name] ELSE 0
       IN  CASE ~a.ok ->
                  UNCHANGED <<componentPatches, componentNames, pc>>
             [] a.ok /\ n = 0 ->
                  /\ componentPatches' =
                       Append(componentPatches, [name |-> a.name, extraArgs |-> <<Arg(a)>>])
                  /\ componentNames' = (a.name :> i) @@ componentNames
                  /\ UNCHANGED pc
             [] a.ok /\ n \in DOMAIN componentPatches ->
                  /\ componentPatches' =
                       [componentPatches EXCEPT ![n].extraArgs = Append(@, Arg(a))]
                  /\ UNCHANGED <<componentNames, pc>>
             [] a.ok /\ n > Len(componentPatches) ->
                  /\ pc' = "panic"
                  /\ UNCHANGED <<componentPatches, componentNames>>
    /\ UNCHANGED <<extraArgs, patches, args>>

AppendPatches ==
    /\ pc = "parse" /\ i > Len(extraArgs)
    /\ patches' = patches \o componentPatches
    /\ pc' = "apply"
    /\ UNCHANGED <<extraArgs, i, componentPatches, componentNames, args>>

(* The last argument with the key gets the value, if there is one.         *)
applyComponentArgsOverride(as, a) ==
    LET with == {j \in DOMAIN as : as[j].key = a.key}
    IN  IF with = {} THEN as
        ELSE [as EXCEPT ![CHOOSE j \in with : \A k \in with : k <= j].value = a.value]

applyComponentPatch(as, c, patch) ==
    IF patch.name # c THEN as
    ELSE FoldLeft(LAMBDA acc, a : IF a.override THEN applyComponentArgsOverride(acc, a)
                                  ELSE Append(acc, a),
                  as, patch.extraArgs)

ApplyComponentPatches ==
    /\ pc = "apply"
    /\ args' = [c \in Component |->
                  FoldLeft(LAMBDA as, patch : applyComponentPatch(as, c, patch),
                           args[c], patches)]
    /\ pc' = "done"
    /\ UNCHANGED <<extraArgs, i, componentPatches, componentNames, patches>>

(* kind: the patches of a component are merged by key, the last one wins;  *)
(* the result is in any order and is put after the arguments kind sets.    *)
filterDuplicatedExtraArgs(c) ==
    LET all == FlattenSeq([n \in DOMAIN patches |->
                             IF patches[n].name = c THEN patches[n].extraArgs ELSE <<>>])
    IN  {all[n] : n \in {m \in DOMAIN all :
                           \A l \in DOMAIN all : all[l].key = all[m].key => l <= m}}

BuildKind ==
    /\ pc = "apply"
    /\ args' = [c \in Component |-> args[c] \o SetToSeq(filterDuplicatedExtraArgs(c))]
    /\ pc' = "done"
    /\ UNCHANGED <<extraArgs, i, componentPatches, componentNames, patches>>

Default(k) == [key |-> k, value |-> 0, override |-> FALSE]

Init ==
    /\ extraArgs \in UNION {{f \in [1..n -> UNION {Given(m) : m \in 1..n}] :
                                \A m \in 1..n : f[m] \in Given(m)} : n \in 0..MaxArgs}
    /\ i = 1 /\ componentPatches = <<>> /\ componentNames = <<>>
    /\ patches \in FilePatches
    /\ args = [c \in Component |-> <<Default("set")>>]
    /\ pc = "parse"

Next == \/ mutationComponentPatches \/ AppendPatches \/ ApplyComponentPatches \/ BuildKind

Spec == Init /\ [][Next]_vars

-----------------------------------------------------------------------------
(* The value a component runs with for a key: its last argument.           *)
Effective(c, k) ==
    LET with == {j \in DOMAIN args[c] : args[c][j].key = k}
    IN  IF with = {} THEN 0 ELSE args[c][CHOOSE j \in with : \A l \in with : l <= j].value

(* "Pass a single extra arg key-value pair to the component": the last     *)
(* pair given for a component and a key is the one the component runs      *)
(* with, whatever was given for others (mutationComponentPatches).         *)
ExtraArgsReach ==
    /\ pc # "panic"
    /\ pc = "done" =>
         \A n \in DOMAIN extraArgs :
           LET a == extraArgs[n]
           IN  a.ok /\ (\A m \in (n + 1)..Len(extraArgs) :
                          extraArgs[m].name = a.name => extraArgs[m].key # a.key)
               => Effective(a.name, a.key) = n
=============================================================================
