-------------------------------- MODULE Scale --------------------------------
(***************************************************************************)
(* `kwokctl scale`: pkg/kwokctl/scale and pkg/kwokctl/cmd/scale.           *)
(*                                                                         *)
(* The objects that carry the label of one scaled name, by serial number,  *)
(* and by Plain the one that a command with --serial-length 0 creates,     *)
(* whose name has no number; every other command has the same length.  The *)
(* API server lists the objects in the order of their names, which is that *)
(* of the numbers.  Creation timestamps have whole seconds, so objects     *)
(* share them.  Rendering the template is left out; a deletion or a        *)
(* creation may fail, which is only logged.                                *)
(***************************************************************************)
EXTENDS Integers, Sequences, FiniteSets, FiniteSetsExt, SequencesExt

CONSTANTS MaxSerial,    \* serial numbers are 0..MaxSerial
          MaxReplicas,  \* bound on --replicas
          MaxCommands,  \* bound on the commands
          MaxDeletes,   \* bound on the deletions by others
          MaxTime       \* bound on the clock

VARIABLES objects,      \* serial number -> creation timestamp
          clock,
          command,      \* the scale command that runs
          commands,     \* commands so far
          deletes       \* deletions by others so far

vars == <<objects, clock, command, commands, deletes>>

Serial == 0..MaxSerial
Plain == -1

NoCommand == [pc |-> "none", replicas |-> 0, plain |-> FALSE, success |-> 0, todo |-> <<>>, objs |-> <<>>, sorted |-> FALSE,
              deleted |-> 0, index |-> 0, want |-> 0, start |-> <<>>, calm |-> TRUE]

SoftInfo(s) == [name |-> s, time |-> objects[s]]

Less(a, b) == IF a.time = b.time THEN a.name < b.name ELSE a.time < b.time

(* sort.Slice with the timestamps only: whatever order among equal ones.   *)
SortedByTime(objs) ==
    {p \in {[i \in DOMAIN objs |-> objs[f[i]]] :
              f \in {g \in [DOMAIN objs -> DOMAIN objs] : IsInjective(g)}} :
       \A i, j \in DOMAIN p : i < j => p[i].time <= p[j].time}

(* sort.Find: binary search for the first index at which cmp is not        *)
(* positive.  The callback gives -1 for the objects less than the new one. *)
Find(objs, obj) ==
    LET cmp(h) == IF Less(objs[h + 1], obj) THEN -1 ELSE 1
        find[i \in 0..Len(objs), j \in 0..Len(objs)] ==
            IF i >= j THEN i
            ELSE LET h == (i + j) \div 2
                 IN  IF cmp(h) > 0 THEN find[h + 1, j] ELSE find[i, h]
    IN  find[0, Len(objs)]

InsertInto(objs, index, obj) ==
    SubSeq(objs, 1, index) \o <<obj>> \o SubSeq(objs, index + 1, Len(objs) - 1)

(* The names to delete, and the list of those to keep, when the list is    *)
(* full and one more object comes.                                         *)
Full(objs, obj) ==
    LET end == objs[Len(objs)]
        index == Find(objs, obj)
    IN  CASE Len(objs) = 0 -> [deletes |-> {obj.name}, objs |-> objs]
          [] OTHER ->
               CASE Less(end, obj)     -> [deletes |-> {obj.name}, objs |-> objs]
                 [] index = Len(objs)  -> [deletes |-> {end.name, obj.name}, objs |-> objs]
                 [] OTHER              -> [deletes |-> {end.name},
                                           objs |-> InsertInto(objs, index, obj)]

Deleted(names) == [s \in DOMAIN objects \ names |-> objects[s]]

-----------------------------------------------------------------------------
(* The command lists the objects; the pager hands them to the callback     *)
(* one by one.                                                             *)
List ==
    /\ command.pc = "none"
    /\ commands < MaxCommands
    /\ commands' = commands + 1
    /\ \E n \in 0..MaxReplicas, plain \in BOOLEAN :
         LET all == SetToSortSeq(DOMAIN objects, <)
             todo == [i \in DOMAIN all |-> SoftInfo(all[i])]
         IN  /\ plain => n <= 1
             /\ command' = [NoCommand EXCEPT !.pc = "each", !.replicas = n, !.plain = plain,
                                             !.todo = todo, !.start = todo]
    /\ UNCHANGED <<objects, clock, deletes>>

EachListItem ==
    /\ command.pc = "each" /\ command.todo # <<>>
    /\ LET obj == Head(command.todo)
           next == [command EXCEPT !.todo = Tail(@)]
       IN  \/ /\ Len(command.objs) < command.replicas
              /\ command' = [next EXCEPT !.objs = Append(@, obj)]
              /\ UNCHANGED objects
           \/ /\ Len(command.objs) >= command.replicas
              /\ \E objs \in IF command.sorted THEN {command.objs}
                             ELSE SortedByTime(command.objs) :
                   LET full == Full(objs, obj)
                   IN  \E failed \in SUBSET full.deletes :
                         /\ command' = [next EXCEPT !.objs = full.objs, !.sorted = TRUE,
                                                    !.deleted = @ + 1,
                                                    !.calm = @ /\ failed = {}]
                         /\ objects' = Deleted(full.deletes \ failed)
    /\ UNCHANGED <<clock, commands, deletes>>

(* The pager cannot get a page.                                            *)
ListFails ==
    /\ command.pc = "each"
    /\ command' = [command EXCEPT !.pc = "failed"]
    /\ UNCHANGED <<objects, clock, commands, deletes>>

Listed ==
    /\ command.pc = "each" /\ command.todo = <<>>
    /\ command' = IF command.deleted > 0 \/ Len(command.objs) = command.replicas
                    THEN [command EXCEPT !.pc = "done"]
                    ELSE [command EXCEPT !.pc = "create",
                                         !.want = command.replicas - Len(command.objs)]
    /\ UNCHANGED <<objects, clock, commands, deletes>>

(* Mutant: the names that exist are not passed over.                       *)
NextIndexUnchecked(c) == c.index

(* The generator passes over the names that were listed.                   *)
NextIndex(c) ==
    IF c.plain THEN Plain
    ELSE Min({i \in Serial : i >= c.index /\ \A k \in DOMAIN c.objs : c.objs[k].name # i})

(* The loader reads the next object and creates it; one that exists        *)
(* already is updated in place and keeps its creation timestamp.  One that *)
(* cannot be created is counted and passed over.                           *)
Create ==
    /\ command.pc = "create" /\ command.want > 0
    /\ LET i == NextIndex(command)
           next == [command EXCEPT !.index = i + 1, !.want = @ - 1]
       IN  \/ /\ objects' = IF i \in DOMAIN objects THEN objects
                            ELSE [s \in DOMAIN objects \cup {i} |->
                                    IF s = i THEN clock ELSE objects[s]]
              /\ command' = [next EXCEPT !.success = @ + 1]
           \/ /\ command' = [next EXCEPT !.calm = FALSE]
              /\ UNCHANGED objects
    /\ UNCHANGED <<clock, commands, deletes>>

Created ==
    /\ command.pc = "create" /\ command.want = 0
    /\ command' = [command EXCEPT !.pc = IF command.success = 0 THEN "failed" ELSE "done"]
    /\ UNCHANGED <<objects, clock, commands, deletes>>

Return ==
    /\ command.pc \in {"done", "failed"}
    /\ command' = NoCommand
    /\ UNCHANGED <<objects, clock, commands, deletes>>

(* Somebody else deletes an object.                                        *)
OtherDelete ==
    /\ deletes < MaxDeletes
    /\ deletes' = deletes + 1
    /\ \E s \in DOMAIN objects : objects' = Deleted({s})
    /\ command' = [command EXCEPT !.calm = FALSE]
    /\ UNCHANGED <<clock, commands>>

Tick ==
    /\ clock < MaxTime
    /\ clock' = clock + 1
    /\ UNCHANGED <<objects, command, commands, deletes>>

Init ==
    /\ objects = [s \in {} |-> 0]
    /\ clock = 0
    /\ command = NoCommand
    /\ commands = 0
    /\ deletes = 0

Next ==
    \/ List \/ EachListItem \/ ListFails \/ Listed \/ Create \/ Created \/ Return
    \/ OtherDelete \/ Tick

Spec == Init /\ [][Next]_vars

-----------------------------------------------------------------------------
InOrder(list) == \A i, j \in DOMAIN list : i < j => list[i].time <= list[j].time

(* A command that nothing disturbs leaves as many objects as it was asked  *)
(* for.  Scaling up keeps every object; scaling down, as long as the       *)
(* objects were created in the order of their names, keeps the oldest      *)
(* (Scale).                                                                *)
ScaledInOrder ==
    command.pc = "done" /\ command.calm =>
      LET start == {command.start[i].name : i \in DOMAIN command.start}
      IN  IF Cardinality(start) <= command.replicas
            THEN start \subseteq DOMAIN objects /\ Cardinality(DOMAIN objects) = command.replicas
            ELSE InOrder(command.start) =>
                   DOMAIN objects = {command.start[i].name : i \in 1..command.replicas}

(* A command that nothing disturbs leaves as many objects as it was asked  *)
(* for, in whatever order they were created ("Number of replicas").        *)
ScaledToReplicas ==
    command.pc = "done" /\ command.calm => Cardinality(DOMAIN objects) = command.replicas
=============================================================================
