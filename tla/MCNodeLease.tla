---------------------------- MODULE MCNodeLease ----------------------------
(* How many instances there are and what can happen to them.               *)
EXTENDS NodeLease

Bound(is, cs, fs, ks) == [instances |-> is, changes |-> cs, faults |-> fs, crashes |-> ks]

(* Two instances, a change and a crash; or one instance, whose node is     *)
(* deleted and made again, or whose request fails.                         *)
MCBounds == {Bound(2, 1, 0, 1), Bound(1, 2, 0, 0), Bound(1, 1, 1, 0)}

(* One instance, whose node is deleted and made again.                     *)
OneBound == {Bound(1, 2, 0, 0)}
=============================================================================
