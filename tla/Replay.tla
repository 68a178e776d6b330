-------------------------------- MODULE Replay --------------------------------
(***************************************************************************)
(* The timing of `kwokctl snapshot replay` (pkg/kwokctl/etcd/load.go,      *)
(* Replay and handleResourcePatch): the recorded patches go through a heap *)
(* that tolerates some disorder, and each is applied when its time has     *)
(* come, at the speed the user chooses.  A second goroutine, Input of      *)
(* pkg/kwokctl/recording/handle.go, reads the keys: U and D change the     *)
(* speed, Space pauses and Enter continues.  What a patch does to the      *)
(* store is the matter of module Snapshot.                                 *)
(*                                                                         *)
(* Times are milliseconds.  A speed is an integer, in 0.00001, the unit    *)
(* that Up and Down of speed.go round to.                                  *)
(***************************************************************************)
EXTENDS Integers, Sequences, FiniteSetsExt, Functions

CONSTANTS Recordings,  \* sequences of times, in the order of the recording
          Window,      \* the size of the heap (1024 in the code)
          Delays,      \* how long applying a patch can take
          MaxKeys      \* bound on the keys pressed

ASSUME ReplayAssumption ==
    /\ Recordings \subseteq Seq(Nat)
    /\ Window \in Nat \ {0}
    /\ Delays \subseteq Nat

VARIABLES recording, next,   \* the patches, and the index of the next to decode
          heap,              \* indices of the patches decoded and not handled
          cur, dur, d,       \* Replay: the patch handled, dur and d
          pc, cancelled,
          handle,            \* whether there is a handle, which a terminal has
          speed, pause,      \* the handle
          old,               \* the speed the replay has loaded to slow down
          loaded, by, keys,  \* the speed a key's handler has loaded, and the key
          applied, wall,     \* what was applied, and the time that has passed
          fastest, idle      \* the highest speed so far, patches applied in the pause

replayer == <<recording, next, heap, cur, dur, d, pc, handle, old, applied, wall>>
input == <<loaded, by, keys>>
vars == <<recording, next, heap, cur, dur, d, pc, cancelled, handle, speed, pause,
          old, loaded, by, keys, applied, wall, fastest, idle>>

Second == 1000
speedBase == 10
speedOffset == 100000

-----------------------------------------------------------------------------
digitCount(n) == IF n <= 0 THEN 0 ELSE CHOOSE k \in 1..9 : 10^(k - 1) <= n /\ n < 10^k

Pow(k) == IF k < 1 THEN 10 ELSE Max({10^k, 10})

Up(s) == IF s < speedBase THEN speedBase ELSE s + Pow(digitCount(s) - 2)

Down(s) == IF s <= speedBase THEN 0 ELSE s - Pow(digitCount(s - 1) - 2)

(* What SpeedUp and SpeedDown store in the handle, from the speed loaded.  *)
SpeedUp(s) == speed' = IF Up(s) <= 10 * speedOffset THEN Up(s) ELSE speed
SpeedDown(s) == speed' = IF Down(s) # 0 THEN Down(s) ELSE speed

NoteSpeed == fastest' = Max({fastest, speed'})

-----------------------------------------------------------------------------
(* Input.  The handlers of U and D load the speed and store the new one,   *)
(* and so does the replay when it slows down.                              *)

PressSpeed ==
    /\ handle /\ by = "none" /\ keys < MaxKeys /\ ~cancelled
    /\ by' \in {"U", "D"} /\ loaded' = speed /\ keys' = keys + 1
    /\ UNCHANGED <<replayer, cancelled, speed, pause, fastest, idle>>

StoreSpeed ==
    /\ \/ by = "U" /\ SpeedUp(loaded)
       \/ by = "D" /\ SpeedDown(loaded)
    /\ NoteSpeed
    /\ by' = "none" /\ loaded' = 0
    /\ UNCHANGED <<replayer, cancelled, pause, keys, idle>>

Pause ==
    /\ handle /\ by = "none" /\ keys < MaxKeys /\ ~cancelled /\ ~pause
    /\ pause' = TRUE /\ keys' = keys + 1 /\ idle' = 0
    /\ UNCHANGED <<replayer, cancelled, speed, loaded, by, fastest>>

Continue ==
    /\ handle /\ by = "none" /\ ~cancelled /\ pause
    /\ pause' = FALSE
    /\ UNCHANGED <<replayer, cancelled, speed, input, fastest, idle>>

(* The command is interrupted.                                             *)
Cancel ==
    /\ ~cancelled /\ pc \notin {"done", "failed"}
    /\ cancelled' = TRUE
    /\ UNCHANGED <<replayer, speed, pause, input, fastest, idle>>

-----------------------------------------------------------------------------
Others == UNCHANGED <<recording, cancelled, handle, old, speed, pause, input, fastest, idle>>

(* Mutant: the patch just decoded is handled, not the earliest.            *)
PopLatest(h) == {i \in h : \A j \in h : i >= j}

(* One of the earliest of the heap, which is not stable.                   *)
Pop(h) == {i \in h : \A j \in h : recording[i] <= recording[j]}

(* Decode one patch; a full heap gives one up.  (What is not YAML, or an   *)
(* object of another kind, is skipped with a warning.)                     *)
Decode ==
    /\ pc = "read" /\ ~cancelled /\ next <= Len(recording)
    /\ next' = next + 1
    /\ LET h == heap \cup {next}
       IN  IF Cardinality(h) >= Window
             THEN \E i \in Pop(h) : heap' = h \ {i} /\ cur' = i /\ pc' = "handle"
             ELSE heap' = h /\ UNCHANGED <<cur, pc>>
    /\ UNCHANGED <<dur, d, applied, wall>> /\ Others

(* An object of the kind that is no patch ends the replay with an error.   *)
DecodeFails ==
    /\ pc = "read" /\ ~cancelled /\ next <= Len(recording)
    /\ pc' = "failed"
    /\ UNCHANGED <<next, heap, cur, dur, d, applied, wall>> /\ Others

(* At the end of the file the heap is emptied.                             *)
Flush ==
    /\ pc = "read" /\ ~cancelled /\ next > Len(recording)
    /\ \E i \in Pop(heap) : heap' = heap \ {i} /\ cur' = i /\ pc' = "handle"
    /\ UNCHANGED <<next, dur, d, applied, wall>> /\ Others

Finish ==
    /\ pc = "read" /\ (cancelled \/ (next > Len(recording) /\ heap = {}))
    /\ pc' = "done"
    /\ UNCHANGED <<next, heap, cur, dur, d, applied, wall>> /\ Others

(* handleResourcePatch: how long to wait.  With a handle, a replay more    *)
(* than a second late slows down and takes the time of the patch for its   *)
(* own.                                                                    *)
Measure ==
    LET late == recording[cur] - dur IN
    /\ pc = "handle"
    /\ \/ /\ late > 0
          /\ d' = late /\ dur' = recording[cur] /\ pc' = "wait" /\ UNCHANGED old
       \/ /\ late <= 0 /\ (late >= -Second \/ ~handle)
          /\ d' = 0 /\ pc' = "wait" /\ UNCHANGED <<dur, old>>
       \/ /\ late < -Second /\ handle
          /\ d' = 0 /\ dur' = recording[cur] /\ pc' = "slow" /\ old' = speed
    /\ UNCHANGED <<recording, next, heap, cur, cancelled, handle, speed, pause, input, applied, wall,
                   fastest, idle>>

Slow ==
    /\ pc = "slow"
    /\ SpeedDown(old) /\ NoteSpeed
    /\ old' = 0 /\ pc' = "wait"
    /\ UNCHANGED <<recording, next, heap, cur, dur, d, cancelled, handle, pause, input, applied, wall,
                   idle>>

handlePause == ~pause \/ cancelled

(* One turn of the waiting loop, at the speed of its beginning.            *)
Sleep ==
    /\ pc = "wait" /\ d > 0 /\ handlePause
    /\ LET step == Min({d, Second})
       IN  d' = d - step /\ wall' = wall + (step * speedOffset) \div speed
    /\ UNCHANGED <<next, heap, cur, dur, pc, applied>> /\ Others

(* Mutant: no second look at the pause.                                    *)
GoOn ==
    /\ pc = "wait" /\ d = 0
    /\ pc' = "apply"
    /\ UNCHANGED <<next, heap, cur, dur, d, applied, wall>> /\ Others

Awake ==
    /\ pc = "wait" /\ d = 0 /\ handlePause
    /\ pc' = "apply"
    /\ UNCHANGED <<next, heap, cur, dur, d, applied, wall>> /\ Others

Apply ==
    /\ pc = "apply"
    /\ \E past \in Delays : wall' = wall + past /\ d' = past
    /\ applied' = Append(applied, cur)
    /\ idle' = IF pause THEN idle + 1 ELSE idle
    /\ pc' = "applied"
    /\ UNCHANGED <<recording, next, heap, cur, dur, cancelled, handle, old, speed, pause, input, fastest>>

(* What applying took counts at the speed there is afterwards.             *)
Account ==
    /\ pc = "applied"
    /\ dur' = dur + (d * speed) \div speedOffset
    /\ d' = 0 /\ cur' = 0 /\ pc' = "read"
    /\ UNCHANGED <<next, heap, applied, wall>> /\ Others

Init ==
    /\ recording \in Recordings /\ next = 1 /\ heap = {} /\ cur = 0
    /\ dur = 0 /\ d = 0 /\ pc = "read" /\ cancelled = FALSE
    /\ handle \in BOOLEAN /\ speed = speedOffset /\ pause = FALSE /\ old = 0
    /\ loaded = 0 /\ by = "none" /\ keys = 0
    /\ applied = <<>> /\ wall = 0 /\ fastest = speedOffset /\ idle = 0

Next ==
    \/ PressSpeed \/ StoreSpeed \/ Pause \/ Continue \/ Cancel
    \/ Decode \/ DecodeFails \/ Flush \/ Finish \/ Measure \/ Slow \/ Sleep \/ Awake \/ Apply \/ Account

Spec == Init /\ [][Next]_vars

-----------------------------------------------------------------------------
(* A patch that was recorded fewer than Window patches late is applied in  *)
(* its turn: two patches are applied against the order of their times only *)
(* if as many later ones stand before the second in the recording, and a   *)
(* replay that was not interrupted has applied each of them once (Replay's *)
(* heap).                                                                  *)
OrderRestored ==
    /\ \A j \in 1..Len(applied) : \A i \in 1..(j - 1) :
         recording[applied[i]] > recording[applied[j]] =>
           Cardinality({k \in 1..(applied[j] - 1) :
                          recording[k] > recording[applied[j]]}) >= Window
    /\ pc = "done" /\ ~cancelled =>
         Len(applied) = Len(recording) /\ Range(applied) = DOMAIN recording

(* No patch is applied before its time at the highest speed the user has   *)
(* chosen, however the speed changed, the replay paused or a patch took    *)
(* long; a millisecond is lost by rounding in each turn of the loop        *)
(* (handleResourcePatch).  A paused replay stands still: only a patch that *)
(* had passed the last look at the pause is still applied, and one more    *)
(* when the command is interrupted (handlePause).                          *)
Paced ==
    /\ pc = "apply" =>
         (wall + Len(recording) + Max(Range(recording)) \div Second) * fastest
           >= recording[cur] * speedOffset
    /\ pause => idle <= IF cancelled THEN 2 ELSE 1
=============================================================================
