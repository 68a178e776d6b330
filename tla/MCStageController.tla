------------------------- MODULE MCStageController -------------------------
(* A lifecycle like that of the default pod stages: a new resource gets a  *)
(* finalizer and runs, a running one completes after a while, one marked   *)
(* for deletion loses its finalizer and is deleted.                        *)
EXTENDS StageController

MCPhase == {"new", "run", "end"}

Run    == [to |-> "run", fin |-> "add", delete |-> FALSE, delayed |-> FALSE, immediate |-> FALSE]
End    == [to |-> "end", fin |-> "keep", delete |-> FALSE, delayed |-> TRUE, immediate |-> FALSE]
Remove == [to |-> "end", fin |-> "drop", delete |-> TRUE, delayed |-> FALSE, immediate |-> FALSE]

(* End with immediateNextStage: its result is preprocessed at once.        *)
EndNow == [End EXCEPT !.immediate = TRUE]

MCStage == {Run, End, EndNow, Remove}

Lifecycle(end) ==
  [c \in [phase : MCPhase, fin : BOOLEAN, del : BOOLEAN] |->
     IF c.del THEN {Remove}
     ELSE IF c.phase = "new" THEN {Run}
     ELSE IF c.phase = "run" THEN {end} ELSE {}]

MCMatching  == Lifecycle(End)
NowMatching == Lifecycle(EndNow)
=============================================================================
