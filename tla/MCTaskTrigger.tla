--------------------------- MODULE MCTaskTrigger ---------------------------
(***************************************************************************)
(* Instances of TaskTrigger for TLC.                                       *)
(***************************************************************************)
EXTENDS TaskTrigger, TLC

CONSTANTS user, upstream, k1, k2

SourceOf == [c \in Callers |-> IF c = upstream THEN "event" ELSE "user"]
KeyOf    == [c \in Callers |-> IF c = upstream THEN k2 ELSE k1]

(* A schedule is replaced by an upstream trigger, then by a broken schedule. *)
Replanned == <<"schedule", "event", "invalid">>
TypedOnes == {1, 3}
Crons     == <<{2, 4}, {}, {}>>
Limits    == <<1, 2, 1>>
Symmetric == Permutations(Schedulers)
=============================================================================
