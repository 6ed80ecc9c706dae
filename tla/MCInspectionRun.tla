--------------------------- MODULE MCInspectionRun ---------------------------
(***************************************************************************)
(* Instances of InspectionRun for TLC.                                     *)
(***************************************************************************)
EXTENDS InspectionRun, TLC

Pipeline     == <<"sync", "detect", "assess", "issue">>
DetectOnly   == <<"detect">>
AssessIssue  == <<"assess", "issue">>
OneSync      == <<"sync">>

AllAbort  == [i \in Positions |-> "abort"]
AllPause  == [i \in Positions |-> "pause"]
Mixed     == [i \in Positions |-> IF Uses[i] = "sync" THEN "continue"
                                  ELSE IF Uses[i] = "detect" THEN "pause" ELSE "abort"]
Symmetric == Permutations(Children)
=============================================================================
