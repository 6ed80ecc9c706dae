------------------------------ MODULE MCOutbox ------------------------------
(***************************************************************************)
(* Instances of Outbox for TLC.                                            *)
(***************************************************************************)
EXTENDS Outbox, TLC

CONSTANTS e1, e2, w1, w2, w3

(* Every worker registers every event type. *)
AllHandled == [w \in Workers |-> Events]

(* A rolled back binary w1 does not know the type of e2. *)
OldAndNew == [w \in Workers |-> IF w = w1 THEN {e1} ELSE Events]

Symmetric == Permutations(Events) \cup Permutations(Workers)
=============================================================================
