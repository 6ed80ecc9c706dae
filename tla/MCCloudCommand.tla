--------------------------- MODULE MCCloudCommand ---------------------------
(* Model checking of CloudCommand. *)
EXTENDS CloudCommand, TLC

CONSTANTS c1, c2, p1, p2

(* A group may end after the first one. *)
Creation == (c1 :> 1) @@ (c2 :> 2)

Loops == Permutations({p1, p2})

(* Both commands can be sent; the first one may run out while the second waits. *)
Deadlines == (c1 :> 2) @@ (c2 :> 3)

(* Bound: the two loops race while no dispatch is lost; after a loss one of  *)
(* them polls at a time.                                                     *)
Races == lost = 0 \/ \E p \in Pollers : phase[p] = "idle"
=============================================================================
