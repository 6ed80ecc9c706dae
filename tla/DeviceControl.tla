--------------------------- MODULE DeviceControl ---------------------------
(***************************************************************************)
(* What the control sessions of one device promise, independently of the    *)
(* rows, outbox events, handlers and crashes behind them.  One session at a *)
(* time has the device; a session only goes forward; it takes control from  *)
(* the cloud by one call and gives it back by one call, and it is in        *)
(* control after the first and before the second only; what was in control  *)
(* is over when the cloud has confirmed that it was given back.             *)
(* Module ControlSession implements this specification.                     *)
(***************************************************************************)
EXTENDS Naturals

CONSTANT Sessions

VARIABLES stage,     \* stage[s]: "new", "asking", "holding", "leaving" or "over"
          took,      \* took[s]: calls that take control for s
          gave,      \* gave[s]: calls that give the control of s back
          held,      \* the sessions that were in control
          confirmed  \* the sessions whose return the cloud confirmed

cvars == <<stage, took, gave, held, confirmed>>

CInit == /\ stage = [s \in Sessions |-> "new"]
         /\ took  = [s \in Sessions |-> 0]
         /\ gave  = [s \in Sessions |-> 0]
         /\ held  = {}
         /\ confirmed = {}

Enter(s, next) == stage' = [stage EXCEPT ![s] = next]

(* Others of the device are over or not yet asked for. *)
Ask(s) == /\ stage[s] = "new"
          /\ \A t \in Sessions : stage[t] \in {"new", "over"}
          /\ Enter(s, "asking")
          /\ UNCHANGED <<took, gave, held, confirmed>>

Take(s) == /\ stage[s] = "asking" /\ took[s] = 0
           /\ took' = [took EXCEPT ![s] = 1]
           /\ UNCHANGED <<stage, gave, held, confirmed>>

Hold(s) == /\ stage[s] = "asking" /\ took[s] = 1
           /\ Enter(s, "holding")
           /\ held' = held \cup {s}
           /\ UNCHANGED <<took, gave, confirmed>>

Leave(s) == /\ stage[s] \in {"asking", "holding"}
            /\ Enter(s, "leaving")
            /\ UNCHANGED <<took, gave, held, confirmed>>

Give(s) == /\ stage[s] = "leaving" /\ gave[s] = 0
           /\ gave' = [gave EXCEPT ![s] = 1]
           /\ UNCHANGED <<stage, took, held, confirmed>>

(* The answer may come after the session has failed. *)
Confirm(s) == /\ stage[s] \in {"leaving", "over"} /\ gave[s] = 1
              /\ confirmed' = confirmed \cup {s}
              /\ UNCHANGED <<stage, took, gave, held>>

End(s) == /\ stage[s] \in {"asking", "leaving"}
          /\ s \in held => s \in confirmed
          /\ Enter(s, "over")
          /\ UNCHANGED <<took, gave, held, confirmed>>

CNext == \E s \in Sessions : \/ Ask(s) \/ Take(s) \/ Hold(s) \/ Leave(s)
                             \/ Give(s) \/ Confirm(s) \/ End(s)

CSpec == CInit /\ [][CNext]_cvars
=============================================================================
