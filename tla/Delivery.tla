------------------------------ MODULE Delivery ------------------------------
(***************************************************************************)
(* What the transactional outbox promises its producers, independently of  *)
(* workers, leases, retries and crashes.  A job that was submitted is       *)
(* applied at most once; it is acknowledged only after it was applied; it   *)
(* may be given up at any time, and what was acknowledged or given up is    *)
(* never touched again.  Module Outbox implements this specification.       *)
(***************************************************************************)
CONSTANT Events

VARIABLES job,      \* job[e]: "none", "waiting", "done" or "dead"
          applied   \* the events whose effects are committed

dvars == <<job, applied>>

DInit == /\ job = [e \in Events |-> "none"]
         /\ applied = {}

(* A business transaction inserts the event with its other writes. *)
Submit(e) == /\ job[e] = "none"
             /\ job' = [job EXCEPT ![e] = "waiting"]
             /\ UNCHANGED applied

(* The handler's transaction commits: once, and only while the job waits. *)
Apply(e) == /\ job[e] = "waiting"
            /\ e \notin applied
            /\ applied' = applied \cup {e}
            /\ UNCHANGED job

Acknowledge(e) == /\ job[e] = "waiting"
                  /\ e \in applied
                  /\ job' = [job EXCEPT ![e] = "done"]
                  /\ UNCHANGED applied

GiveUp(e) == /\ job[e] = "waiting"
             /\ job' = [job EXCEPT ![e] = "dead"]
             /\ UNCHANGED applied

(* One worker transaction settles a whole set of exhausted jobs at once. *)
SettleMany(S) ==
  /\ \A e \in S : job[e] = "waiting"
  /\ job' = [e \in Events |-> IF e \notin S THEN job[e]
                              ELSE IF e \in applied THEN "done" ELSE "dead"]
  /\ UNCHANGED applied

DNext == \/ \E e \in Events : Submit(e) \/ Apply(e) \/ Acknowledge(e) \/ GiveUp(e)
         \/ \E S \in SUBSET Events : SettleMany(S)

DSpec == DInit /\ [][DNext]_dvars
=============================================================================
