---------------------------- MODULE AdapterProofs ----------------------------
(***************************************************************************)
(* Proofs about AdapterManager for any processes, epochs and bounds.        *)
(***************************************************************************)
EXTENDS AdapterManager, TLAPS

(* Everything the actions of one process may touch. *)
USE DEF row, vars, Goto, Of, Cancel

(* The initial state satisfies the invariant. *)
LEMMA InitHolds == Init => AdapterInv
<1> SUFFICES ASSUME Init PROVE AdapterInv
  OBVIOUS
<1>1. valid \in BOOLEAN
  BY Zenon DEF Init
<1> QED
  BY <1>1, ManagerAssumption
     DEF Init, AdapterInv, TypeOK, Tracked, LeaseOutlivesSession, HeldIsNew, Usable, Points

(* Every step keeps the types. *)
LEMMA StepTypes == AdapterInv /\ [Next]_vars => TypeOK'
<1> SUFFICES ASSUME AdapterInv, [Next]_vars PROVE TypeOK'
  OBVIOUS
<1> USE ManagerAssumption DEF AdapterInv, TypeOK, Usable, Points
<1>1. ASSUME Enable \/ Disable \/ Validate \/ LeaseExpires PROVE TypeOK'
  BY <1>1 DEF Enable, Disable, Validate, LeaseExpires
<1>2. ASSUME NEW i \in Instances, Review(i) \/ Renew(i) \/ RenewFails(i) PROVE TypeOK'
  <2>1. CASE Review(i)
    BY <2>1 DEF Review, Remove
  <2>2. CASE Renew(i)
    <3>1. Cancel(i) \subseteq Session
      BY DEF Session
    <3> QED
      BY <2>2, <3>1 DEF Renew, Remove
  <2>3. CASE RenewFails(i)
    BY <2>3 DEF RenewFails
  <2> QED
    BY <1>2, <2>1, <2>2, <2>3
<1>3. ASSUME NEW i \in Instances, ClaimServed(i) \/ ClaimLost(i) \/ ClaimNothing(i) PROVE TypeOK'
  BY <1>3 DEF ClaimServed, ClaimLost, ClaimNothing, Claim
<1>4. ASSUME NEW i \in Instances, Start(i) PROVE TypeOK'
  <2>1. [by |-> i, epoch |-> held[i], canceled |-> FALSE] \in Session
    BY <1>4 DEF Start, HeldIsNew, Session
  <2> QED
    BY <1>4, <2>1 DEF Start
<1>5. ASSUME NEW i \in Instances, StartFails(i) \/ Unused(i) PROVE TypeOK'
  BY <1>5 DEF StartFails, Unused, ReleaseHeld
<1>6. ASSUME NEW i \in Instances, Shutdown(i) PROVE TypeOK'
  <2>1. Cancel(i) \subseteq Session
    BY DEF Session
  <2> QED
    BY <1>6, <2>1 DEF Shutdown
<1>7. ASSUME NEW i \in Instances, Drained(i) \/ Die(i) \/ Restart(i) PROVE TypeOK'
  BY <1>7 DEF Drained, Die, Restart, ReleaseHeld
<1>8. ASSUME NEW s \in sessions, Report(s) \/ Close(s) PROVE TypeOK'
  BY <1>8 DEF Report, Close
<1>9. CASE UNCHANGED vars
  BY <1>9
<1> QED
  BY <1>1, <1>2, <1>3, <1>4, <1>5, <1>6, <1>7, <1>8, <1>9 DEF Next, Reconcile

-----------------------------------------------------------------------------
(* The epoch in hand stays new, and the owner's. *)
LEMMA StepHeld == AdapterInv /\ [Next]_vars => HeldIsNew'
<1> SUFFICES ASSUME AdapterInv, [Next]_vars PROVE HeldIsNew'
  OBVIOUS
<1> USE ManagerAssumption DEF AdapterInv, TypeOK, HeldIsNew, Tracked, Usable, Points, Session
<1>1. ASSUME Enable \/ Disable \/ Validate \/ LeaseExpires PROVE HeldIsNew'
  BY <1>1 DEF Enable, Disable, Validate, LeaseExpires
<1>2. ASSUME NEW i \in Instances, Review(i) \/ RenewFails(i) PROVE HeldIsNew'
  BY <1>2 DEF Review, RenewFails, Remove
<1>3. ASSUME NEW i \in Instances, Renew(i) PROVE HeldIsNew'
  BY <1>3 DEF Renew, Remove
<1>4. ASSUME NEW i \in Instances, ClaimServed(i) PROVE HeldIsNew'
  BY <1>4 DEF ClaimServed, Claim, Fresh
<1>5. ASSUME NEW i \in Instances, ClaimLost(i) \/ ClaimNothing(i) PROVE HeldIsNew'
  BY <1>5 DEF ClaimLost, ClaimNothing, Claim, Fresh
<1>6. ASSUME NEW i \in Instances, Start(i) PROVE HeldIsNew'
  BY <1>6 DEF Start
<1>7. ASSUME NEW i \in Instances, StartFails(i) PROVE HeldIsNew'
  BY <1>7 DEF StartFails
<1>8. ASSUME NEW i \in Instances, Unused(i) PROVE HeldIsNew'
  BY <1>8 DEF Unused, ReleaseHeld
<1>9. ASSUME NEW i \in Instances, Shutdown(i) PROVE HeldIsNew'
  BY <1>9 DEF Shutdown
<1>10. ASSUME NEW i \in Instances, Drained(i) \/ Die(i) \/ Restart(i) PROVE HeldIsNew'
  BY <1>10 DEF Drained, Die, Restart, ReleaseHeld
<1>11. ASSUME NEW s \in sessions, Report(s) \/ Close(s) PROVE HeldIsNew'
  BY <1>11 DEF Report, Close
<1>12. CASE UNCHANGED vars
  BY <1>12
<1> QED
  BY <1>1, <1>2, <1>3, <1>4, <1>5, <1>6, <1>7, <1>8, <1>9, <1>10, <1>11, <1>12
     DEF Next, Reconcile

(* No connection is lost track of. *)
LEMMA StepTracked == AdapterInv /\ [Next]_vars => Tracked'
<1> SUFFICES ASSUME AdapterInv, [Next]_vars PROVE Tracked'
  OBVIOUS
<1> USE ManagerAssumption DEF AdapterInv, TypeOK, HeldIsNew, Tracked, Session, Points
<1>1. ASSUME Enable \/ Disable \/ Validate \/ LeaseExpires PROVE Tracked'
  BY <1>1 DEF Enable, Disable, Validate, LeaseExpires
<1>2. ASSUME NEW i \in Instances, Review(i) \/ RenewFails(i) PROVE Tracked'
  BY <1>2 DEF Review, RenewFails, Remove
<1>3. ASSUME NEW i \in Instances, Renew(i) PROVE Tracked'
  BY <1>3 DEF Renew, Remove
<1>4. ASSUME NEW i \in Instances, ClaimServed(i) PROVE Tracked'
  BY <1>4 DEF ClaimServed, Claim, Fresh
<1>5. ASSUME NEW i \in Instances, ClaimLost(i) \/ ClaimNothing(i) PROVE Tracked'
  BY <1>5 DEF ClaimLost, ClaimNothing, Claim, Fresh
<1>6. ASSUME NEW i \in Instances, Start(i) PROVE Tracked'
  BY <1>6 DEF Start
<1>7. ASSUME NEW i \in Instances, StartFails(i) PROVE Tracked'
  BY <1>7 DEF StartFails
<1>8. ASSUME NEW i \in Instances, Unused(i) PROVE Tracked'
  BY <1>8 DEF Unused, ReleaseHeld
<1>9. ASSUME NEW i \in Instances, Shutdown(i) PROVE Tracked'
  BY <1>9 DEF Shutdown
<1>10. ASSUME NEW i \in Instances, Drained(i) \/ Die(i) \/ Restart(i) PROVE Tracked'
  BY <1>10 DEF Drained, Die, Restart, ReleaseHeld
<1>11. ASSUME NEW s \in sessions, Report(s) \/ Close(s) PROVE Tracked'
  BY <1>11 DEF Report, Close
<1>12. CASE UNCHANGED vars
  BY <1>12
<1> QED
  BY <1>1, <1>2, <1>3, <1>4, <1>5, <1>6, <1>7, <1>8, <1>9, <1>10, <1>11, <1>12
     DEF Next, Reconcile

(* No lease is given away under a connection. *)
LEMMA StepLease == AdapterInv /\ [Next]_vars => LeaseOutlivesSession'
<1> SUFFICES ASSUME AdapterInv, [Next]_vars PROVE LeaseOutlivesSession'
  OBVIOUS
<1> USE ManagerAssumption DEF AdapterInv, TypeOK, HeldIsNew, Tracked, LeaseOutlivesSession,
    Session, Points
<1>1. ASSUME Enable \/ Disable \/ Validate \/ LeaseExpires PROVE LeaseOutlivesSession'
  BY <1>1 DEF Enable, Disable, Validate, LeaseExpires
<1>2. ASSUME NEW i \in Instances, Review(i) \/ RenewFails(i) PROVE LeaseOutlivesSession'
  BY <1>2 DEF Review, RenewFails, Remove
<1>3. ASSUME NEW i \in Instances, Renew(i) PROVE LeaseOutlivesSession'
  BY <1>3 DEF Renew, Remove
<1>4. ASSUME NEW i \in Instances, ClaimServed(i) PROVE LeaseOutlivesSession'
  BY <1>4 DEF ClaimServed, Claim, Fresh
<1>5. ASSUME NEW i \in Instances, ClaimLost(i) \/ ClaimNothing(i) PROVE LeaseOutlivesSession'
  BY <1>5 DEF ClaimLost, ClaimNothing, Claim, Fresh
<1>6. ASSUME NEW i \in Instances, Start(i) PROVE LeaseOutlivesSession'
  BY <1>6 DEF Start
<1>7. ASSUME NEW i \in Instances, StartFails(i) PROVE LeaseOutlivesSession'
  BY <1>7 DEF StartFails
<1>8. ASSUME NEW i \in Instances, Unused(i) PROVE LeaseOutlivesSession'
  BY <1>8 DEF Unused, ReleaseHeld
<1>9. ASSUME NEW i \in Instances, Shutdown(i) PROVE LeaseOutlivesSession'
  BY <1>9 DEF Shutdown
<1>10. ASSUME NEW i \in Instances, Drained(i) \/ Die(i) \/ Restart(i) PROVE LeaseOutlivesSession'
  BY <1>10 DEF Drained, Die, Restart, ReleaseHeld
<1>11. ASSUME NEW s \in sessions, Report(s) \/ Close(s) PROVE LeaseOutlivesSession'
  BY <1>11 DEF Report, Close
<1>12. CASE UNCHANGED vars
  BY <1>12
<1> QED
  BY <1>1, <1>2, <1>3, <1>4, <1>5, <1>6, <1>7, <1>8, <1>9, <1>10, <1>11, <1>12
     DEF Next, Reconcile

-----------------------------------------------------------------------------
(* The invariant holds in every reachable state. *)
THEOREM AdapterInvariant == Spec => []AdapterInv
<1>1. AdapterInv /\ [Next]_vars => AdapterInv'
  BY StepTypes, StepTracked, StepLease, StepHeld DEF AdapterInv
<1> QED
  BY InitHolds, <1>1, PTL DEF Spec

(* The manager's variables keep their types, for any number of processes. *)
THEOREM AdapterTypes == Spec => []TypeOK
<1>1. AdapterInv => TypeOK
  BY DEF AdapterInv
<1> QED
  BY AdapterInvariant, <1>1, PTL

(* A process that is given the lease anew while its former connection is still *)
(* closing keeps track of that connection.                                     *)
THEOREM TrackedHolds == Spec => []Tracked
<1>1. AdapterInv => Tracked
  BY DEF AdapterInv
<1> QED
  BY AdapterInvariant, <1>1, PTL

(* The lease of a connection is not given away before the connection has closed. *)
THEOREM LeaseOutlivesSessionHolds == Spec => []LeaseOutlivesSession
<1>1. AdapterInv => LeaseOutlivesSession
  BY DEF AdapterInv
<1> QED
  BY AdapterInvariant, <1>1, PTL

(* The connections that were made with the row's epoch are all of the owner:  *)
(* two processes never hold connections that are both current.                *)
THEOREM CurrentIsUnique ==
  Spec => [](\A s, t \in sessions : s.epoch = epoch /\ t.epoch = epoch => s.by = t.by)
<1>1. AdapterInv => \A s, t \in sessions : s.epoch = epoch /\ t.epoch = epoch => s.by = t.by
  BY DEF AdapterInv, LeaseOutlivesSession
<1> QED
  BY AdapterInvariant, <1>1, PTL

(* A connection is never silently replaced: an entry of the map that a process *)
(* has in use changes only by being given up, never by going over to another   *)
(* epoch.                                                                      *)
THEOREM EntriesAreNotReplaced ==
  Spec => [][\A i \in Instances : slot[i] # None => slot'[i] \in {slot[i], None}]_vars
<1> DEFINE Kept == \A i \in Instances : slot[i] # None => slot'[i] \in {slot[i], None}
<1>1. AdapterInv /\ [Next]_vars => [Kept]_vars
  BY DEF Next, Reconcile, AdapterInv, TypeOK, Enable, Disable, Validate, LeaseExpires, Review, Renew,
      Remove,
         RenewFails, ClaimServed, ClaimLost, ClaimNothing, Start, StartFails, Unused, Shutdown,
         Drained, Die, Restart, Report, Close
<1> QED
  BY AdapterInvariant, <1>1, PTL DEF Spec
=============================================================================
