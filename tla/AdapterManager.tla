--------------------------- MODULE AdapterManager ---------------------------
(***************************************************************************)
(* The worker's long connection to a DJI broker (internal/dji/manager.go,   *)
(* leases.go): every process runs one manager, a lease in the adapter's row *)
(* decides which of them holds the MQTT session, and an epoch that every    *)
(* claim moves on tells a holder from a former one.                         *)
(*                                                                         *)
(* One adapter: reconcile treats the adapters one by one, and they share    *)
(* nothing but the limit of 32 sessions, which one adapter does not reach.  *)
(* The manager's map is `slot`; `sessions` are the connections there really *)
(* are.  The epoch counts up in the row and is only compared for equality:  *)
(* here a claim takes an epoch that nobody remembers.                       *)
(***************************************************************************)
EXTENDS Naturals

CONSTANTS Instances,  \* processes, each with a manager
          Epochs,     \* values of connection_epoch
          None,       \* no epoch, and nobody
          MaxStops    \* bound: crashes and shutdowns

ASSUME ManagerAssumption == /\ None \notin Instances \cup Epochs
                            /\ MaxStops \in Nat

VARIABLES
  valid,    \* whether profile.status is 'valid'
  status,   \* adapter.status
  owner,    \* adapter.lease_owner
  epoch,    \* adapter.connection_epoch
  lease,    \* adapter.lease_expires_at: none, live (in the future) or over
  pc,       \* where an instance's Run is
  slot,     \* manager.active[adapter]: the epoch of its lease, None without an entry
  stopping, \* instances whose entry is marked as stopping
  held,     \* an epoch in hand: just claimed, or to be released at the end
  sessions, \* MQTT connections: whose, of which epoch, and whether canceled
  stops     \* crashes and shutdowns so far

row  == <<valid, status, owner, epoch, lease>>
vars == <<valid, status, owner, epoch, lease, pc, slot, stopping, held, sessions, stops>>

Usable == {"connecting", "connected", "degraded"}
Points == {"idle", "claiming", "starting", "failed", "draining", "down"}

Session  == [by : Instances, epoch : Epochs, canceled : BOOLEAN]
Of(i)    == {s \in sessions : s.by = i}
Cancel(i) == {IF s.by = i THEN [s EXCEPT !.canceled = TRUE] ELSE s : s \in sessions}

Init == /\ valid    = FALSE
        /\ status   = "connecting"
        /\ owner    = None
        /\ epoch    = None
        /\ lease    = "none"
        /\ pc       = [i \in Instances |-> "idle"]
        /\ slot     = [i \in Instances |-> None]
        /\ stopping = {}
        /\ held     = [i \in Instances |-> None]
        /\ sessions = {}
        /\ stops    = 0

Goto(i, point) == pc' = [pc EXCEPT ![i] = point]

-----------------------------------------------------------------------------
(* The administrator (SetDeviceAdapterEnabled; UpdateDJIAdapterEnvelope sets *)
(* the same status when the credentials change), and time.                   *)

Enable == /\ status' = "connecting"
          /\ UNCHANGED <<valid, owner, epoch, lease, pc, slot, stopping, held, sessions, stops>>

Disable == /\ status' = "disabled"
           /\ UNCHANGED <<valid, owner, epoch, lease, pc, slot, stopping, held, sessions, stops>>

(* The network profile is checked, and found to be in order or not.          *)
Validate == /\ valid' \in BOOLEAN
            /\ UNCHANGED <<status, owner, epoch, lease, pc, slot, stopping, held, sessions, stops>>

(* Thirty seconds without a renewal. *)
LeaseExpires == /\ lease = "live" /\ lease' = "over"
                /\ UNCHANGED <<valid, status, owner, epoch, pc, slot, stopping, held, sessions, stops>>

-----------------------------------------------------------------------------
(* SQLLeaseRepository *)

(* Mutant: the renewal does not compare the epoch. *)
AnyEpochMutant(i) == owner = i /\ lease = "live"

Renewable(i) == owner = i /\ epoch = slot[i] /\ lease = "live"

(* Mutant: only a lease that was released is claimed. *)
ReleasedOnlyMutant == status \in Usable /\ valid /\ lease = "none"

Claimable == status \in Usable /\ valid /\ lease # "live"

(* Nobody has this epoch in mind. *)
Fresh(e) == /\ e # epoch
            /\ \A i \in Instances : e \notin {slot[i], held[i]}
            /\ \A s \in sessions : e # s.epoch

Claim(i) == /\ Claimable
            /\ owner' = i /\ lease' = "live" /\ status' = "connecting"
            /\ epoch' \in {e \in Epochs : Fresh(e)}
            /\ UNCHANGED valid

(* The release of the epoch in hand. *)
ReleaseHeld(i) ==
  IF owner = i /\ epoch = held[i] THEN owner' = None /\ lease' = "none"
                                  ELSE UNCHANGED <<owner, lease>>

-----------------------------------------------------------------------------
(* reconcile, of the instance's goroutine. *)

(* removeStopped: the entry goes when the connection is closed. *)
Remove(i, gone) ==
  IF gone THEN slot' = [slot EXCEPT ![i] = None] /\ stopping' = stopping \ {i}
          ELSE UNCHANGED slot /\ stopping' = stopping \cup {i}

(* Nothing to renew, or a connection that is still closing. *)
Review(i) == /\ pc[i] = "idle"
             /\ slot[i] = None \/ i \in stopping
             /\ IF slot[i] = None THEN UNCHANGED <<slot, stopping>>
                                  ELSE Remove(i, Of(i) = {})
             /\ Goto(i, "claiming")
             /\ UNCHANGED <<row, held, sessions, stops>>

(* The database answers the renewal ... *)
Renew(i) == /\ pc[i] = "idle"
            /\ slot[i] # None /\ i \notin stopping
            /\ IF Renewable(i) THEN UNCHANGED <<slot, stopping, sessions>>
               ELSE /\ sessions' = Cancel(i)
                    /\ Remove(i, Of(i) = {})
            /\ Goto(i, "claiming")
            /\ UNCHANGED <<row, held, stops>>

(* ... or does not: the connection is kept, and reconcile goes on. *)
RenewFails(i) == /\ pc[i] = "idle"
                 /\ slot[i] # None /\ i \notin stopping
                 /\ Goto(i, "claiming")
                 /\ UNCHANGED <<row, slot, stopping, held, sessions, stops>>

(* Claim, with its answer; *)
ClaimServed(i) == /\ pc[i] = "claiming"
                  /\ Claim(i)
                  /\ held' = [held EXCEPT ![i] = epoch']
                  /\ Goto(i, "starting")
                  /\ UNCHANGED <<slot, stopping, sessions, stops>>

(* a claim that was made, but its answer is lost; *)
ClaimLost(i) == /\ pc[i] = "claiming"
                /\ Claim(i)
                /\ Goto(i, "idle")
                /\ UNCHANGED <<slot, stopping, held, sessions, stops>>

(* and nothing to claim, or no answer at all. *)
ClaimNothing(i) == /\ pc[i] = "claiming"
                   /\ Goto(i, "idle")
                   /\ UNCHANGED <<row, slot, stopping, held, sessions, stops>>

(* start: the connection is made and remembered ... *)
Start(i) == /\ pc[i] = "starting" /\ slot[i] = None
            /\ slot' = [slot EXCEPT ![i] = held[i]]
            /\ sessions' = sessions \cup {[by |-> i, epoch |-> held[i], canceled |-> FALSE]}
            /\ held' = [held EXCEPT ![i] = None]
            /\ Goto(i, "idle")
            /\ UNCHANGED <<row, stopping, stops>>

(* ... or fails, which the row shows from now on if the lease is still ours   *)
(* and the write succeeds.                                                   *)
StartFails(i) == /\ pc[i] = "starting" /\ slot[i] = None
                 /\ \/ owner = i /\ epoch = held[i] /\ status' = "failed"
                    \/ UNCHANGED status
                 /\ Goto(i, "failed")
                 /\ UNCHANGED <<valid, owner, epoch, lease, slot, stopping, held, sessions, stops>>

(* The lease of a failed start, and one claimed while the former connection *)
(* is closing, are released; a release that fails is not tried again.        *)
Unused(i) == /\ \/ pc[i] = "failed"
                \/ pc[i] = "starting" /\ slot[i] # None
             /\ ReleaseHeld(i) \/ UNCHANGED <<owner, lease>>
             /\ held' = [held EXCEPT ![i] = None]
             /\ Goto(i, "idle")
             /\ UNCHANGED <<valid, status, epoch, slot, stopping, sessions, stops>>

-----------------------------------------------------------------------------
(* The connection: watch writes its events to the row, and it closes some   *)
(* time after it was canceled.                                               *)

Report(s) == /\ ~s.canceled
             /\ owner = s.by /\ epoch = s.epoch
             /\ status' \in {"connected", "degraded"}
             /\ UNCHANGED <<valid, owner, epoch, lease, pc, slot, stopping, held, sessions, stops>>

Close(s) == /\ s.canceled
            /\ sessions' = sessions \ {s}
            /\ UNCHANGED <<row, pc, slot, stopping, held, stops>>

-----------------------------------------------------------------------------
(* The end of a process. *)

(* Mutant: shutdown releases the lease at once. *)
HastyMutant(i) == /\ pc[i] = "idle"
                  /\ stops < MaxStops /\ stops' = stops + 1
                  /\ sessions' = Cancel(i)
                  /\ IF owner = i /\ epoch = slot[i] THEN owner' = None /\ lease' = "none"
                                                      ELSE UNCHANGED <<owner, lease>>
                  /\ held' = [held EXCEPT ![i] = slot[i]]
                  /\ slot' = [slot EXCEPT ![i] = None] /\ stopping' = stopping \ {i}
                  /\ Goto(i, "draining")
                  /\ UNCHANGED <<valid, status, epoch>>

(* Run is canceled: so is the connection, and the map is emptied. *)
Shutdown(i) == /\ pc[i] = "idle"
               /\ stops < MaxStops /\ stops' = stops + 1
               /\ sessions' = Cancel(i)
               /\ held' = [held EXCEPT ![i] = slot[i]]
               /\ slot' = [slot EXCEPT ![i] = None] /\ stopping' = stopping \ {i}
               /\ Goto(i, "draining")
               /\ UNCHANGED row

(* The lease is released when the connection has closed ... *)
Drained(i) == /\ pc[i] = "draining" /\ Of(i) = {}
              /\ ReleaseHeld(i) \/ UNCHANGED <<owner, lease>>
              /\ held' = [held EXCEPT ![i] = None]
              /\ Goto(i, "down")
              /\ UNCHANGED <<valid, status, epoch, slot, stopping, sessions, stops>>

(* ... and kept when that takes longer than shutdownTimeout, or when the     *)
(* process crashes: its connections die with it.                             *)
Die(i) == /\ \/ pc[i] = "draining" /\ UNCHANGED stops
             \/ pc[i] # "down" /\ stops < MaxStops /\ stops' = stops + 1
          /\ sessions' = sessions \ Of(i)
          /\ slot' = [slot EXCEPT ![i] = None] /\ stopping' = stopping \ {i}
          /\ held' = [held EXCEPT ![i] = None]
          /\ Goto(i, "down")
          /\ UNCHANGED row

Restart(i) == /\ pc[i] = "down"
              /\ Goto(i, "idle")
              /\ UNCHANGED <<row, slot, stopping, held, sessions, stops>>

-----------------------------------------------------------------------------
Reconcile(i) == \/ Review(i) \/ Renew(i) \/ RenewFails(i)
                \/ ClaimServed(i) \/ ClaimLost(i) \/ ClaimNothing(i)
                \/ Start(i) \/ StartFails(i) \/ Unused(i)

Next == \/ Enable \/ Disable \/ Validate \/ LeaseExpires
        \/ \E i \in Instances : \/ Reconcile(i) \/ Shutdown(i) \/ Drained(i)
                                \/ Die(i) \/ Restart(i)
        \/ \E s \in sessions : Report(s) \/ Close(s)

Spec == Init /\ [][Next]_vars

(* The ticker calls reconcile again and again, and a database that is asked  *)
(* again and again answers at last; a canceled connection closes, a process  *)
(* that went down is started again.                                          *)
Fairness == /\ \A i \in Instances : /\ WF_vars(Reconcile(i) \/ Restart(i) \/ Drained(i))
                                    /\ SF_vars(Renew(i)) /\ SF_vars(ClaimServed(i))
            /\ WF_vars(\E s \in sessions : Close(s))

FairSpec == Spec /\ Fairness

-----------------------------------------------------------------------------
(* Properties. *)

(* The types of the variables. *)
TypeOK == /\ valid \in BOOLEAN
          /\ status \in Usable \cup {"failed", "disabled"}
          /\ owner \in Instances \cup {None}
          /\ epoch \in Epochs \cup {None}
          /\ lease \in {"none", "live", "over"}
          /\ pc \in [Instances -> Points]
          /\ slot \in [Instances -> Epochs \cup {None}]
          /\ stopping \subseteq Instances
          /\ held \in [Instances -> Epochs \cup {None}]
          /\ sessions \subseteq Session
          /\ stops \in Nat

(* A process never loses track of a connection it has made, also when it is  *)
(* given the lease anew while the former connection is still closing         *)
(* (TestLostLeaseRemainsTrackedUntilSessionCloses).                           *)
Tracked ==
  \A s \in sessions :
    s.epoch = IF pc[s.by] = "draining" THEN held[s.by] ELSE slot[s.by]

(* Nobody gives the lease away under a connection that was made with it: it *)
(* is free only when the connection has closed                               *)
(* (TestManagerShutdownWaitsForMQTTBeforeReleasingLease).                    *)
LeaseOutlivesSession ==
  \A s \in sessions : s.epoch = epoch => owner = s.by

(* The facts that make the above inductive: an epoch that was just claimed is *)
(* not the one of the former connection, and the owner's as long as it is the *)
(* row's; a start fails only where there is no former connection.            *)
HeldIsNew ==
  \A i \in Instances :
    /\ pc[i] = "starting" => /\ held[i] \in Epochs /\ held[i] # slot[i]
                             /\ held[i] = epoch => owner = i
    /\ pc[i] = "failed" => slot[i] = None

AdapterInv == TypeOK /\ Tracked /\ LeaseOutlivesSession /\ HeldIsNew

(* What Publish sends commands through. *)
Publishes(i) == slot[i] # None /\ i \notin stopping

(* A process whose lease was taken over while it could not renew goes on     *)
(* sending commands beside the new holder, but not for ever.                 *)
StaleStops == \A i \in Instances : Publishes(i) /\ slot[i] # epoch ~> ~Publishes(i)

(* An adapter in use, with a profile in order, that nobody holds is claimed   *)
(* again, whoever had crashed.                                               *)
InUse == status \in Usable /\ valid

ClaimedAgain == InUse /\ lease # "live" ~> ~InUse \/ lease = "live"

(* An adapter that is disabled, and stays so, is let go. *)
DisabledLetsGo == <>[](status = "disabled") => []<>(sessions = {})
=============================================================================
