----------------------------- MODULE SyncProofs -----------------------------
(***************************************************************************)
(* Proofs about ConnectorSync for any connectors, jobs and bounds.          *)
(***************************************************************************)
EXTENDS ConnectorSync, TLAPS

(* Recording an outcome keeps the types of what it writes, ... *)
LEMMA RecordTyped ==
  ASSUME TypeOK, NEW j, NEW c, NEW point \in DOMAIN Outcome, pc[j] = point, Record(j, c)
  PROVE  /\ status' \in [Connectors -> Usable \cup {"failed", "disabled"}]
         /\ holder' \in [Connectors -> Jobs \cup {None}]
         /\ live' \subseteq Connectors /\ due' \subseteq Connectors
<1>1. point \in {"succeeded", "failed", "refused"}
  BY DEF Outcome
<1>2. Outcome[point] \in {"connected", "degraded", "failed"}
  BY <1>1 DEF Outcome
<1> QED
  BY <1>2 DEF TypeOK, Record, Usable

(* ... and so does every step. *)
LEMMA TypeStep == TypeOK /\ [Next]_vars => TypeOK'
<1> SUFFICES ASSUME TypeOK, [Next]_vars PROVE TypeOK'
  OBVIOUS
<1> USE SyncAssumption DEF TypeOK, Fault, NoFault, Called, Forget, Goto, Points, Jobs, Usable,
                           row, job, world
<1> DEFINE Recorded == /\ status' \in [Connectors -> Usable \cup {"failed", "disabled"}]
                       /\ holder' \in [Connectors -> Jobs \cup {None}]
                       /\ live' \subseteq Connectors /\ due' \subseteq Connectors
<1>1. ASSUME NEW c \in Connectors,
             PollIntervalOver(c) \/ RestOver(c) \/ LeaseExpires(c) \/ TokenRevoked(c)
      PROVE  TypeOK'
  BY <1>1 DEF PollIntervalOver, RestOver, LeaseExpires, TokenRevoked
<1>2. CASE DirectoryChanges
  BY <1>2 DEF DirectoryChanges
<1>3. ASSUME NEW j \in Jobs, Stop(j) PROVE TypeOK'
  BY <1>3 DEF Stop, Redeliver
<1>4. ASSUME NEW c \in Connectors,
             UpdateToken(c) \/ RequestSync(c) \/ Reconnect(c)
      PROVE  TypeOK'
  <2>1. request' \in [Connectors -> {"none", "pending"} \cup Handlers]
    BY <1>4 DEF UpdateToken, RequestSync, Reconnect, AskFor
  <2>2. CASE UpdateToken(c)
    <3>1. token' \in [Connectors -> 1..MaxToken]
      BY <2>2 DEF UpdateToken
    <3> QED
      BY <2>1, <2>2, <3>1 DEF UpdateToken
  <2>3. CASE RequestSync(c)
    BY <2>1, <2>3 DEF RequestSync
  <2>4. CASE Reconnect(c)
    <3>1. /\ status' \in [Connectors -> Usable \cup {"failed", "disabled"}]
          /\ holder' \in [Connectors -> Jobs \cup {None}]
          /\ live' \subseteq Connectors /\ due' \subseteq Connectors
      BY <2>4 DEF Reconnect
    <3>2. /\ calls' \in 0..MaxCalls /\ faults' \in 0..MaxFaults
          /\ UNCHANGED <<token, resting, closing, directory, batch, pc, saw, accepted, cloud>>
      BY <2>4 DEF Reconnect
    <3> QED
      BY <2>1, <3>1, <3>2
  <2> QED
    BY <1>4, <2>2, <2>3, <2>4
<1>5. ASSUME NEW c \in Connectors,
             BeginDisconnect(c) \/ Disconnect(c) \/ DisconnectTimesOut(c)
      PROVE  TypeOK'
  BY <1>5 DEF BeginDisconnect, Disconnect, DisconnectTimesOut
<1>6. ASSUME NEW j \in Pollers, ClaimDue(j) PROVE TypeOK'
  BY <1>6 DEF ClaimDue, Claimed
<1>7. ASSUME NEW j \in Handlers, NEW c \in Connectors, ClaimInstance(j, c) PROVE TypeOK'
  BY <1>7 DEF ClaimInstance
<1>8. ASSUME NEW j \in Jobs, Begin(j) \/ List(j) \/ RunFails(j) PROVE TypeOK'
  BY <1>8 DEF Begin, List, RunFails, RestAfterFailure, Writable
<1>9. ASSUME NEW j \in Jobs, LeaseLost(j) \/ Apply(j) \/ Save(j) \/ ProbeRefused(j) PROVE TypeOK'
  BY <1>9 DEF LeaseLost, Apply, Save, ProbeRefused, Writable
<1>10. ASSUME NEW j \in Jobs, FinishPoll(j) \/ FinishEvent(j) PROVE Recorded
  <2> HIDE DEF TypeOK
  <2>1. PICK point \in DOMAIN Outcome : pc[j] = point
    BY <1>10 DEF FinishPoll, FinishEvent, At
  <2>2. Record(j, Current(j))
    BY <1>10 DEF FinishPoll, FinishEvent
  <2> QED
    BY <2>1, <2>2, RecordTyped
<1>11. ASSUME NEW j \in Pollers, FinishPoll(j) PROVE TypeOK'
  <2>1. Recorded
    BY <1>10, <1>11
  <2> QED
    BY <1>11, <2>1 DEF FinishPoll
<1>12. ASSUME NEW j \in Handlers, FinishEvent(j) \/ CompleteEvent(j) PROVE TypeOK'
  <2>1. CASE FinishEvent(j)
    <3>1. Recorded
      BY <1>10, <2>1
    <3>2. /\ request' \in [Connectors -> {"none", "pending"} \cup Handlers]
          /\ pc' \in [Jobs -> Points] /\ DOMAIN batch' = Jobs
      BY <2>1 DEF FinishEvent, Redeliver
    <3> QED
      BY <2>1, <3>1, <3>2 DEF FinishEvent
  <2>2. CASE CompleteEvent(j)
    BY <2>2 DEF CompleteEvent
  <2> QED
    BY <1>12, <2>1, <2>2
<1>13. CASE UNCHANGED vars
  BY <1>13 DEF vars
<1> HIDE DEF TypeOK
<1> QED
  BY <1>1, <1>2, <1>3, <1>4, <1>5, <1>6, <1>7, <1>8, <1>9, <1>12, <1>13, <1>11 DEF Next, Work

(* A disconnected connector stays nobody's, and only a reconnect or a new    *)
(* token make it more than disconnected.                                     *)
LEMMA DisabledStep ==
  ASSUME TypeOK, DisabledIsFree, [Next]_vars, NEW c \in Connectors
  PROVE  /\ status'[c] = "disabled" => c \notin live'
         /\ status[c] = "disabled" => status'[c] \in {"disabled", "connecting"}
<1> DEFINE Goal == /\ status'[c] = "disabled" => c \notin live'
                   /\ status[c] = "disabled" => status'[c] \in {"disabled", "connecting"}
<1>t. /\ status \in [Connectors -> Usable \cup {"failed", "disabled"}]
      /\ status[c] = "disabled" => c \notin live
  BY DEF TypeOK, DisabledIsFree
<1> USE DEF row, job, world
<1>1. ASSUME NEW d \in Connectors,
             PollIntervalOver(d) \/ RestOver(d) \/ LeaseExpires(d) \/ TokenRevoked(d)
      PROVE  Goal
  BY <1>1, <1>t DEF PollIntervalOver, RestOver, LeaseExpires, TokenRevoked
<1>2. CASE DirectoryChanges \/ UNCHANGED vars
  BY <1>2, <1>t DEF DirectoryChanges, vars
<1>3. ASSUME NEW d \in Connectors,
             UpdateToken(d) \/ RequestSync(d) \/ Reconnect(d)
      PROVE  Goal
  BY <1>3, <1>t DEF UpdateToken, RequestSync, Reconnect
<1>4. ASSUME NEW d \in Connectors,
             BeginDisconnect(d) \/ Disconnect(d) \/ DisconnectTimesOut(d)
      PROVE  Goal
  BY <1>4, <1>t DEF BeginDisconnect, Disconnect, DisconnectTimesOut
<1>5. ASSUME NEW j \in Pollers, ClaimDue(j) PROVE Goal
  BY <1>5, <1>t DEF ClaimDue, Claimed, Candidate, Usable
<1>6. ASSUME NEW j \in Handlers, NEW d \in Connectors, ClaimInstance(j, d) PROVE Goal
  BY <1>6, <1>t DEF ClaimInstance, Claimable, Usable
<1>7. ASSUME NEW j \in Jobs,
             \/ Stop(j) \/ Begin(j) \/ List(j) \/ RunFails(j)
             \/ LeaseLost(j) \/ Apply(j) \/ Save(j) \/ ProbeRefused(j) \/ CompleteEvent(j)
      PROVE  Goal
  BY <1>7, <1>t DEF Stop, Begin, List, RunFails, LeaseLost, Apply, Save, ProbeRefused,
                    CompleteEvent
<1>8. ASSUME NEW j \in Jobs, FinishPoll(j) \/ FinishEvent(j) PROVE Goal
  <2>1. PICK point \in DOMAIN Outcome : pc[j] = point
    BY <1>8 DEF FinishPoll, FinishEvent, At
  <2>2. Outcome[point] \in {"connected", "degraded", "failed"}
    BY DEF Outcome
  <2>3. Record(j, Current(j))
    BY <1>8 DEF FinishPoll, FinishEvent
  <2> QED
    BY <1>t, <2>1, <2>2, <2>3 DEF Record, Recordable
<1>9. CASE \E j \in Jobs : Work(j) \/ RunFails(j) \/ ProbeRefused(j) \/ Stop(j)
  BY <1>9, <1>5, <1>7, <1>8 DEF Work
<1>10. Goal
  BY <1>1, <1>2, <1>3, <1>4, <1>6, <1>9 DEF Next
<1> QED
  BY <1>10 DEF Goal

(* A directory is written by who holds its connector, with what is not older. *)
LEMMA DirectoryStep ==
  ASSUME SyncInv, [Next]_vars, NEW c \in Connectors
  PROVE  \/ directory'[c] = directory[c]
         \/ \E j \in Jobs : /\ holder[c] = j /\ holder'[c] = j /\ c \in live
                            /\ directory'[c] = saw[j] /\ directory[c] <= saw[j]
<1> DEFINE Goal == \/ directory'[c] = directory[c]
                   \/ \E j \in Jobs : /\ holder[c] = j /\ holder'[c] = j /\ c \in live
                                      /\ directory'[c] = saw[j] /\ directory[c] <= saw[j]
<1>1. CASE directory' = directory
  BY <1>1
<1>2. ASSUME NEW j \in Jobs, Apply(j) PROVE Goal
  <2>1. CASE Current(j) = c /\ Writable(j, c)
    BY <1>2, <2>1 DEF Apply, At, Writable, SyncInv, TypeOK, ListingIsRecent, row
  <2>2. CASE ~(Current(j) = c /\ Writable(j, c))
    BY <1>2, <2>2 DEF Apply, SyncInv, TypeOK
  <2> QED
    BY <2>1, <2>2
<1>3. ASSUME NEW d \in Connectors,
             \/ PollIntervalOver(d) \/ RestOver(d) \/ LeaseExpires(d) \/ TokenRevoked(d)
             \/ UpdateToken(d) \/ RequestSync(d) \/ Reconnect(d)
             \/ BeginDisconnect(d) \/ Disconnect(d) \/ DisconnectTimesOut(d)
      PROVE  directory' = directory
  BY <1>3 DEF PollIntervalOver, RestOver, LeaseExpires, TokenRevoked, UpdateToken, RequestSync,
              Reconnect, BeginDisconnect, Disconnect, DisconnectTimesOut
<1>4. ASSUME NEW j \in Jobs,
             \/ Stop(j) \/ Begin(j) \/ List(j) \/ RunFails(j) \/ LeaseLost(j) \/ Save(j)
             \/ ProbeRefused(j) \/ ClaimDue(j) \/ FinishPoll(j) \/ FinishEvent(j)
             \/ CompleteEvent(j) \/ \E d \in Connectors : ClaimInstance(j, d)
      PROVE  directory' = directory
  BY <1>4 DEF Stop, Begin, List, RunFails, LeaseLost, Save, ProbeRefused, ClaimDue, FinishPoll,
              FinishEvent, CompleteEvent, ClaimInstance
<1>5. CASE DirectoryChanges \/ UNCHANGED vars
  BY <1>5, <1>1 DEF DirectoryChanges, vars
<1>6. CASE \E j \in Jobs : Work(j) \/ RunFails(j) \/ ProbeRefused(j) \/ Stop(j)
  BY <1>6, <1>1, <1>2, <1>4 DEF Work
<1>7. CASE \E j \in Handlers, d \in Connectors : ClaimInstance(j, d)
  BY <1>7, <1>1, <1>4 DEF Jobs
<1>8. Goal
  BY <1>1, <1>3, <1>5, <1>6, <1>7 DEF Next
<1> QED
  BY <1>8 DEF Goal

(* A job that is about to apply came from its listing just now, or was about *)
(* to apply before and has kept its connector, its lease and its listing.    *)
LEMMA ListingStep ==
  ASSUME TypeOK, [Next]_vars, NEW j \in Jobs, NEW c \in Connectors,
         pc'[j] = "applying", Current(j)' = c, holder'[c] = j
  PROVE  \/ saw'[j] = cloud /\ directory' = directory
         \/ pc[j] = "applying" /\ Current(j) = c /\ holder[c] = j /\ saw'[j] = saw[j]
<1> DEFINE Goal == \/ saw'[j] = cloud /\ directory' = directory
                   \/ pc[j] = "applying" /\ Current(j) = c /\ holder[c] = j /\ saw'[j] = saw[j]
<1>t. /\ pc \in [Jobs -> Points] /\ DOMAIN batch = Jobs /\ saw \in [Jobs -> 0..cloud]
      /\ holder \in [Connectors -> Jobs \cup {None}]
      /\ None \notin Jobs
  BY SyncAssumption DEF TypeOK
<1>k. ASSUME pc'[j] = pc[j], batch'[j] = batch[j], saw'[j] = saw[j],
             holder'[c] = holder[c] \/ holder'[c] # j
      PROVE  Goal
  BY <1>k DEF Current
<1> USE DEF row, job, world, Goto, Forget
<1>1. ASSUME NEW d \in Connectors,
             \/ PollIntervalOver(d) \/ RestOver(d) \/ LeaseExpires(d) \/ TokenRevoked(d)
             \/ UpdateToken(d) \/ RequestSync(d) \/ Reconnect(d)
             \/ BeginDisconnect(d) \/ Disconnect(d) \/ DisconnectTimesOut(d)
      PROVE  Goal
  <2>1. UNCHANGED job
    BY <1>1 DEF PollIntervalOver, RestOver, LeaseExpires, TokenRevoked, UpdateToken,
        RequestSync,
                Reconnect, BeginDisconnect, Disconnect, DisconnectTimesOut
  <2>2. holder' = holder \/ holder' = [holder EXCEPT ![d] = None]
    BY <1>1 DEF PollIntervalOver, RestOver, LeaseExpires, TokenRevoked, UpdateToken,
        RequestSync,
                Reconnect, BeginDisconnect, Disconnect, DisconnectTimesOut
  <2>3. holder'[c] = holder[c] \/ holder'[c] # j
    BY <1>t, <2>2
  <2> QED
    BY <1>k, <2>1, <2>3
<1>2. CASE DirectoryChanges \/ UNCHANGED vars
  BY <1>2, <1>k DEF DirectoryChanges, vars
<1>3. ASSUME NEW k \in Jobs,
             \/ Stop(k) \/ Begin(k) \/ List(k) \/ RunFails(k) \/ LeaseLost(k) \/ Apply(k)
             \/ Save(k) \/ ProbeRefused(k) \/ CompleteEvent(k)
      PROVE  Goal
  <2>1. holder' = holder
    BY <1>3 DEF Stop, Begin, List, RunFails, LeaseLost, Apply, Save, ProbeRefused,
        CompleteEvent
  <2>2. CASE k = j
    <3>1. List(j)
      BY <1>3, <1>t, <2>2 DEF Stop, Begin, List, RunFails, LeaseLost, Apply, Save,
          ProbeRefused,
                              CompleteEvent
    <3> QED
      BY <1>t, <3>1 DEF List
  <2>3. CASE k # j
    <3>1. pc'[j] = pc[j] /\ batch'[j] = batch[j] /\ saw'[j] = saw[j]
      BY <1>3, <1>t, <2>3 DEF Stop, Begin, List, RunFails, LeaseLost, Apply, Save,
          ProbeRefused,
                              CompleteEvent
    <3> QED
      BY <1>k, <2>1, <3>1
  <2> QED
    BY <2>2, <2>3
<1>4. ASSUME NEW k \in Jobs, FinishPoll(k) \/ FinishEvent(k) PROVE Goal
  <2>1. k # j
    BY <1>4, <1>t DEF FinishPoll, FinishEvent
  <2>2. pc'[j] = pc[j] /\ batch'[j] = batch[j] /\ saw'[j] = saw[j]
    BY <1>4, <1>t, <2>1 DEF FinishPoll, FinishEvent
  <2>3. Record(k, Current(k))
    BY <1>4 DEF FinishPoll, FinishEvent
  <2>4. holder'[c] = holder[c] \/ holder'[c] # j
    BY <1>t, <2>3 DEF Record
  <2> QED
    BY <1>k, <2>2, <2>4
<1>5. ASSUME NEW k \in Jobs,
             ClaimDue(k) \/ \E d \in Connectors : ClaimInstance(k, d)
      PROVE  Goal
  <2>1. k # j
    BY <1>5, <1>t DEF ClaimDue, ClaimInstance
  <2>2. pc'[j] = pc[j] /\ batch'[j] = batch[j] /\ saw'[j] = saw[j]
    BY <1>5, <1>t, <2>1 DEF ClaimDue, ClaimInstance
  <2>3. holder'[c] = holder[c] \/ holder'[c] # j
    BY <1>5, <1>t, <2>1 DEF ClaimDue, ClaimInstance
  <2> QED
    BY <1>k, <2>2, <2>3
<1>6. CASE \E k \in Jobs : Work(k) \/ RunFails(k) \/ ProbeRefused(k) \/ Stop(k)
  BY <1>6, <1>3, <1>4, <1>5 DEF Work
<1>7. CASE \E k \in Handlers, d \in Connectors : ClaimInstance(k, d)
  BY <1>7, <1>5 DEF Jobs
<1>8. Goal
  BY <1>1, <1>2, <1>6, <1>7 DEF Next
<1> QED
  BY <1>8 DEF Goal

(* The listing a holder is about to apply stays as recent as what is stored. *)
LEMMA RecentStep == SyncInv /\ [Next]_vars => ListingIsRecent'
<1> SUFFICES ASSUME SyncInv, [Next]_vars, NEW j \in Jobs, NEW c \in Connectors,
                    pc'[j] = "applying", Current(j)' = c, holder'[c] = j
             PROVE  directory'[c] <= saw'[j]
  BY DEF ListingIsRecent
<1>1. /\ cloud \in Nat /\ saw[j] \in 0..cloud /\ directory[c] \in 0..cloud
      /\ pc[j] = "applying" /\ Current(j) = c /\ holder[c] = j => directory[c] <= saw[j]
  BY SyncAssumption DEF SyncInv, TypeOK, ListingIsRecent
<1>2. CASE saw'[j] = cloud /\ directory' = directory
  BY <1>1, <1>2
<1>3. CASE pc[j] = "applying" /\ Current(j) = c /\ holder[c] = j /\ saw'[j] = saw[j]
  <2>1. CASE directory'[c] = directory[c]
    BY <1>1, <1>3, <2>1
  <2>2. ASSUME NEW k \in Jobs, holder[c] = k, directory'[c] = saw[k] PROVE directory'[c] = saw[j]
    BY <1>3, <2>2
  <2>3. directory'[c] = directory[c] \/ directory'[c] = saw[j]
    BY <2>2, DirectoryStep
  <2> QED
    BY <1>1, <1>3, <2>3
<1> QED
  BY <1>2, <1>3, ListingStep DEF SyncInv

LEMMA SyncInit == Init => SyncInv
<1> SUFFICES ASSUME Init PROVE SyncInv
  OBVIOUS
<1>1. TypeOK
  BY SyncAssumption DEF Init, TypeOK, Points, Usable
<1>2. DisabledIsFree /\ ListingIsRecent
  BY DEF Init, DisabledIsFree, ListingIsRecent
<1> QED
  BY <1>1, <1>2 DEF SyncInv

LEMMA SyncStep == SyncInv /\ [Next]_vars => SyncInv'
<1> SUFFICES ASSUME SyncInv, [Next]_vars PROVE SyncInv'
  OBVIOUS
<1>1. TypeOK /\ DisabledIsFree
  BY DEF SyncInv
<1>2. TypeOK'
  BY <1>1, TypeStep
<1>3. DisabledIsFree'
  BY <1>1, DisabledStep DEF DisabledIsFree
<1>4. ListingIsRecent'
  BY RecentStep
<1> QED
  BY <1>2, <1>3, <1>4 DEF SyncInv

-----------------------------------------------------------------------------
(* The inductive invariant of the synchronisation: types, a disconnected     *)
(* connector is nobody's, and a holder applies nothing older than the store. *)
THEOREM SyncInvariant == Spec => []SyncInv
<1> QED
  BY SyncInit, SyncStep, PTL DEF Spec

(* Every variable keeps its type (TypeOK). *)
THEOREM SyncTypes == Spec => []TypeOK
<1>1. SyncInv => TypeOK
  BY DEF SyncInv
<1> QED
  BY <1>1, SyncInvariant, PTL

(* Whatever the leases, the failures and the administrator do, and however   *)
(* often a cursor comes back, what is stored of a directory only gets newer  *)
(* (ApplyBatch, sync.go).                                                    *)
THEOREM ListingsAdvanceHolds == Spec => ListingsAdvance
<1> DEFINE Advance == \A c \in Connectors : directory'[c] >= directory[c]
<1>1. SyncInv /\ [Next]_vars => [Advance]_directory
  <2> SUFFICES ASSUME SyncInv, [Next]_vars, NEW c \in Connectors
               PROVE  directory'[c] >= directory[c]
    OBVIOUS
  <2>1. /\ cloud \in Nat /\ directory[c] \in 0..cloud
        /\ \A j \in Jobs : saw[j] \in 0..cloud
    BY SyncAssumption DEF SyncInv, TypeOK
  <2> QED
    BY <2>1, DirectoryStep
<1> QED
  BY <1>1, SyncInvariant, PTL DEF Spec, ListingsAdvance

(* A disconnected connector is neither brought back by a synchronisation     *)
(* that was under way nor written to (disconnectFlightHub, AssertWritable).  *)
THEOREM DisconnectedIsQuietHolds == Spec => DisconnectedIsQuiet
<1> DEFINE Quiet == \A c \in Connectors :
                      status[c] = "disabled" => /\ status'[c] \in {"disabled", "connecting"}
                                                /\ directory'[c] = directory[c]
<1>1. SyncInv /\ [Next]_vars => [Quiet]_vars
  <2> SUFFICES ASSUME SyncInv, [Next]_vars, NEW c \in Connectors, status[c] = "disabled"
               PROVE  status'[c] \in {"disabled", "connecting"} /\ directory'[c] = directory[c]
    OBVIOUS
  <2>1. TypeOK /\ DisabledIsFree /\ c \notin live
    BY DEF SyncInv, DisabledIsFree
  <2>2. status'[c] \in {"disabled", "connecting"}
    BY <2>1, DisabledStep
  <2>3. directory'[c] = directory[c]
    BY <2>1, DirectoryStep
  <2> QED
    BY <2>2, <2>3
<1> QED
  BY <1>1, SyncInvariant, PTL DEF Spec, DisconnectedIsQuiet
-----------------------------------------------------------------------------
(* What a step may do to the requests.                                       *)
LEMMA HandStep ==
  TypeOK /\ OneLeaseEach /\ RequestInHand /\ [Next]_vars => (OneLeaseEach /\ RequestInHand)'
<1> SUFFICES ASSUME TypeOK, OneLeaseEach, RequestInHand, [Next]_vars, NEW j \in Handlers
             PROVE  /\ IF pc'[j] = "idle" THEN batch'[j] = << >>
                       ELSE \E c \in Connectors, t \in 1..MaxToken :
                              batch'[j] = <<[connector |-> c, token |-> t]>>
                    /\ \A c \in Connectors :
                         request'[c] = j <=> pc'[j] # "idle" /\ Head(batch'[j]).connector = c
  BY DEF OneLeaseEach, RequestInHand, Current
<1> DEFINE Goal == /\ IF pc'[j] = "idle" THEN batch'[j] = << >>
                      ELSE \E c \in Connectors, t \in 1..MaxToken :
                             batch'[j] = <<[connector |-> c, token |-> t]>>
                   /\ \A c \in Connectors :
                        request'[c] = j <=> pc'[j] # "idle" /\ Head(batch'[j]).connector = c
<1>t. /\ pc \in [Jobs -> Points] /\ DOMAIN batch = Jobs /\ j \in Jobs
      /\ request \in [Connectors -> {"none", "pending"} \cup Handlers]
      /\ token \in [Connectors -> 1..MaxToken]
  BY DEF TypeOK, Jobs
<1>b. /\ IF pc[j] = "idle" THEN batch[j] = << >>
         ELSE \E c \in Connectors, t \in 1..MaxToken :
                batch[j] = <<[connector |-> c, token |-> t]>>
      /\ \A c \in Connectors : request[c] = j <=> pc[j] # "idle" /\ Head(batch[j]).connector = c
  BY DEF OneLeaseEach, RequestInHand, Current
<1>w. j \notin Pollers /\ j \notin {"none", "pending"} /\ (\A k \in Handlers : k \in Jobs)
  BY SyncAssumption DEF Jobs
<1>h. ASSUME batch'[j] = batch[j], pc'[j] = "idle" <=> pc[j] = "idle",
             \A c \in Connectors : request'[c] = j <=> request[c] = j
      PROVE  Goal
  BY <1>b, <1>h
<1> HIDE DEF Goal
<1> USE DEF row, job, world, Goto
<1>1. ASSUME NEW d \in Connectors,
             \/ PollIntervalOver(d) \/ RestOver(d) \/ LeaseExpires(d) \/ TokenRevoked(d)
             \/ BeginDisconnect(d) \/ DisconnectTimesOut(d)
      PROVE  Goal
  <2>1. UNCHANGED <<request, job>>
    BY <1>1 DEF PollIntervalOver, RestOver, LeaseExpires, TokenRevoked, BeginDisconnect,
                DisconnectTimesOut
  <2> QED
    BY <1>h, <2>1
<1>2. ASSUME NEW d \in Connectors, UpdateToken(d) \/ RequestSync(d) \/ Reconnect(d) PROVE Goal
  <2>1. UNCHANGED job /\ AskFor(d)
    BY <1>2 DEF UpdateToken, RequestSync, Reconnect
  <2>2. \A c \in Connectors : request'[c] = j <=> request[c] = j
    BY <1>t, <1>w, <2>1 DEF AskFor
  <2> QED
    BY <1>h, <2>1, <2>2
<1>3. ASSUME NEW d \in Connectors, Disconnect(d) PROVE Goal
  <2>1. \A c \in Connectors : request'[c] = j <=> request[c] = j
    BY <1>t, <1>w, <1>3 DEF Disconnect
  <2> QED
    BY <1>h, <1>3, <2>1 DEF Disconnect
<1>4. ASSUME DirectoryChanges \/ UNCHANGED vars PROVE Goal
  <2>1. UNCHANGED <<request, job>>
    BY <1>4 DEF DirectoryChanges, vars
  <2> QED
    BY <1>h, <2>1
<1>5. ASSUME NEW k \in Jobs,
             \/ Begin(k) \/ List(k) \/ RunFails(k) \/ LeaseLost(k) \/ Apply(k) \/ Save(k)
             \/ ProbeRefused(k)
      PROVE  Goal
  <2>1. UNCHANGED <<request, batch>>
    BY <1>5 DEF Begin, List, RunFails, LeaseLost, Apply, Save, ProbeRefused
  <2>2. pc'[j] = "idle" <=> pc[j] = "idle"
    BY <1>5, <1>t DEF Begin, List, RunFails, LeaseLost, Apply, At, Save, ProbeRefused
  <2> QED
    BY <1>h, <2>1, <2>2
<1>6. ASSUME NEW k \in Pollers, ClaimDue(k) \/ FinishPoll(k) PROVE Goal
  <2>1. UNCHANGED request /\ pc'[j] = pc[j] /\ batch'[j] = batch[j]
    BY <1>6, <1>t, <1>w DEF ClaimDue, FinishPoll
  <2> QED
    BY <1>h, <2>1
(* A job that ends, whoever it is: its requests are pending again. *)
<1>7. ASSUME NEW k \in Jobs, batch' = [batch EXCEPT ![k] = << >>],
             pc' = [pc EXCEPT ![k] = "idle"], Redeliver(k)
      PROVE  Goal
  <2>1. CASE k = j
    <3>1. batch'[j] = << >> /\ pc'[j] = "idle" /\ \A c \in Connectors : request'[c] # j
      BY <1>7, <1>t, <1>w, <2>1 DEF Redeliver
    <3> QED
      BY <3>1 DEF Goal
  <2>2. CASE k # j
    <3>1. \A c \in Connectors : request'[c] = j <=> request[c] = j
      BY <1>7, <1>t, <1>w, <2>2 DEF Redeliver
    <3> QED
      BY <1>7, <1>h, <1>t, <2>2, <3>1
  <2> QED
    BY <2>1, <2>2
<1>8. ASSUME NEW k \in Jobs, Stop(k) PROVE Goal
  BY <1>7, <1>8 DEF Stop
<1>9. ASSUME NEW k \in Handlers, FinishEvent(k) PROVE Goal
  <2>1. CASE Redeliver(k) /\ batch' = [batch EXCEPT ![k] = << >>]
             /\ pc' = [pc EXCEPT ![k] = "idle"]
    BY <1>7, <1>w, <2>1
  <2>2. CASE UNCHANGED <<batch, request>> /\ pc' = [pc EXCEPT ![k] = "handled"]
    <3>1. pc[k] # "idle"
      BY <1>9 DEF FinishEvent, At, Outcome
    <3>2. pc'[j] = "idle" <=> pc[j] = "idle"
      BY <1>t, <2>2, <3>1
    <3> QED
      BY <1>h, <2>2, <3>2
  <2> QED
    BY <1>9, <2>1, <2>2 DEF FinishEvent
<1>10. ASSUME NEW k \in Handlers, CompleteEvent(k) PROVE Goal
  <2>1. CASE k = j
    <3>1. batch'[j] = << >> /\ pc'[j] = "idle"
      BY <1>10, <1>t, <2>1 DEF CompleteEvent
    <3>2. \A c \in Connectors : request'[c] # j
      BY <1>10, <1>t, <1>b, <1>w, <2>1 DEF CompleteEvent, Current
    <3> QED
      BY <3>1, <3>2 DEF Goal
  <2>2. CASE k # j
    <3>1. \A c \in Connectors : request'[c] = j <=> request[c] = j
      BY <1>10, <1>t, <1>w, <2>2 DEF CompleteEvent
    <3> QED
      BY <1>10, <1>h, <1>t, <2>2, <3>1 DEF CompleteEvent
  <2> QED
    BY <2>1, <2>2
<1>11. ASSUME NEW k \in Handlers, NEW d \in Connectors, ClaimInstance(k, d) PROVE Goal
  <2>1. CASE k = j
    <3>1. batch'[j] = <<Lease(d)>> /\ pc'[j] = "next"
      BY <1>11, <1>t, <2>1 DEF ClaimInstance
    <3>2. Head(batch'[j]).connector = d /\ batch'[j] = <<[connector |-> d, token |-> token[d]]>>
      BY <3>1 DEF Lease
    <3>3. \A c \in Connectors : request[c] # j
      BY <1>11, <1>b, <2>1 DEF ClaimInstance
    <3>4. \A c \in Connectors : request'[c] = j <=> c = d
      BY <1>11, <1>t, <2>1, <3>3 DEF ClaimInstance
    <3> QED
      BY <1>t, <3>1, <3>2, <3>4 DEF Goal
  <2>2. CASE k # j
    <3>1. \A c \in Connectors : request'[c] = j <=> request[c] = j
      BY <1>11, <1>t, <1>w, <2>2 DEF ClaimInstance
    <3> QED
      BY <1>11, <1>h, <1>t, <2>2, <3>1 DEF ClaimInstance
  <2> QED
    BY <2>1, <2>2
<1>12. ASSUME NEW k \in Jobs, Work(k) \/ RunFails(k) \/ ProbeRefused(k) \/ Stop(k) PROVE Goal
  BY <1>5, <1>6, <1>8, <1>9, <1>10, <1>12 DEF Work
<1>13. Goal
  BY <1>1, <1>2, <1>3, <1>4, <1>11, <1>12 DEF Next
<1> QED
  BY <1>13 DEF Goal

(* A request is a handler's exactly while that handler is at work for the    *)
(* request's connector (OutboxHandler, scheduler.go; the event's lock is the *)
(* delivering transaction's, outbox.go): a disconnect that waits, waits for  *)
(* a handler that is at work on that very connector.                         *)
THEOREM RequestInHandHolds == Spec => []RequestInHand
<1>1. Init => OneLeaseEach /\ RequestInHand
  BY SyncAssumption DEF Init, OneLeaseEach, RequestInHand, Jobs
<1> QED
  BY <1>1, HandStep, SyncTypes, PTL DEF Spec

(* Two handlers are never at work for the same connector. *)
THEOREM OneHandlerEach ==
  Spec => [](\A j, k \in Handlers :
               pc[j] # "idle" /\ pc[k] # "idle" /\ Current(j) = Current(k) => j = k)
<1>1. OneLeaseEach /\ RequestInHand =>
        \A j, k \in Handlers :
          pc[j] # "idle" /\ pc[k] # "idle" /\ Current(j) = Current(k) => j = k
  <2> SUFFICES ASSUME OneLeaseEach, RequestInHand, NEW j \in Handlers, NEW k \in Handlers,
                      pc[j] # "idle", pc[k] # "idle", Current(j) = Current(k)
               PROVE  j = k
    OBVIOUS
  <2>1. PICK c \in Connectors, t \in 1..MaxToken : batch[j] = <<[connector |-> c, token |-> t]>>
    BY DEF OneLeaseEach
  <2>2. Current(j) = c /\ Current(k) = c
    BY <2>1 DEF Current
  <2>3. request[c] = j
    BY <2>2 DEF RequestInHand
  <2>4. request[c] = k
    BY <2>2 DEF RequestInHand
  <2> QED
    BY <2>3, <2>4
<1>2. Init => OneLeaseEach /\ RequestInHand
  BY SyncAssumption DEF Init, OneLeaseEach, RequestInHand, Jobs
<1> QED
  BY <1>1, <1>2, HandStep, SyncTypes, PTL DEF Spec
=============================================================================
