---------------------------- MODULE ConnectorSync ----------------------------
(***************************************************************************)
(* The synchronisation of the FlightHub connectors of a team               *)
(* (internal/connector/lease.go, scheduler.go, sync.go; the runner of       *)
(* internal/flighthub/resource_streams.go and capability_probe_runner.go;   *)
(* the administrator's calls in internal/httpapi/flighthub.go).             *)
(*                                                                         *)
(* Every process polls for connectors that are due (a job in Pollers) and   *)
(* handles requested synchronisations from the outbox (a job in Handlers).  *)
(* A job works under a lease in the connector's row.  The lease's epoch is  *)
(* new with every claim; a job never holds two leases of one connector, so  *)
(* the job itself stands for the epoch.                                    *)
(*                                                                         *)
(* The cloud's directory changes in numbered versions.  It is stored with a *)
(* cursor, the hash of its contents, and contents come back: a device that  *)
(* leaves and returns gives the old hash.                                  *)
(***************************************************************************)
EXTENDS Naturals, SequencesExt

CONSTANTS Connectors, Pollers, Handlers,
          None,        \* no job
          BatchSize,   \* connectors one poll may claim (8 in runtime.go)
          MaxToken,    \* bound: tokens a connector is given
          MaxVersion,  \* bound: changes of the cloud's directory
          MaxFaults,   \* bound: calls that fail, leases that run out under a job at
                       \* work, jobs that stop half-way, tokens that are revoked
          MaxCalls     \* bound: calls of the administrator

Jobs == Pollers \cup Handlers

ASSUME SyncAssumption == /\ None \notin Jobs
                         /\ Pollers \cap Handlers = {}
                         /\ {"none", "pending"} \cap Handlers = {}
                         /\ BatchSize \in Nat \ {0}
                         /\ MaxToken \in Nat \ {0}
                         /\ {MaxVersion, MaxFaults, MaxCalls} \subseteq Nat

VARIABLES
  status,    \* device_adapters.status
  holder,    \* lease_owner with connection_epoch: the job that claimed last, or None
  live,      \* connectors whose lease_expires_at is in the future
  checked,   \* the connectors by last_checked_at, the longest ago first
  due,       \* connectors whose last check is a poll interval ago
  resting,   \* connectors whose inventory has its next_attempt_at in the future
  token,     \* the token stored in the row
  accepted,  \* the oldest token the cloud accepts
  request,   \* the connector.sync.requested event: none, pending, or whose
  closing,   \* connectors whose row a disconnect has locked
  directory, \* the version whose devices are stored, and its cursor
  cloud,     \* the version the cloud has
  batch,     \* a job's leases in turn: the connector, and the token read with it
  pc,        \* where the job is with the first of them
  base,      \* the cursor it started from
  saw,       \* the version it was given
  faults,    \* faults so far
  calls      \* calls of the administrator so far

row   == <<status, holder, live, checked, due, token>>
job   == <<batch, pc, base, saw>>
world == <<accepted, cloud, faults, calls>>
vars  == <<row, resting, request, closing, directory, job, world>>

Usable == {"connecting", "connected", "degraded"}
Points == {"idle", "next", "listing", "applying", "saving",
           "succeeded", "failed", "refused", "handled"}

Cursor(version) == version % 2

Current(j)    == Head(batch[j]).connector
Working(j)    == batch[j] # << >> /\ pc[j] # "handled"
Goto(j, point) == pc' = [pc EXCEPT ![j] = point]

(* The cursor and the listing serve until the batch is applied. *)
Forget(j) == base' = [base EXCEPT ![j] = 0] /\ saw' = [saw EXCEPT ![j] = 0]

Fault   == faults < MaxFaults /\ faults' = faults + 1 /\ UNCHANGED calls
NoFault == UNCHANGED <<faults, calls>>
Called  == calls < MaxCalls /\ calls' = calls + 1 /\ UNCHANGED faults

Init == /\ status    = [c \in Connectors |-> "connecting"]
        /\ holder    = [c \in Connectors |-> None]
        /\ live      = {}
        /\ checked   = SetToSeq(Connectors)
        /\ due       = Connectors
        /\ resting   = {}
        /\ token     = [c \in Connectors |-> 1]
        /\ accepted  = [c \in Connectors |-> 1]
        /\ request   = [c \in Connectors |-> "pending"]
        /\ closing   = {}
        /\ directory = [c \in Connectors |-> 0]
        /\ cloud     = 0
        /\ batch     = [j \in Jobs |-> << >>]
        /\ pc        = [j \in Jobs |-> "idle"]
        /\ base      = [j \in Jobs |-> 0]
        /\ saw       = [j \in Jobs |-> 0]
        /\ faults    = 0
        /\ calls     = 0

-----------------------------------------------------------------------------
(* Time, the cloud, and processes that stop. *)

PollIntervalOver(c) == /\ c \notin due /\ due' = due \cup {c}
                       /\ UNCHANGED <<status, holder, live, checked, token>>
                       /\ UNCHANGED <<resting, request, closing, directory, job, world>>

RestOver(c) == /\ c \in resting /\ resting' = resting \ {c}
               /\ UNCHANGED <<row, request, closing, directory, job, world>>

(* A minute without a renewal; a job renews the lease it works under only. *)
Renewed(c) == \E j \in Jobs : Working(j) /\ Current(j) = c /\ holder[c] = j

LeaseExpires(c) == /\ c \in live /\ live' = live \ {c}
                   /\ IF Renewed(c) THEN Fault ELSE NoFault
                   /\ UNCHANGED <<status, holder, checked, due, token, accepted, cloud>>
                   /\ UNCHANGED <<resting, request, closing, directory, job>>

DirectoryChanges == /\ cloud < MaxVersion /\ cloud' = cloud + 1
                    /\ UNCHANGED <<row, resting, request, closing, directory, job,
                                   accepted, faults, calls>>

TokenRevoked(c) == /\ Fault
                   /\ token[c] < MaxToken /\ accepted[c] <= token[c]
                   /\ accepted' = [accepted EXCEPT ![c] = token[c] + 1]
                   /\ UNCHANGED <<row, resting, request, closing, directory, job, cloud>>

(* The lease stays for recovery, the event is delivered again. *)
Redeliver(j) == request' = [c \in Connectors |-> IF request[c] = j THEN "pending" ELSE request[c]]

Stop(j) == /\ pc[j] # "idle"
           /\ Fault
           /\ batch' = [batch EXCEPT ![j] = << >>] /\ Goto(j, "idle")
           /\ Redeliver(j)
           /\ Forget(j)
           /\ UNCHANGED <<row, resting, closing, directory, accepted, cloud>>

-----------------------------------------------------------------------------
(* The administrator.  Every call locks the connector's row. *)

JustChecked(c) == checked' = Append(Remove(checked, c), c)

(* queueFlightHubSync: one request that is queued or in progress is enough. *)
AskFor(c) == request' = [request EXCEPT ![c] = IF @ = "none" THEN "pending" ELSE @]

UpdateToken(c) == /\ Called
                  /\ c \notin closing
                  /\ token[c] < MaxToken
                  /\ token' = [token EXCEPT ![c] = @ + 1]
                  /\ status' = [status EXCEPT ![c] = "connecting"]
                  /\ due' = due \ {c} /\ JustChecked(c)
                  /\ AskFor(c)
                  /\ UNCHANGED <<holder, live, resting, closing, directory, job,
                                 accepted, cloud>>

(* "Synchronise now", and the capability probe. *)
RequestSync(c) == /\ Called
                  /\ c \notin closing
                  /\ status[c] # "disabled"
                  /\ AskFor(c)
                  /\ UNCHANGED <<row, resting, closing, directory, job, accepted, cloud>>

Reconnect(c) == /\ Called
                /\ c \notin closing
                /\ status[c] = "disabled"
                /\ status' = [status EXCEPT ![c] = "connecting"]
                /\ holder' = [holder EXCEPT ![c] = None] /\ live' = live \ {c}
                /\ due' = due \cup {c}
                /\ checked' = <<c>> \o Remove(checked, c)
                /\ AskFor(c)
                /\ UNCHANGED <<token, resting, closing, directory, job, accepted, cloud>>

(* Disconnecting locks the connector first and cancels its events last.  The *)
(* event of a handler that is at work is locked by the transaction that      *)
(* delivers it (outbox.Process), so the call waits, until its request times  *)
(* out and everything is rolled back.                                       *)
BeginDisconnect(c) == /\ Called
                      /\ c \notin closing
                      /\ closing' = closing \cup {c}
                      /\ UNCHANGED <<row, resting, request, directory, job, accepted, cloud>>

Disconnect(c) == /\ c \in closing /\ request[c] \notin Handlers
                 /\ closing' = closing \ {c}
                 /\ status' = [status EXCEPT ![c] = "disabled"]
                 /\ holder' = [holder EXCEPT ![c] = None] /\ live' = live \ {c}
                 /\ request' = [request EXCEPT ![c] = "none"]
                 /\ UNCHANGED <<checked, due, token, resting, directory, job, world>>

DisconnectTimesOut(c) == /\ c \in closing /\ request[c] \in Handlers
                         /\ closing' = closing \ {c}
                         /\ UNCHANGED <<row, resting, request, directory, job, world>>

-----------------------------------------------------------------------------
(* SQLLeaseRepository *)

Lease(c) == [connector |-> c, token |-> token[c]]

Free(c) == c \notin live /\ c \notin closing

(* Mutant: only a lease that was given back is claimed. *)
ReturnedOnlyMutant(c) == status[c] \in Usable /\ c \in due /\ holder[c] = None /\ Free(c)

Candidate(c) == status[c] \in Usable /\ c \in due /\ Free(c)

(* The first BatchSize candidates, those checked the longest ago first. *)
DueConnectors == LET found == SelectSeq(checked, Candidate)
                 IN SubSeq(found, 1, IF BatchSize < Len(found) THEN BatchSize ELSE Len(found))

Claimed == {c \in Connectors : Candidate(c) /\ c \in ToSet(DueConnectors)}

ClaimDue(j) == /\ pc[j] = "idle"
               /\ DueConnectors # << >>
               /\ holder' = [c \in Connectors |-> IF c \in Claimed THEN j ELSE holder[c]]
               /\ live' = live \cup Claimed
               /\ batch' = [batch EXCEPT ![j] = [i \in DOMAIN DueConnectors |->
                                                   Lease(DueConnectors[i])]]
               /\ Goto(j, "next")
               /\ UNCHANGED <<status, checked, due, token, base, saw>>
               /\ UNCHANGED <<resting, request, closing, directory, world>>

Claimable(c) == status[c] \in Usable \cup {"failed"} /\ Free(c)

(* OutboxHandler: an event that finds the lease taken is tried again later.  *)
(* The handler locks the event first, a disconnect the row: when both have   *)
(* begun they wait for each other until the disconnect's request times out   *)
(* (Disconnect and DisconnectTimesOut), so no claim is made meanwhile.       *)
ClaimInstance(j, c) == /\ pc[j] = "idle"
                       /\ request[c] = "pending" /\ Claimable(c)
                       /\ request' = [request EXCEPT ![c] = j]
                       /\ holder' = [holder EXCEPT ![c] = j]
                       /\ live' = live \cup {c}
                       /\ batch' = [batch EXCEPT ![j] = <<Lease(c)>>]
                       /\ Goto(j, "next")
                       /\ UNCHANGED <<status, checked, due, token, base, saw>>
                       /\ UNCHANGED <<resting, closing, directory, world>>

-----------------------------------------------------------------------------
(* executeLease: the runner's steps, each a transaction or a call. *)

(* Mutant: the epoch is not compared, the cursor is enough. *)
NoEpochMutant(j, c) == status[c] \in Usable

Writable(j, c) == status[c] \in Usable /\ holder[c] = j /\ c \in live

(* A statement that locks or updates the row waits while a disconnect has it; *)
(* one that reads it goes on.                                               *)
At(j, point) == pc[j] = point /\ Current(j) \notin closing

(* ScheduledInventoryRunner and CurrentCursor: between two polls of the      *)
(* directory, and after a failure, the run has nothing to do and succeeds.   *)
Begin(j) == /\ pc[j] = "next"
            /\ LET c == Current(j)
               IN IF c \in resting THEN Goto(j, "succeeded") /\ UNCHANGED base
                  ELSE IF Writable(j, c)
                       THEN Goto(j, "listing") /\ base' = [base EXCEPT ![j] = Cursor(directory[c])]
                       ELSE Goto(j, "failed") /\ UNCHANGED base
            /\ UNCHANGED <<row, resting, request, closing, directory, batch, saw, world>>

(* The backoff is saved while the lease is the job's. *)
RestAfterFailure(j) ==
  resting' = IF Writable(j, Current(j)) THEN resting \cup {Current(j)} ELSE resting

(* The cloud answers, or refuses the token. *)
List(j) == /\ pc[j] = "listing"
           /\ IF Head(batch[j]).token >= accepted[Current(j)]
              THEN /\ Goto(j, "applying") /\ saw' = [saw EXCEPT ![j] = cloud]
                   /\ UNCHANGED <<base, resting>>
              ELSE Goto(j, "refused") /\ Forget(j) /\ RestAfterFailure(j)
           /\ UNCHANGED <<row, request, closing, directory, batch, world>>

(* A call to the cloud or a statement fails; a renewal that fails for        *)
(* another reason than the lease cancels the run just so, and so does a      *)
(* capability probe that is not refused.  The backoff is saved, unless that  *)
(* fails too, or the inventory was done already.                            *)
RunFails(j) == /\ pc[j] \in {"next", "listing", "applying", "saving", "succeeded"}
               /\ Fault
               /\ Goto(j, "failed") /\ Forget(j)
               /\ \/ UNCHANGED resting
                  \/ pc[j] # "succeeded" /\ RestAfterFailure(j)
               /\ UNCHANGED <<row, request, closing, directory, batch, accepted, cloud>>

(* A renewal that finds the lease lost cancels the run. *)
LeaseLost(j) == /\ pc[j] \in {"listing", "applying", "saving"}
                /\ ~Writable(j, Current(j))
                /\ Goto(j, "failed") /\ Forget(j)
                /\ UNCHANGED <<row, resting, request, closing, directory, batch, world>>

(* ApplyBatch *)
Apply(j) == /\ At(j, "applying")
            /\ LET c == Current(j)
               IN IF Writable(j, c) /\ base[j] = Cursor(directory[c])
                  THEN /\ directory' = [directory EXCEPT ![c] = saw[j]]
                       /\ Goto(j, "saving")
                  ELSE Goto(j, "failed") /\ UNCHANGED directory
            /\ Forget(j)
            /\ UNCHANGED <<row, resting, request, closing, batch, world>>

(* SaveResourceSyncState, before the capability probe. *)
Save(j) == /\ pc[j] = "saving"
           /\ LET c == Current(j)
              IN IF Writable(j, c) THEN resting' = resting \cup {c} /\ Goto(j, "succeeded")
                                   ELSE UNCHANGED resting /\ Goto(j, "failed")
           /\ UNCHANGED <<row, request, closing, directory, batch, base, saw, world>>

(* The probe calls the cloud once in a quarter of an hour, even between      *)
(* polls.  The scopes of a token the cloud accepts are not taken away.       *)
ProbeRefused(j) == /\ pc[j] = "succeeded"
                   /\ Head(batch[j]).token < accepted[Current(j)]
                   /\ Goto(j, "refused")
                   /\ UNCHANGED <<row, resting, request, closing, directory, batch, base, saw,
                                  world>>

-----------------------------------------------------------------------------
(* SQLSyncOutcomeStore, and what becomes of the event. *)

Outcome == [succeeded |-> "connected", failed |-> "degraded", refused |-> "failed"]

(* Mutant: the outcome is recorded whoever has the lease. *)
AnyHolderMutant(j, c) == TRUE

Recordable(j, c) == holder[c] = j /\ c \in live

Record(j, c) == IF Recordable(j, c)
                THEN /\ status' = [status EXCEPT ![c] = Outcome[pc[j]]]
                     /\ holder' = [holder EXCEPT ![c] = None] /\ live' = live \ {c}
                     /\ due' = due \ {c} /\ JustChecked(c)
                ELSE UNCHANGED <<status, holder, live, due, checked>>

(* A poll goes on with its next lease. *)
FinishPoll(j) == /\ \E point \in DOMAIN Outcome : At(j, point)
                 /\ Record(j, Current(j))
                 /\ batch' = [batch EXCEPT ![j] = Tail(@)]
                 /\ Goto(j, IF Tail(batch[j]) = << >> THEN "idle" ELSE "next")
                 /\ UNCHANGED <<token, base, saw, resting, request, closing, directory,
                                world>>

(* A terminal failure handles the event too, once it is recorded; any other  *)
(* error leaves it for another attempt.                                     *)
FinishEvent(j) == /\ \E point \in DOMAIN Outcome : At(j, point)
                  /\ LET c == Current(j)
                         handled == Recordable(j, c) /\ pc[j] # "failed"
                     IN /\ Record(j, c)
                        /\ IF handled THEN Goto(j, "handled") /\ UNCHANGED <<batch, request>>
                           ELSE /\ Goto(j, "idle")
                                /\ batch' = [batch EXCEPT ![j] = << >>]
                                /\ Redeliver(j)
                  /\ UNCHANGED <<token, base, saw, resting, closing, directory, world>>

(* outbox.Process commits, and the event is completed. *)
CompleteEvent(j) == /\ pc[j] = "handled"
                    /\ Goto(j, "idle")
                    /\ batch' = [batch EXCEPT ![j] = << >>]
                    /\ request' = [request EXCEPT ![Current(j)] = IF @ = j THEN "none" ELSE @]
                    /\ UNCHANGED <<row, resting, closing, directory, base, saw, world>>

-----------------------------------------------------------------------------
Work(j) == \/ Begin(j) \/ List(j) \/ LeaseLost(j) \/ Apply(j) \/ Save(j)
           \/ j \in Pollers /\ (ClaimDue(j) \/ FinishPoll(j))
           \/ j \in Handlers /\ (FinishEvent(j) \/ CompleteEvent(j))

Next == \/ \E j \in Jobs : Work(j) \/ RunFails(j) \/ ProbeRefused(j) \/ Stop(j)
        \/ \E j \in Handlers, c \in Connectors : ClaimInstance(j, c)
        \/ \E c \in Connectors :
             \/ PollIntervalOver(c) \/ RestOver(c) \/ LeaseExpires(c) \/ TokenRevoked(c)
             \/ UpdateToken(c) \/ RequestSync(c) \/ Reconnect(c)
             \/ BeginDisconnect(c) \/ Disconnect(c) \/ DisconnectTimesOut(c)
        \/ DirectoryChanges

Spec == Init /\ [][Next]_vars

(* Jobs go on with their work, an expired lease is noticed, a request to the *)
(* server ends.  Nothing says when a poll interval is over, when the cloud   *)
(* changes or fails, or what the administrator does.                        *)
FairSpec == /\ Spec
            /\ \A j \in Jobs : WF_vars(Work(j))
            /\ \A c \in Connectors : /\ WF_vars(\E j \in Handlers : ClaimInstance(j, c))
                                     /\ WF_vars(~Renewed(c) /\ LeaseExpires(c))
                                     /\ WF_vars(Disconnect(c) \/ DisconnectTimesOut(c))

-----------------------------------------------------------------------------
TypeOK == /\ status \in [Connectors -> Usable \cup {"failed", "disabled"}]
          /\ holder \in [Connectors -> Jobs \cup {None}]
          /\ live \subseteq Connectors /\ due \subseteq Connectors
          /\ resting \subseteq Connectors /\ closing \subseteq Connectors
          /\ token \in [Connectors -> 1..MaxToken]
          /\ accepted \in [Connectors -> 1..MaxToken]
          /\ request \in [Connectors -> {"none", "pending"} \cup Handlers]
          /\ cloud \in 0..MaxVersion
          /\ saw \in [Jobs -> 0..cloud]
          /\ directory \in [Connectors -> 0..cloud]
          /\ pc \in [Jobs -> Points] /\ DOMAIN batch = Jobs
          /\ faults \in 0..MaxFaults /\ calls \in 0..MaxCalls

(* The facts that make the following inductive: a disconnected connector is  *)
(* nobody's, and the holder that is about to apply a listing has one that is *)
(* no older than what is stored.                                             *)
DisabledIsFree == \A c \in Connectors : status[c] = "disabled" => c \notin live

ListingIsRecent ==
  \A j \in Jobs, c \in Connectors :
    pc[j] = "applying" /\ Current(j) = c /\ holder[c] = j => directory[c] <= saw[j]

SyncInv == TypeOK /\ DisabledIsFree /\ ListingIsRecent

(* A handler has one lease at a time, and none of its own before and after.  *)
OneLeaseEach ==
  \A j \in Handlers : IF pc[j] = "idle" THEN batch[j] = << >>
                       ELSE \E c \in Connectors, t \in 1..MaxToken :
                              batch[j] = <<[connector |-> c, token |-> t]>>

(* A request is a handler's exactly while the handler is at work for its     *)
(* connector: a handler that stops, fails or loses its lease leaves no        *)
(* request behind for a disconnect to wait for, nobody takes a request away   *)
(* from a handler at work, and two handlers never work for one connector.    *)
RequestInHand ==
  \A j \in Handlers, c \in Connectors :
    request[c] = j <=> pc[j] # "idle" /\ Current(j) = c

(* What is stored of the cloud's directory only gets newer: a job that was   *)
(* slow does not put an older listing over a newer one, not even when the    *)
(* cursor it started from has come back.                                    *)
ListingsAdvance == [][\A c \in Connectors : directory'[c] >= directory[c]]_directory

(* A synchronisation that was under way when the connector was disconnected  *)
(* does not bring it back, nor write to its directory.                      *)
DisconnectedIsQuiet == [][\A c \in Connectors :
                            status[c] = "disabled" => /\ status'[c] \in {"disabled", "connecting"}
                                                      /\ directory'[c] = directory[c]]_vars

(* A connector that is due gets checked, whatever is claimed before it in    *)
(* the same batch, and whichever job loses it.                              *)
DueIsChecked == \A c \in Connectors :
                  (c \in due /\ status[c] \in Usable) ~> (c \notin due \/ status[c] \notin Usable)

(* A request for a connector that has failed comes to an end ("cannot turn   *)
(* into repeated CONNECTOR_LEASE_UNAVAILABLE retries", lease.go:107).        *)
FailedRequestEnds == \A c \in Connectors :
                       (status[c] = "failed" /\ request[c] # "none")
                         ~> (status[c] # "failed" \/ request[c] = "none")

(* A connector that failed with its former token does not stay failed with a *)
(* good one: replacing the token requests a synchronisation                 *)
(* (add-dji-flighthub-connector, "更新 Token 成功").                          *)
GoodTokenRecovers == \A c \in Connectors :
                       (status[c] = "failed" /\ token[c] >= accepted[c]) ~> status[c] # "failed"

(* A disconnect that has begun disconnects (the same document, "用户断开连接"). *)
DisconnectTakes == \A c \in Connectors : c \in closing ~> status[c] = "disabled"
=============================================================================
