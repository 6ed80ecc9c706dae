--------------------------- MODULE ControlSession ---------------------------
(***************************************************************************)
(* Ownership of remote control over one device through the FlightHub cloud  *)
(* (internal/flighthub/control_session.go, the HTTP handlers of             *)
(* httpapi/flighthub_control_sessions.go and the table of migration 0067).  *)
(*                                                                         *)
(* A session is asked for, acquired by one call to the cloud, kept alive by *)
(* heartbeats and given back by one call to the cloud.  The calls are made  *)
(* by handlers of outbox events: each session has up to three events, which *)
(* different workers may handle at the same time; one event has at most one *)
(* handler at a time and comes back when its handler fails (Outbox).        *)
(* The handler ignores the transaction of the outbox: every statement below *)
(* commits on its own, and the cloud is called between two of them.         *)
(*                                                                         *)
(* All sessions are of one device: sessions of two devices share nothing.   *)
(* The cloud serves a request before the client gives up on it, or never.   *)
(***************************************************************************)
EXTENDS Naturals

CONSTANTS Sessions,    \* rows of connector_control_sessions, all of one device
          None,        \* nobody has control in the cloud
          MaxFailures  \* bound: handler runs that end in an error or a crash

ASSUME ControlAssumption == None \notin Sessions /\ MaxFailures \in Nat

VARIABLES
  status,    \* session.status, "absent" before the insert
  acquires,  \* session.acquire_attempt_count
  releases,  \* session.release_attempt_count
  lease,     \* of the live session, since its last heartbeat: "fresh" under half
             \* a second, "over" past lease_expires_at or absolute_expires_at
  event,     \* per session and kind: absent, pending, done, or its handler's point
  cloud,     \* the session the cloud last gave control to, or None
  failures,  \* handler runs that failed so far
  calls,     \* ghost: calls that left for the cloud, per session and kind
  activated, \* ghost: sessions that were active
  confirmed, \* ghost: sessions whose release the cloud confirmed
  hasty,     \* ghost: sessions released by their holder while being acquired
  strays     \* ghost: sessions that ended with their release call under way

row   == <<status, acquires, releases>>
ghost == <<calls, activated, confirmed, hasty, strays>>
vars  == <<status, acquires, releases, lease, event, cloud, failures,
           calls, activated, confirmed, hasty, strays>>

Statuses == {"absent", "requested", "acquiring", "active", "releasing",
             "released", "failed"}
Live     == {"requested", "acquiring", "active", "releasing"}
Ended    == {"released", "failed"}
Kinds    == {"acquire", "release", "auto-release"}

(* Where a handler is: what it has read, or learned, and will act on next. *)
Points == {"gated", "refused", "interrupted", "releasable", "attempted",
           "acquireCall", "accepted", "nacked", "unknown",
           "releaseCall", "givenBack", "unanswered"}
EventStates == {"absent", "pending", "done"} \cup Points

Init == /\ status    = [s \in Sessions |-> "absent"]
        /\ acquires  = [s \in Sessions |-> 0]
        /\ releases  = [s \in Sessions |-> 0]
        /\ lease     = "fresh"
        /\ event     = [s \in Sessions |-> [k \in Kinds |-> "absent"]]
        /\ cloud     = None
        /\ failures  = 0
        /\ calls     = [s \in Sessions |-> [kind \in {"acquire", "release"} |-> 0]]
        /\ activated = {}
        /\ confirmed = {}
        /\ hasty     = {}
        /\ strays    = {}

Become(s, new) == status' = [status EXCEPT ![s] = new]
Goto(s, k, point) == event' = [event EXCEPT ![s][k] = point]
Call(s, kind)  == calls' = [calls EXCEPT ![s][kind] = @ + 1]

(* insert into outbox_events ... on conflict(event_id) do nothing *)
WithEvent(s, kind) ==
  [event EXCEPT ![s][kind] = IF @ = "absent" THEN "pending" ELSE @]

(* The handler returns.  Its event is done, unless the outbox transaction is *)
(* lost with what it wrote already committed.                                *)
Returns(s, k, events) ==
  \/ event' = [events EXCEPT ![s][k] = "done"] /\ UNCHANGED failures
  \/ /\ failures < MaxFailures /\ failures' = failures + 1
     /\ event' = [events EXCEPT ![s][k] = "pending"]

-----------------------------------------------------------------------------
(* Time, once a session is active.  How long it takes before that is in the *)
(* nondeterminism of Load.                                                   *)

HalfASecond(s) == /\ status[s] = "active" /\ lease = "fresh"
                  /\ lease' = "ageing"
                  /\ UNCHANGED <<row, event, cloud, failures, ghost>>

(* Fifteen seconds without a heartbeat, or five minutes in all. *)
LeaseExpires(s) == /\ status[s] = "active" /\ lease # "over"
                   /\ lease' = "over"
                   /\ UNCHANGED <<row, event, cloud, failures, ghost>>

-----------------------------------------------------------------------------
(* The HTTP handlers.  Whether the connector, the feature, the device, its   *)
(* telemetry, the approval and the holder's permission allow a request comes *)
(* and goes freely: here a request that is made is one that is allowed.      *)

(* POST, under the lock of the device row: no other session may be live. *)
Create(s) == /\ status[s] = "absent"
             /\ \A t \in Sessions : status[t] \notin Live
             /\ Become(s, "requested")
             /\ lease' = "fresh"
             /\ event' = WithEvent(s, "acquire")
             /\ UNCHANGED <<acquires, releases, cloud, failures, ghost>>

(* PATCH heartbeat: at least half a second after the last one. *)
Heartbeat(s) == /\ status[s] = "active" /\ lease = "ageing"
                /\ lease' = "fresh"
                /\ UNCHANGED <<row, event, cloud, failures, ghost>>

(* PATCH release by the holder: from every live status. *)
Release(s) == /\ status[s] \in Live
              /\ Become(s, "releasing")
              /\ event' = WithEvent(s, "release")
              /\ hasty' = IF status[s] = "acquiring" THEN hasty \cup {s} ELSE hasty
              /\ UNCHANGED <<acquires, releases, lease, cloud, failures,
                             calls, activated, confirmed, strays>>

(* Sweep, of an expired session ... *)
Swept(s) == /\ status[s] = "active"
            /\ Become(s, "releasing")
            /\ event' = WithEvent(s, "auto-release")
            /\ UNCHANGED <<acquires, releases, lease, cloud, failures, ghost>>

SweepExpired(s) == lease = "over" /\ Swept(s)

(* ... and of one whose holder has lost the permission. *)
SweepRevoked(s) == Swept(s)

-----------------------------------------------------------------------------
(* The outbox delivers an event: Load, and the branch on what it read. *)

(* Any gate may be found closed, also a lease that ran out in the meantime. *)
Branch(s) ==
  CASE status[s] = "requested" -> {"gated", "refused"}
    [] status[s] = "acquiring" -> {"interrupted"}
    [] status[s] = "releasing" -> IF releases[s] > 0 THEN {"attempted"} ELSE {"releasable"}
    [] OTHER -> {}

Load(s, k) ==
  /\ event[s][k] = "pending"
  /\ IF Branch(s) = {} THEN Returns(s, k, event)
     ELSE /\ \E point \in Branch(s) : Goto(s, k, point)
          /\ UNCHANGED failures
  /\ UNCHANGED <<row, lease, cloud, ghost>>

(* A database error, a crash or a lost outbox lease on the way: what was     *)
(* written and called before stays, and the event comes back.  The outbox    *)
(* would give up only after more than MaxFailures of them.                   *)
Fail(s, k) ==
  /\ event[s][k] \in Points
  /\ failures < MaxFailures /\ failures' = failures + 1
  /\ Goto(s, k, "pending")
  /\ UNCHANGED <<row, lease, cloud, ghost>>

-----------------------------------------------------------------------------
(* acquire *)

Acquirable(s) == status[s] = "requested" /\ acquires[s] = 0

(* BeginAcquire, then the token: with one the request leaves, without one   *)
(* the session fails like a nacked one.                                      *)
BeginAcquire(s, k) ==
  /\ event[s][k] = "gated"
  /\ Acquirable(s)
  /\ Become(s, "acquiring")
  /\ acquires' = [acquires EXCEPT ![s] = 1]
  /\ \/ Goto(s, k, "acquireCall") /\ Call(s, "acquire")
     \/ Goto(s, k, "nacked") /\ UNCHANGED calls
  /\ UNCHANGED <<releases, lease, cloud, failures, activated, confirmed, hasty, strays>>

(* BeginAcquire finds the session released: nothing is called. *)
AcquireLost(s, k) ==
  /\ event[s][k] = "gated"
  /\ ~Acquirable(s)
  /\ Returns(s, k, event)
  /\ UNCHANGED <<row, lease, cloud, ghost>>

(* The cloud serves the request, or it is lost; the answer may be lost too. *)
(* An answer that does not show every control asked for counts as unknown.  *)
AcquireServed(s, k) ==
  /\ event[s][k] = "acquireCall"
  /\ \/ cloud' = s /\ \E point \in {"accepted", "unknown"} : Goto(s, k, point)
     \/ UNCHANGED cloud /\ \E point \in {"nacked", "unknown"} : Goto(s, k, point)
  /\ UNCHANGED <<row, lease, failures, ghost>>

(* Mutant: Activate does not look at the status. *)
AlwaysActivateMutant(s) == TRUE

(* Activate's condition: nobody has released the session since. *)
Activatable(s) == status[s] = "acquiring"

Activate(s, k) ==
  /\ event[s][k] = "accepted"
  /\ IF Activatable(s)
     THEN Become(s, "active") /\ activated' = activated \cup {s}
     ELSE UNCHANGED <<status, activated>>
  /\ Returns(s, k, event)
  /\ UNCHANGED <<acquires, releases, lease, cloud, calls, confirmed, hasty, strays>>

(* The statuses Finish closes. *)
Finishable == {"requested", "acquiring", "releasing"}

(* Finish(failed): the gates were closed, no token, or a definitive nack. *)
Refuse(s, k) ==
  /\ event[s][k] \in {"refused", "nacked"}
  /\ IF status[s] \in Finishable
     THEN /\ Become(s, "failed")
          /\ strays' = IF \E l \in Kinds : event[s][l] = "releaseCall"
                       THEN strays \cup {s} ELSE strays
     ELSE UNCHANGED <<status, strays>>
  /\ Returns(s, k, event)
  /\ UNCHANGED <<acquires, releases, lease, cloud, calls, activated, confirmed, hasty>>

(* Mutant: an acquire of unknown result fails the session at once. *)
GiveUpMutant(s, k) ==
  /\ event[s][k] \in {"interrupted", "unknown"}
  /\ IF status[s] \in Finishable THEN Become(s, "failed") ELSE UNCHANGED status
  /\ Returns(s, k, event)
  /\ UNCHANGED <<acquires, releases, lease, cloud, ghost>>

(* Mutant: the release is queued without its event. *)
NoEventMutant(s, k) ==
  /\ event[s][k] \in {"interrupted", "unknown"}
  /\ IF status[s] \in {"requested", "acquiring", "active"}
     THEN Become(s, "releasing") ELSE UNCHANGED status
  /\ Returns(s, k, event)
  /\ UNCHANGED <<acquires, releases, lease, cloud, ghost>>

(* QueueRelease after an interrupted acquire or one with an unknown result. *)
(* A session that was released or has ended in the meantime stays as it is. *)
QueueRelease(s, k) ==
  /\ event[s][k] \in {"interrupted", "unknown"}
  /\ IF status[s] \in {"requested", "acquiring", "active"}
     THEN Become(s, "releasing") /\ Returns(s, k, WithEvent(s, "auto-release"))
     ELSE UNCHANGED status /\ Returns(s, k, event)
  /\ UNCHANGED <<acquires, releases, lease, cloud, ghost>>

-----------------------------------------------------------------------------
(* release *)

(* Mutant: the attempt count is not part of BeginRelease's condition. *)
AgainMutant(s) == status[s] = "releasing"

Releasable(s) == status[s] = "releasing" /\ releases[s] = 0

(* BeginRelease, then the token and the call. *)
BeginRelease(s, k) ==
  /\ event[s][k] = "releasable"
  /\ Releasable(s)
  /\ releases' = [releases EXCEPT ![s] = 1]
  /\ \/ Goto(s, k, "releaseCall") /\ Call(s, "release")
     \/ Goto(s, k, "unanswered") /\ UNCHANGED calls
  /\ UNCHANGED <<status, acquires, lease, cloud, failures,
                 activated, confirmed, hasty, strays>>

ReleaseLost(s, k) ==
  /\ event[s][k] = "releasable"
  /\ ~Releasable(s)
  /\ Returns(s, k, event)
  /\ UNCHANGED <<row, lease, cloud, ghost>>

(* The cloud takes control back, whoever it was given to, or does not. *)
ReleaseServed(s, k) ==
  /\ event[s][k] = "releaseCall"
  /\ \/ cloud' = None /\ Goto(s, k, "givenBack") /\ confirmed' = confirmed \cup {s}
     \/ cloud' \in {None, cloud} /\ Goto(s, k, "unanswered") /\ UNCHANGED confirmed
  /\ UNCHANGED <<row, lease, failures, calls, activated, hasty, strays>>

(* RecordReleaseUnconfirmed: only the failure code changes. *)
Unconfirmed(s, k) ==
  /\ event[s][k] \in {"unanswered", "attempted"}
  /\ Returns(s, k, event)
  /\ UNCHANGED <<row, lease, cloud, ghost>>

(* Finish(released). *)
FinishRelease(s, k) ==
  /\ event[s][k] = "givenBack"
  /\ IF status[s] \in Finishable THEN Become(s, "released") ELSE UNCHANGED status
  /\ Returns(s, k, event)
  /\ UNCHANGED <<acquires, releases, lease, cloud, ghost>>

-----------------------------------------------------------------------------
Handle(s, k) ==
  \/ Load(s, k)
  \/ BeginAcquire(s, k) \/ AcquireLost(s, k) \/ AcquireServed(s, k)
  \/ Activate(s, k) \/ Refuse(s, k) \/ QueueRelease(s, k)
  \/ BeginRelease(s, k) \/ ReleaseLost(s, k) \/ ReleaseServed(s, k)
  \/ Unconfirmed(s, k) \/ FinishRelease(s, k)

Next == \/ \E s \in Sessions : \/ HalfASecond(s) \/ LeaseExpires(s)
                               \/ Create(s) \/ Heartbeat(s) \/ Release(s)
                               \/ SweepExpired(s) \/ SweepRevoked(s)
        \/ \E s \in Sessions, k \in Kinds : Handle(s, k) \/ Fail(s, k)

Spec == Init /\ [][Next]_vars

(* Five minutes pass, Run sweeps every second, and the outbox brings every   *)
(* event back until it is handled (Outbox!Settles).  Nobody has to send      *)
(* heartbeats or to release anything, and nobody is revoked.                 *)
Fairness == /\ WF_vars(\E s \in Sessions : LeaseExpires(s))
            /\ WF_vars(\E s \in Sessions : SweepExpired(s))
            /\ WF_vars(\E s \in Sessions, k \in Kinds : Handle(s, k))

FairSpec == Spec /\ Fairness

-----------------------------------------------------------------------------
(* Properties. *)

(* The types of the variables. *)
TypeOK == /\ status \in [Sessions -> Statuses]
          /\ acquires \in [Sessions -> 0..1]
          /\ releases \in [Sessions -> 0..1]
          /\ lease \in {"fresh", "ageing", "over"}
          /\ event \in [Sessions -> [Kinds -> EventStates]]
          /\ cloud \in Sessions \cup {None}
          /\ failures \in Nat
          /\ calls \in [Sessions -> [{"acquire", "release"} -> Nat]]
          /\ activated \subseteq Sessions
          /\ confirmed \subseteq Sessions
          /\ hasty \subseteq Sessions
          /\ strays \subseteq Sessions

(* Over retries, crashes and concurrent handlers of its three events, a     *)
(* session calls the cloud at most once to acquire and at most once to      *)
(* release (TestControlSessionAcquireAndReleaseAreSingleAttempt).           *)
SingleAttempt == \A s \in Sessions, kind \in {"acquire", "release"} : calls[s][kind] <= 1

(* A session that ends does not leave the device under its control in the   *)
(* cloud, unless its holder released it while the acquire call was out: the *)
(* release can then be served before the acquire, and the session ends as   *)
(* released while the cloud goes on holding control for it.                 *)
OrphansOnlyByHaste == \A s \in Sessions : status[s] \in Ended /\ cloud = s => s \in hasty

(* What was active ends only when the cloud has confirmed the release: an    *)
(* unknown result keeps the session releasing, and with it the device        *)
(* (TestControlSessionUnknownReleaseKeepsExclusiveQuarantine).               *)
ActivatedEndsConfirmed ==
  \A s \in activated : status[s] \in Ended => s \in confirmed

(* The cloud takes control away from an active session only by the call of   *)
(* another session of the device that was released in haste, or that ended   *)
(* while its release call was under way.                                     *)
ActiveIsHeld ==
  \A s \in Sessions :
    status[s] = "active" => cloud = s \/ (hasty \cup strays) \ {s} # {}

(* Whatever stopped on the way, somebody is left to go on with a session     *)
(* that has not ended: the event of its acquire, whose handler is where the   *)
(* status says, or one of a release that has not yet been attempted.          *)
Attended(s) ==
  /\ status[s] = "requested" => event[s]["acquire"] \in {"pending", "gated", "refused"}
  /\ status[s] = "acquiring" => event[s]["acquire"] \in
       {"pending", "interrupted", "acquireCall", "accepted", "nacked", "unknown"}
  /\ status[s] = "releasing" /\ releases[s] = 0 =>
       \/ event[s]["release"] \in {"pending", "releasable"}
       \/ event[s]["auto-release"] \in {"pending", "releasable"}

NeverUnattended == \A s \in Sessions : Attended(s)

(* The facts that make the above inductive.                                  *)
(*   - the cloud was called at most as often as the row counts;               *)
(*   - at most one session of the device is live;                             *)
(*   - only the acquire event's handler acquires, and the two release events   *)
(*     are inserted after that: so what it has in hand is of a session that    *)
(*     is still being acquired or was released in haste, and was never active; *)
(*   - only one handler makes the release call; it has the cloud's            *)
(*     confirmation in hand, or its session is releasing, or ended meanwhile;  *)
(*   - an accepted acquire is held like an active session.                    *)
CallsCounted == \A s \in Sessions : /\ calls[s]["acquire"] <= acquires[s]
                                    /\ calls[s]["release"] <= releases[s]

OneLive == \A s, t \in Sessions : status[s] \in Live /\ status[t] \in Live => s = t

AcquirePoints == {"gated", "refused", "interrupted", "acquireCall", "accepted",
                  "nacked", "unknown"}
ReleasePoints == {"releasable", "attempted", "releaseCall", "givenBack", "unanswered"}

ReleasesComeLater ==
  \A s \in Sessions, k \in Kinds \ {"acquire"} :
    /\ event[s][k] \notin AcquirePoints
    /\ status[s] \in {"absent", "requested", "acquiring"} => event[s][k] = "absent"

AcquireInHand ==
  \A s \in Sessions :
    LET point == event[s]["acquire"] IN
    /\ status[s] \in {"absent", "requested"} \/ point \in {"gated", "refused"}
         => acquires[s] = 0 /\ cloud # s
    /\ point \in {"acquireCall", "nacked"} => cloud # s
    /\ point \in AcquirePoints \ {"gated", "refused"} => status[s] = "acquiring" \/ s \in hasty
    /\ s \in activated => /\ status[s] \notin {"absent", "requested", "acquiring"}
                          /\ point \notin AcquirePoints
    /\ s \in hasty => status[s] = "releasing" \/ status[s] \in Ended

ReleaseInHand ==
  \A s \in Sessions, k \in Kinds :
    LET point == event[s][k] IN
    /\ point \in ReleasePoints => status[s] = "releasing" \/ status[s] \in Ended
    /\ point \in {"releaseCall", "givenBack"} =>
         /\ releases[s] = 1
         /\ \A l \in Kinds \ {k} : event[s][l] \notin {"releaseCall", "givenBack"}
    /\ point = "givenBack" => s \in confirmed /\ (cloud # s \/ s \in hasty)
    /\ point = "releaseCall" => status[s] = "releasing" \/ s \in strays

AcceptedIsHeld ==
  \A s \in Sessions :
    event[s]["acquire"] = "accepted" /\ status[s] = "acquiring"
      => cloud = s \/ (hasty \cup strays) \ {s} # {}

ControlInv == /\ TypeOK /\ CallsCounted /\ OneLive
              /\ ReleasesComeLater /\ AcquireInHand /\ ReleaseInHand
              /\ ActivatedEndsConfirmed /\ OrphansOnlyByHaste
              /\ AcceptedIsHeld /\ ActiveIsHeld

(* And those that make NeverUnattended and the refinement below inductive.     *)
(*   - a call whose answer is awaited, or was taken for a success, was made;   *)
(*   - an event is inserted when its session is asked for or begins to release. *)
CallsMade ==
  \A s \in Sessions :
    /\ event[s]["acquire"] \in {"acquireCall", "accepted"} => calls[s]["acquire"] = 1
    /\ \A k \in Kinds : event[s][k] \in {"releaseCall", "givenBack"} => calls[s]["release"] = 1

EventsFollow ==
  \A s \in Sessions :
    /\ status[s] = "absent" => event[s]["acquire"] = "absent"
    /\ status[s] = "active" => event[s]["release"] = "absent" /\ event[s]["auto-release"] = "absent"

HandlerInv == ControlInv /\ CallsMade /\ EventsFollow /\ NeverUnattended

(* The sessions as their holders, and the cloud, see them: what the rows and  *)
(* the handlers do implements DeviceControl.                                  *)
Stage(at) == CASE at = "absent"                     -> "new"
               [] at \in {"requested", "acquiring"} -> "asking"
               [] at = "active"                     -> "holding"
               [] at = "releasing"                  -> "leaving"
               [] OTHER                             -> "over"

Stages        == [s \in Sessions |-> Stage(status[s])]
CallsOf(kind) == [s \in Sessions |-> calls[s][kind]]

Promise == INSTANCE DeviceControl
  WITH stage <- Stages, took <- CallsOf("acquire"), gave <- CallsOf("release"),
       held  <- activated

ImplementsDeviceControl == Promise!CSpec

(* Whatever the holder does or does not do, a session that was asked for     *)
(* ends, or its one attempt at giving control back has been made.            *)
SessionSettles ==
  \A s \in Sessions :
    status[s] = "requested" ~> (\/ status[s] \in Ended
                                \/ status[s] = "releasing" /\ releases[s] = 1)
=============================================================================
