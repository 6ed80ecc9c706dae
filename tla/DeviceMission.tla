---------------------------- MODULE DeviceMission ----------------------------
(***************************************************************************)
(* One run of a task whose steps command a device: the mission scheduler    *)
(* (internal/mission), the DJI command dispatcher (internal/dji), the       *)
(* operator's HTTP controls (internal/httpapi/mission_control.go) and the   *)
(* device, which talk through outbox events and rows they lock FOR UPDATE.  *)
(*                                                                         *)
(* Every action below is one database transaction.  Events are delivered as *)
(* module Delivery says: in any order, applied at most once, dead-lettered  *)
(* when their handler kept failing.  A handler that fails rolls back and is *)
(* retried, which changes nothing here.  An outbox event whose id is fixed  *)
(* is inserted ON CONFLICT DO NOTHING, so a second insert is lost.          *)
(*                                                                         *)
(* A step has at most one command (stableCommand derives its id from the    *)
(* step's position), the two control commands come after the steps'.        *)
(***************************************************************************)
EXTENDS Naturals, Sequences, FiniteSets

CONSTANTS Uses,            \* Uses[i]: "command" or "collect", step i's capability
          Safe,            \* steps whose failure policy says idempotency = safe
          PausesOnFailure, \* steps whose failure policy says onFailure = pause
          MaxRetries,      \* maxAttempts - 1 of a step's retry policy
          Assets,          \* the assets that may be ingested for the run
          MaxControls,     \* bound: operator controls accepted
          MaxDead,         \* bound: events dead-lettered
          MaxUnrecorded    \* bound: publishes whose transaction is lost

Positions == 1..Len(Uses)
Cancel    == Len(Uses) + 1
Emergency == Len(Uses) + 2
Commands  == 1..(Len(Uses) + 2)

ASSUME MissionAssumption == /\ Uses \in Seq({"command", "collect"})
                            /\ Len(Uses) > 0
                            /\ Safe \subseteq Positions
                            /\ PausesOnFailure \subseteq Positions
                            /\ {MaxRetries, MaxControls, MaxDead, MaxUnrecorded} \subseteq Nat

VARIABLES
  run,        \* task_runs.status
  version,    \* task_runs.state_version
  step,       \* task_run_steps.status
  cmd,        \* device_commands.status, "none" before the insert
  proto,      \* device_commands.protocol_status, "none" before the first publish
  due,        \* the command's deadline_at has passed
  attempts,   \* rows of command_attempts
  connected,  \* the selected device is online or degraded
  inbox,      \* outbox events waiting for their handler
  dispatched, \* commands whose device.command.dispatch event was ever inserted
  assets,     \* assets whose asset.available event was not handled yet
  wire,       \* commands that reached the device
  seen,       \* what the operator's page shows: status and state version
  sends,      \* ghost: how often a command was published
  controls, dead, unrecorded \* counters for the bounds

bounds   == <<controls, dead, unrecorded>>
runVars  == <<run, version>>
cmdVars  == <<cmd, proto, due, attempts>>
outside  == <<connected, assets, wire, seen, sends>>
vars     == <<run, version, step, cmd, proto, due, attempts, connected, inbox,
              dispatched, assets, wire, seen, sends, controls, dead, unrecorded>>

RunStatuses  == {"queued", "running", "paused", "succeeded", "failed", "canceling", "canceled"}
StepStatuses == {"pending", "running", "succeeded", "failed"}
CmdStatuses  == {"none", "dispatchable", "sent", "acknowledged", "nacked", "timed_out",
                 "unknown", "canceled"}
ProtoStatuses == {"none", "sent", "acknowledged", "nacked", "unknown"}
Schedulable  == {"queued", "running"}
Terminal     == {"succeeded", "failed", "canceled"}

Triggered   == [type |-> "triggered", at |-> 0, what |-> "run"]
Resumed(v)  == [type |-> "transitioned", at |-> v, what |-> "resumed"]
Collected(i, a)    == [type |-> "transitioned", at |-> i, what |-> a]
Control(action, v) == [type |-> "control", at |-> v, what |-> action]
DispatchOf(c)      == [type |-> "dispatch", at |-> c, what |-> "run"]
AckOf(c, outcome)  == [type |-> "ack", at |-> c, what |-> outcome]

(* The ids of the events that exist: controls are numbered by the version *)
(* they lead to, their event ids being random.                            *)
Events == {Triggered}
            \cup {Resumed(v) : v \in 1..version}
            \cup {Collected(i, a) : i \in Positions, a \in Assets}
            \cup {Control(action, v) : action \in {"cancel", "emergency_stop"}, v \in 1..version}
            \cup {DispatchOf(c) : c \in Commands}
            \cup {AckOf(c, outcome) : c \in Commands, outcome \in {"ack", "nack", "timeout"}}

(* A run with an assigned device, either fresh or kept paused by its creator. *)
Init == /\ run \in {"queued", "paused"}
        /\ inbox = IF run = "queued" THEN {Triggered} ELSE {}
        /\ version    = 0
        /\ step       = [i \in Positions |-> "pending"]
        /\ cmd        = [c \in Commands |-> "none"]
        /\ proto      = [c \in Commands |-> "none"]
        /\ due        = [c \in Commands |-> FALSE]
        /\ attempts   = [c \in Commands |-> 0]
        /\ connected  = TRUE
        /\ dispatched = {}
        /\ assets     = Assets
        /\ wire       = {}
        /\ seen       = [status |-> run, version |-> version]
        /\ sends      = [c \in Commands |-> 0]
        /\ controls = 0 /\ dead = 0 /\ unrecorded = 0

First(S) == CHOOSE i \in S : \A j \in S : i <= j

Consume(e) == e \in inbox /\ inbox' = inbox \ {e}

(* The event of c is inserted unless its id exists already. *)
Enqueue(e, c) == /\ inbox' = (inbox \ {e}) \cup (IF c \in dispatched THEN {} ELSE {DispatchOf(c)})
                 /\ dispatched' = dispatched \cup {c}

(* Mutant: the update does not move state_version. *)
StaleDecisionMutant(status) == run' = status /\ version' = version

(* The optimistic update that ends applyDecision. *)
Decide(status) == run' = status /\ version' = version + 1

-----------------------------------------------------------------------------
(* mission.Processor: task_run.triggered, task_run.transitioned and command.ack. *)

Wakes(e) == e \in inbox /\ e.type \in {"triggered", "transitioned", "ack"}

Open    == {i \in Positions : step[i] # "succeeded"}
Current == First(Open)

(* Advance was called, its run can be scheduled and its device is connected. *)
Advances(e) == /\ Wakes(e)
               /\ run \in Schedulable
               /\ Open # {}
               /\ connected

(* Mutant: the signal is not matched with the step's command. *)
AnySignalMutant(e, outcome) == e.type = "ack" /\ e.what = outcome

Signals(e, outcome) == e.type = "ack" /\ e.at = Current /\ e.what = outcome

Waiting == cmd[Current] # "none"
             /\ ~(Uses[Current] = "collect" /\ cmd[Current] = "acknowledged")

IgnoreInactive(e) == /\ Wakes(e) /\ run \notin Schedulable
                     /\ Consume(e)
                     /\ UNCHANGED <<runVars, step, cmdVars, dispatched, outside, bounds>>

AllStepsSucceeded(e) == /\ Wakes(e) /\ run \in Schedulable /\ Open = {}
                        /\ Consume(e)
                        /\ Decide("succeeded")
                        /\ UNCHANGED <<step, cmdVars, dispatched, outside, bounds>>

(* The event is used up, an acknowledgement it carries included. *)
PauseDisconnected(e) == /\ Wakes(e) /\ run \in Schedulable /\ Open # {} /\ ~connected
                        /\ Consume(e)
                        /\ Decide("paused")
                        /\ UNCHANGED <<step, cmdVars, dispatched, outside, bounds>>

Issue(e, c, live) == /\ cmd' = [live EXCEPT ![c] = "dispatchable"]
                     /\ due' = [due EXCEPT ![c] = FALSE]
                     /\ Enqueue(e, c)

IssueStep(e) == /\ Advances(e) /\ cmd[Current] = "none"
                /\ Issue(e, Current, cmd)
                /\ step' = [step EXCEPT ![Current] = "running"]
                /\ Decide("running")
                /\ UNCHANGED <<proto, attempts, outside, bounds>>

AwaitAsset(e) == /\ Advances(e) /\ Uses[Current] = "collect" /\ cmd[Current] = "acknowledged"
                 /\ Consume(e)
                 /\ step' = [step EXCEPT ![Current] = "running"]
                 /\ Decide("running")
                 /\ UNCHANGED <<cmdVars, dispatched, outside, bounds>>

(* An acknowledgement of another command, or nothing new about this one. *)
KeepWaiting(e) == /\ Advances(e) /\ Waiting
                  /\ IF e.type = "ack" THEN e.at # Current ELSE ~due[Current]
                  /\ Consume(e)
                  /\ UNCHANGED <<runVars, step, cmdVars, dispatched, outside, bounds>>

Acknowledge(e) ==
  /\ Advances(e) /\ Waiting /\ Signals(e, "ack")
  /\ Consume(e)
  /\ cmd' = [cmd EXCEPT ![Current] = "acknowledged"]
  /\ \/ /\ Uses[Current] = "collect"
        /\ step' = [step EXCEPT ![Current] = "running"]
        /\ Decide("running")
     \/ /\ Uses[Current] = "command"
        /\ step' = [step EXCEPT ![Current] = "succeeded"]
        /\ Decide(IF Current = Len(Uses) THEN "succeeded" ELSE "running")
  /\ UNCHANGED <<proto, due, attempts, dispatched, outside, bounds>>

Refuse(e) == /\ Advances(e) /\ Waiting /\ Signals(e, "nack")
             /\ Consume(e)
             /\ cmd'  = [cmd EXCEPT ![Current] = "nacked"]
             /\ step' = [step EXCEPT ![Current] = "failed"]
             /\ Decide(IF Current \in PausesOnFailure THEN "paused" ELSE "failed")
             /\ UNCHANGED <<proto, due, attempts, dispatched, outside, bounds>>

(* Mutant: only the scheduler's own look at the deadline counts. *)
DeafTimeoutMutant(e) == Advances(e) /\ Waiting /\ e.type # "ack" /\ due[Current]

(* timeoutDecision: on the dispatcher's timeout, or on any other event that is *)
(* not an acknowledgement once the deadline has passed.                        *)
TimesOut(e) == /\ Advances(e) /\ Waiting
               /\ \/ Signals(e, "timeout")
                  \/ e.type # "ack" /\ due[Current]

(* Mutant: the failure policy's idempotency is not looked at. *)
AlwaysSafeMutant == attempts[Current] <= MaxRetries

Retryable == Current \in Safe /\ attempts[Current] <= MaxRetries

RetrySafely(e) == /\ TimesOut(e) /\ Retryable
                  /\ Issue(e, Current, [cmd EXCEPT ![Current] = "timed_out"])
                  /\ step' = [step EXCEPT ![Current] = "running"]
                  /\ Decide("running")
                  /\ UNCHANGED <<proto, attempts, outside, bounds>>

PauseOnTimeout(e) == /\ TimesOut(e) /\ ~Retryable
                     /\ Consume(e)
                     /\ cmd'  = [cmd EXCEPT ![Current] = "timed_out"]
                     /\ step' = [step EXCEPT ![Current] = "running"]
                     /\ Decide("paused")
                     /\ UNCHANGED <<proto, due, attempts, dispatched, outside, bounds>>

MissionHandler(e) == \/ IgnoreInactive(e) \/ AllStepsSucceeded(e) \/ PauseDisconnected(e)
                     \/ IssueStep(e) \/ AwaitAsset(e) \/ KeepWaiting(e) \/ Acknowledge(e)
                     \/ Refuse(e) \/ RetrySafely(e) \/ PauseOnTimeout(e)

(* Mutant: only what was sent already is revoked. *)
RevokeSentMutant == [c \in Commands |-> IF c \in Positions /\ cmd[c] = "sent"
                                        THEN "canceled" ELSE cmd[c]]

(* mission.control: revoke what is not finished and issue the control command, *)
(* whatever the run's status is.                                               *)
Revoked == [c \in Commands |-> IF c \in Positions /\ cmd[c] \in {"dispatchable", "sent"}
                               THEN "canceled" ELSE cmd[c]]

ControlHandler(e) ==
  /\ e \in inbox /\ e.type = "control"
  /\ Issue(e, IF e.what = "cancel" THEN Cancel ELSE Emergency, Revoked)
  /\ Decide("canceling")
  /\ UNCHANGED <<step, proto, attempts, outside, bounds>>

(* asset.available: media, not the acknowledgement, completes a device.collect *)
(* step; an asset that finds no running step of an active run is used up.      *)
Collecting == {i \in Positions : Uses[i] = "collect" /\ step[i] = "running"}

CompleteCollectionStep(a) ==
  /\ a \in assets
  /\ assets' = assets \ {a}
  /\ IF run = "running" /\ Collecting # {}
     THEN /\ step'  = [step EXCEPT ![First(Collecting)] = "succeeded"]
          /\ inbox' = inbox \cup {Collected(First(Collecting), a)}
     ELSE UNCHANGED <<step, inbox>>
  /\ UNCHANGED <<runVars, cmdVars, connected, dispatched, wire, seen, sends, bounds>>

-----------------------------------------------------------------------------
(* dji.CommandDispatcher *)

Dispatches(e) == e \in inbox /\ e.type = "dispatch"

(* The command is no longer dispatchable, or was published before. *)
DispatchNothing(e) == /\ Dispatches(e)
                      /\ \/ cmd[e.at] # "dispatchable"
                         \/ ~due[e.at] /\ proto[e.at] # "none"
                      /\ Consume(e)
                      /\ UNCHANGED <<runVars, step, cmdVars, dispatched, outside, bounds>>

(* Mutant: an expired command is dropped where it is. *)
ForgetExpiredMutant(e) == /\ Dispatches(e) /\ cmd[e.at] = "dispatchable" /\ due[e.at]
                          /\ Consume(e)
                          /\ UNCHANGED <<runVars, step, cmdVars, dispatched, outside, bounds>>

DispatchExpired(e) == /\ Dispatches(e) /\ cmd[e.at] = "dispatchable" /\ due[e.at]
                      /\ Consume(e)
                      /\ cmd' = [cmd EXCEPT ![e.at] = "timed_out"]
                      /\ UNCHANGED <<runVars, step, proto, due, attempts, dispatched, outside, bounds>>

Publishable(e) == /\ Dispatches(e) /\ cmd[e.at] = "dispatchable"
                  /\ ~due[e.at] /\ proto[e.at] = "none"

Reaches(c) == wire' = wire \cup {c} /\ sends' = [sends EXCEPT ![c] = @ + 1]

Publish(e) == /\ Publishable(e)
              /\ Consume(e)
              /\ Reaches(e.at)
              /\ attempts' = [attempts EXCEPT ![e.at] = @ + 1]
              /\ proto'    = [proto EXCEPT ![e.at] = "sent"]
              /\ cmd'      = [cmd EXCEPT ![e.at] = "sent"]
              /\ UNCHANGED <<runVars, step, due, connected, dispatched, assets, seen, bounds>>

(* The broker has the message but the transaction that publishes it fails. *)
PublishUnrecorded(e) == /\ Publishable(e) /\ unrecorded < MaxUnrecorded
                        /\ Reaches(e.at)
                        /\ unrecorded' = unrecorded + 1
                        /\ UNCHANGED <<runVars, step, cmdVars, connected, inbox, dispatched,
                                       assets, seen, controls, dead>>

(* ReplyHandler, for a reply of the device to c: possibly late or repeated.  A *)
(* reply to an unknown or answered command is only recorded.                   *)
Reply(c, outcome) ==
  LET answer == IF outcome = "ack" THEN "acknowledged" ELSE "nacked" IN
  /\ c \in wire /\ proto[c] = "sent"
  /\ proto' = [proto EXCEPT ![c] = answer]
  /\ cmd'   = [cmd EXCEPT ![c] = IF @ \in {"dispatchable", "sent"} THEN answer ELSE @]
  /\ inbox' = inbox \cup {AckOf(c, outcome)}
  /\ UNCHANGED <<runVars, step, due, attempts, dispatched, outside, bounds>>

DeadlinePasses(c) == /\ cmd[c] # "none" /\ ~due[c]
                     /\ due' = [due EXCEPT ![c] = TRUE]
                     /\ UNCHANGED <<runVars, step, cmd, proto, attempts, inbox, dispatched,
                                    outside, bounds>>

(* Mutant: the reconciler only looks at the steps' commands. *)
ExpireStepsMutant(c) == /\ c \in Positions
                        /\ cmd[c] = "sent" /\ proto[c] = "sent" /\ due[c]
                        /\ cmd'   = [cmd EXCEPT ![c] = "unknown"]
                        /\ proto' = [proto EXCEPT ![c] = "unknown"]
                        /\ inbox' = inbox \cup {AckOf(c, "timeout")}
                        /\ UNCHANGED <<runVars, step, due, attempts, dispatched, outside, bounds>>

ExpireUnknown(c) == /\ cmd[c] = "sent" /\ proto[c] = "sent" /\ due[c]
                    /\ cmd'   = [cmd EXCEPT ![c] = "unknown"]
                    /\ proto' = [proto EXCEPT ![c] = "unknown"]
                    /\ inbox' = inbox \cup {AckOf(c, "timeout")}
                    /\ UNCHANGED <<runVars, step, due, attempts, dispatched, outside, bounds>>

-----------------------------------------------------------------------------
(* The operator's page and controls; the rest of the environment. *)

Look == /\ controls < MaxControls
        /\ seen' = [status |-> run, version |-> version]
        /\ UNCHANGED <<runVars, step, cmdVars, connected, inbox, dispatched, assets, wire,
                       sends, bounds>>

(* ControlNextStatus, for the statuses a device run can have. *)
NextStatus(status, action) ==
  CASE action = "pause"  /\ status = "running"                 -> "paused"
    [] action = "resume" /\ status = "paused"                  -> "running"
    [] action = "cancel" /\ status = "queued"                  -> "canceled"
    [] action = "cancel" /\ status \in {"running", "paused"}   -> "canceling"
    [] action = "emergency_stop" /\ status \in {"running", "paused", "canceling"} -> "canceling"
    [] OTHER -> "rejected"

(* The controls that a worker hears of; a pause or an early cancel only tells *)
(* it that there is nothing to do.                                            *)
Announces(action, next) ==
  IF next = "canceling" THEN {Control(action, version + 1)}
  ELSE IF next = "running" THEN {Resumed(version + 1)} ELSE {}

Operate(action) ==
  LET next == NextStatus(run, action) IN
  /\ controls < MaxControls
  /\ seen.version = version
  /\ next # "rejected"
  /\ Decide(next)
  /\ inbox' = inbox \cup Announces(action, next)
  /\ controls' = controls + 1
  /\ UNCHANGED <<step, cmdVars, dispatched, outside, dead, unrecorded>>

ConnectionChanges == /\ connected' = ~connected
                     /\ UNCHANGED <<runVars, step, cmdVars, inbox, dispatched, assets, wire,
                                    seen, sends, bounds>>

(* Every attempt to handle the event failed. *)
DeadLetter(e) == /\ dead < MaxDead
                 /\ Consume(e)
                 /\ dead' = dead + 1
                 /\ UNCHANGED <<runVars, step, cmdVars, dispatched, outside, controls, unrecorded>>

Actions == {"pause", "resume", "cancel", "emergency_stop"}

Next == \/ \E e \in inbox : \/ MissionHandler(e) \/ ControlHandler(e)
                            \/ DispatchNothing(e) \/ DispatchExpired(e) \/ Publish(e)
                            \/ PublishUnrecorded(e) \/ DeadLetter(e)
        \/ \E a \in Assets : CompleteCollectionStep(a)
        \/ \E c \in Commands : \/ \E outcome \in {"ack", "nack"} : Reply(c, outcome)
                               \/ DeadlinePasses(c) \/ ExpireUnknown(c)
        \/ \E action \in Actions : Operate(action)
        \/ Look \/ ConnectionChanges

Spec == Init /\ [][Next]_vars

(* The outbox delivers (Settles of module Outbox), the publish of a held      *)
(* session goes through, the reconciler ticks and time passes.  Nothing makes *)
(* the device reply, the connection return, media arrive or the operator act. *)
Handled == \E e \in inbox : \/ MissionHandler(e) \/ ControlHandler(e)
                            \/ DispatchNothing(e) \/ DispatchExpired(e) \/ Publish(e)

Fairness == /\ WF_vars(Handled)
            /\ \A c \in Commands : WF_vars(DeadlinePasses(c)) /\ WF_vars(ExpireUnknown(c))

FairSpec == Spec /\ Fairness

-----------------------------------------------------------------------------
TypeOK == /\ run \in RunStatuses
          /\ version \in Nat
          /\ step \in [Positions -> StepStatuses]
          /\ cmd \in [Commands -> CmdStatuses]
          /\ proto \in [Commands -> ProtoStatuses]
          /\ due \in [Commands -> BOOLEAN]
          /\ attempts \in [Commands -> 0..1]
          /\ connected \in BOOLEAN
          /\ inbox \subseteq Events
          /\ dispatched \subseteq Commands
          /\ assets \subseteq Assets
          /\ wire \subseteq Commands
          /\ seen.status \in RunStatuses /\ seen.version \in 0..version
          /\ sends \in [Commands -> 0..(1 + MaxUnrecorded)]
          /\ controls \in 0..MaxControls
          /\ dead \in 0..MaxDead
          /\ unrecorded \in 0..MaxUnrecorded

(* A step was completed by the device's own acknowledgement of its command,  *)
(* or, when it collects, by an asset; and a run succeeds only with its steps *)
(* (Advance, 163-183; CompleteCollectionStep).                               *)
CompletedByDevice ==
  /\ \A i \in Positions : step[i] = "succeeded" =>
       IF Uses[i] = "command" THEN proto[i] = "acknowledged" ELSE assets # Assets
  /\ run = "succeeded" => \A i \in Positions : step[i] = "succeeded"

(* The device is never commanded for a step before every earlier step is     *)
(* completed, whatever order replies, timeouts, assets and resumes come in.  *)
InOrder == \A i \in Positions :
             step[i] # "pending" \/ cmd[i] # "none" \/ i \in wire
               => \A j \in 1..(i - 1) : step[j] = "succeeded"

(* A control is applied to the run the operator saw: every writer of the     *)
(* status moves state_version, so the expected version stands for the status *)
(* (mission_control.go, 102-104).                                            *)
OperatorSawRun == seen.version = version => seen.status = run

(* A run is called canceled only when nothing was ever sent to the device.   *)
CanceledUntouched == run = "canceled" => wire = {} /\ \A c \in Commands : cmd[c] = "none"

(* Succeeded, failed and canceled are final: no late event, reply, asset or  *)
(* control moves the run out of them.                                        *)
TerminalStays == [][(run \in Terminal) => run' = run]_vars

(* Once the stop of a canceled or emergency-stopped run is issued, no        *)
(* ordinary command reaches the device any more, not even one whose dispatch *)
(* was already under way (RevokeOrdinary against the dispatcher's row lock). *)
RevokedStaysSilent ==
  [][cmd[Cancel] # "none" \/ cmd[Emergency] # "none" =>
       \A i \in Positions : sends'[i] = sends[i]]_vars

(* An unsafe command whose outcome is unknown or bad is never issued again   *)
(* (timeoutDecision; "a non-idempotent action is not retried automatically").*)
UnsafeNotRepeated ==
  [][\A i \in Positions \ Safe :
       cmd[i] \in {"unknown", "timed_out", "nacked"} => cmd'[i] # "dispatchable"]_vars

(* The facts that make the above inductive.                                *)
(*   - a command is published only while its protocol status is "none", so   *)
(*     it has one attempt at most, and every other publish is unrecorded;    *)
(*   - a waiting control event finds its run canceling, which no decision    *)
(*     and no control leaves;                                               *)
(*   - once a stop is issued the run is canceling and no step's command is   *)
(*     left to dispatch;                                                    *)
(*   - a queued run has commanded nothing;                                  *)
(*   - an acknowledgement that waits for the scheduler came from the device. *)
PublishedOnce == \A c \in Commands : /\ proto[c] = "none" => attempts[c] = 0
                                     /\ sends[c] <= attempts[c] + unrecorded

ControlsAreObeyed == \A e \in inbox : e.type = "control" => run = "canceling"

StopRevokes == cmd[Cancel] # "none" \/ cmd[Emergency] # "none" =>
                 run = "canceling" /\ \A i \in Positions : cmd[i] # "dispatchable"

QueuedUntouched == run = "queued" => wire = {} /\ \A c \in Commands : cmd[c] = "none"

AcksAreReal == \A e \in inbox : e.type = "ack" /\ e.what = "ack" => proto[e.at] = "acknowledged"

MissionInv == /\ TypeOK
              /\ InOrder
              /\ OperatorSawRun
              /\ CanceledUntouched
              /\ CompletedByDevice
              /\ PublishedOnce
              /\ ControlsAreObeyed
              /\ StopRevokes
              /\ QueuedUntouched
              /\ AcksAreReal

(* While no event was dead-lettered, nothing that was asked for is forgotten, *)
(* whatever else happened to the run:                                        *)
(*   - a command that waits for its dispatch has its event, unless it is a    *)
(*     retry or an emergency stop, which may be issued twice with one event;  *)
(*   - a canceling run has issued its stop, or a control event waits to;      *)
(*   - the unknown outcome of the step a running run works on is announced,   *)
(*     or the run is about to look at the step's deadline.                    *)
OnceOnly == Commands \ (Safe \cup {Emergency})

DispatchIsKept == \A c \in OnceOnly : cmd[c] = "dispatchable" => DispatchOf(c) \in inbox

StopIsKept == run = "canceling" => \/ \E e \in inbox : e.type = "control"
                                   \/ cmd[Cancel] # "none" \/ cmd[Emergency] # "none"

Rings(e, i) == e = AckOf(i, "timeout") \/ e.type \in {"triggered", "transitioned"}

TimeoutIsKept == \A i \in Positions :
  run = "running" /\ step[i] = "running" /\ cmd[i] = "unknown" => \E e \in inbox : Rings(e, i)

WorkIsKept == dead = 0 => DispatchIsKept /\ StopIsKept /\ TimeoutIsKept

(* Those that make WorkIsKept inductive: a command that was not issued has no *)
(* event, one that is issued once was not published before, what is unknown   *)
(* is due; and a run is canceled once.                                       *)
FreshIsUnsent == \A c \in Commands :
  /\ cmd[c] = "none" => c \notin dispatched /\ proto[c] = "none"
  /\ cmd[c] = "dispatchable" /\ c \in OnceOnly => proto[c] = "none"
  /\ cmd[c] = "unknown" => due[c]

Cancels(e) == e.type = "control" /\ e.what = "cancel"

CanceledOnce == /\ \A e, f \in inbox : Cancels(e) /\ Cancels(f) => e = f
                /\ (\E e \in inbox : Cancels(e)) => cmd[Cancel] = "none"

KeptInv == MissionInv /\ FreshIsUnsent /\ CanceledOnce /\ WorkIsKept

(* A command that was sent does not stay so: it is answered, revoked or      *)
(* becomes unknown, the control commands included (ExpireUnknown).           *)
SentSettles == \A c \in Commands : cmd[c] = "sent" ~> cmd[c] # "sent"

(* The scheduler hears of the unknown outcome of the step it waits for: it   *)
(* retries, pauses, or media completed the step meanwhile.                   *)
TimeoutReachesRun ==
  \A i \in Positions : (cmd[i] = "unknown" /\ run = "running" /\ step[i] = "running")
                         ~> (cmd[i] # "unknown" \/ run # "running" \/ step[i] # "running")

(* The stop of a canceled run leaves the ledger for the device (or expires). *)
StopIsDispatched == \A c \in {Cancel, Emergency} :
                      cmd[c] = "dispatchable" ~> cmd[c] # "dispatchable"

-----------------------------------------------------------------------------
(* What the documents say and the code does not do. *)

(* "Advance the step on a matching ACK": the step after an acknowledged one  *)
(* is commanded while the run keeps running.                                 *)
AckContinues ==
  \A i \in Positions \ {Len(Uses)} : (run = "running" /\ step[i] = "succeeded")
                                        ~> (run # "running" \/ step[i + 1] # "pending")

(* A safe retry is delivered again. *)
RetryIsDelivered == \A i \in Positions : cmd[i] = "dispatchable" ~> cmd[i] # "dispatchable"

(* A repeated emergency stop is dispatched again, as "high-priority retry"   *)
(* says.                                                                     *)
StopIsRetried == cmd[Emergency] = "dispatchable" ~> cmd[Emergency] # "dispatchable"

(* A command the device acknowledged stays acknowledged. *)
AckIsKept == [][\A i \in Positions : cmd[i] = "acknowledged" => cmd'[i] = "acknowledged"]_vars

(* A canceling run becomes terminal once the device confirmed the stop.      *)
CancelEnds == (run = "canceling" /\ cmd[Cancel] = "acknowledged") ~> run \in Terminal

(* A command that ran out of time without being sent is known to its run.    *)
ExpiryReachesRun ==
  \A i \in Positions : (cmd[i] = "timed_out" /\ run = "running") ~> (run # "running" \/ cmd[i] # "timed_out")
=============================================================================
