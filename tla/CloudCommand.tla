---------------------------- MODULE CloudCommand ----------------------------
(***************************************************************************)
(* Discrete commands to a device that is reached through the FlightHub      *)
(* cloud (internal/flighthub/control_command.go, control_command_status.go).*)
(*                                                                         *)
(* A handler of the outbox sends a command inside its transaction.  HTTP    *)
(* success only means acceptance: three loops look for the result, each in  *)
(* transactions of its own: device telemetry that shows the wanted mode,    *)
(* the cloud's list of command states, and the deadline.                    *)
(*                                                                         *)
(* All commands are return_home commands to one device.  The cloud makes an *)
(* operation of every call it accepts, before it answers, and its list      *)
(* shows one operation per device and method: the last.  A command knows    *)
(* its operation only by the times on it (ReconcileCommandStatus).          *)
(* One clock stamps both sides: skew between them is not modelled.          *)
(***************************************************************************)
EXTENDS Naturals, Sequences, FiniteSets

CONSTANTS Commands,  \* rows of device_commands
          Pollers,   \* worker processes, each with one status loop
          Created,   \* Created[c]: its place by created_at and id
          Deadline,  \* Deadline[c]: command.deadline_at
          MaxTime,   \* bound: the clock
          MaxLost    \* bound: dispatch transactions that roll back after the call

ASSUME CloudAssumption == /\ Created \in [Commands -> Nat]
                          /\ \A c, d \in Commands : Created[c] = Created[d] => c = d
                          /\ Deadline \in [Commands -> 1..MaxTime]
                          /\ MaxTime \in Nat \ {0} /\ MaxLost \in Nat

VARIABLES
  now,      \* the time
  status,   \* command.status
  attempt,  \* status of attempt 1, "none" before its row
  sentAt,   \* attempt.sent_at: when the dispatching transaction began
  bound,    \* attempt.result_json: remoteBusinessId and remoteUpdatedAt, or Unbound
  dispatch, \* the dispatch event: pending, what the call answered, or done
  ops,      \* operations of the cloud, in the order they were made
  phase,    \* phase[p]: a poller is idle, has loaded, or has fetched
  known,    \* known[p]: the commands it loaded and has still to ask for, with what
            \* they were bound to
  decisions, \* decisions[p]: what the answer means for the commands it asked for
  verdicts, \* command.ack events in the outbox, as <<command, source, outcome>>
  lost      \* dispatch transactions lost so far

command == <<status, attempt, sentAt, bound>>
send    == <<dispatch, lost>>
polls   == <<phase, known, decisions>>
vars    == <<now, status, attempt, sentAt, bound, dispatch, ops, phase, known, decisions,
             verdicts, lost>>

Open     == {"dispatchable", "sent"}
Statuses == Open \cup {"acknowledged", "nacked", "unknown", "timed_out", "canceled"}
Answers  == {"accepted", "nacked", "unknown"}
Unbound  == [op |-> 0, version |-> 0]

Init == /\ now      = 1
        /\ status   = [c \in Commands |-> "dispatchable"]
        /\ attempt  = [c \in Commands |-> "none"]
        /\ sentAt   = [c \in Commands |-> 0]
        /\ bound    = [c \in Commands |-> Unbound]
        /\ dispatch = [c \in Commands |-> "pending"]
        /\ ops      = <<>>
        /\ phase    = [p \in Pollers |-> "idle"]
        /\ known    = [p \in Pollers |-> <<>>]
        /\ decisions = [p \in Pollers |-> {}]
        /\ verdicts = {}
        /\ lost     = 0

(* The commands whose row and attempt the loops see as under way. *)
Sent == {c \in Commands : status[c] = "sent" /\ attempt[c] = "sent"}

(* A command and its attempt leave "sent" together. *)
Settle(S, new, newAttempt) ==
  /\ status'  = [c \in Commands |-> IF c \in S THEN new ELSE status[c]]
  /\ attempt' = [c \in Commands |-> IF c \in S THEN newAttempt ELSE attempt[c]]

(* The operations made of a command's calls. *)
Made(c) == {o \in DOMAIN ops : ops[o].by = c}

Announce(S, source, outcome) == verdicts' = verdicts \cup (S \X {source} \X {outcome})

-----------------------------------------------------------------------------
(* The world. *)

Tick == /\ now < MaxTime
        /\ now' = now + 1
        /\ UNCHANGED <<command, send, ops, polls, verdicts>>

(* The operation the list shows goes on, has succeeded, or failed. *)
Progress == /\ ops # <<>> /\ ops[Len(ops)].state = "running"
            /\ \E state \in {"running", "ok", "failed"} :
                 ops' = [ops EXCEPT ![Len(ops)].state = state, ![Len(ops)].updated = now]
            /\ UNCHANGED <<now, command, send, polls, verdicts>>

-----------------------------------------------------------------------------
(* DispatchHandler, in one transaction of the outbox; the row stays locked, *)
(* and the others see it as it was before.                                   *)

Dispatch(c, point) == dispatch' = [dispatch EXCEPT ![c] = point]

(* The connector is no longer the one recorded, the gates are closed, or the *)
(* deadline has passed: nothing is sent.                                      *)
Stop(c) == /\ dispatch[c] = "pending"
           /\ \/ status' = [status EXCEPT ![c] = "canceled"]
              \/ now >= Deadline[c] /\ status' = [status EXCEPT ![c] = "timed_out"]
           /\ Dispatch(c, "done")
           /\ UNCHANGED <<now, attempt, sentAt, bound, ops, polls, verdicts, lost>>

(* The gates are open, at a time `begun` when the transaction started: the  *)
(* attempt gets that time, and the command is sent.  There is no call        *)
(* without a token or after the deadline; an accepted call is an operation,  *)
(* also when the answer to it is lost.                                       *)
Invoke(c) ==
  /\ dispatch[c] = "pending"
  /\ \E begun \in 1..now : /\ begun < Deadline[c]
                           /\ \A o \in Made(c) : ops[o].created <= begun
                           /\ sentAt' = [sentAt EXCEPT ![c] = begun]
  /\ \E answer \in Answers :
       /\ Dispatch(c, answer)
       /\ \/ /\ answer # "nacked" /\ now < Deadline[c]
             /\ ops' = Append(ops, [by |-> c, created |-> now, updated |-> now,
                                    state |-> "running"])
          \/ answer # "accepted" /\ UNCHANGED ops
  /\ UNCHANGED <<now, status, attempt, bound, polls, verdicts, lost>>

(* Mutant: an unknown answer is an error, and the event comes back. *)
RetryMutant(c) ==
  /\ dispatch[c] \in Answers
  /\ IF dispatch[c] = "unknown"
     THEN Dispatch(c, "pending") /\ UNCHANGED <<status, attempt>>
     ELSE /\ Dispatch(c, "done")
          /\ status'  = [status EXCEPT ![c] = IF dispatch[c] = "accepted" THEN "sent" ELSE "nacked"]
          /\ attempt' = [attempt EXCEPT ![c] = IF dispatch[c] = "accepted" THEN "sent" ELSE "nacked"]
  /\ UNCHANGED <<now, sentAt, bound, ops, polls, verdicts, lost>>

(* The transaction commits: accepted stays sent, the rest is final at once. *)
Commit(c) ==
  /\ dispatch[c] \in Answers
  /\ Dispatch(c, "done")
  /\ status'  = [status EXCEPT ![c] =
                   IF dispatch[c] = "accepted" THEN "sent" ELSE dispatch[c]]
  /\ attempt' = [attempt EXCEPT ![c] = CASE dispatch[c] = "accepted" -> "sent"
                                         [] dispatch[c] = "nacked"   -> "nacked"
                                         [] OTHER                    -> "transport_error"]
  /\ UNCHANGED <<now, sentAt, bound, ops, polls, verdicts, lost>>

(* It is lost with everything but the call, and the event comes back. *)
Lose(c) == /\ dispatch[c] \in Answers
           /\ lost < MaxLost /\ lost' = lost + 1
           /\ Dispatch(c, "pending")
           /\ sentAt' = [sentAt EXCEPT ![c] = 0]
           /\ UNCHANGED <<now, status, attempt, bound, ops, polls, verdicts>>

-----------------------------------------------------------------------------
(* ExpireUnknown, every second. *)

Overdue == {c \in Commands : status[c] = "sent" /\ Deadline[c] <= now}

ExpireUnknown == /\ Overdue # {}
                 /\ Settle(Overdue, "unknown", "timed_out")
                 /\ Announce(Overdue, "timeout", "timeout")
                 /\ UNCHANGED <<now, sentAt, bound, send, ops, polls>>

(* Commands that a sample of that time is fresh for. *)
Confirmed(captured) == {c \in Sent : sentAt[c] < captured}

(* ApplyControlEvidence: telemetry, of any time, that shows the aircraft     *)
(* returning, be it by a command or by itself.                                *)
ApplyEvidence ==
  \E captured \in 1..now :
    /\ Confirmed(captured) # {}
    /\ Settle(Confirmed(captured), "acknowledged", "acknowledged")
    /\ Announce(Confirmed(captured), "state", "ack")
    /\ UNCHANGED <<now, sentAt, bound, send, ops, polls>>

-----------------------------------------------------------------------------
(* PollOnce: load once, then for one group of commands after the other ask    *)
(* the cloud, reconcile and apply.  The query's filter on the connector's      *)
(* status only makes a poll load nothing.                                      *)

LoadPending(p) ==
  /\ phase[p] = "idle" /\ Sent # {}
  /\ phase' = [phase EXCEPT ![p] = "loaded"]
  /\ known' = [known EXCEPT ![p] = [c \in Sent |-> bound[c]]]
  /\ UNCHANGED <<now, command, send, ops, decisions, verdicts>>

(* groupPendingStatusCommands: what is left is cut in the order of creation,  *)
(* at a place that the commands to other devices determine as well.           *)
Groups(loaded) ==
  {G \in SUBSET DOMAIN loaded :
     G # {} /\ \A c \in G, d \in DOMAIN loaded \ G : Created[c] < Created[d]}

Part(loaded, S) == [c \in S |-> loaded[c]]

(* The list does not tell whose call made the operation. *)
Shown == LET last == ops[Len(ops)] IN
  [op |-> Len(ops), created |-> last.created, updated |-> last.updated, state |-> last.state]

(* The operation may be command c's: it is the one c was bound to, and newer *)
(* than what is known of it; or nobody's in the group, made since c was sent. *)
Matches(loaded, view, c) ==
  IF loaded[c] # Unbound THEN loaded[c].op = view.op /\ view.updated > loaded[c].version
  ELSE /\ \A d \in DOMAIN loaded : loaded[d].op # view.op
       /\ view.created >= sentAt[c]

(* The commands the operation may belong to. *)
Candidates(loaded, view) ==
  {c \in DOMAIN loaded : view.updated <= Deadline[c] /\ Matches(loaded, view, c)}

(* ReconcileCommandStatus: one operation is shown, so one command at most is  *)
(* decided on: the only one it may belong to.                                 *)
Reconcile(loaded, view) ==
  {[command |-> c, from |-> loaded[c].op, op |-> view.op, version |-> view.updated,
    state |-> view.state] : c \in {d \in DOMAIN loaded : Candidates(loaded, view) = {d}}}

(* ListOrganizationCommandStatus for a group: the last operation, as it is    *)
(* now, and what it means.                                                    *)
Fetch(p) ==
  /\ phase[p] = "loaded"
  /\ phase' = [phase EXCEPT ![p] = "fetched"]
  /\ \E G \in Groups(known[p]) :
       /\ decisions' = [decisions EXCEPT ![p] = Reconcile(Part(known[p], G), Shown)]
       /\ known' = [known EXCEPT ![p] = Part(known[p], DOMAIN known[p] \ G)]
  /\ UNCHANGED <<now, command, send, ops, verdicts>>

(* Mutant: the row's status is not compared. *)
BlindMutant(d) == bound[d.command].op = d.from

(* Mutant: it is not compared which operation the row was bound to. *)
RebindMutant(d) == d.command \in Sent /\ bound[d.command].version < d.version

(* The row and the attempt are still as they were loaded, and older. *)
Unchanged(d) == /\ d.command \in Sent
                /\ bound[d.command].op = d.from /\ bound[d.command].version < d.version

(* An end that the row is no longer as loaded for rolls back, as an error. *)
Conflicts(d) == d.state # "running" /\ d.command \in Sent /\ ~Unchanged(d)

(* The end of the operation settles the command. *)
Finish(d) ==
  LET good == d.state = "ok" IN
  /\ Settle({d.command}, IF good THEN "acknowledged" ELSE "nacked",
                         IF good THEN "acknowledged" ELSE "nacked")
  /\ Announce({d.command}, "status", IF good THEN "ack" ELSE "nack")

(* Its progress only moves the attempt. *)
Decide(d) ==
  /\ bound' = [bound EXCEPT ![d.command] = [op |-> d.op, version |-> d.version]]
  /\ IF d.state = "running" THEN UNCHANGED <<status, attempt, verdicts>> ELSE Finish(d)

(* The poll is over; an error takes the groups that are left with it. *)
Rest(p) == /\ phase' = [phase EXCEPT ![p] = "idle"]
           /\ known' = [known EXCEPT ![p] = <<>>]

(* applyDecisions, in one transaction; then the next group. *)
Apply(p) ==
  /\ phase[p] = "fetched"
  /\ \/ \E d \in decisions[p] : Unchanged(d) /\ Decide(d)
     \/ /\ \A d \in decisions[p] : ~Unchanged(d)
        /\ UNCHANGED <<status, attempt, bound, verdicts>>
  /\ IF DOMAIN known[p] = {} \/ \E d \in decisions[p] : Conflicts(d)
     THEN Rest(p)
     ELSE phase' = [phase EXCEPT ![p] = "loaded"] /\ UNCHANGED known
  /\ decisions' = [decisions EXCEPT ![p] = {}]
  /\ UNCHANGED <<now, sentAt, send, ops>>

(* There is no token, the call or the transaction fails, or the worker stops. *)
PollFails(p) == /\ phase[p] # "idle"
                /\ Rest(p)
                /\ decisions' = [decisions EXCEPT ![p] = {}]
                /\ UNCHANGED <<now, command, send, ops, verdicts>>

-----------------------------------------------------------------------------
Poll(p) == LoadPending(p) \/ Fetch(p) \/ Apply(p) \/ PollFails(p)

Send(c) == Stop(c) \/ Invoke(c) \/ Commit(c)

Next == \/ Tick \/ Progress
        \/ ExpireUnknown \/ ApplyEvidence
        \/ \E c \in Commands : Send(c) \/ Lose(c)
        \/ \E p \in Pollers : Poll(p)

Spec == Init /\ [][Next]_vars

-----------------------------------------------------------------------------
(* Properties. *)

(* The types of the variables. *)
Times     == 1..MaxTime
States    == {"running", "ok", "failed"}
Bounds    == [op : Nat, version : 0..MaxTime]
Decisions == [command : Commands, from : Nat, op : Nat, version : Times, state : States]

TypeOK == /\ now \in Times
          /\ status \in [Commands -> Statuses]
          /\ attempt \in [Commands -> {"none", "sent", "acknowledged", "nacked",
                                       "transport_error", "timed_out"}]
          /\ sentAt \in [Commands -> 0..MaxTime]
          /\ bound \in [Commands -> Bounds]
          /\ dispatch \in [Commands -> {"pending", "done"} \cup Answers]
          /\ ops \in Seq([by : Commands, created : Times, updated : Times, state : States])
          /\ phase \in [Pollers -> {"idle", "loaded", "fetched"}]
          /\ DOMAIN known = Pollers
          /\ \A p \in Pollers : /\ DOMAIN known[p] \subseteq Commands
                               /\ known[p] \in [DOMAIN known[p] -> Bounds]
          /\ decisions \in [Pollers -> SUBSET Decisions]
          /\ verdicts \subseteq Commands \X {"timeout", "state", "status"}
                                        \X {"timeout", "ack", "nack"}
          /\ lost \in 0..MaxLost

(* The three loops race for a sent command, each with an event id of its own: *)
(* only one of them announces a verdict, and it is the one the row shows.     *)
Verdict(c) == {v \in verdicts : v[1] = c}

OneVerdict ==
  \A c \in Commands : \A v \in Verdict(c) :
    /\ Verdict(c) = {v}
    /\ status[c] = CASE v[3] = "ack" -> "acknowledged" [] v[3] = "nack" -> "nacked"
                     [] OTHER -> "unknown"

(* A call is made once, whatever its answer is (NackAndTimeoutNeverRetry),   *)
(* but for a dispatch whose transaction was lost: the call is not undone     *)
(* with it, and is made again.                                               *)
RepeatedOnlyAfterLoss == \A c \in Commands : Cardinality(Made(c)) <= 1 + lost

(* A command that ended before it was sent, or that was refused, has done    *)
(* nothing, again but for a lost dispatch: the aircraft then obeys a command *)
(* that is canceled by the time the event comes back.                        *)
RefusedDoesNothing ==
  \A c \in Commands :
    /\ status[c] \in {"canceled", "timed_out", "nacked"}
    /\ Verdict(c) = {} /\ Made(c) # {}
    => lost > 0

(* Two status loops, the telemetry and the deadline work on rows they read   *)
(* before the call: no late answer moves a command to another operation of   *)
(* the cloud, brings back an older observation of it, or changes what a      *)
(* command that has ended was found to be.                                   *)
BindingStays ==
  [][\A c \in Commands :
       /\ bound[c] # Unbound => /\ bound'[c].op = bound[c].op
                                /\ bound'[c].version >= bound[c].version
       /\ status[c] \notin Open => bound'[c] = bound[c]]_vars

(* The facts that make the above inductive.                                  *)
(*   - before its dispatch is through, a command is as it was inserted;        *)
(*   - where something is sent or accepted, the cloud has an operation;        *)
(*   - a call that is not yet answered for is one more;                        *)
(*   - what was not sent, or refused, has made none but in a lost dispatch;    *)
(*   - a command is bound to an operation, and a decision is about the one     *)
(*     that its command was bound to, if any.                                 *)
InHand == \A c \in Commands :
  dispatch[c] # "done" => status[c] = "dispatchable" /\ attempt[c] = "none"

Operated == (\/ \E c \in Commands : status[c] = "sent" \/ dispatch[c] = "accepted"
             \/ \E p \in Pollers : phase[p] # "idle")
            => ops # <<>>

CallsCounted == \A c \in Commands :
  Cardinality(Made(c)) <= lost + (IF dispatch[c] = "pending" THEN 0 ELSE 1)

NothingMade == \A c \in Commands :
  dispatch[c] \in {"pending", "nacked"} /\ Made(c) # {} => lost > 0

BoundToSome ==
  /\ \A c \in Commands : bound[c] # Unbound => bound[c].op > 0
  /\ \A p \in Pollers : \A d \in decisions[p] : d.op > 0 /\ d.from \in {0, d.op}

CloudInv == /\ TypeOK /\ InHand /\ Operated /\ CallsCounted /\ NothingMade /\ BoundToSome
            /\ OneVerdict /\ RefusedDoesNothing

-----------------------------------------------------------------------------
(* What does not hold. *)

(* An operation counts for one command: what the group before it, or another *)
(* loop, has just bound is not in what a group was loaded with.              *)
BoundOnce ==
  \A c, d \in Sent : c # d /\ bound[c] # Unbound => bound[c].op # bound[d].op

(* The cloud's answer to one command settles no other one. *)
RightAnswer ==
  \A c \in Commands : (\E v \in Verdict(c) : v[2] = "status") => ops[bound[c].op].by = c
=============================================================================
