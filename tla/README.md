# Formal model of AeroSight's task execution and device connections

AeroSight (`src/apps/server`, Go, one PostgreSQL database) runs inspection tasks:
a trigger creates a *run*, the run's steps command a drone, collect or import
media, detect anomalies with external algorithms, let a model assess them, open
issues and write a report. Everything that happens after the trigger is driven
by a *transactional outbox*: each handler is one transaction that locks the rows
it needs, changes them and inserts the events that make the next handler run.
Beside it, long-lived connections to devices and their clouds are shared out
among the worker processes by leases in the same database.

This directory holds TLA+ models of that machinery, TLC configurations that
check them on small instances, and TLAPS proofs. Source paths below are relative
to `src/apps/server/internal` unless they start with `src/`.

## 1. Inventory

Each entry: state; operations; partners; what is hard; what makes it correct.

**Transactional outbox** (`outbox/outbox.go`, `wakeup/postgres.go`).
State: rows of `outbox_events` (status, attempts, lease owner and expiry, available_at),
`event_consumptions`. Operations: `RecoverExhausted`, `Claim`, `Process`, `Complete`,
`Fail`, `ConsumeOnce`. Partners: every producer of an event and every handler. Hard: several
processes, each with an in-memory batch whose leases expire while it works; stops
between two statements; commits whose answer is lost; workers of different versions
that know different event types. Correct: an event's effects are applied once, no
running handler loses its row, attempts are bounded, nothing applied is reported
dead, every event is settled, and settled events stay settled.

**Mission scheduler** (`mission/*.go`). State: `task_runs` (status,
state_version, …), `task_run_steps`, `device_commands`, `command_attempts`. Operations:
`Advance`, `Control`, `timeoutDecision`, `applyDecision`, `CompleteCollectionStep`,
the step boundary (`PrepareStep`, `ValidateStepOutputs`) and the failure policy (`FailStep`).
Partners: outbox, dispatcher, operator (HTTP), step handlers. Hard: transition, ack,
timeout and media events of one run in any order and after its end; controls between
any two of them; event ids that are fixed and inserted `on conflict do nothing`; whether
a decision publishes the event that makes the scheduler look again. Correct: steps in order,
each completed by its own evidence; nothing is commanded after a stop; a repeated
command is a safe one; terminal runs stay terminal; a run is never forgotten.

**DJI command dispatcher** (`dji/command_dispatch.go`, `dji/command_protocol.go`).
State: `device_commands.protocol_status`, attempts, deadlines. Operations:
`DispatchHandler`, `ReplyHandler`, `ExpireUnknown`. Hard: the publish cannot be rolled back; the
timeout races the reply; deadlines pass while the event waits. Correct: what
was revoked stays silent, an unknown outcome is settled once.

**Step boundary, inspection, algorithm, agent, issue and report steps**
(`mission/step_*.go`, `inspection/`, `algorithm/`, `agent/assessment_*.go`, `issue/`,
`report/`). State: `algorithm_runs`, `agent_tool_jobs`, `inspection_assessments`, step
outputs. Operations: queue children, `ProcessInspectionNext`, callback, completion
event, aggregation, `ProcessAssessmentNext`, issue step, human review. Hard: provider and
model calls between two transactions while the run is paused, canceled or failed; leases
that end in a call; children that end in any order, during a pause; a review in the
middle of a step. Correct: evidence is complete before it is sealed, issues rest on a decided
assessment, an answer that comes too late changes nothing, a run ends.

**Task triggers** (`tasktrigger/`). State: definitions, cursors, `task_runs.trigger_key`.
Operations: schedule tick, upstream event, copilot, `createRun`. Hard: candidates are found
outside the creating transaction; several instances; concurrency limit. Correct: one run per
trigger key, never more active runs than the limit, no occurrence lost silently.

**Connector leases and synchronisation** (`connector/`, `flighthub/resource_streams.go`,
`httpapi/flighthub*.go`). State: owner, epoch, expiry, cursor, status, token and last check of
a connector; the stored directory; backoff of the inventory. Operations: `ClaimDue`, `ClaimInstance`,
`Renew`, `ApplyBatch`, `SaveResourceSyncState`, `Succeeded`, `Failed`; the administrator's token update,
synchronise, disconnect and reconnect. Partners: outbox, FlightHub cloud, HTTP. Hard: an owner that outlives
its lease, a cursor that comes back, a batch whose leases wait their turn, calls of the administrator
in the middle of a run. Correct: the directory and the outcome move only in the hands of the
present epoch, what is due is checked, a disconnected connector stays untouched.

**DJI adapter manager** (`dji/manager.go`, `dji/leases.go`, `dji/mqtt_session.go`).
State: the adapter row's status, owner, epoch and expiry; per process a map of sessions, some stopping.
Operations: `reconcile`, `start`, `watch`, `Publish`, `removeStopped`, shutdown. Partners: MQTT broker, dispatcher,
administrator. Hard: a lease that is lost while its connection is still open, a claim whose answer is
lost, shutdown and crash. Correct: the lease is not free before its connection is, a former holder
stops, an adapter is claimed again.

**FlightHub control ownership** (`flighthub/control_session.go`, `httpapi/flighthub_control_sessions.go`).
State: a control session per holder (requested, acquiring, active, releasing, released, failed), attempt counts,
two expiries. Operations: create, heartbeat, release, `Sweep`, and the event handler with `BeginAcquire`, `Activate`,
`QueueRelease`, `BeginRelease`, `Finish`. Partners: outbox, the cloud. Hard: one external call between two
statements that commit on their own; three events of a session handled at once. Correct: one
call each, and the device is not free before the cloud said so.

**FlightHub discrete commands** (`flighthub/control_command.go`, `control_command_status.go`).
State: command, its one attempt, the cloud operation it is bound to. Operations: dispatch in the outbox transaction,
expiry, telemetry evidence, the status poll. Hard: HTTP success is not a result, three loops look for
one, and the cloud does not say whose operation it shows. Correct: one verdict, no repeated call.

**Video worker, provider client, the FlightHub client's projections, device operations, registries,
telemetry, media, perception, chat, definitions, HTTP API, persistence, runtime, simulator,
web application**: see `components` in `PROJECT.json`; they translate data, follow one of
the patterns above, or have no protocol of their own.

How they interact: HTTP controls, triggers and MQTT ingress *insert* outbox events;
the outbox *delivers* them to the handlers `runtime/runtime.go` registers; handlers change
run rows under `FOR UPDATE` and insert further events; workers for detection and
assessment *poll* tables and insert events when they are done. The adapter manager, the connector
scheduler and the status loops are tickers of every process that meet only in the database's rows.

## 2. Modules

| Module | What it is |
|---|---|
| `Delivery` | What the outbox promises its producers: a job waits, is done or dead; its effects are applied at most once and before it is done. |
| `Outbox` | `outbox.go` statement by statement, for several workers with batches, leases, crashes and lost answers. |
| `OutboxProofs` | TLAPS proofs about `Outbox`. |
| `DeviceMission` | One run whose steps command a device or collect media: scheduler, dispatcher, operator and device. |
| `MissionProofs` | TLAPS proofs about `DeviceMission`. |
| `InspectionRun` | One `aerosight/v2` run without a device: boundary, detection with child runs, assessment, review, issue. |
| `InspectionProofs` | TLAPS proofs about `InspectionRun`. |
| `TaskTrigger` | How one task gets its runs: instances of the scheduler, users and upstream events. |
| `TriggerProofs` | TLAPS proofs about `TaskTrigger`. |
| `DeviceControl` | What the control sessions of one device promise: one at a time, one call to take control and one to give it back, over only when the cloud confirmed. |
| `ControlSession` | Sessions of remote control over one device: HTTP handlers, sweep, event handlers and the cloud. |
| `ControlProofs` | TLAPS proofs about `ControlSession`. |
| `CloudCommand` | Discrete commands through the cloud: dispatch and the three loops that find a result. |
| `CloudProofs` | TLAPS proofs about `CloudCommand`. |
| `AdapterManager` | The leases and MQTT sessions of one DJI adapter over several processes. |
| `AdapterProofs` | TLAPS proofs about `AdapterManager`. |
| `ConnectorSync` | FlightHub connectors: leases, polls, requested synchronisations, the administrator. |
| `SyncProofs` | TLAPS proofs about `ConnectorSync`. |
| `MC…` | Instances for TLC. |

`DeviceMission` and `InspectionRun` take the outbox as a set of waiting events from which a
handler takes any: that is exactly what `Delivery` promises and `Outbox` is proved to implement
(in any order, applied at most once, retried after a rollback, dead-lettered if it
keeps failing). `ControlSession`, `CloudCommand` and `ConnectorSync` use the same contract for one event: it has at most one
handler at a time, comes back when that fails, and is done once. So the two levels compose: no run model repeats leases, batches or crashes
of consumers, and none may rely on more than `Delivery`.

### Outbox

| Code | Action |
|---|---|
| a producer's insert | `Publish` |
| `RecoverExhausted` 44-96: select for update, then update by consumption | `RecoverSelect`, `RecoverApply` |
| `Claim` 98-138 | `Claim` (order by occurrence is abstracted to any `Batch` claimable rows) |
| `Process` 140-195: lock own row, insert consumption, handler, commit | `BeginProcess`, `HandlerCommits`, `HandlerFails`, `CommitAnswerLost`, `LeaseLost` |
| `Complete`, `Fail` | `Complete`, `Fail`, each one statement |
| the loop of `Consumer` 225-320 | program counter `pc`, `BatchDone` |
| process start and stop, the clock | `Start`, `Stop`, `LeaseExpires`, `BecomesAvailable` |

A row lock is held between `RecoverSelect` and `RecoverApply` (`victims`) and between
`BeginProcess` and its end (`pc = "handling"`); `SKIP LOCKED` is a guard of `Claim`
and of the recovery. Ghosts: `effects` and `runs` count commits and invocations, `ambiguous`
holds the events one of whose commits lost its answer.

### DeviceMission

`run`, `version`, `step`, `cmd`, `proto`, `attempts` are the columns of the same meaning; `due` stands
for `deadline_at <= now()`; `inbox` and `dispatched` are the outbox; `wire` is
what reached the device; `seen` is the operator's page. A step's command has a
stable id (`stableCommand`), so there is one per step, plus one for cancel and one for emergency
stop. Actions: `MissionHandler` (Advance with all its branches, acknowledgement, timeout, media),
`ControlHandler`, the dispatcher's dispatch, expiry before dispatch, publish and publish with a lost
transaction, reply, `ExpireUnknown`, the HTTP controls with the state version they
carry, and the environment: replies, media, connection, deadlines.

### InspectionRun

`step`, `child`, `job`, `assessment`, `revision` are columns; `lease` numbers the values of
`started_at`; `calls` holds the provider and model calls in flight, each with the lease under
which it was made (a child has a token for callbacks exactly while it is `waiting_callback`, so `Callback` asks for that status only; `algorithm/processor.go:195-201, 238`); `inserted` is every event id the outbox ever saw. What conditions,
providers and the model answer is chosen freely. `Exchange` takes events off the
outbox and inserts others by their fixed ids (those announcing that the run was paused or has failed wake nobody, `mission/processor.go:40`, and are left out). `FailStep` comes
after its handler's changes were rolled back and its locks released, and asks again for the run's status only (`mission/step_failure.go:49-74`). And `Steer` is an HTTP control. `InspectionAssumption` asks
for at most one step each of detection, assessment and issues (the code's evidence, assessment
and issue rows are the run's, and task definitions of this version have one of each), and for
`"job"`, the name of the assessment's lease, not to be the name of a child.

### TaskTrigger

| Code | Action |
|---|---|
| `scheduleCandidates`, a query before any transaction | `Discover` |
| `reconcileSchedule` 80: the clock is read, then the lock is awaited | `Sample` |
| 86-107: lock, another version, disabled, a later time evaluated already | `GiveUp` |
| 114-192: broken schedule, missed interval, due minutes, `createRun` for each | `Evaluate`, `FinishSchedule` |
| `triggerTaskRun` with its expected version | `Ask`, `Decide` or `Refuse`, `FinishCall` |
| `UpstreamHandler`, `CreateCopilotRuns` and `createRun` | `Hear`, the same; `HandlerFails` for a missing delegate |
| a transaction fails or its process stops | `Abort` |
| publication, activation, a membership or permission that is taken away | `Publish`, `SetState`, `Revoke` |

Every transaction is two steps, the reading under the lock and the commit, with `lock` between them: so the
advisory lock of the code has something to exclude. A cron expression is its set of
occurrences, and time is counted in ticks of half a minute.

### ControlSession

`status`, `acquires` and `releases` are columns; `lease` is the age of the live session's last heartbeat, which
is all the code compares; `event[s][k]` is the outbox event of a kind or the point its handler has
reached; `cloud` is who the cloud gave control to. `Load` reads the row and takes a branch, `BeginAcquire`
and `BeginRelease` win or lose their conditional update, `AcquireServed` and `ReleaseServed` are the cloud's part with
every answer that may come or not come, `Activate`, `Refuse`, `QueueRelease`, `Unconfirmed`, `FinishRelease` are the
statements after it, `Returns` and `Fail` are the end of the handler with or without its outbox
transaction. The handler ignores that transaction, hence every statement is a step. Whether a safety gate is open
is chosen freely. `Stages` maps the status to the stages of `DeviceControl`. Ghosts count calls and remember what was active, confirmed, released in haste, or
ended with its release call out. The cloud serves a request before the client's timeout or never. The generated
query `FHControlClaim` has no caller and is not modelled.

### CloudCommand

`Invoke` is the dispatch inside its transaction, `Commit` and `Lose` are the two ends of that transaction, `Stop` is
a gate, a deadline or a connector that is no longer the recorded one; `ExpireUnknown`, `ApplyEvidence` and
`LoadPending`, `Fetch`, `Apply` are the three loops, the last one with its load, its call to the cloud and its
transaction apart. `ops` are the operations the cloud made of the calls; its list shows the last one only and does not
say whose call made it, and every worker process runs a loop that reads it (`Pollers`; `runtime/runtime.go:468-471`). A poll loads once and then asks, reconciles
and applies for one group of commands after the other (`Groups`): the code cuts a group at 50 serial numbers or 100 identifiers, at a place that depends on
the commands to other devices, so the model cuts the loaded commands, in their order of creation (`Created`), wherever it likes. What a group's answer
means is decided with the rows as they were loaded, and only with those of the group (`Matches`, `Reconcile`; the claimed ids of `control_command_status.go:79-84` are
the group's); under the row lock `Apply` compares (`Unchanged`). An end that no longer fits rolls its transaction back and ends the poll with an error (`Conflicts`). `PollFails`
is any other way a poll ends early; the loading query's filter on the connector's status is a poll that loads nothing. Telemetry of any
time after the command was sent confirms it, whether it is the command that made the aircraft return or not. One clock stamps both sides.

### AdapterManager

`status`, `owner`, `epoch`, `lease` are the row; `slot` and `stopping` the map of each process; `sessions` the connections
there really are; `valid` is the status of the network profile, without which nothing is claimed (`dji/leases.go:48`) and which a test of the
connection writes (`Validate`). Epochs only have to differ, so a claim takes one nobody remembers. `Review`, `Renew`, `RenewFails`,
`ClaimServed`, `ClaimLost`, `ClaimNothing`, `Start`, `StartFails`, `Unused` are `reconcile`; `Report` is `watch`; `Shutdown`, `Drained`
and `Die` are the end of `Run` and of the process; `Publishes` is the condition of `Publish`.

### ConnectorSync

A job is one process's poll or one event handler; the job that claimed last stands for owner and epoch.
`ClaimDue` takes a batch whose leases are then worked off in turn, and only the current one is renewed (`Renewed`).
`Begin`, `List`, `Apply`, `Save`, `RunFails`, `ProbeRefused` and `FinishPoll` or `FinishEvent` are `executeLease` with
`ScheduledInventoryRunner`, the synchroniser, `ApplyBatch`, `SaveResourceSyncState`, the capability probe and the outcome. The
cloud's directory is a version; its cursor, a hash of contents, may come back (`Cursor`). `closing` are
connectors whose row a disconnect has locked while it waits for the event a handler has locked. A handler that would claim such a
connector waits for that row, and the disconnect for the handler's event, until the request times out: hence no claim while closing. `RunFails` is any
error of the database or the cloud before the outcome is recorded. Of the probe, `ProbeRefused` is the refusal that ends a connector; what an accepted
token may do is not taken away, and a probe that fails in another way is a `RunFails`.

## 3. Runs

Times are for two workers on a small machine.

| Run | Instance | Question |
|---|---|---|
| `outbox` | 2 events, 2 workers (an old one that does not know `e2`), 3 attempts, batch 2; 67,514 states | All safety, the refinement of `Delivery`, and liveness. |
| `mission_control` | two commands, step 1 safe and pausing, one retry, two controls, one dead letter, one lost transaction; 407k states | What steps, controls and late replies may never do; is the event a waiting run needs still there. |
| `mission_live` | a collecting step before a command, one asset, one retry, one control; 106k states | Who completes steps; timeouts and stops. |
| `mission_continues` | two commands | A disagreement with the specification, section 6. |
| `inspection_safety` | sync, detect, assess, issue; two images; callbacks; a disputed target; all four operations, two controls, one fault; 500k states | Safety of the pipeline. |
| `inspection_live` | the pipeline, two images, one cancel, two faults; 46k states | A run ends, and never waits for nobody. |
| `trigger` | two instances, a user, an upstream run; three versions (schedule, upstream, broken schedule), two occurrences, two changes by people, one undone transaction; 3.3M states | How a task gets its runs. |
| `control_session` | two sessions of a device, three events each, one failed handler; 791k states, 160 s | Who has control, the refinement of `DeviceControl`, and does it end. |
| `cloud_command` | two commands with deadlines 2 and 3, two status loops, groups of any size, time up to 3, one lost dispatch; 4.0M states, 100 s | One verdict, no late answer, no repeated call. |
| `adapter` | two processes, three epochs, one crash or shutdown, a profile that is valid or not; 82k states, 45 s, deadlock checked | Who holds the connection. |
| `connector_sync` | one connector, a poll and a handler, two tokens, two changes of the directory, two faults, two calls of the administrator; 278k states, 45 s | What is stored, and does what is due get done. |
| `sync_token` | the same with one fault and one call | A disagreement, section 6. |

*Outbox.* `ExactlyOnce`, `AttemptsAreSpent`, `DeadHasNoEffect`, `ImplementsDelivery` and `Settles`.
`AttemptsAreSpent` is about the three comparisons with `max_attempts` that have to fit together (`<` in `Claim`, `>=` in
`Fail` and in `RecoverExhausted`): no more invocations than attempts (`InvocationsBounded`), no event that waits without
one, and none given up before its last (`AttemptsDecide`).
`DeadHasNoEffect` has an exception the code cannot avoid: a commit whose answer was lost is followed by
`Fail`, and at the last attempt that dead-letters an event whose effects were applied.

*DeviceMission.* `CompletedByDevice` (a step that succeeded has its own acknowledgement or asset);
`WorkIsKept` (as long as no event was dead-lettered: a command that waits has its dispatch event in the outbox, a
canceling run has issued its stop or has the event that will, and the timeout of the step a run works on is
on its way to it); `RevokedStaysSilent` (no step command is published after a stop took effect, also
when a publish's transaction was lost); `UnsafeNotRepeated` (a command that is not safe and
whose outcome is unknown or bad is never issued again); `OperatorSawRun` (an
accepted control was chosen in view of the status it changes); `SentSettles`, `TimeoutReachesRun`,
`StopIsDispatched`. The dispatch half of `WorkIsKept` leaves out safe commands and the emergency stop (`OnceOnly`): these may be
issued twice under one event id, and then the event is lost, see `RetryIsDelivered` and `StopIsRetried` in section 6. Without
that exception TLC refutes the property.

*InspectionRun.* `EvidenceIsComplete`, `IssuesAreDecided`, `ReviewBlocks`, `LastCallCounts`,
`LateResultsAreIdle` (a provider's or model's answer moves neither run nor steps that are no
longer active), `RunSettles`, `CancelEnds`. `NothingForgotten`: a run in progress always has something that carries it on,
an event that makes the scheduler look, or the request, an unfinished child or the open assessment of its running step, also
between a step's commit and the next event, and although every event id can be inserted only once. It is stated for runs
nobody resumed, providers that answer at once and targets that are not disputed (`Undisturbed`). These three are the cases in which
the code does forget a run: `ResumeReawakens`, `PausedStepResumes` (resumed), `PolledSettles`, `AnnouncedIsOver` (deferred) and
`ReviewContinues` (disputed) in section 6.

*TaskTrigger.* `OneRunPerKey` (one run per occurrence, upstream run or request, across versions);
`LimitHeld` (the active runs of all versions and sources together, the new one included); `AuditIsTrue` (what
the records say of an occurrence is what happened, and no occurrence with an outcome lies in a missed
interval); `Accounted` (the cursor leaves no occurrence behind without a record: the sixty seconds
of the code, `!previous.Before(deadline)`, fit without gap or overlap); `OnlyCurrentStarts` (version,
activation and delegate are those of the moment of the insert).

*ControlSession.* `ImplementsDeviceControl` (to the holders and to the cloud a device looks like `DeviceControl`: one session at a
time, forward only, one acquire and one release call, whatever fails and whoever handles which event, and over only when the cloud
confirmed, if it was active); `NeverUnattended` (whichever statement a handler stopped after, a session that is asked for, being
acquired or waiting for its release has an event whose handler is where the row says);
`OrphansOnlyByHaste` (an ended session holds nothing in the cloud, but for one that its holder released
while its acquire call was out: the cloud may serve the release first); `ActiveIsHeld` (control is taken
from an active session only by such a release of another one, or by one whose session ended while it was
out); `SessionSettles` (a session that was asked for ends or has made its one attempt, though no holder
ever heartbeats or releases). Two consequences a reader should know: an unconfirmed release keeps the device
closed to other sessions for ever, by design; and `Sweep` ends sessions that expired or lost their permission but does not look at
the device's state, which governed-actions spec.md:24 also lists.

*CloudCommand.* `OneVerdict` (of the three loops one announces a verdict, and the row shows it);
`RepeatedOnlyAfterLoss` (a call is made once, except after a dispatch whose transaction was lost with the call already made);
`BindingStays` (the rows are read before the call to the cloud and compared after it, while the other loops go on: no late answer moves a command to another
operation, brings back an older observation, or changes what a command that has ended was found to be). That an operation counts for one command only
does not hold, see `BoundOnce` in section 6. A verdict here is an event of one of the
loops: what the dispatcher ends itself it announces to nobody.

*AdapterManager.* `LeaseOutlivesSession` (no epoch is free, or someone else's, while a connection made with it is
open); `StaleStops` (a process that lost its lease stops publishing); `ClaimedAgain` (an adapter
in use that nobody holds is claimed, whoever crashed).

*ConnectorSync.* `ListingsAdvance` (no older listing over a newer one, also when the cursor has come back);
`DisconnectedIsQuiet` (no run that was under way brings a disconnected connector back or writes to it);
`DueIsChecked` (a connector that is due is checked or becomes unusable).

The type invariants are conjuncts of the inductive invariants of section 4 and are proved there, as are
`HandlerOwnsRow` and `SettledForever` (`Outbox`), `InOrder`, `TerminalStays` and `CanceledUntouched` (`DeviceMission`), `TerminalStays` (`InspectionRun`),
`NoCatchUp` (`TaskTrigger`), `Tracked` (`AdapterManager`), `SingleAttempt`, `ActivatedEndsConfirmed` and `OneLive` (`ControlSession`), `RefusedDoesNothing`
(`CloudCommand`) and `RequestInHand` (`ConnectorSync`); no run repeats them.

### Bounds and why they are enough

* Outbox: two events make batches whose second lease expires; two workers make every
  race of the code pairwise, all being about one row; three attempts make a first, a middle and
  a last one. The proofs lift all three bounds for safety.
* `MaxControls`, `MaxRetries`, `MaxDead`, `MaxUnrecorded`, `MaxFaults` bound how often the environment
  does something. Two controls are a pause and a resume, a pause and a cancel, a cancel
  and an emergency stop. One retry is where the code's counter stops; one dead letter, one lost
  transaction and one fault are each combined with every other event. Two steps are a
  predecessor and a successor; two images an early and a late child.
* Trigger: two occurrences, the second of which can be evaluated in time, on its last instant, late, or after
  downtime that swallowed the first; two instances and two callers make every pair of transactions
  race; `MaxChanges` combines two publications, or one with a revocation or a (de)activation.
* Control session: two sessions of one device are the one that ends and the one that comes after it; one failure
  puts a crash at every point of every handler. The cloud gives control to one session at a time, so sessions of
  other devices are independent.
* Cloud command: two commands are the one an operation belongs to and the one it is taken for; deadlines 2 and
  3 of 3 let each be over while the other is not. Two status loops are two workers, and
  two commands make one group or two. The constraint `Races` of `MCCloudCommand` leaves a lost dispatch and two loops that are both at work at once
  to separate behaviours: once a dispatch was lost, one of the loops is idle. The proofs need neither.
* Adapter: two processes are a holder and a successor, three epochs are the row's, the one in the map and the one
  just claimed; with four (129,152 states) the answers are the same.
* Connector: one connector has all races between a poll, a request and the administrator; a second one matters for
  `DueIsChecked` only, where a batch holds a lease that is not renewed: a configuration with two connectors, one poll, one
  handler, one fault and no other call (60,723 states; 314,175 with a change of the directory) passes. With the run's bounds two connectors exceed twelve million states.
* `state_version` is bounded by those counters; no guard depends on it except equality.
* `Symmetric` in `MCInspectionRun` permutes the images; it is used in the safety run only; the one in `MCTaskTrigger` permutes the instances.
* The runs set `CHECK_DEADLOCK FALSE`, but for `adapter`: a run that has ended, an outbox whose events are
  settled, sessions and commands that are through, really stop. An adapter's processes never do.

### Fairness

* `Outbox`: weak fairness of the clock and of each step of a worker that is up (its loop polls
  on a ticker, its HTTP and SQL calls have timeouts). `Start` and `Stop` are not fair, so `Settles` is
  conditional: from some time on a worker that handles the event stays up.
* `DeviceMission`: fairness of handling waiting events (this is `Settles`), of deadlines and
  of `ExpireUnknown`, which the runtime calls on a ticker. No fairness of the device,
  of media or of the operator.
* `InspectionRun`: fairness of handling events, of the polling workers, and of answers or the end of
  leases (calls have timeouts). No fairness of operator or reviewer.
* `ControlSession`: the absolute expiry, the sweep of every second, and handlers of waiting events. None of
  holder, heartbeat or revocation, and no promise that the cloud serves or answers.
* `AdapterManager`: the ticker of `Run`, the start of a process that is down, and a canceled connection that closes (weak); a database
  that is asked again and again to renew or to claim answers at last (strong, since each round may fail by itself).
* `ConnectorSync`: jobs that are at work, events that may be claimed, leases nobody renews, HTTP requests that end.
  None of the poll interval, the cloud or the administrator.
* `CloudCommand` and `TaskTrigger` are checked for safety only.

## 4. Proofs

`OutboxProofs` proves for every set of events, set of workers, number of attempts, batch size and
assignment of handlers (`OutboxAssumption`):

* `TypeCorrect`, by one step per action;
* `InvariantHolds`: `OutboxInv` is inductive. The safety properties alone are not.
  `ExactlyOnce` needs that a handler's event is not consumed while it runs (`HandlerOwnsRow`), which
  needs the row locks of recoveries to be exclusive (`RecoveryLocks`); `DeadHasNoEffect`
  needs to know what a worker between `Process` and `Complete` or `Fail` has seen
  (`CompletingConsumed`, `FailingRolledBack`, `CompletedWasConsumed`); `InvocationsBounded` needs
  that a claimed event in a batch has an attempt to spare (`ClaimsHaveAttempts`);
* `ExactlyOnceHolds`, `HandlerOwnsRowHolds`, `InvocationsBoundedHolds`, `DeadHasNoEffectHolds`, from it;
* `AttemptsAreSpentHolds`, from `AttemptsInvariant`: `RecoverExhausted` first selects and then updates, so what it selected must
  still be exhausted when it updates (`VictimsExhausted`), which the row locks give;
* `SettledForeverHolds`, an action property;
* `Refinement`: `Outbox` implements `Delivery`; each action maps to a step of it or a stutter.

`MissionProofs` proves for any number of steps, any split into commands and collecting steps, and any
bounds on retries, controls and faults (`MissionAssumption`):

* `MissionTypes` and `MissionInvariant`: `MissionInv` is inductive. It adds to the types what the
  properties silently rest on: a command was published once per issue and not yet if it is still dispatchable
  (`PublishedOnce`); a cancel or emergency stop waits in the outbox only while the run is canceling
  (`ControlsAreObeyed`); once a stop is issued the run is canceling and no step's command can be
  dispatched (`StopRevokes`); a run that is still queued commanded nothing (`QueuedUntouched`); and
  an acknowledgement that waits for the scheduler is one the device gave (`AcksAreReal`);
* `TerminalStaysHolds`: a waiting control event is the one thing that could pull a run out
  of its final state, hence `ControlsAreObeyed`;
* `RevokedStaysSilentHolds`, from `StopRevokes`; `CanceledUntouchedHolds`, from `QueuedUntouched`;
  `CompletedByDeviceHolds`, from `AcksAreReal`; `InOrderHolds`, from the lemma that the current step is the
  least one that has not succeeded (`CurrentIsLeast`); `OperatorSawRunHolds` and `UnsafeNotRepeatedHolds`;
* `WorkIsKeptHolds`, from `KeptInvariant`. An insert `on conflict do nothing` keeps an event only if its id is new, so the
  invariant says that a command which was not issued has no event yet and that one issued once was not published
  (`FreshIsUnsent`); a run is canceled by one event, before the stop is issued (`CanceledOnce`).

The proof does not repeat the case analysis of the actions for every conjunct. The lemmas `RunEffect`,
`CommandEffect`, `WireEffect`, `StepEffect`, `EventEffect` and `EndEffect` say what any step may do to the
run, the commands, the wire, the steps and the outbox; the invariants follow from those.

`TriggerProofs` proves for any number of instances and callers, any versions, limits and occurrences, and
any length of a minute (`TriggerAssumption`; a caller's key is never the time of an occurrence):

* `TriggerTypes` and `TriggerInvariant`: `TriggerInv` is inductive. It adds that somebody has
  decided exactly while holding the lock (`LockFollowsControl`), that what is recorded lies behind the cursor and
  the cursor behind the clock (`PastIsBehind`), and that what an instance or a request decided is still right
  when it commits (`SchedulesDecided`, `CallsDecided`): version, status, delegate, keys and minutes are those it
  saw, and what it accepted fits into the limit, which holds because `RunEnds` only lowers the count;
* `OneRunPerKeyHolds` and `AuditIsTrueHolds`, parts of it; `LimitHeldHolds`, by the cardinality of a union,
  since a transaction may accept two minutes (`AcceptedFit`);
* `NoCatchUpHolds`, `OnlyCurrentStartsHolds`, and `AccountedHolds`, for which the two minutes the code looks at
  must be all occurrences of the last sixty seconds, ends included (`RecentIsInTime`).

Here the case analysis is done once: `StepKinds` says that a step which is neither a decision, a commit nor
a change of the task is `Quiet`, and the lemmas treat those few kinds.

`InspectionProofs` proves for any pipeline with at most one step of each kind, any images, failure policies, deferring providers, operations and
bounds (`InspectionAssumption`):

* `InspectionTypes` and `InspectionInvariant`: `InspectionInv` adds that a waiting event names a step there is (`EventsName`), that children
  and jobs belong to a step of the run (`WorkIsOwned`), that what is still open has no recorded answer (`OpenIsUnrecorded`),
  and that a run that was not looked at yet has nothing (`QueuedIsFresh`);
* `LastCallCountsHolds`, for which a lease number must not come twice while a call is out; `ReviewBlocksHolds`;
  `EvidenceIsCompleteHolds` and `IssuesAreDecidedHolds`, from three lemmas: a step becomes succeeded in few ways (`SuccessStep`),
  and children and assessments of a succeeded step do not move any more (`ChildrenStay`, `AssessmentStays`);
* `LateResultsAreIdleHolds` and `RunStaysFinished`, action properties;
* `NothingForgottenHolds`, from `CarryInvariant`. Every action that takes the present carrier away (an event that is handled, a child
  that ends, an assessment that is settled) has to leave the next one, and its insert must not be dropped: so an event id that was
  used is one whose announcement has come true (`IdsAreSpent`), children and assessments come from a request that was
  handled (`WorkWasAsked`), steps are done in order (`InOrder`) and none has stopped the run (`StoppedIsOver`). All this is claimed as long as the run goes
  on (`GoesOn`): the last attempt of a step that ended meanwhile may still overrule it (`Overrules`), and then it stops the run. This is the safety core of `RunSettles`: with it,
  what is left to fairness is that events are handled and calls end.

`ControlProofs`, for any sessions and any number of failed handlers: `ControlInvariant` says what each point of a handler
implies about its row, its calls and the cloud (`AcquireInHand`, `ReleaseInHand`, `AcceptedIsHeld`), that the two release events come after the
acquiring (`ReleasesComeLater`), that at most one session is live (`OneLive`), and that calls are counted in the row before they leave
(`CallsCounted`). `SingleAttemptHolds`, `OrphansOnlyByHasteHolds`, `ActivatedEndsConfirmedHolds` and `ActiveIsHeldHolds` follow.
The lemmas `GoesTo`, `GoesBack` and `InsertMoves` say once what a step does to the events.
`HandlerInvariant` adds that a call whose answer is awaited was made (`CallsMade`) and that events exist from the moment their session begins
what they are for (`EventsFollow`); with it every step is a step of `DeviceControl` or a stutter (`DeviceControlHolds`, one case per
action), and nobody is left alone (`NeverUnattendedHolds`).

`CloudProofs`, for any commands, any number of status loops and any times: `CloudInvariant` adds that a command whose dispatch is
not through is as it was inserted (`InHand`), that there is an operation where one is expected (`Operated`), and counts the calls
(`CallsCounted`, `NothingMade`). `OneVerdictHolds` rests on `LoopsDecide` (each loop decides sent commands only, and ends
that), so it does not depend on the number of loops. `BindingStaysHolds`, an action property: a decision is about the operation its command was bound to when
it was loaded, or about a first one (`BoundToSome`), and is applied only while the row still says so (`Unchanged`); nothing else writes a binding.

`AdapterProofs`, for any processes and epochs: `AdapterInvariant` has the two facts `Tracked` and `HeldIsNew`, without which a lease that is
claimed anew under a closing connection would look like the one it was made with. `LeaseOutlivesSessionHolds`; `CurrentIsUnique`:
connections of the current epoch are all of one process; `EntriesAreNotReplaced`.

`SyncProofs`, for any connectors, polls and handlers: `SyncInvariant` says that the holder of a lease that is about to apply a listing has one no
older than the stored one (`ListingIsRecent`) and that a disconnected connector's lease is free (`DisabledIsFree`).
`ListingsAdvanceHolds` and `DisconnectedIsQuietHolds`, action properties. `RequestInHandHolds`: a request belongs to a handler exactly while that handler
is at work for its connector, over stops, failures and expired leases, so a disconnect that waits never waits for nobody; `OneHandlerEach`: two handlers are
never at work for one connector. The types of each module (`TypeCorrect`, `MissionTypes`, …) are theorems as well.

Only model-checked: what must eventually happen, since TLAPS has no means for `ENABLED` and fairness here. These are `Settles`, `SentSettles`,
`TimeoutReachesRun`, `StopIsDispatched`, `RunSettles`, `CancelEnds`, `SessionSettles`, `StaleStops`, `ClaimedAgain` and `DueIsChecked`. For five of them the
safety half is proved: `AttemptsAreSpent` (`Settles`), `WorkIsKept` (`TimeoutReachesRun`, `StopIsDispatched`), `NothingForgotten` (`RunSettles`) and
`NeverUnattended` (`SessionSettles`) say that whoever has to act next is there; that they do act is what fairness says.

## 5. Plan

In this order, the most important behaviour first. Done: 1 to 9.

1. `Delivery`, `Outbox`, `OutboxProofs`. Everything else depends on it.
2. `DeviceMission`, `MissionProofs`: runs that move aircraft.
3. `InspectionRun`: runs that make decisions about images.
4. `TaskTrigger`, `TriggerProofs`: how runs begin.
5. `InspectionProofs`: the invariant of `InspectionRun` and its safety properties.
6. `ControlSession`, `ControlProofs`: remote control through the cloud.
7. `CloudCommand`, `CloudProofs`: commands through the cloud.
8. `AdapterManager`, `AdapterProofs`: the connection to the broker.
9. `ConnectorSync`, `SyncProofs`: the connection to the cloud.

Then, without new components: the theorems that nothing which waits is forgotten (`WorkIsKept`, `NothingForgotten`, `NeverUnattended`, `AttemptsAreSpent`,
`RequestInHand`), `DeviceControl` and its refinement, `BindingStays`. Next to prove: the same for `AdapterManager` (a lease that is not live is claimable,
and a connection whose lease is lost has somebody to close it) and for `TaskTrigger` (an occurrence due has an instance that will look at it),
and a specification of leases that `AdapterManager` and `ConnectorSync` both implement.

Left: a liveness run of `TaskTrigger`, in which a schedule that stays active is evaluated up to the present; onboarding and routing
of the devices a listing brings, with two connectors that find the same serial number; the resource streams beside the inventory; the flight
actions of `flighthub/flight_action.go`; the video worker.

## 6. Disagreements between code and documents

Two of these have a run of their own, in which TLC shows the shortest behaviour. `B` is
`src/openspec/changes/build-air-ground-inspection-mvp`, `C` is `src/openspec/changes/complete-inspection-task-workflow`, `F` is
`src/openspec/changes/add-dji-flighthub-connector/specs/dji-flighthub-connector/spec.md`.

| Run | Document | Code |
|---|---|---|
| `mission_continues` | B/design.md:89 | After an acknowledgement no event calls `Advance` for the next step (`mission/processor.go:294`). |
| `sync_token` | F:256 | A token update asks for a synchronisation, but the request is taken for one that is already in progress with the former token (`httpapi/flighthub.go:498`). When that fails the connector is `failed`, which no poll claims, although its token is good. |

Further ones, stated as definitions the reader may add to a configuration with a fair specification;
they are refuted too:

* `DeviceMission!RetryIsDelivered`: B/specs/inspection-mission/spec.md:78; a retry's dispatch event has the id of the first
  one and is dropped (`mission/processor.go:247`).
* `DeviceMission!CancelEnds`: B/specs/inspection-mission/spec.md:122; no code ends a device run that is
  canceling (`mission/processor.go:65`).
* `InspectionRun!ReviewContinues`: C/specs/task-agent-assessment/spec.md:47; the issue step's second request has the id
  of its first (`mission/processor.go:267`).
* `InspectionRun!ResumeReawakens`: `algorithm/inspection_dispatch.go:16,61`; `ResumeInspectionChildren` is registered for
  `mission.control`, and a resume publishes `task_run.transitioned`.
* `InspectionRun!PolledSettles`: B/specs/perception-event/spec.md:56; nothing polls a provider that
  accepted (`algorithm/processor.go:233`).
* `CloudCommand!RightAnswer`: `flighthub/control_command_status_test.go:178` keeps two commands that both fit an operation
  undecided; when one of them has ended by telemetry or time, the operation is taken for the other one's and settles it
  (`flighthub/control_command_status.go:108`).
* `CloudCommand!BoundOnce`: `flighthub/control_command_status.go:79-84` keeps an operation that a command is bound to from being taken for another one, but
  looks at the bindings of the group as they were loaded. Two loops, or one loop and two groups of one load, bind two commands to the same operation.
* `InspectionRun!InOrder`: no document says so, but a reader may expect it: `FailStep` does not ask whether its step has ended
  (`mission/step_failure.go:49-74`), so two `gathered` events of a detection, one of which seals it while the other's last attempt fails, leave a failed step before a running one.
* `AdapterManager!DisabledLetsGo`: `src/openspec/changes/integrate-dji-cloud-device-platform/design.md:71` connects adapters that are
  enabled; `Renew` (`dji/leases.go:77`) does not look at the status, and `UpdateStatus` (101) writes `connected` over
  `disabled`, so a disabled adapter keeps its connection.
* `ConnectorSync!DisconnectTakes`: F:266-270; a disconnect waits for the event that a handler has locked for the
  length of its run, and may time out with nothing changed (`httpapi/flighthub.go:564`).
* `DeviceMission!AckIsKept`: B/specs/device-connectivity/spec.md:67-70 keeps the first reply; a later
  timeout or nack overwrites the command's status (`mission/processor.go:191`).
* `DeviceMission!ExpiryReachesRun`: B/specs/inspection-mission/spec.md:75-78; a command that expires before
  dispatch is timed out in `dji/command_dispatch.go:135` without an event for its run.
* `DeviceMission!StopIsRetried`: B/design.md:201; a second emergency stop reuses the event id of the first.
* `TaskTrigger!NeverLate`: C/specs/task-trigger-runtime/spec.md:25 starts nothing that is more than sixty seconds
  late; the code measures from the time it read before it waited for the lock (`tasktrigger/schedule_v2.go:80`).
* `InspectionRun!PausedStepResumes`: C/specs/task-step-execution/spec.md:31; a step paused by its policy is
  requested again under its old event id.
* `InspectionRun!EmergencyEnds`: B/specs/safety-audit-governance/spec.md:47; an emergency stop of a
  run without a device stays canceling.
* `InspectionRun!AnnouncedIsOver`: B/specs/perception-event/spec.md:59-62; `algorithm/processor.go:383` fails a
  child that still waits for its callback and announces it before it is over.

## 7. Not modelled

Listed with reasons in `PROJECT.json`. In short: payload formats, credentials, storage, HTTP clients and
projections of foreign platforms (data, no protocol), generated query code, the user interface, and runs of `aerosight/v1` (they bypass
the boundary; their own paths are those of `DeviceMission`). These are the greater part of the repository's lines: most
of `flighthub/`, `httpapi/` and `database/sqlcgen/` maps one record to another, in one transaction, and a model of
it would repeat the statement. What is modelled is the code in which processes, transactions and foreign systems meet.

Assumptions the models make of the world: one clock (`CloudCommand`); the cloud serves a request before the client gives up on
it or never (`ControlSession`); an MQTT connection that is canceled closes (`AdapterManager`); a dispatcher keeps its database
connection, and so its command's row lock, until it has published (`DeviceMission`; between `dji/command_dispatch.go:153` and 176 nothing asks); the outbox keeps
`Delivery` (everywhere else, proved).

Seen while modelling and not stated as properties: a connector that degraded or failed is set `connected` by a poll while its inventory rests, and
"synchronise now" within that rest does nothing (`flighthub/resource_streams.go:1094`); capability snapshots check the lease
before their write and not with it (`connector/resources.go:416`); a managed device that went missing and returns is `discovered`
(`connector/sync.go:171`).
