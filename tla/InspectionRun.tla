---------------------------- MODULE InspectionRun ----------------------------
(***************************************************************************)
(* One run of an aerosight/v2 task whose steps need no device: the mission  *)
(* scheduler, the step execution boundary and failure policy                *)
(* (internal/mission), external detection with its child runs               *)
(* (internal/inspection, internal/algorithm), the model's assessment        *)
(* (internal/agent), the human review and the issue step (internal/issue).  *)
(*                                                                         *)
(* Every action is one database transaction that locks the run's row first. *)
(* The calls to the algorithm provider and to the model happen between two  *)
(* transactions of a polling worker; started_at identifies the lease under  *)
(* which a call was made.  Events are delivered as module Delivery says; an *)
(* event id is inserted once, ON CONFLICT DO NOTHING.                       *)
(*                                                                         *)
(* "sync" is a step whose handler finishes it in its own transaction        *)
(* (inspection.observe of imported images, report.generate).                *)
(***************************************************************************)
EXTENDS Naturals, Sequences, FiniteSets

CONSTANTS Uses,      \* Uses[i]: "sync", "detect", "assess" or "issue"
          Children,  \* the images of the observation
          Policy,    \* Policy[i]: "abort", "pause" or "continue" (onFailure)
          Deferred,  \* how the provider may put off its answer: "polling", "waiting_callback"
          Disputed,  \* the issue step may find a target that a human must confirm
          Operations, \* the controls the operator uses
          MaxControls, \* bound: controls accepted
          MaxFaults  \* bound: calls lost with their process or outlasting their lease

Positions == 1..Len(Uses)

(* One detection, assessment and issue step at most; Job names the latter's *)
(* work and no image; an observation without an image is refused             *)
(* (inspection/detect_external.go:63).                                       *)
ASSUME InspectionAssumption ==
  /\ Uses \in Seq({"sync", "detect", "assess", "issue"})
  /\ \A i, j \in Positions : Uses[i] = Uses[j] => i = j \/ Uses[i] = "sync"
  /\ Children # {} /\ "job" \notin Children
  /\ Policy \in [Positions -> {"abort", "pause", "continue"}]
  /\ Deferred \subseteq {"polling", "waiting_callback"}
  /\ Disputed \in BOOLEAN
  /\ Operations \subseteq {"pause", "resume", "cancel", "emergency_stop"}
  /\ {MaxControls, MaxFaults} \subseteq Nat

VARIABLES
  run,        \* task_runs.status
  step,       \* task_run_steps.status
  inbox,      \* outbox events waiting for their handler
  inserted,   \* every event id the outbox ever had
  child,      \* algorithm_runs.status of each image, "none" before the insert
  lease,      \* lease[x]: which started_at of the child or the job is current
  calls,      \* provider and model calls in flight: <<what, lease>>
  job,        \* agent_tool_jobs.status of the assessment
  assessment, \* inspection_assessments.status
  revision,   \* inspection_assessments.revision
  recorded,   \* ghost: the lease whose response was recorded last, 0 before
  controls, faults \* counters for the bounds

events == <<inbox, inserted>>
detection == <<child>>
review == <<assessment, revision>>
work   == <<lease, calls, recorded>>
bounds == <<controls, faults>>
vars   == <<run, step, inbox, inserted, child, lease, calls, job, assessment, revision,
            recorded, controls, faults>>

Job  == "job"
Work == Children \cup {Job}

Done     == {"succeeded", "skipped"}
Terminal == {"succeeded", "failed", "canceled"}
Schedulable == {"queued", "running"}

Event(type, at) == [type |-> type, at |-> at]
Requested(i) == Event("requested", i)   \* task.step.*.requested
Continued(i) == Event("continued", i)   \* task_run.transitioned, completedStepId

(* inspection.algorithm.completed, its id made of the child and the outcome. *)
Gathered(a, outcome) ==
  Event(IF outcome = "succeeded" THEN "child_succeeded" ELSE "child_failed", a)

IsGathered(e) == e.type \in {"child_succeeded", "child_failed"}

(* A run as createRun leaves it. *)
Init == /\ run      = "queued"
        /\ step     = [i \in Positions |-> "pending"]
        /\ inbox    = {Event("triggered", 0)}
        /\ inserted = inbox
        /\ child    = [a \in Children |-> "none"]
        /\ lease    = [x \in Work |-> 0]
        /\ calls    = {}
        /\ job = "none" /\ assessment = "none" /\ revision = 0
        /\ recorded = [x \in Work |-> 0]
        /\ controls = 0 /\ faults = 0

(* One transaction takes the events E off the inbox and inserts N. *)
Exchange(E, N) == /\ E \subseteq inbox
                  /\ inbox'    = (inbox \ E) \cup (N \ inserted)
                  /\ inserted' = inserted \cup N

Finish(i, status) == step' = [step EXCEPT ![i] = status]

The(use)  == CHOOSE i \in Positions : Uses[i] = use
Has(use)  == \E i \in Positions : Uses[i] = use

-----------------------------------------------------------------------------
(* mission.Processor on task_run.triggered and task_run.transitioned. *)

Wakes(e) == e \in inbox /\ e.type \in {"triggered", "continued", "reviewed", "resumed"}

Open    == {i \in Positions : step[i] \notin Done}
Current == CHOOSE i \in Open : \A j \in Open : i <= j

Advance(e) ==
  /\ Wakes(e) /\ run \in Schedulable
  /\ \/ /\ Open = {}
        /\ run' = "succeeded"
        /\ Exchange({e}, {})
        /\ UNCHANGED step
     \/ /\ Open # {} /\ step[Current] = "failed"
        /\ run' = "failed"
        /\ Exchange({e}, {})
        /\ UNCHANGED step
     \/ /\ Open # {} /\ step[Current] \in {"pending", "paused"}
        /\ run' = "running"
        /\ Finish(Current, "running")
        /\ Exchange({e}, {Requested(Current)})
     \/ /\ Open # {} /\ step[Current] = "running"
        /\ Exchange({e}, {})
        /\ UNCHANGED <<run, step>>
  /\ UNCHANGED <<detection, work, job, review, bounds>>

IgnoreInactive(e) == /\ Wakes(e) /\ run \notin Schedulable
                     /\ Exchange({e}, {})
                     /\ UNCHANGED <<run, step, detection, work, job, review, bounds>>

(* mission.control: a cancel ends a run without device steps at once, the    *)
(* stop command of an emergency stop has no device to be inserted for, so    *)
(* its event fails until it is dead.                                         *)
ControlHandler(e) ==
  /\ e \in inbox /\ e.type \in {"cancel", "emergency_stop"}
  /\ run' = IF e.type = "cancel" /\ run \notin Terminal THEN "canceled" ELSE run
  /\ Exchange({e}, {})
  /\ UNCHANGED <<step, detection, work, job, review, bounds>>

-----------------------------------------------------------------------------
(* The steps' handlers behind WithTaskStepFailurePolicy. *)

Subject(e) == IF IsGathered(e) THEN The("detect") ELSE e.at

Asks(e) == e \in inbox /\ (e.type = "requested" \/ IsGathered(e))

(* The boundary lets the handler run: an active run, an unfinished step. *)
Admits(e) == /\ Asks(e)
             /\ run \in Schedulable
             /\ step[Subject(e)] \in {"pending", "running"}

NotAdmitted(e) == /\ Asks(e) /\ ~Admits(e)
                  /\ Exchange({e}, {})
                  /\ UNCHANGED <<run, step, detection, work, job, review, bounds>>

(* Earlier steps are checked again before the handler is called. *)
Ready(i) == \A j \in 1..(i - 1) : step[j] \in Done

ConditionSkips(e) == /\ Admits(e) /\ Ready(Subject(e)) /\ e.type = "requested"
                     /\ Finish(Subject(e), "skipped")
                     /\ Exchange({e}, {Continued(Subject(e))})
                     /\ UNCHANGED <<run, detection, work, job, review, bounds>>

Runs(e, use) == Admits(e) /\ Ready(Subject(e)) /\ Uses[Subject(e)] = use

SyncStep(e) == /\ Runs(e, "sync")
               /\ Finish(Subject(e), "succeeded")
               /\ Exchange({e}, {Continued(Subject(e))})
               /\ UNCHANGED <<run, detection, work, job, review, bounds>>

Unstarted == \A a \in Children : child[a] = "none"
Busy      == {"queued", "running"}
Unanswered == Busy \cup Deferred

QueueChildren(e) == /\ Runs(e, "detect") /\ Unstarted
                    /\ child' = [a \in Children |-> "queued"]
                    /\ Exchange({e}, {})
                    /\ UNCHANGED <<run, step, work, job, review, bounds>>

(* Mutant: a child that failed counts as one that found nothing. *)
SealAnywayMutant == \A a \in Children : child[a] \notin {"none"} \cup Unanswered

(* Every child succeeded: the evidence may be sealed. *)
Complete == \A a \in Children : child[a] = "succeeded"

AwaitChildren(e) == /\ Runs(e, "detect") /\ ~Unstarted
                    /\ \E a \in Children : child[a] \in Unanswered
                    /\ Exchange({e}, {})
                    /\ UNCHANGED <<run, step, detection, work, job, review, bounds>>

SealEvidence(e) == /\ Runs(e, "detect") /\ Complete
                   /\ Finish(Subject(e), "succeeded")
                   /\ Exchange({e}, {Continued(Subject(e))})
                   /\ UNCHANGED <<run, detection, work, job, review, bounds>>

(* The assessment's input refers to the output of the detection. *)
QueueAssessment(e) == /\ Runs(e, "assess")
                      /\ Has("detect") => step[The("detect")] = "succeeded"
                      /\ IF assessment = "none"
                         THEN job' = "queued" /\ assessment' = "pending"
                         ELSE UNCHANGED <<job, assessment>>
                      /\ Exchange({e}, {})
                      /\ UNCHANGED <<run, step, detection, work, revision, bounds>>

(* Mutant: what is not pending is taken for decided. *)
PresumedDecidedMutant == assessment # "pending"

Decided == assessment = "succeeded"

ApplyIssues(e) == /\ Runs(e, "issue") /\ Decided
                  /\ Finish(Subject(e), "succeeded")
                  /\ Exchange({e}, {Continued(Subject(e))})
                  /\ UNCHANGED <<run, detection, work, job, review, bounds>>

(* A decision targets an issue that only a human may choose. *)
DisputeTarget(e) ==
  /\ Runs(e, "issue") /\ Decided /\ Disputed
  /\ assessment' = "needs_review"
  /\ step' = [step EXCEPT ![The("assess")] = "paused", ![Subject(e)] = "pending"]
  /\ run'  = "paused"
  /\ Exchange({e}, {})
  /\ UNCHANGED <<detection, work, job, revision, bounds>>

(* The last attempt failed, in the handler or in the boundary before it.  Its *)
(* writes and its locks are rolled back to the savepoint; the run is locked   *)
(* again and its status looked at, the step's is not: what another event has  *)
(* brought to an end meanwhile is failed all the same.  The transitions to    *)
(* "failed" and "paused" that are announced wake nobody (processor.go:40).    *)
FailStep(e) ==
  LET i == Subject(e) IN
  /\ Asks(e) /\ run \in Schedulable
  /\ \/ Policy[i] = "abort"    /\ Finish(i, "failed")  /\ run' = "failed"  /\ Exchange({e}, {})
     \/ Policy[i] = "pause"    /\ Finish(i, "paused")  /\ run' = "paused"  /\ Exchange({e}, {})
     \/ /\ Policy[i] = "continue"
        /\ Finish(i, "skipped") /\ run' = "running"
        /\ Exchange({e}, {Continued(i)})
  /\ UNCHANGED <<detection, work, job, review, bounds>>

StepHandler(e) == \/ NotAdmitted(e) \/ ConditionSkips(e) \/ SyncStep(e) \/ QueueChildren(e)
                  \/ AwaitChildren(e) \/ SealEvidence(e) \/ QueueAssessment(e)
                  \/ ApplyIssues(e) \/ DisputeTarget(e) \/ FailStep(e)

-----------------------------------------------------------------------------
(* The leases of algorithm.ProcessInspectionNext and processNextAssessment:  *)
(* work that is queued, or running for more than two minutes.                *)

InFlight(x) == <<x, lease[x]>> \in calls

(* The call was lost with its process, or it outlasts its lease. *)
LeaseRunsOut(x) == IF InFlight(x) THEN faults < MaxFaults /\ faults' = faults + 1
                                  ELSE UNCHANGED faults

(* Mutant: work whose worker is gone is not claimed again. *)
NeverAgainMutant(x, status) == status = "queued" /\ run # "paused" /\ UNCHANGED faults

Claimable(x, status) == /\ status \in Busy
                        /\ run # "paused"
                        /\ IF status = "running" THEN LeaseRunsOut(x) ELSE UNCHANGED faults

Call(x) == /\ lease' = [lease EXCEPT ![x] = @ + 1]
           /\ calls' = calls \cup {<<x, lease[x] + 1>>}

(* Mutant: whoever comes back while the work is running may record. *)
AnyLeaseMutant(x, l) == TRUE

(* Only the current lease may record its response. *)
Holds(x, l) == lease[x] = l

Record(x, l) == recorded' = [recorded EXCEPT ![x] = l]

Active(use) == run = "running" /\ step[The(use)] = "running"

ChildIs(a, status) == child' = [child EXCEPT ![a] = status]

CancelChild(a) == /\ Claimable(a, child[a]) /\ ~Active("detect")
                  /\ ChildIs(a, "canceled")
                  /\ UNCHANGED <<run, step, events, work, job, review, controls>>

(* Mutant: the parent is not told. *)
SilentRefusalMutant(a) == /\ Claimable(a, child[a]) /\ Active("detect")
                          /\ ChildIs(a, "failed")
                          /\ UNCHANGED <<run, step, events, work, job, review, controls>>

(* The delegate lost its rights or the provider is unavailable. *)
RefuseChild(a) == /\ Claimable(a, child[a]) /\ Active("detect")
                  /\ ChildIs(a, "failed")
                  /\ Exchange({}, {Gathered(a, "failed")})
                  /\ UNCHANGED <<run, step, work, job, review, controls>>

CallProvider(a) == /\ Claimable(a, child[a]) /\ Active("detect")
                   /\ ChildIs(a, "running")
                   /\ Call(a)
                   /\ UNCHANGED <<run, step, events, job, review, recorded, controls>>

(* The parent's status is read again before the outcome is recorded. *)
Outcome(outcome) == IF run = "running" THEN outcome ELSE "canceled"

ProviderReturns(a, l, outcome) ==
  /\ <<a, l>> \in calls
  /\ calls' = calls \ {<<a, l>>}
  /\ IF child[a] = "running" /\ Holds(a, l)
     THEN /\ ChildIs(a, Outcome(outcome))
          /\ Record(a, l)
          /\ Exchange({}, IF Outcome(outcome) \in Deferred THEN {}
                          ELSE {Gathered(a, Outcome(outcome))})
     ELSE UNCHANGED <<child, recorded, events>>
  /\ UNCHANGED <<run, step, lease, job, review, bounds>>

(* CallbackHandler.process with a final status; the run's row is not locked.  *)
(* A child has the token and the external id a callback must name only while  *)
(* it waits for one.  finishSucceeded falls back on failRun when the raw      *)
(* result cannot be stored, whose update looks for a queued or running child. *)
Callback(a, outcome) == /\ child[a] = "waiting_callback"
                        /\ ChildIs(a, outcome)
                        /\ Exchange({}, {Gathered(a, outcome)})
                        /\ UNCHANGED <<run, step, work, job, review, bounds>>

CallbackUnstored(a) == /\ child[a] = "waiting_callback"
                       /\ Exchange({}, {Gathered(a, "failed")})
                       /\ UNCHANGED <<run, step, child, work, job, review, bounds>>

(* A failed assessment stops the run; onFailure = continue is not known here. *)
AssessmentFails == /\ assessment' = "failed" /\ job' = "failed"
                   /\ IF Policy[The("assess")] = "pause"
                      THEN Finish(The("assess"), "paused") /\ run' = "paused"
                      ELSE Finish(The("assess"), "failed") /\ run' = "failed"
                   /\ UNCHANGED <<events, revision>>

DropAssessment == assessment' = IF assessment = "pending" THEN "canceled" ELSE assessment

CancelJob == /\ Claimable(Job, job) /\ ~Active("assess")
             /\ job' = "failed"
             /\ DropAssessment
             /\ UNCHANGED <<run, step, events, detection, work, revision, controls>>

RefuseJob == /\ Claimable(Job, job) /\ Active("assess")
             /\ AssessmentFails
             /\ UNCHANGED <<detection, work, controls>>

CallModel == /\ Claimable(Job, job) /\ Active("assess")
             /\ job' = "running"
             /\ Call(Job)
             /\ UNCHANGED <<run, step, events, detection, review, recorded, controls>>

(* The run was paused or canceled during the call, or the step is over. *)
DiscardAnswer == /\ job' = "failed"
                 /\ DropAssessment
                 /\ step' = [step EXCEPT ![The("assess")] =
                               IF @ \in {"running", "paused"} THEN "failed" ELSE @]
                 /\ UNCHANGED <<run, events, revision>>

AssessmentSucceeds == /\ job' = "succeeded" /\ assessment' = "succeeded" /\ revision' = 1
                      /\ Finish(The("assess"), "succeeded")
                      /\ Exchange({}, {Continued(The("assess"))})
                      /\ UNCHANGED run

AssessmentNeedsReview ==
  /\ job' = "succeeded" /\ assessment' = "needs_review" /\ revision' = 1
  /\ Finish(The("assess"), "paused") /\ run' = "paused"
  /\ UNCHANGED events

(* Mutant: the state of the run is the one read before the call. *)
StaleStateMutant(l) ==
  /\ <<Job, l>> \in calls
  /\ calls' = calls \ {<<Job, l>>}
  /\ IF job = "running" /\ Holds(Job, l)
     THEN Record(Job, l) /\ (AssessmentSucceeds \/ AssessmentNeedsReview \/ AssessmentFails)
     ELSE UNCHANGED <<run, step, events, job, review, recorded>>
  /\ UNCHANGED <<lease, detection, bounds>>

ModelReturns(l) ==
  /\ <<Job, l>> \in calls
  /\ calls' = calls \ {<<Job, l>>}
  /\ \/ /\ ~(job = "running" /\ Holds(Job, l))
        /\ UNCHANGED <<run, step, events, job, review, recorded>>
     \/ /\ job = "running" /\ Holds(Job, l) /\ ~Active("assess")
        /\ Record(Job, l)
        /\ DiscardAnswer
     \/ /\ job = "running" /\ Holds(Job, l) /\ Active("assess")
        /\ Record(Job, l)
        /\ AssessmentSucceeds \/ AssessmentNeedsReview \/ AssessmentFails
  /\ UNCHANGED <<lease, detection, bounds>>

(* The process that waits for the call goes down. *)
LoseCall(c) == /\ c \in calls /\ faults < MaxFaults
               /\ calls'  = calls \ {c}
               /\ faults' = faults + 1
               /\ UNCHANGED <<run, step, events, detection, lease, job, review, recorded, controls>>

ChildWorker == \E a \in Children : \/ CancelChild(a) \/ RefuseChild(a) \/ CallProvider(a)

JobWorker == CancelJob \/ RefuseJob \/ CallModel

Answers == \E c \in calls : IF c[1] = Job THEN ModelReturns(c[2])
                            ELSE \E outcome \in {"succeeded", "failed"} \cup Deferred :
                                   ProviderReturns(c[1], c[2], outcome)

-----------------------------------------------------------------------------
(* The operator: review (inspection.ReviewAssessment) and controls. *)

Review == /\ assessment = "needs_review" /\ run = "paused"
          /\ step[The("assess")] = "paused"
          /\ assessment' = "succeeded" /\ revision' = revision + 1
          /\ Finish(The("assess"), "succeeded")
          /\ run' = "running"
          /\ Exchange({}, {Event("reviewed", revision + 1)})
          /\ UNCHANGED <<detection, work, job, bounds>>

Steer(next, N) == /\ controls < MaxControls
                  /\ controls' = controls + 1
                  /\ run' = next
                  /\ Exchange({}, N)
                  /\ UNCHANGED <<step, detection, work, job, review, faults>>

(* The transition to "paused" is announced, and wakes nobody. *)
Pause == run = "running" /\ Steer("paused", {})

(* Mutant: a resume does not look for a pending review. *)
EagerResumeMutant == run = "paused" /\ Steer("running", {Event("resumed", controls)})

Resume == /\ run = "paused" /\ assessment # "needs_review"
          /\ Steer("running", {Event("resumed", controls)})

(* Mutant: canceling a paused run announces nothing. *)
SilentCancelMutant == \/ run \in {"queued"} /\ Steer("canceled", {})
                      \/ run = "running" /\ Steer("canceling", {Event("cancel", controls)})
                      \/ run = "paused" /\ Steer("canceling", {})

Cancel == \/ run = "queued" /\ Steer("canceled", {})
          \/ run \in {"running", "paused"} /\ Steer("canceling", {Event("cancel", controls)})

EmergencyStop == /\ run \in {"running", "paused", "canceling"}
                 /\ Steer("canceling", {Event("emergency_stop", controls)})

Operate == \/ "pause" \in Operations /\ Pause
           \/ "resume" \in Operations /\ Resume
           \/ "cancel" \in Operations /\ Cancel
           \/ "emergency_stop" \in Operations /\ EmergencyStop

Handle(e) == Advance(e) \/ IgnoreInactive(e) \/ ControlHandler(e) \/ StepHandler(e)

Next == \/ \E e \in inbox : Handle(e)
        \/ ChildWorker \/ JobWorker \/ Answers
        \/ \E c \in calls : LoseCall(c)
        \/ \E a \in Children : \/ \E outcome \in {"succeeded", "failed"} : Callback(a, outcome)
                               \/ CallbackUnstored(a)
        \/ Review \/ Operate

Spec == Init /\ [][Next]_vars

(* The outbox delivers; both workers tick every few seconds, survive errors  *)
(* and retry; calls have a timeout.  Nobody has to review or to operate.     *)
Fairness == /\ WF_vars(\E e \in inbox : Handle(e))
            /\ \A a \in Children : WF_vars(CancelChild(a) \/ RefuseChild(a) \/ CallProvider(a))
            /\ WF_vars(JobWorker)
            /\ WF_vars(Answers)

FairSpec == Spec /\ Fairness

-----------------------------------------------------------------------------
TypeOK == /\ run \in {"queued", "running", "paused", "canceling"} \cup Terminal
          /\ step \in [Positions -> {"pending", "running", "paused", "failed"} \cup Done]
          /\ inbox \subseteq inserted
          /\ child \in [Children -> {"none", "canceled", "succeeded", "failed"} \cup Unanswered]
          /\ lease \in [Work -> Nat]
          /\ calls \subseteq Work \X Nat
          /\ \A c \in calls : c[2] \in 1..lease[c[1]]
          /\ job \in {"none", "queued", "running", "succeeded", "failed"}
          /\ assessment \in {"none", "pending", "succeeded", "needs_review", "failed", "canceled"}
          /\ revision \in Nat
          /\ recorded \in [Work -> Nat]
          /\ controls \in 0..MaxControls
          /\ faults \in 0..MaxFaults

(* Evidence is sealed from all images or not at all, in whatever order the   *)
(* children end and whoever delivers the last one (DetectProcessor.external).*)
EvidenceIsComplete ==
  Has("detect") /\ step[The("detect")] = "succeeded" => \A a \in Children : child[a] = "succeeded"

(* Issues are written from decided assessments only: "no issue is written    *)
(* while a review is pending", also when the pending review came up later.   *)
IssuesAreDecided == Has("issue") /\ step[The("issue")] = "succeeded" => assessment = "succeeded"

(* A pending review keeps its run from going on or ending otherwise than by  *)
(* cancellation: no resume, event or late result bypasses it.                *)
ReviewBlocks == assessment = "needs_review" => run \in {"paused", "canceling", "canceled"}

(* However many workers called under leases that ran out, only the last call *)
(* is answered, and nobody calls again for what was answered (the started_at *)
(* fence of finish and finishFailed, and of the assessment's last phase).    *)
LastCallCounts == \A x \in Work : recorded[x] \in {0, lease[x]}

(* The facts that make the above inductive.                                  *)
(*   - a requested step, and one whose children are awaited, is one of the run; *)
(*   - work under way belongs to a step of the run, and its result is open;    *)
(*   - what is not yet answered has no recorded answer;                        *)
(*   - nothing has been asked for before the run starts.                        *)
EventsName == \A e \in inbox : /\ e.type = "requested" => e.at \in Positions
                               /\ IsGathered(e) => Has("detect")

WorkIsOwned == /\ \A a \in Children : child[a] # "none" => Has("detect")
               /\ job = "none" <=> assessment = "none"
               /\ job # "none" => Has("assess")
               /\ job \in Busy => assessment = "pending"

OpenIsUnrecorded ==
  /\ \A a \in Children : child[a] \in {"none"} \cup Busy => recorded[a] = 0
  /\ job \in {"none"} \cup Busy => recorded[Job] = 0

QueuedIsFresh ==
  run = "queued" => /\ inbox \subseteq {Event("triggered", 0)}
                    /\ \A a \in Children : child[a] = "none"
                    /\ job = "none"

InspectionInv == /\ TypeOK /\ EventsName /\ WorkIsOwned /\ OpenIsUnrecorded /\ QueuedIsFresh
                 /\ EvidenceIsComplete /\ IssuesAreDecided /\ ReviewBlocks /\ LastCallCounts

(* Nobody resumed the run, its providers answer at once, and no target of its *)
(* issues is disputed: in any of these cases the code may forget a run (see   *)
(* the end of this module).                                                   *)
Undisturbed == /\ Deferred = {} /\ ~Disputed
               /\ \A e \in inserted : e.type # "resumed"

(* What keeps a running run going: an event that makes the scheduler look, or *)
(* the request, the open children or the open assessment of its running step. *)
Carrier(i) ==
  \/ Requested(i) \in inbox
  \/ Uses[i] = "detect" /\ \E a \in Children : \/ child[a] \in Busy
                                              \/ Gathered(a, "succeeded") \in inbox
                                              \/ Gathered(a, "failed") \in inbox
  \/ Uses[i] = "assess" /\ job \in Busy

Carried == IF Open # {} /\ step[Current] = "running" THEN Carrier(Current)
           ELSE \E e \in inbox : Wakes(e)

NothingForgotten == Undisturbed /\ run \in Schedulable => Carried

(* A run that goes on, or will when its review is decided. *)
GoesOn == run \in Schedulable \/ assessment = "needs_review"

(* The facts that make it inductive, as long as the run goes on: one that is  *)
(* stopped may have a step that was failed after the next one had begun.      *)
(*   - no step is begun before every earlier one is finished, although events *)
(*     of finished, skipped and reviewed steps come in any order;             *)
(*   - an event id is used up by what it announces, so a later event with the *)
(*     same id, which the outbox would drop, never comes;                     *)
(*   - children and the assessment come from a request that was handled;      *)
(*   - a run that may go on has no step that was stopped, and no work of its  *)
(*     open step was given up.                                                *)
InOrder == \A i \in Positions : step[i] # "pending" => \A j \in 1..(i - 1) : step[j] \in Done

Announced(e) ==
  CASE e.type = "continued"       -> e.at \in Positions /\ step[e.at] \in Done
    [] e.type = "requested"       -> e.at \in Positions /\ step[e.at] # "pending"
    [] e.type = "child_succeeded" -> e.at \in Children /\ child[e.at] = "succeeded"
    [] e.type = "child_failed"    -> e.at \in Children /\ child[e.at] \in {"failed", "canceled"}
    [] e.type = "reviewed"        -> e.at \in 0..revision
    [] OTHER                      -> TRUE

IdsAreSpent == \A e \in inserted : e = Event(e.type, e.at) /\ Announced(e)

WorkWasAsked == /\ ~Unstarted => Requested(The("detect")) \in inserted \ inbox
                /\ job # "none" => Requested(The("assess")) \in inserted \ inbox

StoppedIsOver ==
  /\ assessment \in {"succeeded", "needs_review"} => job = "succeeded"
  /\ job # "succeeded" => revision = 0
  /\ run \in Schedulable =>
       /\ \A i \in Positions : step[i] \notin {"paused", "failed"}
       /\ (\E a \in Children : child[a] = "canceled")
             => step[The("detect")] \notin {"pending", "running"}
       /\ job = "failed" => step[The("assess")] \notin {"pending", "running"}

CarryInv == Undisturbed /\ GoesOn => /\ InOrder /\ IdsAreSpent /\ WorkWasAsked /\ StoppedIsOver
                                     /\ run \in Schedulable => Carried

(* A finished run stays as it ended. *)
TerminalStays == [][(run \in Terminal) => run' = run]_vars

(* A late result is only recorded: it completes no step of a run that was    *)
(* paused or canceled meanwhile.                                             *)
LateResultsAreIdle ==
  [][\A i \in Positions : (step[i] # "succeeded" /\ step'[i] = "succeeded")
                            => run' = "running"]_vars

(* A running run comes to an end or to a pause: lost workers, expired leases *)
(* and stale answers leave nothing hanging.                                  *)
RunSettles == run = "running" ~> run # "running"

(* A canceled run does become canceled. *)
CancelEnds == run = "canceling" ~> run = "canceled"

-----------------------------------------------------------------------------
(* What the documents say and the code does not do. *)

(* "Keep the human decision and continue with the issue step."               *)
ReviewContinues == (run = "running" /\ revision > 1) ~> run # "running"

(* "Only the unfinished work is resumed": a step that its policy paused is   *)
(* executed again when the operator resumes the run.                         *)
PausedStepResumes == (run = "running" /\ controls > 0) ~> run # "running"

(* "Paused jobs stay queued and are reawakened by resume."                   *)
ResumeReawakens ==
  (run = "running" /\ Has("detect") /\ step[The("detect")] = "running")
     ~> (run # "running" \/ step[The("detect")] # "running")

(* "The external service returns its result by callback or polling ... and    *)
(* the task's following steps go on."                                        *)
PolledSettles == \A a \in Children : child[a] = "polling" ~> child[a] # "polling"

(* An accepted callback is applied once, or the child has failed: what was    *)
(* announced as over is over.                                                *)
AnnouncedIsOver == \A a \in Children, outcome \in {"succeeded", "failed"} :
                     Gathered(a, outcome) \in inserted => child[a] \notin Unanswered

(* An emergency stop ends the run. *)
EmergencyEnds == run = "canceling" ~> run \in Terminal
=============================================================================
