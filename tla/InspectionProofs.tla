-------------------------- MODULE InspectionProofs --------------------------
(***************************************************************************)
(* Proofs about InspectionRun for any steps, images, policies, answers of   *)
(* the provider, operator controls and bounds.                              *)
(***************************************************************************)
EXTENDS InspectionRun, WellFoundedInduction, TLAPS

(* The first of some steps. *)
LEMMA FirstOfSteps ==
  ASSUME NEW S \in SUBSET Positions, S # {}
  PROVE  LET c == CHOOSE i \in S : \A j \in S : i <= j IN c \in S /\ \A j \in S : c <= j
<1>1. Len(Uses) \in Nat
  BY InspectionAssumption
<1>2. S \subseteq Nat
  BY <1>1 DEF Positions
<1>3. PICK x \in S : \A y \in S : ~ (<<y, x>> \in OpToRel(<, Nat))
  BY <1>2, NatLessThanWellFounded, WFMin
<1>4. \A y \in S : x <= y
  <2> SUFFICES ASSUME NEW y \in S PROVE x <= y
    OBVIOUS
  <2>1. x \in Nat /\ y \in Nat
    BY <1>2
  <2>2. ~ (y < x)
    BY <1>3, <2>1 DEF OpToRel
  <2> QED
    BY <2>1, <2>2
<1> QED
  BY <1>4

(* The scheduler's current step is one of the open ones. *)
LEMMA CurrentIsOpen == ASSUME Open # {} PROVE Current \in Positions /\ step[Current] \notin Done
<1>1. Open \in SUBSET Positions
  BY DEF Open
<1>2. Current \in Open
  BY <1>1, FirstOfSteps DEF Current
<1> QED
  BY <1>2 DEF Open

(* What The picks has the use. *)
LEMMA TheIsOne == ASSUME NEW use, Has(use)
                  PROVE  The(use) \in Positions /\ Uses[The(use)] = use
BY DEF Has, The

(* A requested or gathered event is about a step of the run. *)
LEMMA SubjectIsStep == ASSUME EventsName, NEW e \in inbox, Asks(e)
                       PROVE  Subject(e) \in Positions
BY TheIsOne DEF EventsName, Asks, Subject

(* The types, in two parts. *)
WorkTyped == /\ lease \in [Work -> Nat] /\ recorded \in [Work -> Nat]
             /\ calls \subseteq Work \X Nat
             /\ \A c \in calls : c[2] \in 1..lease[c[1]]

RestTyped == /\ run \in {"queued", "running", "paused", "canceling"} \cup Terminal
             /\ step \in [Positions -> {"pending", "running", "paused", "failed"} \cup Done]
             /\ inbox \subseteq inserted
             /\ child \in [Children -> {"none", "canceled", "succeeded", "failed"} \cup Unanswered]
             /\ job \in {"none", "queued", "running", "succeeded", "failed"}
             /\ assessment \in {"none", "pending", "succeeded", "needs_review", "failed", "canceled"}
             /\ revision \in Nat
             /\ controls \in 0..MaxControls
             /\ faults \in 0..MaxFaults

(* They are the whole. *)
LEMMA TypeParts == TypeOK <=> WorkTyped /\ RestTyped
BY DEF TypeOK, WorkTyped, RestTyped

(* A call goes out under a lease of its own. *)
LEMMA CallTyped ==
  ASSUME WorkTyped, NEW x \in Work, Call(x)
  PROVE  /\ lease' \in [Work -> Nat]
         /\ calls' \subseteq Work \X Nat
         /\ \A c \in calls' : c[2] \in 1..lease'[c[1]]
<1>1. lease' \in [Work -> Nat] /\ lease'[x] = lease[x] + 1
  BY DEF WorkTyped, Call
<1>2. lease[x] + 1 \in Nat /\ lease[x] + 1 \in 1..(lease[x] + 1)
  BY DEF WorkTyped
<1>3. \A y \in Work : 1..lease[y] \subseteq 1..lease'[y]
  <2> SUFFICES ASSUME NEW y \in Work PROVE 1..lease[y] \subseteq 1..lease'[y]
    OBVIOUS
  <2>1. lease[y] \in Nat /\ (lease'[y] = lease[y] \/ lease'[y] = lease[y] + 1)
    BY DEF WorkTyped, Call
  <2> QED
    BY <2>1
<1>4. ASSUME NEW c \in calls' PROVE c \in Work \X Nat /\ c[2] \in 1..lease'[c[1]]
  <2>1. c \in calls \/ c = <<x, lease[x] + 1>>
    BY DEF Call
  <2>2. CASE c \in calls
    <3>1. c \in Work \X Nat /\ c[1] \in Work /\ c[2] \in 1..lease[c[1]]
      BY <2>2 DEF WorkTyped
    <3> QED
      BY <3>1, <1>3
  <2>3. CASE c = <<x, lease[x] + 1>>
    BY <2>3, <1>1, <1>2
  <2> QED
    BY <2>1, <2>2, <2>3
<1> QED
  BY <1>1, <1>4

(* An answer is recorded under the lease of its call. *)
LEMMA AnswerTyped ==
  ASSUME WorkTyped, NEW c \in calls, calls' = calls \ {c}, lease' = lease,
         recorded' = recorded \/ Record(c[1], c[2])
  PROVE  WorkTyped'
<1>1. c[1] \in Work /\ c[2] \in Nat
  BY DEF WorkTyped
<1>2. recorded' \in [Work -> Nat]
  BY <1>1 DEF WorkTyped, Record
<1> QED
  BY <1>2 DEF WorkTyped

(* Every step keeps the types of everything but the work, ... *)
LEMMA RestStep ==
  ASSUME TypeOK, [Next]_vars
  PROVE  RestTyped'
<1> USE InspectionAssumption DEF RestTyped, events, detection, review, work, bounds, Exchange,
    Finish, Done, Terminal, Unanswered, Busy, vars
<1>1. ASSUME NEW e \in inbox, Advance(e)
      PROVE  RestTyped'
  BY <1>1, TypeParts DEF Advance, Wakes
<1>2. ASSUME NEW e \in inbox, IgnoreInactive(e) \/ NotAdmitted(e) \/ AwaitChildren(e)
      PROVE  RestTyped'
  BY <1>2, TypeParts DEF IgnoreInactive, NotAdmitted, AwaitChildren, Runs
<1>3. ASSUME NEW e \in inbox, ControlHandler(e)
      PROVE  RestTyped'
  BY <1>3, TypeParts DEF ControlHandler
<1>4. ASSUME NEW e \in inbox, ConditionSkips(e)
      PROVE  RestTyped'
  BY <1>4, TypeParts DEF ConditionSkips
<1>5. ASSUME NEW e \in inbox, SyncStep(e)
      PROVE  RestTyped'
  BY <1>5, TypeParts DEF SyncStep, Runs
<1>6. ASSUME NEW e \in inbox, QueueChildren(e)
      PROVE  RestTyped'
  BY <1>6, TypeParts DEF QueueChildren, Unstarted, Runs
<1>7. ASSUME NEW e \in inbox, SealEvidence(e)
      PROVE  RestTyped'
  BY <1>7, TypeParts DEF SealEvidence, Runs
<1>8. ASSUME NEW e \in inbox, QueueAssessment(e)
      PROVE  RestTyped'
  BY <1>8, TypeParts DEF QueueAssessment, Runs
<1>9. ASSUME NEW e \in inbox, ApplyIssues(e)
      PROVE  RestTyped'
  BY <1>9, TypeParts DEF ApplyIssues, Runs
<1>10. ASSUME NEW e \in inbox, DisputeTarget(e)
      PROVE  RestTyped'
  BY <1>10, TypeParts DEF DisputeTarget, Runs
<1>11. ASSUME NEW e \in inbox, FailStep(e)
      PROVE  RestTyped'
  BY <1>11, TypeParts DEF FailStep
<1>12. ASSUME NEW a \in Children, CancelChild(a) \/ RefuseChild(a) \/ CallProvider(a)
      PROVE  RestTyped'
  <2>1. CASE CancelChild(a)
    BY <1>12, <2>1, TypeParts DEF CancelChild, ChildIs, Claimable, LeaseRunsOut
  <2>2. CASE RefuseChild(a)
    BY <1>12, <2>2, TypeParts DEF RefuseChild, ChildIs, Claimable, LeaseRunsOut
  <2>3. CASE CallProvider(a)
    BY <1>12, <2>3, TypeParts DEF CallProvider, ChildIs, Claimable, LeaseRunsOut
  <2> QED
    BY <1>12, <2>1, <2>2, <2>3
<1>13. ASSUME NEW c \in calls, c[1] # Job, NEW outcome \in {"succeeded",
    "failed"} \cup Deferred,
             ProviderReturns(c[1], c[2], outcome)
      PROVE  RestTyped'
  BY <1>13, TypeParts DEF ProviderReturns, ChildIs, Outcome, Record, Holds
<1>14. ASSUME NEW a \in Children, NEW outcome \in {"succeeded", "failed"},
             Callback(a, outcome) \/ CallbackUnstored(a)
      PROVE  RestTyped'
  BY <1>14, TypeParts DEF Callback, CallbackUnstored, ChildIs
<1>15. ASSUME CancelJob \/ RefuseJob \/ CallModel
      PROVE  RestTyped'
  BY <1>15, TypeParts DEF CancelJob, RefuseJob, CallModel, AssessmentFails,
       DropAssessment, Call, Claimable, LeaseRunsOut
<1>16. ASSUME NEW c \in calls, c[1] = Job, ModelReturns(c[2])
      PROVE  RestTyped'
  BY <1>16, TypeParts DEF ModelReturns, DiscardAnswer, DropAssessment,
       AssessmentSucceeds, AssessmentNeedsReview, AssessmentFails, Record, Holds
<1>17. ASSUME NEW c \in calls, LoseCall(c)
      PROVE  RestTyped'
  BY <1>17, TypeParts DEF LoseCall
<1>18. ASSUME Review
      PROVE  RestTyped'
  <2>0. RestTyped
    BY TypeParts
  <2>1. inbox' \subseteq inserted'
    BY <1>18, <2>0 DEF Review
  <2>2. /\ run' = "running" /\ assessment' = "succeeded" /\ revision' \in Nat
        /\ UNCHANGED <<child, job, controls, faults>>
    BY <1>18, <2>0 DEF Review
  <2>3. step' \in [Positions -> {"pending", "running", "paused", "failed"} \cup Done]
    BY <1>18, <2>0 DEF Review
  <2> QED
    BY <2>0, <2>1, <2>2, <2>3
<1>19. ASSUME Operate
      PROVE  RestTyped'
  BY <1>19, TypeParts DEF Operate, Pause, Resume, Cancel, EmergencyStop, Steer
<1>20. ASSUME UNCHANGED vars PROVE RestTyped'
  BY <1>20, TypeParts DEF vars
<1> HIDE DEF RestTyped, events, detection, review, work, bounds, Exchange, Finish, Done,
    Terminal, Unanswered, Busy, vars
<1> QED
  BY <1>1, <1>2, <1>3, <1>4, <1>5, <1>6, <1>7, <1>8, <1>9, <1>10, <1>11, <1>12, <1>13,
       <1>14, <1>15, <1>16, <1>17, <1>18, <1>19, <1>20 DEF Next, Handle, StepHandler,
       ChildWorker, JobWorker, Answers

(* ... and those of the work. *)
LEMMA WorkStep ==
  ASSUME TypeOK, [Next]_vars
  PROVE  WorkTyped'
<1>t. WorkTyped
  BY TypeParts
<1>w. UNCHANGED work => WorkTyped'
  BY <1>t DEF WorkTyped, work
<1>n. \A a \in Children : a \in Work
  BY DEF Work
<1>j. Job \in Work
  BY DEF Work
<1>c. ASSUME NEW x \in Work, Call(x), recorded' = recorded PROVE WorkTyped'
  <2>1. /\ lease' \in [Work -> Nat]
        /\ calls' \subseteq Work \X Nat
        /\ \A c \in calls' : c[2] \in 1..lease'[c[1]]
    BY <1>t, <1>c, CallTyped
  <2> QED
    BY <2>1, <1>t, <1>c DEF WorkTyped
<1> USE InspectionAssumption DEF events, detection, review, work, bounds, vars
<1>1. ASSUME NEW e \in inbox, Advance(e)
      PROVE  WorkTyped'
  BY <1>1, <1>w DEF Advance, Wakes
<1>2. ASSUME NEW e \in inbox, IgnoreInactive(e) \/ NotAdmitted(e) \/ AwaitChildren(e)
      PROVE  WorkTyped'
  BY <1>2, <1>w DEF IgnoreInactive, NotAdmitted, AwaitChildren, Runs
<1>3. ASSUME NEW e \in inbox, ControlHandler(e)
      PROVE  WorkTyped'
  BY <1>3, <1>w DEF ControlHandler
<1>4. ASSUME NEW e \in inbox, ConditionSkips(e)
      PROVE  WorkTyped'
  BY <1>4, <1>w DEF ConditionSkips
<1>5. ASSUME NEW e \in inbox, SyncStep(e)
      PROVE  WorkTyped'
  BY <1>5, <1>w DEF SyncStep, Runs
<1>6. ASSUME NEW e \in inbox, QueueChildren(e)
      PROVE  WorkTyped'
  BY <1>6, <1>w DEF QueueChildren, Unstarted, Runs
<1>7. ASSUME NEW e \in inbox, SealEvidence(e)
      PROVE  WorkTyped'
  BY <1>7, <1>w DEF SealEvidence, Runs
<1>8. ASSUME NEW e \in inbox, QueueAssessment(e)
      PROVE  WorkTyped'
  BY <1>8, <1>w DEF QueueAssessment, Runs
<1>9. ASSUME NEW e \in inbox, ApplyIssues(e)
      PROVE  WorkTyped'
  BY <1>9, <1>w DEF ApplyIssues, Runs
<1>10. ASSUME NEW e \in inbox, DisputeTarget(e)
      PROVE  WorkTyped'
  BY <1>10, <1>w DEF DisputeTarget, Runs
<1>11. ASSUME NEW e \in inbox, FailStep(e)
      PROVE  WorkTyped'
  BY <1>11, <1>w DEF FailStep
<1>12. ASSUME NEW a \in Children, CancelChild(a) \/ RefuseChild(a) \/ CallProvider(a)
      PROVE  WorkTyped'
  <2>1. CASE CancelChild(a) \/ RefuseChild(a)
    BY <2>1, <1>w DEF CancelChild, RefuseChild
  <2>2. CASE CallProvider(a)
    BY <2>2, <1>n, <1>c DEF CallProvider
  <2> QED
    BY <1>12, <2>1, <2>2
<1>13. ASSUME NEW c \in calls, c[1] # Job, NEW outcome \in {"succeeded",
    "failed"} \cup Deferred,
             ProviderReturns(c[1], c[2], outcome)
      PROVE  WorkTyped'
  <2>1. calls' = calls \ {c} /\ lease' = lease /\ (recorded' = recorded \/ Record(c[1], c[2]))
    <3>1. c = <<c[1], c[2]>>
      BY <1>t DEF WorkTyped
    <3> QED
      BY <1>13, <3>1 DEF ProviderReturns
  <2> QED
    BY <2>1, <1>t, AnswerTyped
<1>14. ASSUME NEW a \in Children, NEW outcome \in {"succeeded", "failed"},
             Callback(a, outcome) \/ CallbackUnstored(a)
      PROVE  WorkTyped'
  BY <1>14, <1>w DEF Callback, CallbackUnstored, ChildIs
<1>15. ASSUME CancelJob \/ RefuseJob \/ CallModel
      PROVE  WorkTyped'
  <2>1. CASE CancelJob \/ RefuseJob
    BY <2>1, <1>w DEF CancelJob, RefuseJob
  <2>2. CASE CallModel
    BY <2>2, <1>j, <1>c DEF CallModel
  <2> QED
    BY <1>15, <2>1, <2>2
<1>16. ASSUME NEW c \in calls, c[1] = Job, ModelReturns(c[2])
      PROVE  WorkTyped'
  <2>1. calls' = calls \ {c} /\ lease' = lease /\ (recorded' = recorded \/ Record(c[1], c[2]))
    <3>1. c = <<c[1], c[2]>>
      BY <1>t DEF WorkTyped
    <3> QED
      BY <1>16, <3>1 DEF ModelReturns
  <2> QED
    BY <2>1, <1>t, AnswerTyped
<1>17. ASSUME NEW c \in calls, LoseCall(c)
      PROVE  WorkTyped'
  BY <1>17, <1>t DEF LoseCall, WorkTyped
<1>18. ASSUME Review
      PROVE  WorkTyped'
  BY <1>18, <1>w DEF Review
<1>19. ASSUME Operate
      PROVE  WorkTyped'
  BY <1>19, <1>w DEF Operate, Pause, Resume, Cancel, EmergencyStop, Steer
<1>20. ASSUME UNCHANGED vars PROVE WorkTyped'
  BY <1>20, <1>w DEF vars
<1> HIDE DEF events, detection, review, work, bounds, vars
<1> QED
  BY <1>1, <1>2, <1>3, <1>4, <1>5, <1>6, <1>7, <1>8, <1>9, <1>10, <1>11, <1>12, <1>13,
       <1>14, <1>15, <1>16, <1>17, <1>18, <1>19, <1>20 DEF Next, Handle, StepHandler,
       ChildWorker, JobWorker, Answers

(* A call is of the job or of an image. *)
LEMMA CallShape ==
  ASSUME TypeOK, NEW c \in calls
  PROVE  c[1] \in Work /\ c[2] \in Nat /\ (c[1] # Job => c[1] \in Children)
BY DEF TypeOK, Work

(* The events name steps of the run. *)
LEMMA EventsStep ==
  ASSUME InspectionInv, [Next]_vars
  PROVE  EventsName'
<1>0. EventsName /\ WorkIsOwned /\ TypeOK
  BY DEF InspectionInv
<1> USE InspectionAssumption DEF EventsName, WorkIsOwned, Busy, events, Exchange, Event,
    Requested, Continued, Gathered, IsGathered
<1>1. ASSUME NEW e \in inbox, Advance(e)
      PROVE  EventsName'
  BY <1>1, <1>0, CurrentIsOpen DEF Advance, Wakes
<1>2. ASSUME NEW e \in inbox, IgnoreInactive(e) \/ NotAdmitted(e) \/ AwaitChildren(e)
      PROVE  EventsName'
  BY <1>2, <1>0 DEF IgnoreInactive, NotAdmitted, AwaitChildren, Runs
<1>3. ASSUME NEW e \in inbox, ControlHandler(e)
      PROVE  EventsName'
  BY <1>3, <1>0 DEF ControlHandler
<1>4. ASSUME NEW e \in inbox, ConditionSkips(e)
      PROVE  EventsName'
  BY <1>4, <1>0 DEF ConditionSkips
<1>5. ASSUME NEW e \in inbox, SyncStep(e)
      PROVE  EventsName'
  BY <1>5, <1>0 DEF SyncStep, Runs
<1>6. ASSUME NEW e \in inbox, QueueChildren(e)
      PROVE  EventsName'
  BY <1>6, <1>0 DEF QueueChildren, Unstarted, Runs
<1>7. ASSUME NEW e \in inbox, SealEvidence(e)
      PROVE  EventsName'
  BY <1>7, <1>0 DEF SealEvidence, Runs
<1>8. ASSUME NEW e \in inbox, QueueAssessment(e)
      PROVE  EventsName'
  BY <1>8, <1>0 DEF QueueAssessment, Runs
<1>9. ASSUME NEW e \in inbox, ApplyIssues(e)
      PROVE  EventsName'
  BY <1>9, <1>0 DEF ApplyIssues, Runs
<1>10. ASSUME NEW e \in inbox, DisputeTarget(e)
      PROVE  EventsName'
  BY <1>10, <1>0 DEF DisputeTarget, Runs
<1>11. ASSUME NEW e \in inbox, FailStep(e)
      PROVE  EventsName'
  BY <1>11, <1>0 DEF FailStep
<1>12. ASSUME NEW a \in Children, CancelChild(a) \/ RefuseChild(a) \/ CallProvider(a)
      PROVE  EventsName'
  BY <1>12, <1>0 DEF CancelChild, RefuseChild, CallProvider, ChildIs, Call, Claimable,
       LeaseRunsOut
<1>13. ASSUME NEW c \in calls, c[1] # Job, NEW outcome \in {"succeeded",
    "failed"} \cup Deferred,
             ProviderReturns(c[1], c[2], outcome)
      PROVE  EventsName'
  BY <1>13, <1>0, CallShape DEF ProviderReturns, ChildIs, Outcome, Record, Holds
<1>14. ASSUME NEW a \in Children, NEW outcome \in {"succeeded", "failed"},
             Callback(a, outcome) \/ CallbackUnstored(a)
      PROVE  EventsName'
  BY <1>14, <1>0 DEF Callback, CallbackUnstored, ChildIs
<1>15. ASSUME CancelJob \/ RefuseJob \/ CallModel
      PROVE  EventsName'
  BY <1>15, <1>0 DEF CancelJob, RefuseJob, CallModel, AssessmentFails, DropAssessment,
       Call, Claimable, LeaseRunsOut
<1>16. ASSUME NEW c \in calls, c[1] = Job, ModelReturns(c[2])
      PROVE  EventsName'
  BY <1>16, <1>0 DEF ModelReturns, DiscardAnswer, DropAssessment, AssessmentSucceeds,
       AssessmentNeedsReview, AssessmentFails, Record, Holds
<1>17. ASSUME NEW c \in calls, LoseCall(c)
      PROVE  EventsName'
  BY <1>17, <1>0 DEF LoseCall
<1>18. ASSUME Review
      PROVE  EventsName'
  BY <1>18, <1>0 DEF Review
<1>19. ASSUME Operate
      PROVE  EventsName'
  BY <1>19, <1>0 DEF Operate, Pause, Resume, Cancel, EmergencyStop, Steer
<1>20. ASSUME UNCHANGED vars PROVE EventsName'
  BY <1>20, <1>0 DEF vars
<1> HIDE DEF EventsName, WorkIsOwned, Busy, events, Exchange, Event, Requested, Continued,
    Gathered, IsGathered
<1> QED
  BY <1>1, <1>2, <1>3, <1>4, <1>5, <1>6, <1>7, <1>8, <1>9, <1>10, <1>11, <1>12, <1>13,
       <1>14, <1>15, <1>16, <1>17, <1>18, <1>19, <1>20 DEF Next, Handle, StepHandler,
       ChildWorker, JobWorker, Answers

(* Work under way belongs to a step, and its result is open. *)
LEMMA OwnedStep ==
  ASSUME InspectionInv, [Next]_vars
  PROVE  WorkIsOwned'
<1>0. EventsName /\ WorkIsOwned /\ TypeOK
  BY DEF InspectionInv
<1>s. /\ child \in [Children -> {"none", "canceled", "succeeded", "failed"} \cup Unanswered]
      /\ lease \in [Work -> Nat] /\ recorded \in [Work -> Nat]
  BY DEF InspectionInv, TypeOK
<1>c. /\ Job \in Work /\ Children \subseteq Work /\ Job \notin Children
      /\ Deferred \subseteq {"polling", "waiting_callback"}
  BY InspectionAssumption DEF Work, Job
<1> USE InspectionAssumption DEF WorkIsOwned, Busy, detection, review, Unanswered
<1>1. ASSUME NEW e \in inbox, Advance(e)
      PROVE  WorkIsOwned'
  BY <1>1, <1>0 DEF Advance, Wakes
<1>2. ASSUME NEW e \in inbox, IgnoreInactive(e) \/ NotAdmitted(e) \/ AwaitChildren(e)
      PROVE  WorkIsOwned'
  BY <1>2, <1>0 DEF IgnoreInactive, NotAdmitted, AwaitChildren, Runs
<1>3. ASSUME NEW e \in inbox, ControlHandler(e)
      PROVE  WorkIsOwned'
  BY <1>3, <1>0 DEF ControlHandler
<1>4. ASSUME NEW e \in inbox, ConditionSkips(e)
      PROVE  WorkIsOwned'
  BY <1>4, <1>0 DEF ConditionSkips
<1>5. ASSUME NEW e \in inbox, SyncStep(e)
      PROVE  WorkIsOwned'
  BY <1>5, <1>0 DEF SyncStep, Runs
<1>6. ASSUME NEW e \in inbox, QueueChildren(e)
      PROVE  WorkIsOwned'
  <2>1. Has("detect")
    BY <1>6, <1>0, SubjectIsStep DEF QueueChildren, Runs, Admits, Has
  <2> QED
    BY <1>6, <2>1, <1>0 DEF QueueChildren
<1>7. ASSUME NEW e \in inbox, SealEvidence(e)
      PROVE  WorkIsOwned'
  BY <1>7, <1>0 DEF SealEvidence, Runs
<1>8. ASSUME NEW e \in inbox, QueueAssessment(e)
      PROVE  WorkIsOwned'
  <2>1. Has("assess")
    BY <1>8, <1>0, SubjectIsStep DEF QueueAssessment, Runs, Admits, Has
  <2> QED
    BY <1>8, <2>1, <1>0 DEF QueueAssessment
<1>9. ASSUME NEW e \in inbox, ApplyIssues(e)
      PROVE  WorkIsOwned'
  BY <1>9, <1>0 DEF ApplyIssues, Runs
<1>10. ASSUME NEW e \in inbox, DisputeTarget(e)
      PROVE  WorkIsOwned'
  BY <1>10, <1>0 DEF DisputeTarget, Decided
<1>11. ASSUME NEW e \in inbox, FailStep(e)
      PROVE  WorkIsOwned'
  BY <1>11, <1>0 DEF FailStep
<1>12. ASSUME NEW a \in Children, CancelChild(a) \/ RefuseChild(a) \/ CallProvider(a)
      PROVE  WorkIsOwned'
  BY <1>12, <1>0 DEF CancelChild, RefuseChild, CallProvider, ChildIs, Call, Claimable,
       LeaseRunsOut
<1>13. ASSUME NEW c \in calls, c[1] # Job, NEW outcome \in {"succeeded",
    "failed"} \cup Deferred,
             ProviderReturns(c[1], c[2], outcome)
      PROVE  WorkIsOwned'
  BY <1>13, <1>0, <1>s, CallShape DEF ProviderReturns, ChildIs, Outcome, Record, Holds
<1>14. ASSUME NEW a \in Children, NEW outcome \in {"succeeded", "failed"},
             Callback(a, outcome) \/ CallbackUnstored(a)
      PROVE  WorkIsOwned'
  BY <1>14, <1>0 DEF Callback, CallbackUnstored, ChildIs
<1>15. ASSUME CancelJob \/ RefuseJob \/ CallModel
      PROVE  WorkIsOwned'
  BY <1>15, <1>0 DEF CancelJob, RefuseJob, CallModel, AssessmentFails, DropAssessment,
       Call, Claimable, LeaseRunsOut
<1>16. ASSUME NEW c \in calls, c[1] = Job, ModelReturns(c[2])
      PROVE  WorkIsOwned'
  BY <1>16, <1>0 DEF ModelReturns, DiscardAnswer, DropAssessment, AssessmentSucceeds,
       AssessmentNeedsReview, AssessmentFails, Record, Holds
<1>17. ASSUME NEW c \in calls, LoseCall(c)
      PROVE  WorkIsOwned'
  BY <1>17, <1>0 DEF LoseCall
<1>18. ASSUME Review
      PROVE  WorkIsOwned'
  BY <1>18, <1>0 DEF Review
<1>19. ASSUME Operate
      PROVE  WorkIsOwned'
  BY <1>19, <1>0 DEF Operate, Pause, Resume, Cancel, EmergencyStop, Steer
<1>20. ASSUME UNCHANGED vars PROVE WorkIsOwned'
  BY <1>20, <1>0 DEF vars
<1> HIDE DEF WorkIsOwned, Busy, detection, review, Unanswered
<1> QED
  BY <1>1, <1>2, <1>3, <1>4, <1>5, <1>6, <1>7, <1>8, <1>9, <1>10, <1>11, <1>12, <1>13,
       <1>14, <1>15, <1>16, <1>17, <1>18, <1>19, <1>20 DEF Next, Handle, StepHandler,
       ChildWorker, JobWorker, Answers

(* What is not answered has no recorded answer. *)
LEMMA UnrecordedStep ==
  ASSUME InspectionInv, [Next]_vars
  PROVE  OpenIsUnrecorded'
<1>0. OpenIsUnrecorded /\ WorkIsOwned /\ TypeOK
  BY DEF InspectionInv
<1>s. /\ child \in [Children -> {"none", "canceled", "succeeded", "failed"} \cup Unanswered]
      /\ lease \in [Work -> Nat] /\ recorded \in [Work -> Nat]
  BY DEF InspectionInv, TypeOK
<1>c. /\ Job \in Work /\ Children \subseteq Work /\ Job \notin Children
      /\ Deferred \subseteq {"polling", "waiting_callback"}
  BY InspectionAssumption DEF Work, Job
<1> USE InspectionAssumption DEF OpenIsUnrecorded, Busy, detection, review, Unanswered, work
<1>1. ASSUME NEW e \in inbox, Advance(e)
      PROVE  OpenIsUnrecorded'
  BY <1>1, <1>0, <1>s, <1>c DEF Advance, Wakes
<1>2. ASSUME NEW e \in inbox, IgnoreInactive(e) \/ NotAdmitted(e) \/ AwaitChildren(e)
      PROVE  OpenIsUnrecorded'
  BY <1>2, <1>0, <1>s, <1>c DEF IgnoreInactive, NotAdmitted, AwaitChildren, Runs
<1>3. ASSUME NEW e \in inbox, ControlHandler(e)
      PROVE  OpenIsUnrecorded'
  BY <1>3, <1>0, <1>s, <1>c DEF ControlHandler
<1>4. ASSUME NEW e \in inbox, ConditionSkips(e)
      PROVE  OpenIsUnrecorded'
  BY <1>4, <1>0, <1>s, <1>c DEF ConditionSkips
<1>5. ASSUME NEW e \in inbox, SyncStep(e)
      PROVE  OpenIsUnrecorded'
  BY <1>5, <1>0, <1>s, <1>c DEF SyncStep, Runs
<1>6. ASSUME NEW e \in inbox, QueueChildren(e)
      PROVE  OpenIsUnrecorded'
  BY <1>6, <1>0, <1>s, <1>c DEF QueueChildren, Unstarted, Runs
<1>7. ASSUME NEW e \in inbox, SealEvidence(e)
      PROVE  OpenIsUnrecorded'
  BY <1>7, <1>0, <1>s, <1>c DEF SealEvidence, Runs
<1>8. ASSUME NEW e \in inbox, QueueAssessment(e)
      PROVE  OpenIsUnrecorded'
  BY <1>8, <1>0 DEF QueueAssessment, WorkIsOwned
<1>9. ASSUME NEW e \in inbox, ApplyIssues(e)
      PROVE  OpenIsUnrecorded'
  BY <1>9, <1>0, <1>s, <1>c DEF ApplyIssues, Runs
<1>10. ASSUME NEW e \in inbox, DisputeTarget(e)
      PROVE  OpenIsUnrecorded'
  BY <1>10, <1>0, <1>s, <1>c DEF DisputeTarget, Runs
<1>11. ASSUME NEW e \in inbox, FailStep(e)
      PROVE  OpenIsUnrecorded'
  BY <1>11, <1>0, <1>s, <1>c DEF FailStep
<1>12. ASSUME NEW a \in Children, CancelChild(a) \/ RefuseChild(a) \/ CallProvider(a)
      PROVE  OpenIsUnrecorded'
  BY <1>12, <1>0, <1>s, <1>c DEF CancelChild, RefuseChild, CallProvider, ChildIs, Call,
       Claimable, LeaseRunsOut
<1>13. ASSUME NEW c \in calls, c[1] # Job, NEW outcome \in {"succeeded",
    "failed"} \cup Deferred,
             ProviderReturns(c[1], c[2], outcome)
      PROVE  OpenIsUnrecorded'
  <2>1. c[1] \in Children /\ c[1] # Job
    BY <1>13, <1>0, CallShape
  <2>2. Outcome(outcome) \notin {"none"} \cup Busy
    BY <1>13, <1>c DEF Outcome
  <2>3. CASE UNCHANGED <<child, recorded>>
    BY <1>13, <1>0, <2>3 DEF ProviderReturns
  <2>4. CASE ChildIs(c[1], Outcome(outcome)) /\ Record(c[1], c[2])
    <3>1. \A a \in Children : a # c[1] => child'[a] = child[a] /\ recorded'[a] = recorded[a]
      BY <1>s, <1>c, <2>1, <2>4 DEF ChildIs, Record
    <3>2. child'[c[1]] = Outcome(outcome) /\ recorded'[Job] = recorded[Job] /\ job' = job
      BY <1>13, <1>s, <1>c, <2>1, <2>4 DEF ChildIs, Record, ProviderReturns
    <3> QED
      BY <1>0, <2>2, <3>1, <3>2
  <2> QED
    BY <1>13, <2>3, <2>4 DEF ProviderReturns
<1>14. ASSUME NEW a \in Children, NEW outcome \in {"succeeded", "failed"},
             Callback(a, outcome) \/ CallbackUnstored(a)
      PROVE  OpenIsUnrecorded'
  BY <1>14, <1>0, <1>s, <1>c DEF Callback, CallbackUnstored, ChildIs
<1>15. ASSUME CancelJob \/ RefuseJob \/ CallModel
      PROVE  OpenIsUnrecorded'
  BY <1>15, <1>0, <1>s, <1>c DEF CancelJob, RefuseJob, CallModel, AssessmentFails,
       DropAssessment, Call, Claimable, LeaseRunsOut
<1>16. ASSUME NEW c \in calls, c[1] = Job, ModelReturns(c[2])
      PROVE  OpenIsUnrecorded'
  BY <1>16, <1>0, <1>s, <1>c, CallShape DEF ModelReturns, DiscardAnswer, DropAssessment,
       AssessmentSucceeds, AssessmentNeedsReview, AssessmentFails, Record, Holds
<1>17. ASSUME NEW c \in calls, LoseCall(c)
      PROVE  OpenIsUnrecorded'
  BY <1>17, <1>0, <1>s, <1>c DEF LoseCall
<1>18. ASSUME Review
      PROVE  OpenIsUnrecorded'
  BY <1>18, <1>0, <1>s, <1>c DEF Review
<1>19. ASSUME Operate
      PROVE  OpenIsUnrecorded'
  BY <1>19, <1>0, <1>s, <1>c DEF Operate, Pause, Resume, Cancel, EmergencyStop, Steer
<1>20. ASSUME UNCHANGED vars PROVE OpenIsUnrecorded'
  BY <1>20, <1>0, <1>s, <1>c DEF vars
<1> HIDE DEF OpenIsUnrecorded, Busy, detection, review, Unanswered, work
<1> QED
  BY <1>1, <1>2, <1>3, <1>4, <1>5, <1>6, <1>7, <1>8, <1>9, <1>10, <1>11, <1>12, <1>13,
       <1>14, <1>15, <1>16, <1>17, <1>18, <1>19, <1>20 DEF Next, Handle, StepHandler,
       ChildWorker, JobWorker, Answers

(* Only the last call is answered. *)
LEMMA LastCallStep ==
  ASSUME InspectionInv, [Next]_vars
  PROVE  LastCallCounts'
<1>0. OpenIsUnrecorded /\ LastCallCounts /\ TypeOK
  BY DEF InspectionInv
<1>s. /\ child \in [Children -> {"none", "canceled", "succeeded", "failed"} \cup Unanswered]
      /\ lease \in [Work -> Nat] /\ recorded \in [Work -> Nat]
  BY DEF InspectionInv, TypeOK
<1>c. /\ Job \in Work /\ Children \subseteq Work /\ Job \notin Children
      /\ Deferred \subseteq {"polling", "waiting_callback"}
  BY InspectionAssumption DEF Work, Job
<1> USE InspectionAssumption DEF LastCallCounts, Busy, detection, review, work
<1>1. ASSUME NEW e \in inbox, Advance(e)
      PROVE  LastCallCounts'
  BY <1>1, <1>0, <1>s, <1>c DEF Advance, Wakes
<1>2. ASSUME NEW e \in inbox, IgnoreInactive(e) \/ NotAdmitted(e) \/ AwaitChildren(e)
      PROVE  LastCallCounts'
  BY <1>2, <1>0, <1>s, <1>c DEF IgnoreInactive, NotAdmitted, AwaitChildren, Runs
<1>3. ASSUME NEW e \in inbox, ControlHandler(e)
      PROVE  LastCallCounts'
  BY <1>3, <1>0, <1>s, <1>c DEF ControlHandler
<1>4. ASSUME NEW e \in inbox, ConditionSkips(e)
      PROVE  LastCallCounts'
  BY <1>4, <1>0, <1>s, <1>c DEF ConditionSkips
<1>5. ASSUME NEW e \in inbox, SyncStep(e)
      PROVE  LastCallCounts'
  BY <1>5, <1>0, <1>s, <1>c DEF SyncStep, Runs
<1>6. ASSUME NEW e \in inbox, QueueChildren(e)
      PROVE  LastCallCounts'
  BY <1>6, <1>0, <1>s, <1>c DEF QueueChildren, Unstarted, Runs
<1>7. ASSUME NEW e \in inbox, SealEvidence(e)
      PROVE  LastCallCounts'
  BY <1>7, <1>0, <1>s, <1>c DEF SealEvidence, Runs
<1>8. ASSUME NEW e \in inbox, QueueAssessment(e)
      PROVE  LastCallCounts'
  BY <1>8, <1>0, <1>s, <1>c DEF QueueAssessment, Runs
<1>9. ASSUME NEW e \in inbox, ApplyIssues(e)
      PROVE  LastCallCounts'
  BY <1>9, <1>0, <1>s, <1>c DEF ApplyIssues, Runs
<1>10. ASSUME NEW e \in inbox, DisputeTarget(e)
      PROVE  LastCallCounts'
  BY <1>10, <1>0, <1>s, <1>c DEF DisputeTarget, Runs
<1>11. ASSUME NEW e \in inbox, FailStep(e)
      PROVE  LastCallCounts'
  BY <1>11, <1>0, <1>s, <1>c DEF FailStep
<1>12. ASSUME NEW a \in Children, CancelChild(a) \/ RefuseChild(a) \/ CallProvider(a)
      PROVE  LastCallCounts'
  <2>1. CASE CancelChild(a) \/ RefuseChild(a)
    BY <1>0, <2>1 DEF CancelChild, RefuseChild
  <2>2. CASE CallProvider(a)
    <3>1. recorded[a] = 0
      BY <1>0, <2>2 DEF CallProvider, Claimable, OpenIsUnrecorded
    <3> QED
      BY <1>0, <1>s, <1>c, <2>2, <3>1 DEF CallProvider, Call
  <2> QED
    BY <1>12, <2>1, <2>2
<1>13. ASSUME NEW c \in calls, c[1] # Job, NEW outcome \in {"succeeded",
    "failed"} \cup Deferred,
             ProviderReturns(c[1], c[2], outcome)
      PROVE  LastCallCounts'
  BY <1>13, <1>0, <1>s, <1>c, CallShape DEF ProviderReturns, ChildIs, Outcome, Record,
       Holds
<1>14. ASSUME NEW a \in Children, NEW outcome \in {"succeeded", "failed"},
             Callback(a, outcome) \/ CallbackUnstored(a)
      PROVE  LastCallCounts'
  BY <1>14, <1>0, <1>s, <1>c DEF Callback, CallbackUnstored, ChildIs
<1>15. ASSUME CancelJob \/ RefuseJob \/ CallModel
      PROVE  LastCallCounts'
  <2>1. CASE CancelJob \/ RefuseJob
    BY <1>0, <2>1 DEF CancelJob, RefuseJob
  <2>2. CASE CallModel
    <3>1. recorded[Job] = 0
      BY <1>0, <2>2 DEF CallModel, Claimable, OpenIsUnrecorded
    <3> QED
      BY <1>0, <1>s, <1>c, <2>2, <3>1 DEF CallModel, Call
  <2> QED
    BY <1>15, <2>1, <2>2
<1>16. ASSUME NEW c \in calls, c[1] = Job, ModelReturns(c[2])
      PROVE  LastCallCounts'
  <2>1. lease' = lease /\ (recorded' = recorded \/ (Record(Job, c[2]) /\ Holds(Job, c[2])))
    BY <1>16 DEF ModelReturns
  <2> QED
    BY <1>0, <1>s, <1>c, <2>1 DEF Record, Holds
<1>17. ASSUME NEW c \in calls, LoseCall(c)
      PROVE  LastCallCounts'
  BY <1>17, <1>0, <1>s, <1>c DEF LoseCall
<1>18. ASSUME Review
      PROVE  LastCallCounts'
  BY <1>18, <1>0, <1>s, <1>c DEF Review
<1>19. ASSUME Operate
      PROVE  LastCallCounts'
  BY <1>19, <1>0, <1>s, <1>c DEF Operate, Pause, Resume, Cancel, EmergencyStop, Steer
<1>20. ASSUME UNCHANGED vars PROVE LastCallCounts'
  BY <1>20, <1>0, <1>s, <1>c DEF vars
<1> HIDE DEF LastCallCounts, Busy, detection, review, work
<1> QED
  BY <1>1, <1>2, <1>3, <1>4, <1>5, <1>6, <1>7, <1>8, <1>9, <1>10, <1>11, <1>12, <1>13,
       <1>14, <1>15, <1>16, <1>17, <1>18, <1>19, <1>20 DEF Next, Handle, StepHandler,
       ChildWorker, JobWorker, Answers

(* A pending review blocks the run. *)
LEMMA ReviewStep ==
  ASSUME InspectionInv, [Next]_vars
  PROVE  ReviewBlocks'
<1>0. ReviewBlocks /\ WorkIsOwned
  BY DEF InspectionInv
<1> USE InspectionAssumption DEF ReviewBlocks, WorkIsOwned, Busy, review, Schedulable,
    Terminal, Admits
<1>1. ASSUME NEW e \in inbox, Advance(e)
      PROVE  ReviewBlocks'
  BY <1>1, <1>0 DEF Advance, Wakes
<1>2. ASSUME NEW e \in inbox, IgnoreInactive(e) \/ NotAdmitted(e) \/ AwaitChildren(e)
      PROVE  ReviewBlocks'
  BY <1>2, <1>0 DEF IgnoreInactive, NotAdmitted, AwaitChildren, Runs
<1>3. ASSUME NEW e \in inbox, ControlHandler(e)
      PROVE  ReviewBlocks'
  BY <1>3, <1>0 DEF ControlHandler
<1>4. ASSUME NEW e \in inbox, ConditionSkips(e)
      PROVE  ReviewBlocks'
  BY <1>4, <1>0 DEF ConditionSkips
<1>5. ASSUME NEW e \in inbox, SyncStep(e)
      PROVE  ReviewBlocks'
  BY <1>5, <1>0 DEF SyncStep, Runs
<1>6. ASSUME NEW e \in inbox, QueueChildren(e)
      PROVE  ReviewBlocks'
  BY <1>6, <1>0 DEF QueueChildren, Unstarted, Runs
<1>7. ASSUME NEW e \in inbox, SealEvidence(e)
      PROVE  ReviewBlocks'
  BY <1>7, <1>0 DEF SealEvidence, Runs
<1>8. ASSUME NEW e \in inbox, QueueAssessment(e)
      PROVE  ReviewBlocks'
  BY <1>8, <1>0 DEF QueueAssessment, Runs
<1>9. ASSUME NEW e \in inbox, ApplyIssues(e)
      PROVE  ReviewBlocks'
  BY <1>9, <1>0 DEF ApplyIssues, Runs
<1>10. ASSUME NEW e \in inbox, DisputeTarget(e)
      PROVE  ReviewBlocks'
  BY <1>10, <1>0 DEF DisputeTarget, Runs
<1>11. ASSUME NEW e \in inbox, FailStep(e)
      PROVE  ReviewBlocks'
  BY <1>11, <1>0 DEF FailStep
<1>12. ASSUME NEW a \in Children, CancelChild(a) \/ RefuseChild(a) \/ CallProvider(a)
      PROVE  ReviewBlocks'
  BY <1>12, <1>0 DEF CancelChild, RefuseChild, CallProvider, ChildIs, Call, Claimable,
       LeaseRunsOut
<1>13. ASSUME NEW c \in calls, c[1] # Job, NEW outcome \in {"succeeded",
    "failed"} \cup Deferred,
             ProviderReturns(c[1], c[2], outcome)
      PROVE  ReviewBlocks'
  BY <1>13, <1>0 DEF ProviderReturns, ChildIs, Outcome, Record, Holds
<1>14. ASSUME NEW a \in Children, NEW outcome \in {"succeeded", "failed"},
             Callback(a, outcome) \/ CallbackUnstored(a)
      PROVE  ReviewBlocks'
  BY <1>14, <1>0 DEF Callback, CallbackUnstored, ChildIs
<1>15. ASSUME CancelJob \/ RefuseJob \/ CallModel
      PROVE  ReviewBlocks'
  BY <1>15, <1>0 DEF CancelJob, RefuseJob, CallModel, AssessmentFails, DropAssessment,
       Call, Claimable, LeaseRunsOut
<1>16. ASSUME NEW c \in calls, c[1] = Job, ModelReturns(c[2])
      PROVE  ReviewBlocks'
  BY <1>16, <1>0 DEF ModelReturns, DiscardAnswer, DropAssessment, AssessmentSucceeds,
       AssessmentNeedsReview, AssessmentFails, Record, Holds
<1>17. ASSUME NEW c \in calls, LoseCall(c)
      PROVE  ReviewBlocks'
  BY <1>17, <1>0 DEF LoseCall
<1>18. ASSUME Review
      PROVE  ReviewBlocks'
  BY <1>18, <1>0 DEF Review
<1>19. ASSUME Operate
      PROVE  ReviewBlocks'
  BY <1>19, <1>0 DEF Operate, Pause, Resume, Cancel, EmergencyStop, Steer
<1>20. ASSUME UNCHANGED vars PROVE ReviewBlocks'
  BY <1>20, <1>0 DEF vars
<1> HIDE DEF ReviewBlocks, WorkIsOwned, Busy, review, Schedulable, Terminal, Admits
<1> QED
  BY <1>1, <1>2, <1>3, <1>4, <1>5, <1>6, <1>7, <1>8, <1>9, <1>10, <1>11, <1>12, <1>13,
       <1>14, <1>15, <1>16, <1>17, <1>18, <1>19, <1>20 DEF Next, Handle, StepHandler,
       ChildWorker, JobWorker, Answers

(* Nothing is asked for before the run starts. *)
LEMMA FreshStep ==
  ASSUME InspectionInv, [Next]_vars
  PROVE  QueuedIsFresh'
<1>0. QueuedIsFresh /\ TypeOK
  BY DEF InspectionInv
<1> USE InspectionAssumption DEF QueuedIsFresh, Busy, detection, events, Exchange, Event,
    Schedulable, Admits, Asks, IsGathered, Terminal
<1>1. ASSUME NEW e \in inbox, Advance(e)
      PROVE  QueuedIsFresh'
  BY <1>1, <1>0 DEF Advance, Wakes
<1>2. ASSUME NEW e \in inbox, IgnoreInactive(e) \/ NotAdmitted(e) \/ AwaitChildren(e)
      PROVE  QueuedIsFresh'
  BY <1>2, <1>0 DEF IgnoreInactive, NotAdmitted, AwaitChildren, Runs
<1>3. ASSUME NEW e \in inbox, ControlHandler(e)
      PROVE  QueuedIsFresh'
  BY <1>3, <1>0 DEF ControlHandler
<1>4. ASSUME NEW e \in inbox, ConditionSkips(e)
      PROVE  QueuedIsFresh'
  BY <1>4, <1>0 DEF ConditionSkips
<1>5. ASSUME NEW e \in inbox, SyncStep(e)
      PROVE  QueuedIsFresh'
  BY <1>5, <1>0 DEF SyncStep, Runs
<1>6. ASSUME NEW e \in inbox, QueueChildren(e)
      PROVE  QueuedIsFresh'
  BY <1>6, <1>0 DEF QueueChildren, Unstarted, Runs
<1>7. ASSUME NEW e \in inbox, SealEvidence(e)
      PROVE  QueuedIsFresh'
  BY <1>7, <1>0 DEF SealEvidence, Runs
<1>8. ASSUME NEW e \in inbox, QueueAssessment(e)
      PROVE  QueuedIsFresh'
  BY <1>8, <1>0 DEF QueueAssessment, Runs
<1>9. ASSUME NEW e \in inbox, ApplyIssues(e)
      PROVE  QueuedIsFresh'
  BY <1>9, <1>0 DEF ApplyIssues, Runs
<1>10. ASSUME NEW e \in inbox, DisputeTarget(e)
      PROVE  QueuedIsFresh'
  BY <1>10, <1>0 DEF DisputeTarget, Runs
<1>11. ASSUME NEW e \in inbox, FailStep(e)
      PROVE  QueuedIsFresh'
  BY <1>11, <1>0 DEF FailStep
<1>12. ASSUME NEW a \in Children, CancelChild(a) \/ RefuseChild(a) \/ CallProvider(a)
      PROVE  QueuedIsFresh'
  BY <1>12, <1>0 DEF CancelChild, RefuseChild, CallProvider, ChildIs, Call, Claimable,
       LeaseRunsOut
<1>13. ASSUME NEW c \in calls, c[1] # Job, NEW outcome \in {"succeeded",
    "failed"} \cup Deferred,
             ProviderReturns(c[1], c[2], outcome)
      PROVE  QueuedIsFresh'
  BY <1>13, <1>0, CallShape DEF ProviderReturns, ChildIs, Outcome, Record, Holds
<1>14. ASSUME NEW a \in Children, NEW outcome \in {"succeeded", "failed"},
             Callback(a, outcome) \/ CallbackUnstored(a)
      PROVE  QueuedIsFresh'
  BY <1>14, <1>0 DEF Callback, CallbackUnstored, ChildIs
<1>15. ASSUME CancelJob \/ RefuseJob \/ CallModel
      PROVE  QueuedIsFresh'
  BY <1>15, <1>0 DEF CancelJob, RefuseJob, CallModel, AssessmentFails, DropAssessment,
       Call, Claimable, LeaseRunsOut
<1>16. ASSUME NEW c \in calls, c[1] = Job, ModelReturns(c[2])
      PROVE  QueuedIsFresh'
  BY <1>16, <1>0 DEF ModelReturns, DiscardAnswer, DropAssessment, AssessmentSucceeds,
       AssessmentNeedsReview, AssessmentFails, Record, Holds
<1>17. ASSUME NEW c \in calls, LoseCall(c)
      PROVE  QueuedIsFresh'
  BY <1>17, <1>0 DEF LoseCall
<1>18. ASSUME Review
      PROVE  QueuedIsFresh'
  BY <1>18, <1>0 DEF Review
<1>19. ASSUME Operate
      PROVE  QueuedIsFresh'
  BY <1>19, <1>0 DEF Operate, Pause, Resume, Cancel, EmergencyStop, Steer
<1>20. ASSUME UNCHANGED vars PROVE QueuedIsFresh'
  BY <1>20, <1>0 DEF vars
<1> HIDE DEF QueuedIsFresh, Busy, detection, events, Exchange, Event, Schedulable, Admits,
    Asks, IsGathered, Terminal
<1> QED
  BY <1>1, <1>2, <1>3, <1>4, <1>5, <1>6, <1>7, <1>8, <1>9, <1>10, <1>11, <1>12, <1>13,
       <1>14, <1>15, <1>16, <1>17, <1>18, <1>19, <1>20 DEF Next, Handle, StepHandler,
       ChildWorker, JobWorker, Answers

(* What an assignment to a step changes. *)
LEMMA FinishChanges ==
  ASSUME TypeOK, NEW i, NEW status, Finish(i, status)
  PROVE  \A j \in Positions : step'[j] = step[j] \/ (j = i /\ step'[j] = status)
<1>1. step \in [Positions -> {"pending", "running", "paused", "failed"} \cup Done]
  BY DEF TypeOK
<1>2. step' = [step EXCEPT ![i] = status]
  BY DEF Finish
<1> QED
  BY <1>1, <1>2

(* Handlers of steps run in a running run. *)
LEMMA AdmittedIsRunning ==
  ASSUME QueuedIsFresh, NEW e \in inbox, Admits(e)
  PROVE  run = "running"
BY DEF QueuedIsFresh, Admits, Asks, IsGathered, Event, Schedulable

(* What has to hold for a step to succeed, by its use. *)
Earned(i) == \/ Uses[i] = "sync"
             \/ Uses[i] = "detect" /\ Complete /\ child' = child
             \/ Uses[i] = "assess" /\ assessment' = "succeeded"
             \/ Uses[i] = "issue" /\ Decided /\ assessment' = assessment

Succeeds(i) == step[i] # "succeeded" /\ step'[i] = "succeeded"

(* A step succeeds when it has earned it, and in a running run. *)
LEMMA SuccessStep ==
  ASSUME InspectionInv, [Next]_vars
  PROVE  \A i \in Positions : Succeeds(i) => Earned(i) /\ run' = "running"
<1>0. TypeOK /\ EvidenceIsComplete /\ IssuesAreDecided /\ EventsName /\ WorkIsOwned /\ QueuedIsFresh
  BY DEF InspectionInv
<1>u. step \in [Positions -> {"pending", "running", "paused", "failed"} \cup Done]
  BY DEF InspectionInv, TypeOK
<1> USE InspectionAssumption DEF Succeeds
<1>1. ASSUME NEW e \in inbox, Advance(e)
      PROVE  \A i \in Positions : Succeeds(i) => Earned(i) /\ run' = "running"
  <2>1. step' = step \/ Finish(Current, "running")
    BY <1>1 DEF Advance
  <2>2. \A j \in Positions : step'[j] = step[j] \/ step'[j] = "running"
    BY <1>0, <2>1, FinishChanges
  <2> QED
    BY <2>2
<1>2. ASSUME NEW e \in inbox, IgnoreInactive(e) \/ NotAdmitted(e) \/ AwaitChildren(e)
      PROVE  \A i \in Positions : Succeeds(i) => Earned(i) /\ run' = "running"
  BY <1>2, <1>0 DEF IgnoreInactive, NotAdmitted, AwaitChildren, Runs
<1>3. ASSUME NEW e \in inbox, ControlHandler(e)
      PROVE  \A i \in Positions : Succeeds(i) => Earned(i) /\ run' = "running"
  BY <1>3, <1>0 DEF ControlHandler
<1>4. ASSUME NEW e \in inbox, ConditionSkips(e)
      PROVE  \A i \in Positions : Succeeds(i) => Earned(i) /\ run' = "running"
  <2>1. \A j \in Positions : step'[j] = step[j] \/ (j = Subject(e) /\ step'[j] = "skipped")
    BY <1>4, <1>0, FinishChanges DEF ConditionSkips
  <2> QED
    BY <2>1
<1>5. ASSUME NEW e \in inbox, SyncStep(e)
      PROVE  \A i \in Positions : Succeeds(i) => Earned(i) /\ run' = "running"
  <2>1. \A j \in Positions : step'[j] = step[j] \/ (j = Subject(e) /\ step'[j] = "succeeded")
    BY <1>5, <1>0, FinishChanges DEF SyncStep
  <2>2. run' = "running" /\ Uses[Subject(e)] = "sync"
    BY <1>5, <1>0, AdmittedIsRunning DEF SyncStep, Runs
  <2> QED
    BY <1>5, <2>1, <2>2 DEF Earned, SyncStep
<1>6. ASSUME NEW e \in inbox, QueueChildren(e)
      PROVE  \A i \in Positions : Succeeds(i) => Earned(i) /\ run' = "running"
  BY <1>6, <1>0 DEF QueueChildren, Unstarted, Runs
<1>7. ASSUME NEW e \in inbox, SealEvidence(e)
      PROVE  \A i \in Positions : Succeeds(i) => Earned(i) /\ run' = "running"
  <2>1. \A j \in Positions : step'[j] = step[j] \/ (j = Subject(e) /\ step'[j] = "succeeded")
    BY <1>7, <1>0, FinishChanges DEF SealEvidence
  <2>2. run' = "running" /\ Uses[Subject(e)] = "detect"
    BY <1>7, <1>0, AdmittedIsRunning DEF SealEvidence, Runs
  <2> QED
    BY <1>7, <2>1, <2>2 DEF Earned, SealEvidence, detection
<1>8. ASSUME NEW e \in inbox, QueueAssessment(e)
      PROVE  \A i \in Positions : Succeeds(i) => Earned(i) /\ run' = "running"
  BY <1>8, <1>0 DEF QueueAssessment, Runs
<1>9. ASSUME NEW e \in inbox, ApplyIssues(e)
      PROVE  \A i \in Positions : Succeeds(i) => Earned(i) /\ run' = "running"
  <2>1. \A j \in Positions : step'[j] = step[j] \/ (j = Subject(e) /\ step'[j] = "succeeded")
    BY <1>9, <1>0, FinishChanges DEF ApplyIssues
  <2>2. run' = "running" /\ Uses[Subject(e)] = "issue"
    BY <1>9, <1>0, AdmittedIsRunning DEF ApplyIssues, Runs
  <2> QED
    BY <1>9, <2>1, <2>2 DEF Earned, ApplyIssues, review
<1>10. ASSUME NEW e \in inbox, DisputeTarget(e)
      PROVE  \A i \in Positions : Succeeds(i) => Earned(i) /\ run' = "running"
  <2>1. step' = [step EXCEPT ![The("assess")] = "paused", ![Subject(e)] = "pending"]
    BY <1>10 DEF DisputeTarget
  <2>2. \A j \in Positions : step'[j] = step[j] \/ step'[j] \in {"paused", "pending"}
    BY <1>u, <2>1
  <2> QED
    BY <2>2
<1>11. ASSUME NEW e \in inbox, FailStep(e)
      PROVE  \A i \in Positions : Succeeds(i) => Earned(i) /\ run' = "running"
  <2>1. \E status \in {"failed", "paused", "skipped"} : Finish(Subject(e), status)
    BY <1>11 DEF FailStep
  <2>2. \A j \in Positions : step'[j] = step[j] \/ step'[j] \in {"failed", "paused", "skipped"}
    BY <1>0, <2>1, FinishChanges
  <2> QED
    BY <2>2
<1>12. ASSUME NEW a \in Children, CancelChild(a) \/ RefuseChild(a) \/ CallProvider(a)
      PROVE  \A i \in Positions : Succeeds(i) => Earned(i) /\ run' = "running"
  BY <1>12, <1>0 DEF CancelChild, RefuseChild, CallProvider, ChildIs, Call, Claimable,
       LeaseRunsOut
<1>13. ASSUME NEW c \in calls, c[1] # Job, NEW outcome \in {"succeeded",
    "failed"} \cup Deferred,
             ProviderReturns(c[1], c[2], outcome)
      PROVE  \A i \in Positions : Succeeds(i) => Earned(i) /\ run' = "running"
  BY <1>13, <1>0 DEF ProviderReturns, ChildIs, Outcome, Record, Holds
<1>14. ASSUME NEW a \in Children, NEW outcome \in {"succeeded", "failed"},
             Callback(a, outcome) \/ CallbackUnstored(a)
      PROVE  \A i \in Positions : Succeeds(i) => Earned(i) /\ run' = "running"
  BY <1>14, <1>0 DEF Callback, CallbackUnstored, ChildIs
<1>15. ASSUME CancelJob \/ RefuseJob \/ CallModel
      PROVE  \A i \in Positions : Succeeds(i) => Earned(i) /\ run' = "running"
  <2>1. step' = step \/ \E status \in {"failed", "paused"} : Finish(The("assess"), status)
    BY <1>15 DEF CancelJob, RefuseJob, CallModel, AssessmentFails
  <2>2. \A j \in Positions : step'[j] = step[j] \/ step'[j] \in {"failed", "paused"}
    BY <1>0, <2>1, FinishChanges
  <2> QED
    BY <2>2
<1>16. ASSUME NEW c \in calls, c[1] = Job, ModelReturns(c[2])
      PROVE  \A i \in Positions : Succeeds(i) => Earned(i) /\ run' = "running"
  <2>1. CASE UNCHANGED step
    BY <2>1
  <2>2. CASE DiscardAnswer
    <3>1. \A j \in Positions : step'[j] = step[j] \/ step'[j] = "failed"
      BY <1>u, <2>2 DEF DiscardAnswer
    <3> QED
      BY <3>1
  <2>3. CASE AssessmentNeedsReview \/ AssessmentFails
    <3>1. \E status \in {"failed", "paused"} : Finish(The("assess"), status)
      BY <2>3 DEF AssessmentNeedsReview, AssessmentFails
    <3>2. \A j \in Positions : step'[j] = step[j] \/ step'[j] \in {"failed", "paused"}
      BY <1>0, <3>1, FinishChanges
    <3> QED
      BY <3>2
  <2>4. CASE AssessmentSucceeds /\ job = "running" /\ Active("assess")
    <3>1. \A j \in Positions : step'[j] = step[j] \/ j = The("assess")
      BY <1>0, <2>4, FinishChanges DEF AssessmentSucceeds
    <3>2. Uses[The("assess")] = "assess"
      BY <1>0, <2>4, TheIsOne DEF WorkIsOwned
    <3> QED
      BY <2>4, <3>1, <3>2 DEF Earned, AssessmentSucceeds, Active
  <2> QED
    BY <1>16, <2>1, <2>2, <2>3, <2>4 DEF ModelReturns
<1>17. ASSUME NEW c \in calls, LoseCall(c)
      PROVE  \A i \in Positions : Succeeds(i) => Earned(i) /\ run' = "running"
  BY <1>17, <1>0 DEF LoseCall
<1>18. ASSUME Review
      PROVE  \A i \in Positions : Succeeds(i) => Earned(i) /\ run' = "running"
  <2>1. \A j \in Positions : step'[j] = step[j] \/ (j = The("assess") /\ step'[j] = "succeeded")
    BY <1>18, <1>0, FinishChanges DEF Review
  <2>2. Uses[The("assess")] = "assess"
    BY <1>18, <1>0, TheIsOne DEF Review, WorkIsOwned
  <2> QED
    BY <1>18, <2>1, <2>2 DEF Earned, Review
<1>19. ASSUME Operate
      PROVE  \A i \in Positions : Succeeds(i) => Earned(i) /\ run' = "running"
  BY <1>19, <1>0 DEF Operate, Pause, Resume, Cancel, EmergencyStop, Steer
<1>20. ASSUME UNCHANGED vars PROVE \A i \in Positions : Succeeds(i) => Earned(i) /\ run' = "running"
  BY <1>20, <1>0 DEF vars
<1> HIDE DEF Succeeds
<1> QED
  BY <1>1, <1>2, <1>3, <1>4, <1>5, <1>6, <1>7, <1>8, <1>9, <1>10, <1>11, <1>12, <1>13,
       <1>14, <1>15, <1>16, <1>17, <1>18, <1>19, <1>20 DEF Next, Handle, StepHandler,
       ChildWorker, JobWorker, Answers

(* A child that succeeded stays so. *)
LEMMA ChildrenStay ==
  ASSUME InspectionInv, [Next]_vars
  PROVE  \A b \in Children : child[b] = "succeeded" => child'[b] = "succeeded"
<1>0. TypeOK
  BY DEF InspectionInv
<1>s. /\ child \in [Children -> {"none", "canceled", "succeeded", "failed"} \cup Unanswered]
      /\ lease \in [Work -> Nat] /\ recorded \in [Work -> Nat]
  BY DEF InspectionInv, TypeOK
<1>c. /\ Job \in Work /\ Children \subseteq Work /\ Job \notin Children
      /\ Deferred \subseteq {"polling", "waiting_callback"}
  BY InspectionAssumption DEF Work, Job
<1> USE InspectionAssumption DEF detection, Busy, Unanswered
<1>1. ASSUME NEW e \in inbox, Advance(e)
      PROVE  \A b \in Children : child[b] = "succeeded" => child'[b] = "succeeded"
  BY <1>1, <1>s, <1>c DEF Advance, Wakes
<1>2. ASSUME NEW e \in inbox, IgnoreInactive(e) \/ NotAdmitted(e) \/ AwaitChildren(e)
      PROVE  \A b \in Children : child[b] = "succeeded" => child'[b] = "succeeded"
  BY <1>2, <1>s, <1>c DEF IgnoreInactive, NotAdmitted, AwaitChildren, Runs
<1>3. ASSUME NEW e \in inbox, ControlHandler(e)
      PROVE  \A b \in Children : child[b] = "succeeded" => child'[b] = "succeeded"
  BY <1>3, <1>s, <1>c DEF ControlHandler
<1>4. ASSUME NEW e \in inbox, ConditionSkips(e)
      PROVE  \A b \in Children : child[b] = "succeeded" => child'[b] = "succeeded"
  BY <1>4, <1>s, <1>c DEF ConditionSkips
<1>5. ASSUME NEW e \in inbox, SyncStep(e)
      PROVE  \A b \in Children : child[b] = "succeeded" => child'[b] = "succeeded"
  BY <1>5, <1>s, <1>c DEF SyncStep, Runs
<1>6. ASSUME NEW e \in inbox, QueueChildren(e)
      PROVE  \A b \in Children : child[b] = "succeeded" => child'[b] = "succeeded"
  BY <1>6, <1>s, <1>c DEF QueueChildren, Unstarted, Runs
<1>7. ASSUME NEW e \in inbox, SealEvidence(e)
      PROVE  \A b \in Children : child[b] = "succeeded" => child'[b] = "succeeded"
  BY <1>7, <1>s, <1>c DEF SealEvidence, Runs
<1>8. ASSUME NEW e \in inbox, QueueAssessment(e)
      PROVE  \A b \in Children : child[b] = "succeeded" => child'[b] = "succeeded"
  BY <1>8, <1>s, <1>c DEF QueueAssessment, Runs
<1>9. ASSUME NEW e \in inbox, ApplyIssues(e)
      PROVE  \A b \in Children : child[b] = "succeeded" => child'[b] = "succeeded"
  BY <1>9, <1>s, <1>c DEF ApplyIssues, Runs
<1>10. ASSUME NEW e \in inbox, DisputeTarget(e)
      PROVE  \A b \in Children : child[b] = "succeeded" => child'[b] = "succeeded"
  BY <1>10, <1>s, <1>c DEF DisputeTarget, Runs
<1>11. ASSUME NEW e \in inbox, FailStep(e)
      PROVE  \A b \in Children : child[b] = "succeeded" => child'[b] = "succeeded"
  BY <1>11, <1>s, <1>c DEF FailStep
<1>12. ASSUME NEW a \in Children, CancelChild(a) \/ RefuseChild(a) \/ CallProvider(a)
      PROVE  \A b \in Children : child[b] = "succeeded" => child'[b] = "succeeded"
  BY <1>12, <1>s, <1>c DEF CancelChild, RefuseChild, CallProvider, ChildIs, Call,
       Claimable, LeaseRunsOut
<1>13. ASSUME NEW c \in calls, c[1] # Job, NEW outcome \in {"succeeded",
    "failed"} \cup Deferred,
             ProviderReturns(c[1], c[2], outcome)
      PROVE  \A b \in Children : child[b] = "succeeded" => child'[b] = "succeeded"
  BY <1>13, <1>s, <1>c, <1>0, CallShape DEF ProviderReturns, ChildIs, Outcome, Record,
       Holds
<1>14. ASSUME NEW a \in Children, NEW outcome \in {"succeeded", "failed"},
             Callback(a, outcome) \/ CallbackUnstored(a)
      PROVE  \A b \in Children : child[b] = "succeeded" => child'[b] = "succeeded"
  BY <1>14, <1>s, <1>c DEF Callback, CallbackUnstored, ChildIs
<1>15. ASSUME CancelJob \/ RefuseJob \/ CallModel
      PROVE  \A b \in Children : child[b] = "succeeded" => child'[b] = "succeeded"
  BY <1>15, <1>s, <1>c DEF CancelJob, RefuseJob, CallModel, AssessmentFails,
       DropAssessment, Call, Claimable, LeaseRunsOut
<1>16. ASSUME NEW c \in calls, c[1] = Job, ModelReturns(c[2])
      PROVE  \A b \in Children : child[b] = "succeeded" => child'[b] = "succeeded"
  BY <1>16, <1>s, <1>c DEF ModelReturns, DiscardAnswer, DropAssessment,
       AssessmentSucceeds, AssessmentNeedsReview, AssessmentFails, Record, Holds
<1>17. ASSUME NEW c \in calls, LoseCall(c)
      PROVE  \A b \in Children : child[b] = "succeeded" => child'[b] = "succeeded"
  BY <1>17, <1>s, <1>c DEF LoseCall
<1>18. ASSUME Review
      PROVE  \A b \in Children : child[b] = "succeeded" => child'[b] = "succeeded"
  BY <1>18, <1>s, <1>c DEF Review
<1>19. ASSUME Operate
      PROVE  \A b \in Children : child[b] = "succeeded" => child'[b] = "succeeded"
  BY <1>19, <1>s, <1>c DEF Operate, Pause, Resume, Cancel, EmergencyStop, Steer
<1>20. ASSUME UNCHANGED vars PROVE \A b \in Children : child[b] = "succeeded" => child'[b] = "succeeded"
  BY <1>20, <1>s, <1>c DEF vars
<1> HIDE DEF detection, Busy, Unanswered
<1> QED
  BY <1>1, <1>2, <1>3, <1>4, <1>5, <1>6, <1>7, <1>8, <1>9, <1>10, <1>11, <1>12, <1>13,
       <1>14, <1>15, <1>16, <1>17, <1>18, <1>19, <1>20 DEF Next, Handle, StepHandler,
       ChildWorker, JobWorker, Answers

(* An assessment that succeeded stays so until its issues are disputed. *)
LEMMA AssessmentStays ==
  ASSUME InspectionInv, [Next]_vars
  PROVE  assessment = "succeeded" => \/ assessment' = "succeeded"
                                     \/ \E e \in inbox : DisputeTarget(e)
<1>0. WorkIsOwned
  BY DEF InspectionInv
<1> DEFINE Goal == assessment = "succeeded" => \/ assessment' = "succeeded"
                                     \/ \E e \in inbox : DisputeTarget(e)
<1> USE InspectionAssumption DEF review, WorkIsOwned, Busy
<1>1. ASSUME NEW e \in inbox, Advance(e)
      PROVE  Goal
  BY <1>1, <1>0 DEF Advance, Wakes
<1>2. ASSUME NEW e \in inbox, IgnoreInactive(e) \/ NotAdmitted(e) \/ AwaitChildren(e)
      PROVE  Goal
  BY <1>2, <1>0 DEF IgnoreInactive, NotAdmitted, AwaitChildren, Runs
<1>3. ASSUME NEW e \in inbox, ControlHandler(e)
      PROVE  Goal
  BY <1>3, <1>0 DEF ControlHandler
<1>4. ASSUME NEW e \in inbox, ConditionSkips(e)
      PROVE  Goal
  BY <1>4, <1>0 DEF ConditionSkips
<1>5. ASSUME NEW e \in inbox, SyncStep(e)
      PROVE  Goal
  BY <1>5, <1>0 DEF SyncStep, Runs
<1>6. ASSUME NEW e \in inbox, QueueChildren(e)
      PROVE  Goal
  BY <1>6, <1>0 DEF QueueChildren, Unstarted, Runs
<1>7. ASSUME NEW e \in inbox, SealEvidence(e)
      PROVE  Goal
  BY <1>7, <1>0 DEF SealEvidence, Runs
<1>8. ASSUME NEW e \in inbox, QueueAssessment(e)
      PROVE  Goal
  BY <1>8, <1>0 DEF QueueAssessment, Runs
<1>9. ASSUME NEW e \in inbox, ApplyIssues(e)
      PROVE  Goal
  BY <1>9, <1>0 DEF ApplyIssues, Runs
<1>10. ASSUME NEW e \in inbox, DisputeTarget(e)
      PROVE  Goal
  BY <1>10, <1>0 DEF DisputeTarget, Runs
<1>11. ASSUME NEW e \in inbox, FailStep(e)
      PROVE  Goal
  BY <1>11, <1>0 DEF FailStep
<1>12. ASSUME NEW a \in Children, CancelChild(a) \/ RefuseChild(a) \/ CallProvider(a)
      PROVE  Goal
  BY <1>12, <1>0 DEF CancelChild, RefuseChild, CallProvider, ChildIs, Call, Claimable,
       LeaseRunsOut
<1>13. ASSUME NEW c \in calls, c[1] # Job, NEW outcome \in {"succeeded",
    "failed"} \cup Deferred,
             ProviderReturns(c[1], c[2], outcome)
      PROVE  Goal
  BY <1>13, <1>0 DEF ProviderReturns, ChildIs, Outcome, Record, Holds
<1>14. ASSUME NEW a \in Children, NEW outcome \in {"succeeded", "failed"},
             Callback(a, outcome) \/ CallbackUnstored(a)
      PROVE  Goal
  BY <1>14, <1>0 DEF Callback, CallbackUnstored, ChildIs
<1>15. ASSUME CancelJob \/ RefuseJob \/ CallModel
      PROVE  Goal
  BY <1>15, <1>0 DEF CancelJob, RefuseJob, CallModel, AssessmentFails, DropAssessment,
       Call, Claimable, LeaseRunsOut
<1>16. ASSUME NEW c \in calls, c[1] = Job, ModelReturns(c[2])
      PROVE  Goal
  BY <1>16, <1>0 DEF ModelReturns, DiscardAnswer, DropAssessment, AssessmentSucceeds,
       AssessmentNeedsReview, AssessmentFails, Record, Holds
<1>17. ASSUME NEW c \in calls, LoseCall(c)
      PROVE  Goal
  BY <1>17, <1>0 DEF LoseCall
<1>18. ASSUME Review
      PROVE  Goal
  BY <1>18, <1>0 DEF Review
<1>19. ASSUME Operate
      PROVE  Goal
  BY <1>19, <1>0 DEF Operate, Pause, Resume, Cancel, EmergencyStop, Steer
<1>20. ASSUME UNCHANGED vars PROVE Goal
  BY <1>20, <1>0 DEF vars
<1> HIDE DEF review, WorkIsOwned, Busy, Goal
<1> QED
  BY <1>1, <1>2, <1>3, <1>4, <1>5, <1>6, <1>7, <1>8, <1>9, <1>10, <1>11, <1>12, <1>13,
       <1>14, <1>15, <1>16, <1>17, <1>18, <1>19, <1>20 DEF Next, Handle, StepHandler,
       ChildWorker, JobWorker, Answers, Goal

(* Evidence stays complete. *)
LEMMA EvidenceStep ==
  ASSUME InspectionInv, [Next]_vars
  PROVE  EvidenceIsComplete'
<1>1. Has("detect") => The("detect") \in Positions /\ Uses[The("detect")] = "detect"
  BY TheIsOne
<1>2. SUFFICES ASSUME Has("detect"), step'[The("detect")] = "succeeded"
               PROVE  \A a \in Children : child'[a] = "succeeded"
  BY DEF EvidenceIsComplete, Has, The, Positions
<1>3. CASE step[The("detect")] = "succeeded"
  BY <1>2, <1>3, ChildrenStay DEF InspectionInv, EvidenceIsComplete
<1>4. CASE Succeeds(The("detect"))
  <2>1. Earned(The("detect"))
    BY <1>1, <1>2, <1>4, SuccessStep
  <2> QED
    BY <1>1, <1>2, <2>1 DEF Earned, Complete
<1> QED
  BY <1>2, <1>3, <1>4 DEF Succeeds

(* Issues stay those of a decided assessment. *)
LEMMA IssuesStep ==
  ASSUME InspectionInv, [Next]_vars
  PROVE  IssuesAreDecided'
<1>1. Has("issue") => The("issue") \in Positions /\ Uses[The("issue")] = "issue"
  BY TheIsOne
<1>2. SUFFICES ASSUME Has("issue"), step'[The("issue")] = "succeeded"
               PROVE  assessment' = "succeeded"
  BY DEF IssuesAreDecided, Has, The, Positions
<1>3. ASSUME NEW e \in inbox, DisputeTarget(e) PROVE FALSE
  <2>1. Subject(e) \in Positions /\ Uses[Subject(e)] = "issue"
    BY <1>3, SubjectIsStep DEF DisputeTarget, Runs, Admits, InspectionInv
  <2>2. Subject(e) = The("issue")
    BY <1>1, <1>2, <2>1, InspectionAssumption
  <2>3. step' = [step EXCEPT ![The("assess")] = "paused", ![The("issue")] = "pending"]
    BY <1>3, <2>2 DEF DisputeTarget
  <2>4. step'[The("issue")] = "pending"
    BY <1>1, <1>2, <2>3 DEF InspectionInv, TypeOK
  <2> QED
    BY <1>2, <2>4
<1>4. CASE step[The("issue")] = "succeeded"
  BY <1>2, <1>3, <1>4, AssessmentStays DEF InspectionInv, IssuesAreDecided
<1>5. CASE Succeeds(The("issue"))
  <2>1. Earned(The("issue"))
    BY <1>1, <1>2, <1>5, SuccessStep
  <2> QED
    BY <1>1, <1>2, <2>1 DEF Earned, Decided
<1> QED
  BY <1>2, <1>4, <1>5 DEF Succeeds

-----------------------------------------------------------------------------
(* A run as it is created. *)
LEMMA InspectionInit == Init => InspectionInv
<1> SUFFICES ASSUME Init PROVE InspectionInv
  OBVIOUS
<1>1. TypeOK
  BY InspectionAssumption DEF Init, TypeOK
<1>2. EventsName /\ WorkIsOwned /\ OpenIsUnrecorded /\ QueuedIsFresh
  BY DEF Init, EventsName, WorkIsOwned, OpenIsUnrecorded, QueuedIsFresh, Event, IsGathered,
      Busy, Work
<1>3. EvidenceIsComplete
  BY TheIsOne DEF Init, EvidenceIsComplete
<1>4. IssuesAreDecided
  BY TheIsOne DEF Init, IssuesAreDecided
<1>5. ReviewBlocks /\ LastCallCounts
  BY DEF Init, ReviewBlocks, LastCallCounts
<1> QED
  BY <1>1, <1>2, <1>3, <1>4, <1>5 DEF InspectionInv

(* Every step keeps the invariant. *)
LEMMA InspectionStep == InspectionInv /\ [Next]_vars => InspectionInv'
<1> SUFFICES ASSUME InspectionInv, [Next]_vars PROVE InspectionInv'
  OBVIOUS
<1>1. TypeOK'
  <2>1. TypeOK
    BY DEF InspectionInv
  <2>2. WorkTyped' /\ RestTyped'
    BY <2>1, RestStep, WorkStep
  <2> QED
    BY <2>2 DEF TypeOK, WorkTyped, RestTyped
<1>2. EventsName' /\ WorkIsOwned' /\ OpenIsUnrecorded' /\ QueuedIsFresh'
  BY EventsStep, OwnedStep, UnrecordedStep, FreshStep
<1>3. EvidenceIsComplete' /\ IssuesAreDecided' /\ ReviewBlocks' /\ LastCallCounts'
  BY EvidenceStep, IssuesStep, ReviewStep, LastCallStep
<1> QED
  BY <1>1, <1>2, <1>3 DEF InspectionInv

(* The invariant behind all of them: beside the properties themselves, what  *)
(* is under way belongs to a step of the run and is not yet answered.        *)
THEOREM InspectionInvariant == Spec => []InspectionInv
BY InspectionInit, InspectionStep, PTL DEF Spec

(* The variables have their types, whatever the bounds. *)
THEOREM InspectionTypes == Spec => []TypeOK
<1>1. InspectionInv => TypeOK
  BY DEF InspectionInv
<1> QED
  BY <1>1, InspectionInvariant, PTL

(* Evidence is sealed from all images or not at all (DetectProcessor.external). *)
THEOREM EvidenceIsCompleteHolds == Spec => []EvidenceIsComplete
<1>1. InspectionInv => EvidenceIsComplete
  BY DEF InspectionInv
<1> QED
  BY <1>1, InspectionInvariant, PTL

(* Issues are written from decided assessments only, also when a later review reopens one. *)
THEOREM IssuesAreDecidedHolds == Spec => []IssuesAreDecided
<1>1. InspectionInv => IssuesAreDecided
  BY DEF InspectionInv
<1> QED
  BY <1>1, InspectionInvariant, PTL

(* A pending review keeps its run from going on. *)
THEOREM ReviewBlocksHolds == Spec => []ReviewBlocks
<1>1. InspectionInv => ReviewBlocks
  BY DEF InspectionInv
<1> QED
  BY <1>1, InspectionInvariant, PTL

(* Only the last call is answered, and nobody calls again for what was answered. *)
THEOREM LastCallCountsHolds == Spec => []LastCallCounts
<1>1. InspectionInv => LastCallCounts
  BY DEF InspectionInv
<1> QED
  BY <1>1, InspectionInvariant, PTL

(* A late result is only recorded: no step of a paused or canceled run is    *)
(* completed by it.                                                          *)
THEOREM LateResultsAreIdleHolds == Spec => LateResultsAreIdle
<1>1. InspectionInv /\ [Next]_vars => [\A i \in Positions :
        (step[i] # "succeeded" /\ step'[i] = "succeeded") => run' = "running"]_vars
  BY SuccessStep DEF Succeeds
<1> QED
  BY <1>1, InspectionInvariant, PTL DEF Spec, LateResultsAreIdle

(* A finished run stays as it ended. *)
LEMMA EndStep ==
  ASSUME InspectionInv, [Next]_vars
  PROVE  run \in Terminal => run' = run
<1> USE InspectionAssumption DEF Terminal, Schedulable, Admits, Active
<1>1. ASSUME NEW e \in inbox, Advance(e)
      PROVE  run \in Terminal => run' = run
  BY <1>1 DEF Advance, Wakes
<1>2. ASSUME NEW e \in inbox, IgnoreInactive(e) \/ NotAdmitted(e) \/ AwaitChildren(e)
      PROVE  run \in Terminal => run' = run
  BY <1>2 DEF IgnoreInactive, NotAdmitted, AwaitChildren, Runs
<1>3. ASSUME NEW e \in inbox, ControlHandler(e)
      PROVE  run \in Terminal => run' = run
  BY <1>3 DEF ControlHandler
<1>4. ASSUME NEW e \in inbox, ConditionSkips(e)
      PROVE  run \in Terminal => run' = run
  BY <1>4 DEF ConditionSkips
<1>5. ASSUME NEW e \in inbox, SyncStep(e)
      PROVE  run \in Terminal => run' = run
  BY <1>5 DEF SyncStep, Runs
<1>6. ASSUME NEW e \in inbox, QueueChildren(e)
      PROVE  run \in Terminal => run' = run
  BY <1>6 DEF QueueChildren, Unstarted, Runs
<1>7. ASSUME NEW e \in inbox, SealEvidence(e)
      PROVE  run \in Terminal => run' = run
  BY <1>7 DEF SealEvidence, Runs
<1>8. ASSUME NEW e \in inbox, QueueAssessment(e)
      PROVE  run \in Terminal => run' = run
  BY <1>8 DEF QueueAssessment, Runs
<1>9. ASSUME NEW e \in inbox, ApplyIssues(e)
      PROVE  run \in Terminal => run' = run
  BY <1>9 DEF ApplyIssues, Runs
<1>10. ASSUME NEW e \in inbox, DisputeTarget(e)
      PROVE  run \in Terminal => run' = run
  BY <1>10 DEF DisputeTarget, Runs
<1>11. ASSUME NEW e \in inbox, FailStep(e)
      PROVE  run \in Terminal => run' = run
  BY <1>11 DEF FailStep
<1>12. ASSUME NEW a \in Children, CancelChild(a) \/ RefuseChild(a) \/ CallProvider(a)
      PROVE  run \in Terminal => run' = run
  BY <1>12 DEF CancelChild, RefuseChild, CallProvider, ChildIs, Call, Claimable,
       LeaseRunsOut
<1>13. ASSUME NEW c \in calls, c[1] # Job, NEW outcome \in {"succeeded",
    "failed"} \cup Deferred,
             ProviderReturns(c[1], c[2], outcome)
      PROVE  run \in Terminal => run' = run
  BY <1>13 DEF ProviderReturns, ChildIs, Outcome, Record, Holds
<1>14. ASSUME NEW a \in Children, NEW outcome \in {"succeeded", "failed"},
             Callback(a, outcome) \/ CallbackUnstored(a)
      PROVE  run \in Terminal => run' = run
  BY <1>14 DEF Callback, CallbackUnstored, ChildIs
<1>15. ASSUME CancelJob \/ RefuseJob \/ CallModel
      PROVE  run \in Terminal => run' = run
  BY <1>15 DEF CancelJob, RefuseJob, CallModel, AssessmentFails, DropAssessment, Call,
       Claimable, LeaseRunsOut
<1>16. ASSUME NEW c \in calls, c[1] = Job, ModelReturns(c[2])
      PROVE  run \in Terminal => run' = run
  BY <1>16 DEF ModelReturns, DiscardAnswer, DropAssessment, AssessmentSucceeds,
       AssessmentNeedsReview, AssessmentFails, Record, Holds
<1>17. ASSUME NEW c \in calls, LoseCall(c)
      PROVE  run \in Terminal => run' = run
  BY <1>17 DEF LoseCall
<1>18. ASSUME Review
      PROVE  run \in Terminal => run' = run
  BY <1>18 DEF Review
<1>19. ASSUME Operate
      PROVE  run \in Terminal => run' = run
  BY <1>19 DEF Operate, Pause, Resume, Cancel, EmergencyStop, Steer
<1>20. ASSUME UNCHANGED vars PROVE run \in Terminal => run' = run
  BY <1>20 DEF vars
<1> HIDE DEF Terminal, Schedulable, Admits, Active
<1> QED
  BY <1>1, <1>2, <1>3, <1>4, <1>5, <1>6, <1>7, <1>8, <1>9, <1>10, <1>11, <1>12, <1>13,
       <1>14, <1>15, <1>16, <1>17, <1>18, <1>19, <1>20 DEF Next, Handle, StepHandler,
       ChildWorker, JobWorker, Answers

(* No handler, worker or control brings a finished run back. *)
THEOREM RunStaysFinished == Spec => TerminalStays
<1>1. InspectionInv /\ [Next]_vars => [(run \in Terminal) => run' = run]_vars
  BY EndStep
<1> QED
  BY <1>1, InspectionInvariant, PTL DEF Spec, TerminalStays

-----------------------------------------------------------------------------
(* Of steps that are begun in order, the one under way is the first open one. *)
LEMMA BegunIsFirst ==
  ASSUME NEW st, NEW i \in Positions, st[i] \notin {"pending"} \cup Done,
         \A k \in Positions : st[k] # "pending" => \A j \in 1..(k - 1) : st[j] \in Done
  PROVE  LET S == {k \in Positions : st[k] \notin Done}
         IN  S # {} /\ (CHOOSE k \in S : \A j \in S : k <= j) = i
<1> DEFINE S == {k \in Positions : st[k] \notin Done}
           c == CHOOSE k \in S : \A j \in S : k <= j
<1>1. i \in S /\ S \in SUBSET Positions
  OBVIOUS
<1>2. c \in S /\ \A j \in S : c <= j
  BY <1>1, FirstOfSteps
<1> HIDE DEF c
<1>3. c \in Positions /\ st[c] \notin Done /\ c <= i
  BY <1>1, <1>2
<1>4. Len(Uses) \in Nat
  BY InspectionAssumption
<1>5. c \notin 1..(i - 1)
  BY <1>3
<1>6. c = i
  BY <1>3, <1>4, <1>5 DEF Positions
<1> QED
  BY <1>1, <1>6 DEF c

(* A use other than "sync" belongs to one step. *)
LEMMA TheIsUnique == ASSUME NEW i \in Positions, Uses[i] # "sync" PROVE The(Uses[i]) = i
<1>1. Has(Uses[i])
  BY DEF Has
<1>2. The(Uses[i]) \in Positions /\ Uses[The(Uses[i])] = Uses[i]
  BY <1>1, TheIsOne
<1> QED
  BY <1>2, InspectionAssumption

(* What the argument below is about: an undisturbed run. *)
Orderly == /\ InspectionInv /\ Undisturbed
           /\ InOrder /\ IdsAreSpent /\ WorkWasAsked /\ StoppedIsOver

(* The step that is under way is the scheduler's current one. *)
LEMMA BegunIsCurrent ==
  ASSUME InOrder, NEW i \in Positions, step[i] \notin {"pending"} \cup Done
  PROVE  Open # {} /\ Current = i
BY BegunIsFirst DEF InOrder, Open, Current

(* What is asked for is about a step that has begun. *)
LEMMA AskedHasBegun ==
  ASSUME Orderly, NEW e \in inbox, Asks(e)
  PROVE  Subject(e) \in Positions /\ step[Subject(e)] # "pending"
<1>1. e \in inserted /\ e = Event(e.type, e.at) /\ Announced(e)
  BY DEF Orderly, InspectionInv, TypeOK, IdsAreSpent
<1>2. Subject(e) \in Positions
  BY SubjectIsStep DEF Orderly, InspectionInv
<1>3. CASE e.type = "requested"
  BY <1>1, <1>2, <1>3 DEF Announced, Subject, IsGathered
<1>4. CASE IsGathered(e)
  <2>1. e.at \in Children /\ child[e.at] # "none"
    BY <1>1, <1>4 DEF Announced, IsGathered
  <2>2. Requested(The("detect")) \in inserted
    BY <2>1 DEF Orderly, WorkWasAsked, Unstarted
  <2>3. Announced(Requested(The("detect")))
    BY <2>2 DEF Orderly, IdsAreSpent
  <2> QED
    BY <1>2, <1>4, <2>3 DEF Announced, Requested, Event, Subject
<1> QED
  BY <1>3, <1>4 DEF Asks

(* What the boundary admits is about the current step, which is running. *)
LEMMA AdmittedIsCurrent ==
  ASSUME Orderly, NEW e \in inbox, Admits(e)
  PROVE  /\ Subject(e) \in Positions /\ step[Subject(e)] = "running"
         /\ Open # {} /\ Current = Subject(e)
<1>1. Subject(e) \in Positions /\ step[Subject(e)] = "running"
  BY AskedHasBegun DEF Admits
<1> QED
  BY <1>1, BegunIsCurrent DEF Orderly, Done

(* A failure that lets the run go on skips the current step, or one that was *)
(* brought to an end meanwhile.                                              *)
LEMMA FailureSkips ==
  ASSUME Orderly, GoesOn', NEW e \in inbox, FailStep(e)
  PROVE  /\ Subject(e) \in Positions /\ Asks(e)
         /\ run \in Schedulable /\ run' \in Schedulable
         /\ Finish(Subject(e), "skipped") /\ Exchange({e}, {Continued(Subject(e))})
         /\ \/ step[Subject(e)] \in Done
            \/ step[Subject(e)] = "running" /\ Open # {} /\ Current = Subject(e)
<1>1. Subject(e) \in Positions /\ step[Subject(e)] # "pending" /\ Asks(e) /\ run \in Schedulable
  BY AskedHasBegun DEF FailStep
<1>2. assessment' # "needs_review"
  BY <1>1 DEF FailStep, review, Orderly, InspectionInv, ReviewBlocks, Schedulable
<1>3. run' \in Schedulable
  BY <1>2 DEF GoesOn, Schedulable
<1>4. Finish(Subject(e), "skipped") /\ Exchange({e}, {Continued(Subject(e))})
  BY <1>3 DEF FailStep, Schedulable
<1>5. step[Subject(e)] \in Done \/ step[Subject(e)] = "running"
  BY <1>1 DEF Orderly, InspectionInv, TypeOK, StoppedIsOver
<1> QED
  BY <1>1, <1>3, <1>4, <1>5, BegunIsCurrent DEF Orderly, Done

(* What is active is current. *)
LEMMA ActiveIsCurrent ==
  ASSUME Orderly, NEW use, Has(use), step[The(use)] \in {"running", "paused", "failed"}
  PROVE  The(use) \in Positions /\ Open # {} /\ Current = The(use)
BY TheIsOne, BegunIsCurrent DEF Orderly, Done

(* The scheduler begins the current step, or it comes to an end: to one that  *)
(* stops the run as well, or to one that lets it go on.                       *)
Begins == /\ Open # {} /\ run \in Schedulable /\ step[Current] \in {"pending", "paused"}
          /\ Finish(Current, "running")
Moves  == /\ Open # {} /\ step[Current] \in {"running", "paused"}
          /\ \E s \in {"paused", "failed"} \cup Done :
               Finish(Current, s) /\ (run' \in Schedulable => s \in Done)

(* A step that is done may still be skipped, by an attempt that had failed.   *)
Overrules == /\ run \in Schedulable
             /\ \E i \in Positions : step[i] \in Done /\ Finish(i, "skipped")

(* Every step of the system touches at most the current step of the run. *)
LEMMA CurrentMoves ==
  ASSUME Orderly, GoesOn', [Next]_vars
  PROVE  step' = step \/ Begins \/ Moves \/ Overrules
<1> DEFINE Goal == step' = step \/ Begins \/ Moves \/ Overrules
<1>0. TypeOK /\ WorkIsOwned
  BY DEF Orderly, InspectionInv
<1> USE InspectionAssumption DEF Begins, Moves, Overrules, Schedulable, Done
<1>1. ASSUME NEW e \in inbox, Advance(e)
      PROVE  Goal
  BY <1>1 DEF Advance
<1>2. ASSUME NEW e \in inbox, IgnoreInactive(e) \/ NotAdmitted(e) \/ AwaitChildren(e)
      PROVE  Goal
  BY <1>2, <1>0 DEF IgnoreInactive, NotAdmitted, AwaitChildren, Runs
<1>3. ASSUME NEW e \in inbox, ControlHandler(e)
      PROVE  Goal
  BY <1>3, <1>0 DEF ControlHandler
<1>4. ASSUME NEW e \in inbox, ConditionSkips(e)
      PROVE  Goal
  BY <1>4, AdmittedIsCurrent DEF ConditionSkips
<1>5. ASSUME NEW e \in inbox, SyncStep(e)
      PROVE  Goal
  BY <1>5, AdmittedIsCurrent DEF SyncStep, Runs
<1>6. ASSUME NEW e \in inbox, QueueChildren(e)
      PROVE  Goal
  BY <1>6, <1>0 DEF QueueChildren, Unstarted, Runs
<1>7. ASSUME NEW e \in inbox, SealEvidence(e)
      PROVE  Goal
  BY <1>7, AdmittedIsCurrent DEF SealEvidence, Runs
<1>8. ASSUME NEW e \in inbox, QueueAssessment(e)
      PROVE  Goal
  BY <1>8, <1>0 DEF QueueAssessment, Runs
<1>9. ASSUME NEW e \in inbox, ApplyIssues(e)
      PROVE  Goal
  BY <1>9, AdmittedIsCurrent DEF ApplyIssues, Runs
<1>10. ASSUME NEW e \in inbox, DisputeTarget(e)
      PROVE  Goal
  BY <1>10 DEF DisputeTarget, Orderly, Undisturbed
<1>11. ASSUME NEW e \in inbox, FailStep(e)
      PROVE  Goal
  BY <1>11, FailureSkips
<1>12. ASSUME NEW a \in Children, CancelChild(a) \/ RefuseChild(a) \/ CallProvider(a)
      PROVE  Goal
  BY <1>12, <1>0 DEF CancelChild, RefuseChild, CallProvider, ChildIs, Call, Claimable,
       LeaseRunsOut
<1>13. ASSUME NEW c \in calls, c[1] # Job, NEW outcome \in {"succeeded",
    "failed"} \cup Deferred,
             ProviderReturns(c[1], c[2], outcome)
      PROVE  Goal
  BY <1>13, <1>0 DEF ProviderReturns, ChildIs, Outcome, Record, Holds
<1>14. ASSUME NEW a \in Children, NEW outcome \in {"succeeded", "failed"},
             Callback(a, outcome) \/ CallbackUnstored(a)
      PROVE  Goal
  BY <1>14, <1>0 DEF Callback, CallbackUnstored, ChildIs
<1>15. ASSUME CancelJob \/ RefuseJob \/ CallModel
      PROVE  Goal
  <2>1. CASE RefuseJob
    <3>1. Has("assess") /\ step[The("assess")] = "running"
      BY <2>1, <1>0 DEF RefuseJob, Claimable, Busy, Active, WorkIsOwned
    <3> QED
      BY <2>1, <3>1, ActiveIsCurrent DEF RefuseJob, AssessmentFails, Finish
  <2> QED
    BY <1>15, <2>1 DEF CancelJob, CallModel, review
<1>16. ASSUME NEW c \in calls, c[1] = Job, ModelReturns(c[2])
      PROVE  Goal
  <2>1. CASE step' = step
    BY <2>1
  <2>2. CASE job = "running"
    <3>1. Has("assess")
      BY <2>2, <1>0 DEF WorkIsOwned
    <3>2. step' = step \/ step[The("assess")] \in {"running", "paused"}
      <4>1. CASE Active("assess")
        BY <4>1 DEF Active
      <4>2. CASE DiscardAnswer
        <5>1. step' = [step EXCEPT ![The("assess")] =
                               IF @ \in {"running", "paused"} THEN "failed" ELSE @]
          BY <4>2 DEF DiscardAnswer
        <5>2. step \in [Positions -> {"pending", "running", "paused", "failed"} \cup Done]
          BY <1>0 DEF TypeOK
        <5> QED
          BY <5>1, <5>2
      <4> QED
        BY <1>16, <2>2, <4>1, <4>2 DEF ModelReturns
    <3>3. step' = step \/ \E s \in {"paused", "failed"} \cup Done :
                            Finish(The("assess"), s) /\ (run' \in Schedulable => s \in Done)
      <4>1. CASE DiscardAnswer /\ ~Active("assess")
        <5>1. CASE run = "running"
          <6>1. step[The("assess")] \notin {"running", "paused"}
            BY <5>1, <4>1, <3>1, TheIsOne DEF Active, Orderly, StoppedIsOver
          <6> QED
            BY <6>1, <3>2
        <5>2. CASE run # "running"
          <6>1. run' \notin Schedulable
            BY <5>2, <4>1, <2>2 DEF DiscardAnswer, Orderly, InspectionInv, QueuedIsFresh
          <6> QED
            BY <6>1, <4>1, <3>2 DEF DiscardAnswer, Finish
        <5> QED
          BY <5>1, <5>2
      <4>2. CASE AssessmentSucceeds \/ AssessmentNeedsReview \/ AssessmentFails
        BY <4>2 DEF AssessmentSucceeds, AssessmentNeedsReview, AssessmentFails
      <4> QED
        BY <1>16, <2>2, <4>1, <4>2 DEF ModelReturns
    <3> QED
      BY <3>1, <3>2, <3>3, ActiveIsCurrent
  <2> QED
    BY <1>16, <2>1, <2>2 DEF ModelReturns
<1>17. ASSUME NEW c \in calls, LoseCall(c)
      PROVE  Goal
  BY <1>17, <1>0 DEF LoseCall
<1>18. ASSUME Review
      PROVE  Goal
  <2>1. Has("assess") /\ step[The("assess")] = "paused"
    BY <1>18, <1>0 DEF Review, WorkIsOwned
  <2> QED
    BY <2>1, <1>18, ActiveIsCurrent DEF Review
<1>19. ASSUME Operate
      PROVE  Goal
  BY <1>19, <1>0 DEF Operate, Pause, Resume, Cancel, EmergencyStop, Steer
<1>20. ASSUME UNCHANGED vars PROVE Goal
  BY <1>20 DEF vars
<1> HIDE DEF Goal
<1> QED
  BY <1>1, <1>2, <1>3, <1>4, <1>5, <1>6, <1>7, <1>8, <1>9, <1>10, <1>11, <1>12, <1>13,
       <1>14, <1>15, <1>16, <1>17, <1>18, <1>19, <1>20 DEF Next, Handle, StepHandler,
       ChildWorker, JobWorker, Answers, Goal

(* What is done stays done, and nothing is sent back. *)
StepKept(i) == /\ step[i] \in Done => step'[i] \in Done
               /\ step[i] # "pending" => step'[i] # "pending"
               /\ step[i] = "pending" /\ step'[i] # "pending" => Open # {} /\ i = Current

LEMMA StepsKept ==
  ASSUME Orderly, GoesOn', [Next]_vars
  PROVE  \A i \in Positions : StepKept(i)
<1>1. step \in [Positions -> {"pending", "running", "paused", "failed"} \cup Done]
  BY DEF Orderly, InspectionInv, TypeOK
<1>2. CASE step' = step
  BY <1>2 DEF StepKept
<1>3. ASSUME Open # {}, NEW s \in {"running", "paused", "failed", "skipped", "succeeded"},
             Finish(Current, s)
      PROVE  \A i \in Positions : StepKept(i)
  <2>1. step[Current] \notin Done
    BY <1>3, CurrentIsOpen
  <2> QED
    BY <1>1, <1>3, <2>1 DEF Finish, StepKept
<1>4. CASE Overrules
  BY <1>1, <1>4 DEF Overrules, Finish, StepKept, Done
<1> QED
  BY <1>2, <1>3, <1>4, CurrentMoves DEF Begins, Moves, Done

(* Steps are begun in order. *)
LEMMA OrderStep ==
  ASSUME Orderly, GoesOn', [Next]_vars
  PROVE  InOrder'
<1> SUFFICES ASSUME NEW i \in Positions, step'[i] # "pending", NEW j \in 1..(i - 1)
             PROVE  step'[j] \in Done
  BY DEF InOrder, Positions
<1>0. j \in Positions /\ j < i /\ i \in Nat /\ j \in Nat
  BY InspectionAssumption DEF Positions
<1>1. step[j] \in Done
  <2>1. CASE step[i] # "pending"
    BY <2>1 DEF Orderly, InOrder
  <2>2. CASE step[i] = "pending"
    <3>1. Open # {} /\ i = Current
      BY <2>2, StepsKept DEF StepKept
    <3>2. j \notin Open
      <4>1. Open \in SUBSET Positions
        BY DEF Open
      <4>2. \A k \in Open : Current <= k
        BY <3>1, <4>1, FirstOfSteps DEF Current
      <4> QED
        BY <3>1, <1>0, <4>2, InspectionAssumption DEF Positions
    <3> QED
      BY <1>0, <3>2 DEF Open
  <2> QED
    BY <2>1, <2>2
<1> QED
  BY <1>0, <1>1, StepsKept DEF StepKept

(* The step that asked for work has begun. *)
LEMMA AskedIsBegun ==
  ASSUME Orderly
  PROVE  /\ ~Unstarted => step[The("detect")] # "pending"
         /\ job # "none" => step[The("assess")] # "pending"
<1>1. ASSUME NEW i, Requested(i) \in inserted PROVE step[i] # "pending"
  <2>1. Announced(Requested(i))
    BY <1>1 DEF Orderly, IdsAreSpent
  <2> QED
    BY <2>1 DEF Announced, Requested, Event
<1> QED
  BY <1>1 DEF Orderly, WorkWasAsked

(* The open step of a run that goes on is not one of the given use. *)
Over(use) == run' \in Schedulable => step'[The(use)] \notin {"pending", "running"}

(* A child that has ended keeps its end, its step asked for it, and it is     *)
(* canceled for a step that is over only.                                     *)
ChildMove(b) == \/ child'[b] = child[b]
                \/ child[b] \in Busy /\ (child'[b] = "canceled" => Over("detect"))
                \/ /\ child[b] = "none" /\ child'[b] = "queued"
                   /\ Requested(The("detect")) \in inserted' \ inbox'

(* So does every step of the system. *)
LEMMA ChildMoves ==
  ASSUME Orderly, GoesOn', [Next]_vars
  PROVE  \A b \in Children : ChildMove(b)
<1> DEFINE Goal == \A b \in Children : ChildMove(b)
<1>0. TypeOK /\ child \in [Children -> {"none", "canceled", "succeeded", "failed"} \cup Unanswered]
  BY DEF Orderly, InspectionInv, TypeOK
<1>e. IdsAreSpent /\ EventsName /\ WorkIsOwned /\ inbox \subseteq inserted
  BY DEF Orderly, InspectionInv, TypeOK
<1> USE DEF detection, ChildMove
<1>1. ASSUME NEW e \in inbox, Advance(e)
      PROVE  Goal
  BY <1>1 DEF Advance
<1>2. ASSUME NEW e \in inbox, IgnoreInactive(e) \/ NotAdmitted(e) \/ AwaitChildren(e)
      PROVE  Goal
  BY <1>2 DEF IgnoreInactive, NotAdmitted, AwaitChildren
<1>3. ASSUME NEW e \in inbox, ControlHandler(e)
      PROVE  Goal
  BY <1>3 DEF ControlHandler
<1>4. ASSUME NEW e \in inbox, ConditionSkips(e)
      PROVE  Goal
  BY <1>4 DEF ConditionSkips
<1>5. ASSUME NEW e \in inbox, SyncStep(e)
      PROVE  Goal
  BY <1>5 DEF SyncStep
<1>6. ASSUME NEW e \in inbox, QueueChildren(e)
      PROVE  Goal
  <2>1. Subject(e) \in Positions /\ Uses[Subject(e)] = "detect" /\ Asks(e)
    BY <1>6, <1>e, SubjectIsStep DEF QueueChildren, Runs, Admits
  <2>2. Subject(e) = The("detect")
    BY <2>1, TheIsUnique
  <2>3. ~IsGathered(e)
    BY <1>6, <1>e DEF QueueChildren, Unstarted, IdsAreSpent, Announced, IsGathered
  <2>4. e = Requested(The("detect"))
    BY <2>1, <2>2, <2>3, <1>e DEF Asks, IdsAreSpent, Subject, Requested, Event
  <2>5. e \in inserted' \ inbox'
    BY <1>6, <1>e DEF QueueChildren, Exchange
  <2> QED
    BY <1>6, <2>4, <2>5, <1>0 DEF QueueChildren, Unstarted
<1>7. ASSUME NEW e \in inbox, SealEvidence(e)
      PROVE  Goal
  BY <1>7 DEF SealEvidence
<1>8. ASSUME NEW e \in inbox, QueueAssessment(e)
      PROVE  Goal
  BY <1>8 DEF QueueAssessment
<1>9. ASSUME NEW e \in inbox, ApplyIssues(e)
      PROVE  Goal
  BY <1>9 DEF ApplyIssues
<1>10. ASSUME NEW e \in inbox, DisputeTarget(e)
      PROVE  Goal
  BY <1>10 DEF DisputeTarget
<1>11. ASSUME NEW e \in inbox, FailStep(e)
      PROVE  Goal
  BY <1>11 DEF FailStep
<1>12. ASSUME NEW a \in Children, CancelChild(a) \/ RefuseChild(a) \/ CallProvider(a)
      PROVE  Goal
  <2>1. CASE CancelChild(a)
    <3>1. run' = run /\ step' = step /\ ~Active("detect") /\ child[a] \in Busy
      BY <2>1 DEF CancelChild, Claimable
    <3>2. step[The("detect")] # "pending" /\ run # "queued"
      BY <3>1, AskedIsBegun DEF Unstarted, Busy, Orderly, InspectionInv, QueuedIsFresh
    <3>3. Over("detect")
      BY <3>1, <3>2 DEF Over, Active, Schedulable
    <3> QED
      BY <2>1, <3>1, <3>3, <1>0 DEF CancelChild, ChildIs
  <2> QED
    BY <1>12, <2>1, <1>0 DEF RefuseChild, CallProvider, ChildIs, Claimable
<1>13. ASSUME NEW c \in calls, c[1] # Job, NEW outcome \in {"succeeded",
    "failed"} \cup Deferred,
             ProviderReturns(c[1], c[2], outcome)
      PROVE  Goal
  <2>1. child[c[1]] = "running" \/ child' = child
    BY <1>13 DEF ProviderReturns
  <2>2. CASE child[c[1]] = "running"
    <3>1. c[1] \in Children /\ run # "queued" /\ run' = run
      BY <1>13, <2>2, <1>0, CallShape DEF Orderly, InspectionInv, QueuedIsFresh, ProviderReturns
    <3>2. Outcome(outcome) = "canceled" => Over("detect")
      BY <3>1 DEF Outcome, Over, Schedulable, Orderly, Undisturbed
    <3> QED
      BY <1>13, <1>0, <2>2, <3>1, <3>2 DEF ProviderReturns, ChildIs, Busy
  <2> QED
    BY <2>1, <2>2
<1>14. ASSUME NEW a \in Children, NEW outcome \in {"succeeded", "failed"},
             Callback(a, outcome) \/ CallbackUnstored(a)
      PROVE  Goal
  BY <1>14, <1>0 DEF Callback, CallbackUnstored, Orderly, Undisturbed, Unanswered, Busy
<1>15. ASSUME CancelJob \/ RefuseJob \/ CallModel
      PROVE  Goal
  BY <1>15 DEF CancelJob, RefuseJob, CallModel
<1>16. ASSUME NEW c \in calls, c[1] = Job, ModelReturns(c[2])
      PROVE  Goal
  BY <1>16 DEF ModelReturns
<1>17. ASSUME NEW c \in calls, LoseCall(c)
      PROVE  Goal
  BY <1>17 DEF LoseCall
<1>18. ASSUME Review
      PROVE  Goal
  BY <1>18 DEF Review
<1>19. ASSUME Operate
      PROVE  Goal
  BY <1>19 DEF Operate, Pause, Resume, Cancel, EmergencyStop, Steer
<1>20. ASSUME UNCHANGED vars PROVE Goal
  BY <1>20 DEF vars
<1> HIDE DEF detection, Goal, ChildMove
<1> QED
  BY <1>1, <1>2, <1>3, <1>4, <1>5, <1>6, <1>7, <1>8, <1>9, <1>10, <1>11, <1>12, <1>13,
       <1>14, <1>15, <1>16, <1>17, <1>18, <1>19, <1>20 DEF Next, Handle, StepHandler,
       ChildWorker, JobWorker, Answers, Goal

(* Which job and which revision a step leaves. *)
JobMoves == \/ job' = job /\ revision' = revision
            \/ job = "none" /\ job' = "queued" /\ revision' = revision
               /\ Requested(The("assess")) \in inserted' \ inbox'
            \/ job \in Busy /\ job' \in {"running", "failed"} /\ revision' = revision
               /\ (job' = "failed" => Over("assess"))
            \/ job = "running" /\ job' = "succeeded" /\ revision' = 1
            \/ job = "succeeded" /\ job' = job /\ revision' = revision + 1

(* That is what every step does. *)
LEMMA JobStep ==
  ASSUME Orderly, GoesOn', [Next]_vars
  PROVE  JobMoves
<1>0. WorkIsOwned /\ IdsAreSpent /\ EventsName /\ inbox \subseteq inserted
  BY DEF Orderly, InspectionInv, TypeOK
<1>t. step \in [Positions -> {"pending", "running", "paused", "failed"} \cup Done]
  BY DEF Orderly, InspectionInv, TypeOK
<1>b. job \in Busy => step[The("assess")] # "pending" /\ run # "queued"
  BY AskedIsBegun DEF Orderly, InspectionInv, QueuedIsFresh, Busy
<1> USE DEF JobMoves, review
<1>1. ASSUME NEW e \in inbox, Advance(e)
      PROVE  JobMoves
  BY <1>1 DEF Advance
<1>2. ASSUME NEW e \in inbox, IgnoreInactive(e) \/ NotAdmitted(e) \/ AwaitChildren(e)
      PROVE  JobMoves
  BY <1>2 DEF IgnoreInactive, NotAdmitted, AwaitChildren
<1>3. ASSUME NEW e \in inbox, ControlHandler(e)
      PROVE  JobMoves
  BY <1>3 DEF ControlHandler
<1>4. ASSUME NEW e \in inbox, ConditionSkips(e)
      PROVE  JobMoves
  BY <1>4 DEF ConditionSkips
<1>5. ASSUME NEW e \in inbox, SyncStep(e)
      PROVE  JobMoves
  BY <1>5 DEF SyncStep
<1>6. ASSUME NEW e \in inbox, QueueChildren(e)
      PROVE  JobMoves
  BY <1>6 DEF QueueChildren
<1>7. ASSUME NEW e \in inbox, SealEvidence(e)
      PROVE  JobMoves
  BY <1>7 DEF SealEvidence
<1>8. ASSUME NEW e \in inbox, QueueAssessment(e)
      PROVE  JobMoves
  <2>1. Subject(e) \in Positions /\ Uses[Subject(e)] = "assess" /\ Asks(e)
    BY <1>8, <1>0, SubjectIsStep DEF QueueAssessment, Runs, Admits
  <2>2. Subject(e) = The("assess")
    BY <2>1, TheIsUnique
  <2>3. ~IsGathered(e)
    BY <2>1, <1>0, TheIsOne DEF Subject, EventsName
  <2>4. e = Requested(The("assess"))
    BY <2>1, <2>2, <2>3, <1>0 DEF Asks, IdsAreSpent, Subject, Requested, Event
  <2>5. e \in inserted' \ inbox'
    BY <1>8, <1>0 DEF QueueAssessment, Exchange
  <2> QED
    BY <1>8, <2>4, <2>5, <1>0 DEF QueueAssessment, WorkIsOwned
<1>9. ASSUME NEW e \in inbox, ApplyIssues(e)
      PROVE  JobMoves
  BY <1>9 DEF ApplyIssues
<1>10. ASSUME NEW e \in inbox, DisputeTarget(e)
      PROVE  JobMoves
  BY <1>10 DEF DisputeTarget
<1>11. ASSUME NEW e \in inbox, FailStep(e)
      PROVE  JobMoves
  BY <1>11 DEF FailStep
<1>12. ASSUME NEW a \in Children, CancelChild(a) \/ RefuseChild(a) \/ CallProvider(a)
      PROVE  JobMoves
  BY <1>12 DEF CancelChild, RefuseChild, CallProvider
<1>13. ASSUME NEW c \in calls, c[1] # Job, NEW outcome \in {"succeeded",
    "failed"} \cup Deferred,
             ProviderReturns(c[1], c[2], outcome)
      PROVE  JobMoves
  BY <1>13 DEF ProviderReturns
<1>14. ASSUME NEW a \in Children, NEW outcome \in {"succeeded", "failed"},
             Callback(a, outcome) \/ CallbackUnstored(a)
      PROVE  JobMoves
  BY <1>14 DEF Callback, CallbackUnstored
<1>15. ASSUME CancelJob \/ RefuseJob \/ CallModel
      PROVE  JobMoves
  <2>1. CASE CancelJob
    <3>1. run' = run /\ step' = step /\ ~Active("assess") /\ job \in Busy /\ job' = "failed"
      BY <2>1 DEF CancelJob, Claimable
    <3>2. Over("assess")
      BY <3>1, <1>b DEF Over, Active, Schedulable
    <3> QED
      BY <2>1, <3>1, <3>2 DEF CancelJob
  <2>2. CASE RefuseJob
    BY <2>2 DEF RefuseJob, AssessmentFails, Claimable, Over, Schedulable
  <2> QED
    BY <1>15, <2>1, <2>2 DEF CallModel, Claimable
<1>16. ASSUME NEW c \in calls, c[1] = Job, ModelReturns(c[2])
      PROVE  JobMoves
  <2>1. CASE job = "running" /\ DiscardAnswer /\ ~Active("assess")
    <3>1. run' = run /\ job' = "failed" /\ revision' = revision
      BY <2>1 DEF DiscardAnswer
    <3>2. step'[The("assess")] \notin {"pending", "running"}
      <4>1. The("assess") \in Positions
        BY <2>1, <1>0, TheIsOne DEF WorkIsOwned
      <4> QED
        BY <4>1, <2>1, <1>b, <1>t DEF DiscardAnswer, Busy
    <3> QED
      BY <2>1, <3>1, <3>2 DEF Over, Busy
  <2>2. CASE AssessmentFails
    BY <1>16, <2>2 DEF ModelReturns, AssessmentFails, Over, Schedulable, Busy
  <2> QED
    BY <1>16, <2>1, <2>2 DEF ModelReturns, AssessmentSucceeds, AssessmentNeedsReview
<1>17. ASSUME NEW c \in calls, LoseCall(c)
      PROVE  JobMoves
  BY <1>17 DEF LoseCall
<1>18. ASSUME Review
      PROVE  JobMoves
  BY <1>18 DEF Review, Orderly, StoppedIsOver
<1>19. ASSUME Operate
      PROVE  JobMoves
  BY <1>19 DEF Operate, Pause, Resume, Cancel, EmergencyStop, Steer
<1>20. ASSUME UNCHANGED vars PROVE JobMoves
  BY <1>20 DEF vars
<1> HIDE DEF JobMoves, review
<1> QED
  BY <1>1, <1>2, <1>3, <1>4, <1>5, <1>6, <1>7, <1>8, <1>9, <1>10, <1>11, <1>12, <1>13,
       <1>14, <1>15, <1>16, <1>17, <1>18, <1>19, <1>20 DEF Next, Handle, StepHandler,
       ChildWorker, JobWorker, Answers

(* What a step does to the events: handled ones stay handled, and new ones   *)
(* announce what the step has brought about.                                  *)
EventsMove == /\ inserted \subseteq inserted'
              /\ inserted \ inbox \subseteq inserted' \ inbox'
              /\ \A n \in inserted' \ inserted : n = Event(n.type, n.at) /\ Announced(n)'

(* Nothing new, ... *)
LEMMA NothingNew ==
  ASSUME TypeOK, UNCHANGED events \/ \E E : Exchange(E, {})
  PROVE  EventsMove
BY DEF events, Exchange, EventsMove, TypeOK

(* ... or one event. *)
LEMMA OneIsNew ==
  ASSUME TypeOK, NEW E, NEW type, NEW at, Exchange(E, {Event(type, at)}),
         Announced(Event(type, at))'
  PROVE  EventsMove
<1> DEFINE n == Event(type, at)
<1>1. n = Event(n.type, n.at)
  BY DEF Event
<1> HIDE DEF n
<1>2. Exchange(E, {n}) /\ Announced(n)'
  BY DEF n
<1> QED
  BY <1>1, <1>2 DEF Exchange, EventsMove, TypeOK

(* The completion of a step. *)
LEMMA CompletionIsNew ==
  ASSUME TypeOK, NEW E, NEW i \in Positions, NEW s \in Done,
         Finish(i, s), Exchange(E, {Continued(i)})
  PROVE  EventsMove
<1>1. step'[i] \in Done
  BY DEF TypeOK, Finish
<1>2. Announced(Event("continued", i))'
  BY <1>1 DEF Event, Announced, Done
<1> QED
  BY <1>2, OneIsNew DEF Continued

(* The end of a child. *)
LEMMA EndIsNew ==
  ASSUME TypeOK, NEW a \in Children, NEW s \in {"succeeded", "failed", "canceled"},
         ChildIs(a, s), Exchange({}, {Gathered(a, s)})
  PROVE  EventsMove
<1>1. child'[a] = s
  BY DEF TypeOK, ChildIs
<1> DEFINE type == IF s = "succeeded" THEN "child_succeeded" ELSE "child_failed"
<1>2. Announced(Event(type, a))'
  BY <1>1 DEF Event, Announced
<1>3. Gathered(a, s) = Event(type, a)
  BY DEF Gathered
<1> QED
  BY <1>2, <1>3, OneIsNew

(* That is what every step does to them. *)
LEMMA EventsStepKept ==
  ASSUME Orderly, GoesOn', [Next]_vars
  PROVE  EventsMove
<1>0. TypeOK /\ step \in [Positions -> {"pending", "running", "paused", "failed"} \cup Done]
      /\ EventsName /\ WorkIsOwned
  BY DEF Orderly, InspectionInv, TypeOK
<1>1. ASSUME NEW e \in inbox, Advance(e)
      PROVE  EventsMove
  <2>1. CASE Exchange({e}, {})
    BY <2>1, <1>0, NothingNew
  <2>2. CASE Open # {} /\ Finish(Current, "running") /\ Exchange({e}, {Requested(Current)})
    <3>1. Current \in Positions /\ step'[Current] = "running"
      BY <2>2, <1>0, CurrentIsOpen DEF Finish
    <3>2. PICK i : i = Current
      OBVIOUS
    <3>3. i \in Positions /\ step'[i] # "pending" /\ Exchange({e}, {Event("requested", i)})
      BY <3>1, <3>2, <2>2 DEF Requested
    <3>4. Announced(Event("requested", i))'
      BY <3>3 DEF Announced, Event
    <3> QED
      BY <3>3, <3>4, <1>0, OneIsNew
  <2> QED
    BY <1>1, <2>1, <2>2 DEF Advance
<1>2. ASSUME NEW e \in inbox, IgnoreInactive(e) \/ NotAdmitted(e) \/ AwaitChildren(e)
      PROVE  EventsMove
  BY <1>2, <1>0, NothingNew DEF IgnoreInactive, NotAdmitted, AwaitChildren
<1>3. ASSUME NEW e \in inbox, ControlHandler(e)
      PROVE  EventsMove
  BY <1>3, <1>0, NothingNew DEF ControlHandler
<1>4. ASSUME NEW e \in inbox, ConditionSkips(e)
      PROVE  EventsMove
  BY <1>4, <1>0, AdmittedIsCurrent, CompletionIsNew DEF ConditionSkips, Done
<1>5. ASSUME NEW e \in inbox, SyncStep(e)
      PROVE  EventsMove
  BY <1>5, <1>0, AdmittedIsCurrent, CompletionIsNew DEF SyncStep, Runs, Done
<1>6. ASSUME NEW e \in inbox, QueueChildren(e)
      PROVE  EventsMove
  BY <1>6, <1>0, NothingNew DEF QueueChildren
<1>7. ASSUME NEW e \in inbox, SealEvidence(e)
      PROVE  EventsMove
  BY <1>7, <1>0, AdmittedIsCurrent, CompletionIsNew DEF SealEvidence, Runs, Done
<1>8. ASSUME NEW e \in inbox, QueueAssessment(e)
      PROVE  EventsMove
  BY <1>8, <1>0, NothingNew DEF QueueAssessment
<1>9. ASSUME NEW e \in inbox, ApplyIssues(e)
      PROVE  EventsMove
  BY <1>9, <1>0, AdmittedIsCurrent, CompletionIsNew DEF ApplyIssues, Runs, Done
<1>10. ASSUME NEW e \in inbox, DisputeTarget(e)
      PROVE  EventsMove
  BY <1>10, <1>0, NothingNew DEF DisputeTarget
<1>11. ASSUME NEW e \in inbox, FailStep(e)
      PROVE  EventsMove
  BY <1>11, <1>0, FailureSkips, CompletionIsNew DEF Done
<1>12. ASSUME NEW a \in Children, CancelChild(a) \/ RefuseChild(a) \/ CallProvider(a)
      PROVE  EventsMove
  <2>1. CASE RefuseChild(a)
    BY <2>1, <1>0, EndIsNew DEF RefuseChild
  <2> QED
    BY <1>12, <2>1, <1>0, NothingNew DEF CancelChild, CallProvider
<1>13. ASSUME NEW c \in calls, c[1] # Job, NEW outcome \in {"succeeded",
    "failed"} \cup Deferred,
             ProviderReturns(c[1], c[2], outcome)
      PROVE  EventsMove
  <2>1. c[1] \in Children
    BY <1>13, <1>0, CallShape
  <2>2. Outcome(outcome) \in {"succeeded", "failed", "canceled"}
    BY DEF Outcome, Orderly, Undisturbed
  <2>3. \/ UNCHANGED events
        \/ ChildIs(c[1], Outcome(outcome)) /\ Exchange({}, {Gathered(c[1], Outcome(outcome))})
    BY <1>13 DEF ProviderReturns, Orderly, Undisturbed
  <2> QED
    BY <2>1, <2>2, <2>3, <1>0, NothingNew, EndIsNew
<1>14. ASSUME NEW a \in Children, NEW outcome \in {"succeeded", "failed"},
             Callback(a, outcome) \/ CallbackUnstored(a)
      PROVE  EventsMove
  <2>1. child[a] = "waiting_callback"
    BY <1>14 DEF Callback, CallbackUnstored
  <2> QED
    BY <2>1 DEF Orderly, Undisturbed, InspectionInv, TypeOK, Unanswered, Busy
<1>15. ASSUME CancelJob \/ RefuseJob \/ CallModel
      PROVE  EventsMove
  BY <1>15, <1>0, NothingNew DEF CancelJob, RefuseJob, CallModel, AssessmentFails
<1>16. ASSUME NEW c \in calls, c[1] = Job, ModelReturns(c[2])
      PROVE  EventsMove
  <2>1. CASE UNCHANGED events
    BY <2>1, <1>0, NothingNew
  <2>2. CASE AssessmentSucceeds /\ job = "running"
    <3>1. The("assess") \in Positions
      BY <2>2, <1>0, TheIsOne DEF WorkIsOwned
    <3> QED
      BY <3>1, <2>2, <1>0, CompletionIsNew DEF AssessmentSucceeds, Done
  <2> QED
    BY <1>16, <2>1, <2>2 DEF ModelReturns, DiscardAnswer, AssessmentNeedsReview, AssessmentFails
<1>17. ASSUME NEW c \in calls, LoseCall(c)
      PROVE  EventsMove
  BY <1>17, <1>0, NothingNew DEF LoseCall
<1>18. ASSUME Review
      PROVE  EventsMove
  <2>1. revision' = revision + 1 /\ revision \in Nat
    BY <1>18, <1>0 DEF Review, TypeOK
  <2>2. PICK m : m = revision + 1
    OBVIOUS
  <2>3. Announced(Event("reviewed", m))'
    BY <2>1, <2>2 DEF Announced, Event
  <2>4. Exchange({}, {Event("reviewed", m)})
    BY <2>2, <1>18 DEF Review
  <2> QED
    BY <2>3, <2>4, <1>0, OneIsNew
<1>19. ASSUME Operate
      PROVE  EventsMove
  <2>1. \/ Exchange({}, {})
        \/ \E m \in {controls}, type \in {"resumed", "cancel", "emergency_stop"} : Exchange({}, {Event(type, m)})
    BY <1>19 DEF Operate, Pause, Resume, Cancel, EmergencyStop, Steer
  <2>2. ASSUME NEW type \in {"resumed", "cancel", "emergency_stop"}, NEW m
        PROVE  Announced(Event(type, m))'
    BY DEF Event, Announced
  <2> QED
    BY <2>1, <2>2, <1>0, NothingNew, OneIsNew
<1>20. ASSUME UNCHANGED vars PROVE EventsMove
  BY <1>20, <1>0, NothingNew DEF vars, events
<1> QED
  BY <1>1, <1>2, <1>3, <1>4, <1>5, <1>6, <1>7, <1>8, <1>9, <1>10, <1>11, <1>12, <1>13,
       <1>14, <1>15, <1>16, <1>17, <1>18, <1>19, <1>20 DEF Next, Handle, StepHandler,
       ChildWorker, JobWorker, Answers

(* What an event has announced stays true. *)
LEMMA SpentStep ==
  ASSUME Orderly, GoesOn', [Next]_vars
  PROVE  IdsAreSpent'
<1> SUFFICES ASSUME NEW e \in inserted, Announced(e)
             PROVE  Announced(e)'
  BY EventsStepKept DEF EventsMove, IdsAreSpent, Orderly
<1>1. CASE e.type = "continued"
  BY <1>1, StepsKept DEF StepKept, Announced, Positions
<1>2. CASE e.type = "requested"
  BY <1>2, StepsKept DEF StepKept, Announced, Positions
<1>3. CASE e.type \in {"child_succeeded", "child_failed"}
  BY <1>3, ChildMoves DEF ChildMove, Announced, Busy
<1>4. CASE e.type = "reviewed"
  <2>1. revision \in Nat /\ (job # "succeeded" => revision = 0)
    BY DEF Orderly, InspectionInv, TypeOK, StoppedIsOver
  <2>2. revision' \in Nat /\ revision <= revision'
    BY <2>1, JobStep DEF JobMoves, Busy
  <2>3. e.at \in 0..revision
    BY <1>4 DEF Announced
  <2>4. e.at \in 0..revision'
    BY <2>1, <2>2, <2>3
  <2> QED
    BY <1>4, <2>4 DEF Announced
<1>5. CASE e.type \notin {"continued", "requested", "child_succeeded", "child_failed", "reviewed"}
  BY <1>5 DEF Announced
<1> QED
  BY <1>1, <1>2, <1>3, <1>4, <1>5

(* Work comes from a request that was handled. *)
LEMMA AskedStep ==
  ASSUME Orderly, GoesOn', [Next]_vars
  PROVE  WorkWasAsked'
<1>1. WorkWasAsked /\ EventsMove
  BY EventsStepKept DEF Orderly
<1>2. ASSUME ~Unstarted' PROVE Requested(The("detect")) \in inserted' \ inbox'
  <2>1. PICK a \in Children : child'[a] # "none"
    BY <1>2 DEF Unstarted
  <2>2. CASE child[a] = "none"
    BY <2>1, <2>2, ChildMoves DEF ChildMove, Busy
  <2>3. CASE child[a] # "none"
    BY <2>3, <1>1 DEF WorkWasAsked, Unstarted, EventsMove
  <2> QED
    BY <2>2, <2>3
<1>3. ASSUME job' # "none" PROVE Requested(The("assess")) \in inserted' \ inbox'
  <2>1. job # "none" \/ Requested(The("assess")) \in inserted' \ inbox'
    BY <1>3, JobStep DEF JobMoves, Busy
  <2> QED
    BY <2>1, <1>1 DEF WorkWasAsked, EventsMove
<1>4. The("detect")' = The("detect") /\ The("assess")' = The("assess")
  BY DEF The, Positions
<1>5. Requested(The("detect"))' = Requested(The("detect")) /\ Requested(The("assess"))' = Requested(The("assess"))
  BY <1>4 DEF Requested, Event
<1> QED
  BY <1>2, <1>3, <1>5 DEF WorkWasAsked

(* A run that was stopped goes on by a review only. *)
LEMMA OnlyReviewed ==
  ASSUME Undisturbed', [Next]_vars
  PROVE  run' \in Schedulable => run \in Schedulable \/ Review
<1> DEFINE Goal == run' \in Schedulable => run \in Schedulable \/ Review
<1> USE DEF Schedulable
<1>1. ASSUME NEW e \in inbox, Advance(e)
      PROVE  Goal
  BY <1>1 DEF Advance
<1>2. ASSUME NEW e \in inbox, IgnoreInactive(e) \/ NotAdmitted(e) \/ AwaitChildren(e)
      PROVE  Goal
  BY <1>2 DEF IgnoreInactive, NotAdmitted, AwaitChildren
<1>3. ASSUME NEW e \in inbox, ControlHandler(e)
      PROVE  Goal
  BY <1>3 DEF ControlHandler
<1>4. ASSUME NEW e \in inbox, \/ ConditionSkips(e) \/ SyncStep(e) \/ QueueChildren(e)
                              \/ SealEvidence(e) \/ QueueAssessment(e) \/ ApplyIssues(e)
                              \/ DisputeTarget(e) \/ FailStep(e)
      PROVE  Goal
  BY <1>4 DEF ConditionSkips, SyncStep, QueueChildren, SealEvidence, QueueAssessment,
       ApplyIssues, DisputeTarget, FailStep, Runs, Admits
<1>5. ASSUME NEW a \in Children, CancelChild(a) \/ RefuseChild(a) \/ CallProvider(a)
      PROVE  Goal
  BY <1>5 DEF CancelChild, RefuseChild, CallProvider
<1>6. ASSUME NEW c \in calls, NEW outcome, ProviderReturns(c[1], c[2], outcome)
      PROVE  Goal
  BY <1>6 DEF ProviderReturns
<1>7. ASSUME NEW a \in Children, NEW outcome \in {"succeeded", "failed"},
             Callback(a, outcome) \/ CallbackUnstored(a)
      PROVE  Goal
  BY <1>7 DEF Callback, CallbackUnstored
<1>8. ASSUME CancelJob \/ RefuseJob \/ CallModel
      PROVE  Goal
  BY <1>8 DEF CancelJob, RefuseJob, CallModel, AssessmentFails
<1>9. ASSUME NEW c \in calls, c[1] = Job, ModelReturns(c[2])
      PROVE  Goal
  BY <1>9 DEF ModelReturns, DiscardAnswer, AssessmentSucceeds, AssessmentNeedsReview, AssessmentFails
<1>10. ASSUME NEW c \in calls, LoseCall(c)
      PROVE  Goal
  BY <1>10 DEF LoseCall
<1>11. ASSUME Operate
      PROVE  Goal
  <2>1. CASE Resume
    <3>1. Event("resumed", controls) \in inserted'
      BY <2>1 DEF Resume, Steer, Exchange
    <3>2. PICK n \in inserted' : n = Event("resumed", controls)
      BY <3>1
    <3>3. n.type = "resumed"
      BY <3>2 DEF Event
    <3> QED
      BY <3>3 DEF Undisturbed
  <2> QED
    BY <1>11, <2>1 DEF Operate, Pause, Cancel, EmergencyStop, Steer
<1>12. ASSUME UNCHANGED vars PROVE Goal
  BY <1>12 DEF vars
<1> HIDE DEF Goal, Schedulable
<1> QED
  BY <1>1, <1>2, <1>3, <1>4, <1>5, <1>6, <1>7, <1>8, <1>9, <1>10, <1>11, <1>12 DEF Next, Handle,
      StepHandler, ChildWorker, JobWorker, Answers, Goal

(* A run that goes on has no step that was stopped. *)
LEMMA NoneStopped ==
  ASSUME Orderly, Undisturbed', GoesOn', [Next]_vars, run' \in Schedulable, NEW i \in Positions
  PROVE  step'[i] \notin {"paused", "failed"}
<1>1. step \in [Positions -> {"pending", "running", "paused", "failed"} \cup Done]
  BY DEF Orderly, InspectionInv, TypeOK
<1>2. step[i] \in {"paused", "failed"} => Open # {} /\ i = Current
  BY BegunIsCurrent DEF Orderly, Done
<1>3. CASE Begins
  BY <1>1, <1>2, <1>3, CurrentIsOpen DEF Begins, Finish
<1>4. CASE Moves
  BY <1>1, <1>2, <1>4, CurrentIsOpen DEF Moves, Finish, Done
<1>5. CASE (step' = step \/ Overrules) /\ run \in Schedulable
  BY <1>1, <1>5 DEF Orderly, StoppedIsOver, Overrules, Finish
<1>6. CASE step' = step /\ Review
  <2>1. Has("assess")
    BY <1>6 DEF Review, Orderly, InspectionInv, WorkIsOwned
  <2>2. The("assess") \in Positions
    BY <2>1, TheIsOne
  <2> QED
    BY <1>1, <1>6, <2>2 DEF Review, Finish
<1> QED
  BY <1>3, <1>4, <1>5, <1>6, CurrentMoves, OnlyReviewed DEF Overrules

(* Work that was given up is that of a step that is over. *)
LEMMA OverStays ==
  ASSUME Orderly, Undisturbed', GoesOn', [Next]_vars, run' \in Schedulable, NEW i \in Positions,
         run \in Schedulable => step[i] \notin {"pending", "running"},
         step[i] # "pending", Review => i # Current
  PROVE  step'[i] \notin {"pending", "running"}
<1>1. step \in [Positions -> {"pending", "running", "paused", "failed"} \cup Done]
  BY DEF Orderly, InspectionInv, TypeOK
<1>2. CASE run \in Schedulable
  <2>1. step[i] \in Done
    BY <1>1, <1>2 DEF Orderly, StoppedIsOver
  <2> QED
    BY <2>1, StepsKept DEF StepKept, Done
<1>3. CASE Review
  <2>1. step[i] \in Done
    BY <1>1, <1>3, BegunIsCurrent DEF Orderly
  <2> QED
    BY <2>1, StepsKept DEF StepKept, Done
<1> QED
  BY <1>2, <1>3, OnlyReviewed

(* The assessment's result is that of a job that succeeded. *)
LEMMA AnswerStep ==
  ASSUME Orderly, GoesOn', [Next]_vars
  PROVE  (assessment \in {"succeeded", "needs_review"} => job = "succeeded")'
<1> DEFINE Goal == (assessment \in {"succeeded", "needs_review"} => job = "succeeded")'
<1>0. (assessment \in {"succeeded", "needs_review"} => job = "succeeded") /\ WorkIsOwned
  BY DEF Orderly, StoppedIsOver, InspectionInv
<1> USE DEF review
<1>1. ASSUME NEW e \in inbox, \/ Advance(e) \/ IgnoreInactive(e) \/ NotAdmitted(e) \/ AwaitChildren(e)
                              \/ ControlHandler(e) \/ ConditionSkips(e) \/ SyncStep(e)
                              \/ QueueChildren(e) \/ SealEvidence(e) \/ ApplyIssues(e) \/ FailStep(e)
      PROVE  Goal
  BY <1>0, <1>1 DEF Advance, IgnoreInactive, NotAdmitted, AwaitChildren, ControlHandler, ConditionSkips,
       SyncStep, QueueChildren, SealEvidence, ApplyIssues, FailStep
<1>2. ASSUME NEW e \in inbox, QueueAssessment(e) \/ DisputeTarget(e)
      PROVE  Goal
  BY <1>0, <1>2 DEF QueueAssessment, DisputeTarget, Orderly, Undisturbed
<1>3. ASSUME NEW a \in Children, CancelChild(a) \/ RefuseChild(a) \/ CallProvider(a)
      PROVE  Goal
  BY <1>0, <1>3 DEF CancelChild, RefuseChild, CallProvider
<1>4. ASSUME NEW c \in calls, NEW outcome, ProviderReturns(c[1], c[2], outcome)
      PROVE  Goal
  BY <1>0, <1>4 DEF ProviderReturns
<1>5. ASSUME NEW a \in Children, NEW outcome \in {"succeeded", "failed"},
             Callback(a, outcome) \/ CallbackUnstored(a)
      PROVE  Goal
  BY <1>0, <1>5 DEF Callback, CallbackUnstored
<1>6. ASSUME CancelJob \/ RefuseJob \/ CallModel
      PROVE  Goal
  BY <1>0, <1>6 DEF CancelJob, RefuseJob, CallModel, AssessmentFails, DropAssessment, Claimable, WorkIsOwned
<1>7. ASSUME NEW c \in calls, c[1] = Job, ModelReturns(c[2])
      PROVE  Goal
  BY <1>0, <1>7 DEF ModelReturns, DiscardAnswer, DropAssessment, AssessmentSucceeds,
       AssessmentNeedsReview, AssessmentFails, WorkIsOwned, Busy
<1>8. ASSUME NEW c \in calls, LoseCall(c)
      PROVE  Goal
  BY <1>0, <1>8 DEF LoseCall
<1>9. ASSUME Review \/ Operate
      PROVE  Goal
  BY <1>0, <1>9 DEF Review, Operate, Pause, Resume, Cancel, EmergencyStop, Steer
<1>10. ASSUME UNCHANGED vars PROVE Goal
  BY <1>0, <1>10 DEF vars
<1> HIDE DEF Goal, review
<1> QED
  BY <1>1, <1>2, <1>3, <1>4, <1>5, <1>6, <1>7, <1>8, <1>9, <1>10 DEF Next, Handle, StepHandler,
      ChildWorker, JobWorker, Answers, Goal

(* What was stopped is over. *)
LEMMA StoppedStep ==
  ASSUME Orderly, Undisturbed', GoesOn', [Next]_vars
  PROVE  StoppedIsOver'
<1>0. StoppedIsOver /\ WorkIsOwned
  BY DEF Orderly, InspectionInv
<1>1. job' # "succeeded" => revision' = 0
  BY <1>0, JobStep DEF JobMoves, StoppedIsOver, Busy
<1>a. Review => Has("assess") /\ The("assess") \in Positions /\ Uses[The("assess")] = "assess"
                /\ Current = The("assess") /\ job = "succeeded"
  <2> SUFFICES ASSUME Review
               PROVE  /\ Has("assess") /\ The("assess") \in Positions /\ Uses[The("assess")] = "assess"
                      /\ Current = The("assess") /\ job = "succeeded"
    OBVIOUS
  <2>1. Has("assess") /\ step[The("assess")] = "paused" /\ job = "succeeded"
    BY <1>0 DEF Review, WorkIsOwned, StoppedIsOver
  <2> QED
    BY <2>1, ActiveIsCurrent, TheIsOne
<1>2. ASSUME run' \in Schedulable, NEW a \in Children, child'[a] = "canceled"
      PROVE  step'[The("detect")] \notin {"pending", "running"}
  <2>1. CASE child[a] = "canceled"
    <3>1. Has("detect") /\ The("detect") \in Positions /\ Uses[The("detect")] = "detect"
      BY <1>0, <2>1, TheIsOne DEF WorkIsOwned
    <3>2. step[The("detect")] # "pending"
      BY <2>1, AskedIsBegun DEF Unstarted
    <3>3. run \in Schedulable => step[The("detect")] \notin {"pending", "running"}
      BY <1>0, <2>1 DEF StoppedIsOver
    <3>4. Review => The("detect") # Current
      BY <3>1, <1>a
    <3> QED
      BY <1>2, <3>1, <3>2, <3>3, <3>4, OverStays
  <2>2. CASE child[a] # "canceled"
    BY <1>2, <2>2, ChildMoves DEF ChildMove, Over
  <2> QED
    BY <2>1, <2>2
<1>3. ASSUME run' \in Schedulable, job' = "failed"
      PROVE  step'[The("assess")] \notin {"pending", "running"}
  <2>1. CASE job = "failed"
    <3>1. The("assess") \in Positions
      BY <1>0, <2>1, TheIsOne DEF WorkIsOwned
    <3>2. step[The("assess")] # "pending"
      BY <2>1, AskedIsBegun
    <3>3. run \in Schedulable => step[The("assess")] \notin {"pending", "running"}
      BY <1>0, <2>1 DEF StoppedIsOver
    <3> QED
      BY <1>3, <2>1, <1>a, <3>1, <3>2, <3>3, OverStays
  <2>2. CASE job # "failed"
    BY <1>3, <2>2, JobStep DEF JobMoves, Over
  <2> QED
    BY <2>1, <2>2
<1>4. run' \in Schedulable => \A i \in Positions : step'[i] \notin {"paused", "failed"}
  BY NoneStopped
<1>5. (run \in Schedulable)' <=> run' \in Schedulable
  BY DEF Schedulable
<1>6. The("detect")' = The("detect") /\ The("assess")' = The("assess")
  BY DEF The, Positions
<1> QED
  BY <1>1, <1>2, <1>3, <1>4, <1>5, <1>6, AnswerStep DEF StoppedIsOver, Positions

(* What wakes the scheduler. *)
Woken(events_) == \E e \in events_ : e.type \in {"triggered", "continued", "reviewed", "resumed"}

(* When no step is running, an event carries the run on, ... *)
LEMMA IdleIsWoken ==
  ASSUME \A i \in Positions : step[i] # "running"
  PROVE  Carried <=> Woken(inbox)
BY CurrentIsOpen DEF Carried, Wakes, Woken

(* ... also in the next state, ... *)
LEMMA IdleStaysWoken ==
  ASSUME \A i \in Positions : step'[i] # "running", Woken(inbox')
  PROVE  Carried'
<1>1. \E e \in inbox' : Wakes(e)'
  BY DEF Woken, Wakes
<1>2. ~(Open' # {} /\ step'[Current'] = "running")
  <2> SUFFICES ASSUME Open' # {} PROVE Current' \in Positions
    OBVIOUS
  <2>1. Open' \in SUBSET Positions
    BY DEF Open, Positions
  <2> QED
    BY <2>1, FirstOfSteps DEF Current
<1> QED
  BY <1>1, <1>2 DEF Carried

(* ... and otherwise what the running step waits for. *)
LEMMA RunningIsCarried ==
  ASSUME InOrder, NEW i \in Positions, step[i] = "running"
  PROVE  Carried <=> Carrier(i)
BY BegunIsCurrent DEF Carried, Done

(* ... also in the next state. *)
LEMMA RunningStaysCarried ==
  ASSUME InOrder', NEW i \in Positions, step'[i] = "running", Carrier(i)'
  PROVE  Carried'
<1>1. Open' # {} /\ Current' = i
  BY BegunIsFirst DEF InOrder, Open, Current, Done, Positions
<1> QED
  BY <1>1 DEF Carried

(* What carries a run on keeps doing so. *)
LEMMA CarriedStays ==
  ASSUME InOrder, Carried, step' = step,
         (\A i \in Positions : step[i] # "running") => (Woken(inbox) => Woken(inbox')),
         \A i \in Positions : step[i] = "running" /\ Carrier(i) => Carrier(i)'
  PROVE  Carried'
<1>1. CASE \A i \in Positions : step[i] # "running"
  BY <1>1, IdleIsWoken, IdleStaysWoken
<1>2. ASSUME NEW i \in Positions, step[i] = "running" PROVE Carried'
  <2>1. InOrder'
    BY DEF InOrder, Positions
  <2> QED
    BY <1>2, <2>1, RunningIsCarried, RunningStaysCarried
<1> QED
  BY <1>1, <1>2

(* The completion of a running step wakes the scheduler for the next one. *)
LEMMA CompletionCarries ==
  ASSUME Orderly, NEW i \in Positions, step[i] \in {"running", "paused"}, NEW s \in Done,
         NEW E, Finish(i, s), NEW e, Exchange(E, {e}), e \notin inserted, Woken({e})
  PROVE  Carried'
<1>1. \A k \in Positions : step'[k] # "running"
  <2>1. \A k \in Positions : k # i => step[k] # "running"
    BY BegunIsCurrent DEF Orderly, Done
  <2> QED
    BY <2>1 DEF Finish, Orderly, InspectionInv, TypeOK, Done
<1>2. Woken(inbox')
  BY DEF Exchange, Woken
<1> QED
  BY <1>1, <1>2, IdleStaysWoken

(* The scheduler has not yet heard of the completion of an open step. *)
LEMMA CompletionIsFresh ==
  ASSUME Orderly, NEW i, step[i] \notin Done
  PROVE  Continued(i) \notin inserted /\ Woken({Continued(i)})
<1>1. Continued(i).type = "continued" /\ Continued(i).at = i
  BY DEF Continued, Event
<1>2. Continued(i) \in inserted => Announced(Continued(i))
  BY DEF Orderly, IdsAreSpent
<1> QED
  BY <1>1, <1>2 DEF Announced, Woken

(* Every step leaves something that carries the run on. *)
LEMMA CarryStep ==
  ASSUME Orderly, Undisturbed', [Next]_vars, run \in Schedulable => Carried, run' \in Schedulable
  PROVE  Carried'
<1>o. GoesOn'
  BY DEF GoesOn, Schedulable
<1>0. /\ TypeOK /\ WorkIsOwned /\ QueuedIsFresh /\ InOrder /\ InOrder' /\ IdsAreSpent
      /\ step \in [Positions -> {"pending", "running", "paused", "failed"} \cup Done]
      /\ child \in [Children -> {"none", "canceled", "succeeded", "failed"} \cup Busy]
      /\ inbox \subseteq inserted
  BY <1>o, OrderStep DEF Orderly, InspectionInv, TypeOK, Undisturbed, Unanswered
<1>f. ASSUME NEW a \in Children, NEW type, Gathered(a, type) \in inserted
      PROVE  child[a] \in {"succeeded", "failed", "canceled"}
  <2>1. Announced(Gathered(a, type))
    BY <1>f, <1>0 DEF IdsAreSpent
  <2> QED
    BY <2>1 DEF Announced, Gathered, Event
<1>1. ASSUME NEW e \in inbox, Advance(e)
      PROVE  Carried'
  <2>1. Carried /\ \A i \in Positions : step[i] \notin {"paused", "failed"}
    BY <1>1 DEF Advance, Orderly, StoppedIsOver
  <2>2. CASE Open # {} /\ step[Current] = "pending" /\ Finish(Current, "running")
             /\ Exchange({e}, {Requested(Current)})
    <3>1. PICK i \in Positions : i = Current
      BY <2>2, CurrentIsOpen
    <3>2. step'[i] = "running"
      BY <2>2, <3>1, <1>0 DEF Finish
    <3>3. Requested(i) \notin inserted
      <4>1. Requested(i) \in inserted => Announced(Requested(i))
        BY <1>0 DEF IdsAreSpent
      <4> QED
        BY <4>1, <2>2, <3>1 DEF Announced, Requested, Event
    <3>4. Requested(i) \in inbox'
      BY <2>2, <3>1, <3>3 DEF Exchange
    <3>5. Carrier(i)'
      BY <3>4 DEF Carrier, Requested, Event
    <3> QED
      BY <3>2, <3>5, <1>0, RunningStaysCarried
  <2>3. CASE Open # {} /\ step[Current] = "running" /\ Exchange({e}, {}) /\ UNCHANGED <<run, step>>
    <3>1. PICK i \in Positions : i = Current
      BY <2>3, CurrentIsOpen
    <3>2. step'[i] = "running" /\ Carrier(i)
      BY <2>1, <2>3, <3>1, <1>0, RunningIsCarried
    <3>3. \A x : Requested(x) # e /\ Gathered(x, "succeeded") # e /\ Gathered(x, "failed") # e
      BY <1>1 DEF Advance, Wakes, Requested, Gathered, Event
    <3>4. inbox \ {e} \subseteq inbox'
      BY <2>3 DEF Exchange
    <3>5. Carrier(i)'
      BY <1>1, <3>2, <3>3, <3>4 DEF Advance, Carrier, detection
    <3> QED
      BY <3>2, <3>5, <1>0, RunningStaysCarried
  <2> QED
    BY <1>1, <2>1, <2>2, <2>3, CurrentIsOpen DEF Advance, Schedulable
<1>2. ASSUME NEW e \in inbox, IgnoreInactive(e)
      PROVE  Carried'
  BY <1>2 DEF IgnoreInactive
<1>3. ASSUME NEW e \in inbox, ControlHandler(e)
      PROVE  Carried'
  <2>1. run' = run /\ Carried
    BY <1>3 DEF ControlHandler, Schedulable
  <2>2. Woken(inbox) => Woken(inbox')
    BY <1>3 DEF ControlHandler, Exchange, Woken
  <2>3. \A i \in Positions : Carrier(i) => Carrier(i)'
    BY <1>3 DEF ControlHandler, Exchange, Carrier, Requested, Gathered, Event, detection
  <2> QED
    BY <1>0, <1>3, <2>1, <2>2, <2>3, CarriedStays DEF ControlHandler
<1>4. ASSUME NEW e \in inbox, NotAdmitted(e)
      PROVE  Carried'
  <2>1. run' = run /\ Carried /\ step[Subject(e)] \notin {"pending", "running"}
    BY <1>4 DEF NotAdmitted, Admits
  <2>2. Woken(inbox) => Woken(inbox')
    BY <1>4 DEF NotAdmitted, Asks, IsGathered, Exchange, Woken
  <2>3. ASSUME NEW i \in Positions, step[i] = "running", Carrier(i) PROVE Carrier(i)'
    <3>1. Requested(i) # e
      BY <2>1, <2>3 DEF Requested, Event, Subject, IsGathered
    <3>2. ASSUME Uses[i] = "detect", NEW a PROVE Gathered(a, "succeeded") # e /\ Gathered(a, "failed") # e
      <4>1. The("detect") = i
        BY <3>2, TheIsUnique
      <4> QED
        BY <2>1, <2>3, <4>1 DEF Gathered, Event, Subject, IsGathered
    <3> QED
      BY <1>4, <2>3, <3>1, <3>2 DEF NotAdmitted, Exchange, Carrier, detection
  <2> QED
    BY <1>0, <1>4, <2>1, <2>2, <2>3, CarriedStays DEF NotAdmitted
<1>5. ASSUME NEW e \in inbox, \/ ConditionSkips(e) \/ SyncStep(e) \/ SealEvidence(e)
                              \/ ApplyIssues(e)
      PROVE  Carried'
  <2>1. Admits(e)
    BY <1>5 DEF ConditionSkips, SyncStep, SealEvidence, ApplyIssues, Runs
  <2>2. Subject(e) \in Positions /\ step[Subject(e)] = "running"
    BY <2>1, AdmittedIsCurrent
  <2>3. \E s \in Done : Finish(Subject(e), s) /\ Exchange({e}, {Continued(Subject(e))})
    BY <1>5 DEF ConditionSkips, SyncStep, SealEvidence, ApplyIssues, Done, Schedulable
  <2>4. Continued(Subject(e)) \notin inserted /\ Woken({Continued(Subject(e))})
    BY <2>2, CompletionIsFresh DEF Done
  <2> QED
    BY <2>2, <2>3, <2>4, CompletionCarries
<1>s. ASSUME NEW e \in inbox, FailStep(e)
      PROVE  Carried'
  <2>1. /\ Subject(e) \in Positions /\ Asks(e) /\ run \in Schedulable
        /\ Finish(Subject(e), "skipped") /\ Exchange({e}, {Continued(Subject(e))})
        /\ step[Subject(e)] \in Done \/ step[Subject(e)] = "running"
    BY <1>s, <1>o, FailureSkips
  <2>2. CASE step[Subject(e)] = "running"
    <3>1. Continued(Subject(e)) \notin inserted /\ Woken({Continued(Subject(e))})
      BY <2>2, CompletionIsFresh DEF Done
    <3> QED
      BY <2>1, <2>2, <3>1, CompletionCarries DEF Done
  <2>3. CASE step[Subject(e)] \in Done
    <3>1. Carried /\ inbox \ {e} \subseteq inbox' /\ UNCHANGED <<child, job>>
      BY <1>s, <2>1 DEF FailStep, Exchange, detection
    <3>2. CASE \A i \in Positions : step[i] # "running"
      <4>1. Woken(inbox')
        BY <3>1, <3>2, <2>1, IdleIsWoken DEF Woken, Asks, IsGathered
      <4>2. \A i \in Positions : step'[i] # "running"
        BY <3>2, <2>1, <1>0 DEF Finish
      <4> QED
        BY <4>1, <4>2, IdleStaysWoken
    <3>3. ASSUME NEW i \in Positions, step[i] = "running" PROVE Carried'
      <4>1. Subject(e) # i /\ step'[i] = "running"
        BY <2>1, <2>3, <3>3, <1>0 DEF Finish, Done
      <4>2. Requested(i) # e
        BY <4>1 DEF Requested, Event, Subject, IsGathered
      <4>3. ASSUME Uses[i] = "detect", NEW a
            PROVE  Gathered(a, "succeeded") # e /\ Gathered(a, "failed") # e
        <5>1. The("detect") = i
          BY <4>3, TheIsUnique
        <5> QED
          BY <4>1, <5>1 DEF Gathered, Event, Subject, IsGathered
      <4>4. Carrier(i)
        BY <3>1, <3>3, <1>0, RunningIsCarried
      <4>5. Carrier(i)'
        BY <3>1, <4>2, <4>3, <4>4 DEF Carrier
      <4> QED
        BY <1>0, <4>1, <4>5, RunningStaysCarried
    <3> QED
      BY <3>2, <3>3
  <2> QED
    BY <2>1, <2>2, <2>3
<1>6. ASSUME NEW e \in inbox, QueueChildren(e) \/ AwaitChildren(e)
      PROVE  Carried'
  <2>1. Runs(e, "detect")
    BY <1>6 DEF QueueChildren, AwaitChildren
  <2>2. Subject(e) \in Positions /\ step[Subject(e)] = "running" /\ Uses[Subject(e)] = "detect"
    BY <2>1, AdmittedIsCurrent DEF Runs
  <2>3. step' = step /\ \E a \in Children : child'[a] \in Busy
    BY <1>6, InspectionAssumption DEF QueueChildren, AwaitChildren, Orderly, Undisturbed, Unanswered,
       Busy, detection
  <2>4. PICK i \in Positions : i = Subject(e)
    BY <2>2
  <2>5. Carrier(i)'
    BY <2>2, <2>3, <2>4 DEF Carrier
  <2> QED
    BY <1>0, <2>2, <2>3, <2>4, <2>5, RunningStaysCarried
<1>7. ASSUME NEW e \in inbox, QueueAssessment(e)
      PROVE  Carried'
  <2>1. Runs(e, "assess")
    BY <1>7 DEF QueueAssessment
  <2>2. PICK i \in Positions : i = Subject(e)
    BY <2>1, AdmittedIsCurrent DEF Runs
  <2>3. step[i] = "running" /\ Uses[i] = "assess" /\ The("assess") = i
    BY <2>1, <2>2, AdmittedIsCurrent, TheIsUnique DEF Runs
  <2>4. e = Requested(i)
    BY <2>1, <2>2, <2>3, <1>0, TheIsOne DEF Runs, Admits, Asks, Subject, IdsAreSpent, Requested, Event,
       Orderly, InspectionInv, EventsName
  <2>5. job = "none"
    BY <2>3, <2>4 DEF Orderly, WorkWasAsked
  <2>6. job' \in Busy
    BY <1>7, <2>5, <1>0 DEF QueueAssessment, WorkIsOwned, Busy
  <2>7. Carrier(i)' /\ step'[i] = "running"
    BY <1>7, <2>3, <2>6 DEF Carrier, QueueAssessment
  <2> QED
    BY <1>0, <2>7, RunningStaysCarried
<1>8. ASSUME NEW e \in inbox, DisputeTarget(e)
      PROVE  Carried'
  BY <1>8 DEF DisputeTarget, Orderly, Undisturbed
<1>d. ASSUME NEW a \in Children, child[a] \in Busy
      PROVE  /\ Has("detect") /\ The("detect") \in Positions /\ Uses[The("detect")] = "detect"
             /\ run # "queued"
  BY <1>d, <1>0, TheIsOne DEF WorkIsOwned, QueuedIsFresh, Busy
<1>9. ASSUME NEW a \in Children, CancelChild(a)
      PROVE  Carried'
  <2>1. run' = run /\ Carried /\ step[The("detect")] # "running"
    BY <1>9, <1>d DEF CancelChild, Claimable, Active, Schedulable
  <2>2. ASSUME NEW i \in Positions, step[i] = "running", Carrier(i) PROVE Carrier(i)'
    BY <1>9, <2>1, <2>2, TheIsUnique DEF Carrier, CancelChild, events
  <2> QED
    BY <1>0, <1>9, <2>1, <2>2, CarriedStays DEF CancelChild, events
<1>10. ASSUME NEW a \in Children, RefuseChild(a) \/ CallProvider(a)
       PROVE  Carried'
  <2>1. child[a] \in Busy /\ step' = step /\ step[The("detect")] = "running"
    BY <1>10 DEF RefuseChild, CallProvider, Claimable, Active
  <2>2. PICK i \in Positions : i = The("detect") /\ Uses[i] = "detect"
    BY <1>d, <2>1
  <2>3. CASE RefuseChild(a)
    <3>1. Gathered(a, "failed") \in inbox'
      BY <2>1, <2>3, <1>f DEF RefuseChild, Exchange, Busy
    <3>2. Carrier(i)'
      BY <2>2, <3>1 DEF Carrier, Gathered, Event
    <3> QED
      BY <1>0, <2>1, <2>2, <3>2, RunningStaysCarried
  <2>4. CASE CallProvider(a)
    <3>1. child'[a] \in Busy
      BY <1>0, <2>4 DEF CallProvider, ChildIs, Busy
    <3>2. Carrier(i)'
      BY <2>2, <3>1 DEF Carrier
    <3> QED
      BY <1>0, <2>1, <2>2, <3>2, RunningStaysCarried
  <2> QED
    BY <1>10, <2>3, <2>4
<1>11. ASSUME NEW c \in calls, c[1] # Job, NEW outcome \in {"succeeded", "failed"} \cup Deferred,
              ProviderReturns(c[1], c[2], outcome)
       PROVE  Carried'
  <2>1. c[1] \in Children /\ step' = step /\ run' = run /\ job' = job /\ Carried
    BY <1>11, <1>0, CallShape DEF ProviderReturns
  <2>2. CASE UNCHANGED <<child, events>>
    <3>1. \A i \in Positions : Carrier(i) => Carrier(i)'
      BY <2>1, <2>2 DEF Carrier, events
    <3> QED
      BY <1>0, <2>1, <2>2, <3>1, CarriedStays DEF events
  <2>3. CASE child[c[1]] = "running" /\ ChildIs(c[1], Outcome(outcome))
             /\ Exchange({}, {Gathered(c[1], Outcome(outcome))})
    <3>1. run = "running" /\ Outcome(outcome) \in {"succeeded", "failed"}
      BY <2>1, <2>3, <1>d DEF Outcome, Busy, Schedulable, Orderly, Undisturbed
    <3>2. Gathered(c[1], Outcome(outcome)) \in inbox'
      BY <2>1, <2>3, <1>f DEF Exchange
    <3>3. CASE step[The("detect")] = "running"
      <4>1. PICK i \in Positions : i = The("detect") /\ Uses[i] = "detect"
        BY <1>d, <2>1, <2>3 DEF Busy
      <4>2. Carrier(i)'
        BY <2>1, <3>1, <3>2, <4>1 DEF Carrier, Gathered, Event
      <4> QED
        BY <1>0, <2>1, <3>3, <4>1, <4>2, RunningStaysCarried
    <3>4. CASE step[The("detect")] # "running"
      <4>1. ASSUME NEW i \in Positions, step[i] = "running", Carrier(i) PROVE Carrier(i)'
        BY <2>1, <2>3, <3>4, <4>1, TheIsUnique DEF Carrier, Exchange
      <4>2. Woken(inbox) => Woken(inbox')
        BY <2>3 DEF Exchange, Woken
      <4> QED
        BY <1>0, <2>1, <4>1, <4>2, CarriedStays
    <3> QED
      BY <3>3, <3>4
  <2> QED
    BY <1>11, <2>2, <2>3 DEF ProviderReturns, Orderly, Undisturbed
<1>12. ASSUME NEW a \in Children, NEW outcome \in {"succeeded", "failed"},
              Callback(a, outcome) \/ CallbackUnstored(a)
       PROVE  Carried'
  BY <1>12, <1>0 DEF Callback, CallbackUnstored, Busy
<1>j. job \in Busy => /\ Has("assess") /\ The("assess") \in Positions /\ Uses[The("assess")] = "assess"
                      /\ run # "queued"
  BY <1>0, TheIsOne DEF WorkIsOwned, QueuedIsFresh, Busy
<1>13. ASSUME CancelJob \/ (job \in Busy /\ ~Active("assess") /\ DiscardAnswer /\ UNCHANGED detection)
       PROVE  Carried'
  <2>1. run' = run /\ Carried /\ step[The("assess")] # "running" /\ UNCHANGED <<events, detection>>
    BY <1>13, <1>j DEF CancelJob, DiscardAnswer, Claimable, Active, Schedulable
  <2>2. step' = step
    <3>1. step[The("assess")] # "paused"
      BY <1>13, <1>j, <2>1 DEF CancelJob, Claimable, Orderly, StoppedIsOver
    <3> QED
      BY <1>0, <1>13, <2>1, <3>1 DEF CancelJob, DiscardAnswer
  <2>3. ASSUME NEW i \in Positions, step[i] = "running", Carrier(i) PROVE Carrier(i)'
    BY <2>1, <2>3, TheIsUnique DEF Carrier, events, detection
  <2> QED
    BY <1>0, <2>1, <2>2, <2>3, CarriedStays DEF events
<1>14. ASSUME RefuseJob \/ CallModel
       PROVE  Carried'
  <2>1. CallModel
    BY <1>14 DEF RefuseJob, AssessmentFails, Schedulable
  <2>2. PICK i \in Positions : i = The("assess") /\ Uses[i] = "assess" /\ step[i] = "running"
    BY <1>j, <2>1 DEF CallModel, Claimable, Active
  <2>3. Carrier(i)'
    BY <2>1, <2>2 DEF CallModel, Carrier, Busy
  <2> QED
    BY <1>0, <2>1, <2>2, <2>3, RunningStaysCarried DEF CallModel
<1>15. ASSUME NEW c \in calls, c[1] = Job, ModelReturns(c[2])
       PROVE  Carried'
  <2>1. CASE UNCHANGED <<run, step, events, job>>
    <3>1. \A i \in Positions : Carrier(i) => Carrier(i)'
      BY <1>15, <2>1 DEF Carrier, events, ModelReturns, detection
    <3> QED
      BY <1>0, <2>1, <3>1, CarriedStays DEF events
  <2>2. CASE job = "running" /\ ~Active("assess") /\ DiscardAnswer
    BY <1>13, <1>15, <2>2 DEF ModelReturns, Busy
  <2>3. CASE job = "running" /\ Active("assess") /\ AssessmentSucceeds
    <3>1. The("assess") \in Positions /\ step[The("assess")] = "running"
      BY <1>j, <2>3 DEF Active, Busy
    <3>2. Continued(The("assess")) \notin inserted /\ Woken({Continued(The("assess"))})
      BY <3>1, CompletionIsFresh DEF Done
    <3> QED
      BY <2>3, <3>1, <3>2, CompletionCarries DEF AssessmentSucceeds, Done
  <2> QED
    BY <1>15, <2>1, <2>2, <2>3 DEF ModelReturns, AssessmentFails, AssessmentNeedsReview, Schedulable
<1>16. ASSUME (\E c \in calls : LoseCall(c)) \/ UNCHANGED vars
       PROVE  Carried'
  <2>1. UNCHANGED <<run, step, events, detection, job>>
    BY <1>16 DEF LoseCall, vars, events, detection
  <2>2. \A i \in Positions : Carrier(i) => Carrier(i)'
    BY <2>1 DEF Carrier, events, detection
  <2> QED
    BY <1>0, <2>1, <2>2, CarriedStays DEF events
<1>17. ASSUME Review
       PROVE  Carried'
  <2>1. The("assess") \in Positions /\ step[The("assess")] = "paused"
    BY <1>17, <1>0, TheIsOne DEF Review, WorkIsOwned
  <2>2. PICK m : m = revision + 1
    OBVIOUS
  <2>3. Event("reviewed", m) \notin inserted /\ Woken({Event("reviewed", m)})
    <3>1. Event("reviewed", m).type = "reviewed" /\ Event("reviewed", m).at = m
      BY DEF Event
    <3>2. m \notin 0..revision
      BY <2>2, <1>0 DEF TypeOK
    <3>3. Event("reviewed", m) \in inserted => Announced(Event("reviewed", m))
      BY <1>0 DEF IdsAreSpent
    <3> QED
      BY <3>1, <3>2, <3>3 DEF Announced, Woken
  <2>4. Finish(The("assess"), "succeeded") /\ Exchange({}, {Event("reviewed", m)})
    BY <1>17, <2>2 DEF Review
  <2> QED
    BY <2>1, <2>3, <2>4, CompletionCarries DEF Done
<1>18. ASSUME Operate
       PROVE  Carried'
  <2>1. run' \in Schedulable => run \in Schedulable
    BY <1>18, OnlyReviewed DEF Review, Operate, Pause, Resume, Cancel, EmergencyStop, Steer
  <2> QED
    BY <1>18, <2>1 DEF Operate, Pause, Resume, Cancel, EmergencyStop, Steer, Schedulable
<1> QED
  BY <1>1, <1>2, <1>3, <1>4, <1>5, <1>s, <1>6, <1>7, <1>8, <1>9, <1>10, <1>11, <1>12, <1>13,
       <1>14, <1>15, <1>16, <1>17, <1>18 DEF Next, Handle, StepHandler, ChildWorker, JobWorker, Answers

(* A run as it is created is woken for its first step. *)
LEMMA CarryInit == Init => CarryInv
<1> SUFFICES ASSUME Init PROVE CarryInv
  OBVIOUS
<1>1. InOrder
  BY DEF Init, InOrder
<1>2. IdsAreSpent
  BY DEF Init, IdsAreSpent, Announced, Event
<1>3. WorkWasAsked
  BY DEF Init, WorkWasAsked, Unstarted
<1>4. StoppedIsOver
  BY DEF Init, StoppedIsOver
<1>5. Carried
  <2>1. Woken(inbox) /\ \A i \in Positions : step[i] # "running"
    BY DEF Init, Woken, Event
  <2> QED
    BY <2>1, IdleIsWoken
<1> QED
  BY <1>1, <1>2, <1>3, <1>4, <1>5 DEF CarryInv

(* An event id is never forgotten. *)
LEMMA IdsRemain == ASSUME [Next]_vars PROVE inserted \subseteq inserted'
<1> DEFINE Goal == inserted \subseteq inserted'
<1> USE DEF events, Exchange
<1>1. ASSUME NEW e \in inbox, Handle(e) PROVE Goal
  BY <1>1 DEF Handle, Advance, IgnoreInactive, ControlHandler, StepHandler, NotAdmitted, ConditionSkips,
      SyncStep, QueueChildren, AwaitChildren, SealEvidence, QueueAssessment, ApplyIssues, DisputeTarget,
      FailStep
<1>2. ASSUME ChildWorker \/ JobWorker PROVE Goal
  BY <1>2 DEF ChildWorker, JobWorker, CancelChild, RefuseChild, CallProvider, CancelJob, RefuseJob,
      CallModel, AssessmentFails
<1>3. ASSUME NEW c \in calls, NEW outcome, ModelReturns(c[2]) \/ ProviderReturns(c[1], c[2], outcome)
      PROVE  Goal
  BY <1>3 DEF ModelReturns, ProviderReturns, DiscardAnswer, AssessmentSucceeds, AssessmentNeedsReview,
      AssessmentFails
<1>4. ASSUME NEW c \in calls, LoseCall(c) PROVE Goal
  BY <1>4 DEF LoseCall
<1>5. ASSUME NEW a \in Children, NEW outcome, Callback(a, outcome) \/ CallbackUnstored(a) PROVE Goal
  BY <1>5 DEF Callback, CallbackUnstored
<1>6. ASSUME Review \/ Operate PROVE Goal
  BY <1>6 DEF Review, Operate, Pause, Resume, Cancel, EmergencyStop, Steer
<1>7. ASSUME UNCHANGED vars PROVE Goal
  BY <1>7 DEF vars
<1> HIDE DEF Goal, events, Exchange
<1> QED
  BY <1>1, <1>2, <1>3, <1>4, <1>5, <1>6, <1>7 DEF Next, Answers, Goal

(* A run that is stopped for good does not go on again. *)
LEMMA GoesOnBefore ==
  ASSUME InspectionInv, Undisturbed, Undisturbed', [Next]_vars, GoesOn'
  PROVE  GoesOn
<1> DEFINE Goal == assessment' = "needs_review" => GoesOn
<1>0. assessment = "needs_review" => GoesOn
  BY DEF GoesOn
<1> USE DEF review, detection
<1>1. ASSUME NEW e \in inbox, Handle(e) PROVE Goal
  BY <1>0, <1>1 DEF Handle, Advance, IgnoreInactive, ControlHandler, StepHandler, NotAdmitted,
      ConditionSkips, SyncStep, QueueChildren, AwaitChildren, SealEvidence, QueueAssessment, ApplyIssues,
      DisputeTarget, FailStep, Undisturbed
<1>2. ASSUME ChildWorker \/ JobWorker PROVE Goal
  BY <1>0, <1>2 DEF ChildWorker, JobWorker, CancelChild, RefuseChild, CallProvider, CancelJob, RefuseJob,
      CallModel, AssessmentFails, DropAssessment
<1>3. ASSUME NEW c \in calls, NEW outcome, ModelReturns(c[2]) \/ ProviderReturns(c[1], c[2], outcome)
      PROVE  Goal
  BY <1>0, <1>3 DEF ModelReturns, ProviderReturns, DiscardAnswer, DropAssessment, AssessmentSucceeds,
      AssessmentNeedsReview, AssessmentFails, Active, GoesOn, Schedulable
<1>4. ASSUME NEW c \in calls, LoseCall(c) PROVE Goal
  BY <1>0, <1>4 DEF LoseCall
<1>5. ASSUME NEW a \in Children, NEW outcome, Callback(a, outcome) \/ CallbackUnstored(a) PROVE Goal
  BY <1>0, <1>5 DEF Callback, CallbackUnstored
<1>6. ASSUME Review \/ Operate PROVE Goal
  BY <1>0, <1>6 DEF Review, Operate, Pause, Resume, Cancel, EmergencyStop, Steer
<1>7. ASSUME UNCHANGED vars PROVE Goal
  BY <1>0, <1>7 DEF vars
<1>8. Goal
  <2> HIDE DEF Goal, review, detection
  <2> QED
    BY <1>1, <1>2, <1>3, <1>4, <1>5, <1>6, <1>7 DEF Next, Answers, Goal
<1>9. run' \in Schedulable => GoesOn
  BY OnlyReviewed DEF Review, GoesOn
<1> QED
  BY <1>8, <1>9 DEF GoesOn, Schedulable

(* Every step keeps an undisturbed run carried. *)
LEMMA CarryInvStep == InspectionInv /\ CarryInv /\ [Next]_vars => CarryInv'
<1> SUFFICES ASSUME InspectionInv, CarryInv, [Next]_vars, Undisturbed', GoesOn'
             PROVE  /\ InOrder' /\ IdsAreSpent' /\ WorkWasAsked' /\ StoppedIsOver'
                    /\ (run \in Schedulable => Carried)'
  BY DEF CarryInv
<1>1. inserted \subseteq inserted'
  BY IdsRemain
<1>2. Undisturbed /\ GoesOn
  <2>1. Undisturbed
    BY <1>1 DEF Undisturbed
  <2> QED
    BY <2>1, GoesOnBefore
<1>3. Orderly /\ (run \in Schedulable => Carried)
  BY <1>2 DEF Orderly, CarryInv
<1>4. InOrder' /\ IdsAreSpent' /\ WorkWasAsked' /\ StoppedIsOver'
  BY <1>3, OrderStep, SpentStep, AskedStep, StoppedStep
<1>5. run' \in Schedulable => Carried'
  BY <1>3, CarryStep
<1> QED
  BY <1>4, <1>5 DEF Schedulable

(* The invariant behind it: steps in order, event ids used up by what they         *)
(* announce, work that was asked for, and nothing stopped in a run that goes on. *)
THEOREM CarryInvariant == Spec => []CarryInv
<1>1. InspectionInv /\ CarryInv /\ [Next]_vars => CarryInv'
  BY CarryInvStep
<1> QED
  BY <1>1, CarryInit, InspectionInvariant, PTL DEF Spec

(* A running run always has something that carries it on: what the step     *)
(* boundary, the child runs, the assessment and the scheduler hand to each   *)
(* other is never lost between them, whatever fails, expires or comes late.  *)
THEOREM NothingForgottenHolds == Spec => []NothingForgotten
<1>1. CarryInv => NothingForgotten
  BY DEF CarryInv, NothingForgotten, GoesOn
<1> QED
  BY <1>1, CarryInvariant, PTL
=============================================================================
