---------------------------- MODULE MissionProofs ----------------------------
(***************************************************************************)
(* Proofs about DeviceMission for any list of steps, failure policies,      *)
(* retry budget, assets and bounds of the environment.                      *)
(***************************************************************************)
EXTENDS DeviceMission, WellFoundedInduction, TLAPS

(* First picks the least element of a non-empty set of numbers. *)
LEMMA FirstIsLeast == ASSUME NEW S, S \subseteq Nat, S # {}
                      PROVE  First(S) \in S /\ \A j \in S : First(S) <= j
<1>1. PICK x \in S : \A y \in S : ~ (<<y, x>> \in OpToRel(<, Nat))
  BY NatLessThanWellFounded, WFMin
<1>2. \A y \in S : x <= y
  <2> SUFFICES ASSUME NEW y \in S PROVE x <= y
    OBVIOUS
  <2>1. x \in Nat /\ y \in Nat
    OBVIOUS
  <2>2. ~ (y < x)
    BY <1>1, <2>1 DEF OpToRel
  <2> QED
    BY <2>1, <2>2
<1> QED
  BY <1>2 DEF First

(* The scheduler's current step is the least that has not succeeded. *)
LEMMA CurrentIsLeast == ASSUME TypeOK, Open # {}
                        PROVE  /\ Current \in Positions /\ Current \in Commands
                               /\ step[Current] # "succeeded"
                               /\ \A j \in 1..(Current - 1) : step[j] = "succeeded"
<1>1. Len(Uses) \in Nat
  BY MissionAssumption
<1>2. Open \subseteq Nat
  BY <1>1 DEF Open, Positions
<1>3. Current \in Open /\ \A j \in Open : Current <= j
  BY <1>2, FirstIsLeast DEF Current
<1>4. Current \in Positions /\ step[Current] # "succeeded"
  BY <1>3 DEF Open
<1> QED
  BY <1>1, <1>3, <1>4 DEF Open, Positions, Commands

(* What the events of the outbox name. *)
LEMMA EventShape ==
  ASSUME TypeOK, NEW e \in inbox
  PROVE  /\ e.type \in {"dispatch", "ack"} => e.at \in Commands
         /\ e.type = "ack" => e = AckOf(e.at, e.what) /\ e.what \in {"ack", "nack", "timeout"}
BY DEF TypeOK, Events, Triggered, Resumed, Collected, Control, DispatchOf, AckOf

(* The set of possible events only grows. *)
LEMMA EventsGrow == ASSUME version \in Nat, version' \in Nat, version' >= version
                    PROVE  Events \subseteq Events'
<1>1. 1..version \subseteq 1..version'
  OBVIOUS
<1> QED
  BY <1>1 DEF Events, Triggered, Resumed, Collected, Control, DispatchOf, AckOf

-----------------------------------------------------------------------------
(* Types, with the number of publishes: a command is published as long as its *)
(* protocol status is "none", so one publish is recorded at most.             *)
LEMMA TypeStep == TypeOK /\ PublishedOnce /\ [Next]_vars => TypeOK' /\ PublishedOnce'
<1> SUFFICES ASSUME TypeOK, PublishedOnce, [Next]_vars PROVE TypeOK' /\ PublishedOnce'
  OBVIOUS
<1>0. /\ MaxControls \in Nat /\ MaxDead \in Nat /\ MaxUnrecorded \in Nat
      /\ Len(Uses) \in Nat /\ Cancel \in Commands /\ Emergency \in Commands
  BY MissionAssumption DEF Cancel, Emergency, Commands
<1>a. ASSUME version' = version \/ version' = version + 1 PROVE Events \subseteq Events'
  BY <1>a, EventsGrow DEF TypeOK
<1>f. ASSUME version' = version + 1, seen' = seen, run' \in RunStatuses
      PROVE  /\ version' \in Nat /\ Events \subseteq Events'
             /\ run' \in RunStatuses /\ seen'.status \in RunStatuses /\ seen'.version \in 0..version'
  BY <1>a, <1>f DEF TypeOK
<1>b. ASSUME version' = version PROVE Events' = Events
  BY <1>b DEF Events, Triggered, Resumed, Collected, Control, DispatchOf, AckOf
<1>c. ASSUME NEW c \in Commands
      PROVE  DispatchOf(c) \in Events /\ \A o \in {"ack", "nack", "timeout"} : AckOf(c, o) \in Events
  BY DEF Events
<1>d. DOMAIN cmd = Commands /\ \A c \in Commands : DispatchOf(c) \in Events'
  BY DEF TypeOK, Events
<1> USE <1>0 DEF TypeOK, PublishedOnce, RunStatuses, StepStatuses, CmdStatuses, ProtoStatuses
<1>1. ASSUME NEW e \in inbox, IgnoreInactive(e) PROVE TypeOK' /\ PublishedOnce'
  BY <1>1, <1>b DEF IgnoreInactive, Consume, runVars, cmdVars, outside, bounds
<1>2. ASSUME NEW e \in inbox, AllStepsSucceeded(e) PROVE TypeOK' /\ PublishedOnce'
  BY <1>2, <1>f DEF AllStepsSucceeded, Consume, Decide, cmdVars, outside, bounds
<1>3. ASSUME NEW e \in inbox, PauseDisconnected(e) PROVE TypeOK' /\ PublishedOnce'
  BY <1>3, <1>f DEF PauseDisconnected, Consume, Decide, cmdVars, outside, bounds
<1>4. ASSUME NEW e \in inbox, IssueStep(e) PROVE TypeOK' /\ PublishedOnce'
  BY <1>4, <1>f, <1>d, CurrentIsLeast DEF IssueStep, Advances, Issue, Enqueue, Decide, outside,
      bounds
<1>5. ASSUME NEW e \in inbox, AwaitAsset(e) PROVE TypeOK' /\ PublishedOnce'
  BY <1>5, <1>f, CurrentIsLeast DEF AwaitAsset, Advances, Consume, Decide, cmdVars, outside,
      bounds
<1>6. ASSUME NEW e \in inbox, KeepWaiting(e) PROVE TypeOK' /\ PublishedOnce'
  BY <1>6, <1>b DEF KeepWaiting, Consume, runVars, cmdVars, outside, bounds
<1>7. ASSUME NEW e \in inbox, Acknowledge(e) PROVE TypeOK' /\ PublishedOnce'
  BY <1>7, <1>f, CurrentIsLeast DEF Acknowledge, Advances, Consume, Decide, outside, bounds
<1>8. ASSUME NEW e \in inbox, Refuse(e) PROVE TypeOK' /\ PublishedOnce'
  BY <1>8, <1>f, CurrentIsLeast DEF Refuse, Advances, Consume, Decide, outside, bounds
<1>9. ASSUME NEW e \in inbox, RetrySafely(e) PROVE TypeOK' /\ PublishedOnce'
  BY <1>9, <1>f, <1>d, CurrentIsLeast DEF RetrySafely, TimesOut, Advances, Issue, Enqueue,
      Decide,
     outside, bounds
<1>10. ASSUME NEW e \in inbox, PauseOnTimeout(e) PROVE TypeOK' /\ PublishedOnce'
  BY <1>10, <1>f, CurrentIsLeast DEF PauseOnTimeout, TimesOut, Advances, Consume, Decide,
      outside, bounds
<1>11. ASSUME NEW e \in inbox, ControlHandler(e) PROVE TypeOK' /\ PublishedOnce'
  BY <1>11, <1>f, <1>d DEF ControlHandler, Issue, Revoked, Enqueue, Decide, outside, bounds
<1>12. ASSUME NEW a \in Assets, CompleteCollectionStep(a) PROVE TypeOK' /\ PublishedOnce'
  <2>1. Collecting \subseteq Positions /\ Collecting \subseteq Nat
    BY DEF Collecting, Positions
  <2>2. Collecting # {} => First(Collecting) \in Positions
    BY <2>1, FirstIsLeast
  <2>3. \A i \in Positions : Collected(i, a) \in Events
    BY DEF Events
  <2>4. step' \in [Positions -> StepStatuses]
    BY <1>12, <2>2 DEF CompleteCollectionStep
  <2>5. inbox' \subseteq Events'
    BY <1>12, <1>b, <2>2, <2>3 DEF CompleteCollectionStep, runVars
  <2> QED
    BY <1>12, <2>4, <2>5 DEF CompleteCollectionStep, runVars, cmdVars, bounds
<1>13. ASSUME NEW e \in inbox, DispatchNothing(e) PROVE TypeOK' /\ PublishedOnce'
  BY <1>13, <1>b DEF DispatchNothing, Consume, runVars, cmdVars, outside, bounds
<1>14. ASSUME NEW e \in inbox, DispatchExpired(e) PROVE TypeOK' /\ PublishedOnce'
  BY <1>14, <1>b DEF DispatchExpired, Consume, runVars, outside, bounds
<1>15. ASSUME NEW e \in inbox, Publish(e) PROVE TypeOK' /\ PublishedOnce'
  <2>1. e.at \in Commands
    BY <1>15, EventShape DEF Publish, Publishable, Dispatches
  <2>2. proto[e.at] = "none" /\ attempts[e.at] = 0 /\ sends[e.at] <= unrecorded
    BY <1>15, <2>1 DEF Publish, Publishable
  <2>3. /\ cmd' \in [Commands -> CmdStatuses] /\ proto' \in [Commands -> ProtoStatuses]
        /\ wire' \subseteq Commands /\ inbox' \subseteq Events'
    BY <1>15, <1>b, <2>1 DEF Publish, Reaches, Consume, runVars
  <2>4. attempts' \in [Commands -> 0..1] /\ sends' \in [Commands -> 0..(1 + MaxUnrecorded)]
    BY <1>15, <2>1, <2>2 DEF Publish, Reaches
  <2>5. PublishedOnce'
    BY <1>15, <2>1, <2>2 DEF Publish, Reaches, bounds
  <2> QED
    BY <1>15, <2>3, <2>4, <2>5 DEF Publish, runVars, bounds
<1>16. ASSUME NEW e \in inbox, PublishUnrecorded(e) PROVE TypeOK' /\ PublishedOnce'
  <2>1. e.at \in Commands
    BY <1>16, EventShape DEF PublishUnrecorded, Publishable, Dispatches
  <2>2. proto[e.at] = "none" /\ attempts[e.at] = 0 /\ sends[e.at] <= unrecorded
    BY <1>16, <2>1 DEF PublishUnrecorded, Publishable
  <2>3. wire' \subseteq Commands /\ unrecorded' \in 0..MaxUnrecorded
    BY <1>16, <2>1 DEF PublishUnrecorded, Reaches
  <2>4. sends' \in [Commands -> 0..(1 + MaxUnrecorded)]
    BY <1>16, <2>1, <2>2 DEF PublishUnrecorded, Reaches
  <2>5. PublishedOnce'
    BY <1>16, <2>1, <2>2 DEF PublishUnrecorded, Reaches, cmdVars
  <2> QED
    BY <1>16, <1>b, <2>3, <2>4, <2>5 DEF PublishUnrecorded, runVars, cmdVars
<1>17. ASSUME NEW e \in inbox, DeadLetter(e) PROVE TypeOK' /\ PublishedOnce'
  <2>1. dead' \in 0..MaxDead
    BY <1>17 DEF DeadLetter
  <2> QED
    BY <1>17, <1>b, <2>1 DEF DeadLetter, Consume, runVars, cmdVars, outside
<1>18. ASSUME NEW c \in Commands, NEW o \in {"ack", "nack"}, Reply(c, o)
       PROVE TypeOK' /\ PublishedOnce'
  BY <1>18, <1>b, <1>c DEF Reply, runVars, outside, bounds
<1>19. ASSUME NEW c \in Commands, DeadlinePasses(c) PROVE TypeOK' /\ PublishedOnce'
  BY <1>19, <1>b DEF DeadlinePasses, runVars, outside, bounds
<1>20. ASSUME NEW c \in Commands, ExpireUnknown(c) PROVE TypeOK' /\ PublishedOnce'
  BY <1>20, <1>b, <1>c DEF ExpireUnknown, runVars, outside, bounds
<1>21. ASSUME NEW action \in Actions, Operate(action) PROVE TypeOK' /\ PublishedOnce'
  <2> DEFINE next == NextStatus(run, action)
  <2>1. next \in RunStatuses
    BY <1>21 DEF Operate, NextStatus
  <2>2. /\ next = "canceling" => action \in {"cancel", "emergency_stop"}
        /\ version + 1 \in 1..version' /\ version' = version + 1
    BY <1>21 DEF Operate, NextStatus, Decide, Actions
  <2>3. /\ Resumed(version + 1) \in Events'
        /\ next = "canceling" => Control(action, version + 1) \in Events'
    BY <2>2 DEF Events
  <2>4. Announces(action, next) \subseteq Events'
    BY <2>3 DEF Announces
  <2>5. controls' \in 0..MaxControls
    BY <1>21 DEF Operate
  <2> QED
    BY <1>21, <1>f, <2>1, <2>4, <2>5 DEF Operate, Decide, cmdVars, outside
<1>22. CASE Look
  BY <1>22, <1>b DEF Look, runVars, cmdVars, bounds
<1>23. CASE ConnectionChanges
  BY <1>23, <1>b DEF ConnectionChanges, runVars, cmdVars, bounds
<1>24. CASE UNCHANGED vars
  BY <1>24, <1>b DEF vars
<1> QED
  BY <1>1, <1>2, <1>3, <1>4, <1>5, <1>6, <1>7, <1>8, <1>9, <1>10, <1>11, <1>12, <1>13, <1>14,
     <1>15, <1>16, <1>17, <1>18, <1>19, <1>20, <1>21, <1>22, <1>23, <1>24
     DEF Next, MissionHandler, CompleteCollectionStep

-----------------------------------------------------------------------------
(* What a step may do to the run: nothing, a decision about an active run, the *)
(* handling of a control, or a control.                                       *)
LEMMA RunEffect ==
  ASSUME [Next]_vars
  PROVE  \/ /\ run' = run /\ version' = version
            /\ seen' = seen \/ seen' = [status |-> run, version |-> version]
         \/ /\ version' = version + 1 /\ seen' = seen
            /\ \/ run \in Schedulable /\ run' \in {"running", "paused", "succeeded", "failed"}
               \/ run' = "canceling" /\ \E e \in inbox : e.type = "control"
               \/ \E action \in Actions : run' = NextStatus(run, action) /\ run' # "rejected"
<1> USE DEF runVars, outside, Decide
<1>1. ASSUME NEW e \in inbox, MissionHandler(e)
      PROVE  \/ run' = run /\ version' = version /\ seen' = seen
             \/ /\ version' = version + 1 /\ seen' = seen
                /\ run \in Schedulable /\ run' \in {"running", "paused", "succeeded", "failed"}
  BY <1>1 DEF MissionHandler, IgnoreInactive, AllStepsSucceeded, PauseDisconnected, IssueStep,
     AwaitAsset, KeepWaiting, Acknowledge, Refuse, RetrySafely, PauseOnTimeout, TimesOut, Advances
<1>2. ASSUME NEW e \in inbox, ControlHandler(e)
      PROVE  /\ version' = version + 1 /\ seen' = seen
             /\ run' = "canceling" /\ \E f \in inbox : f.type = "control"
  BY <1>2 DEF ControlHandler
<1>3. ASSUME NEW e \in inbox, \/ DispatchNothing(e) \/ DispatchExpired(e) \/ Publish(e)
                              \/ PublishUnrecorded(e) \/ DeadLetter(e)
      PROVE  run' = run /\ version' = version /\ seen' = seen
  BY <1>3 DEF DispatchNothing, DispatchExpired, Publish, PublishUnrecorded, DeadLetter
<1>4. ASSUME NEW c \in Commands, \/ \E outcome \in {"ack", "nack"} : Reply(c, outcome)
                                 \/ DeadlinePasses(c) \/ ExpireUnknown(c)
      PROVE  run' = run /\ version' = version /\ seen' = seen
  BY <1>4 DEF Reply, DeadlinePasses, ExpireUnknown
<1>5. ASSUME NEW a \in Assets, CompleteCollectionStep(a)
      PROVE  run' = run /\ version' = version /\ seen' = seen
  BY <1>5 DEF CompleteCollectionStep
<1>6. ASSUME NEW action \in Actions, Operate(action)
      PROVE  /\ version' = version + 1 /\ seen' = seen
             /\ run' = NextStatus(run, action) /\ run' # "rejected"
  BY <1>6 DEF Operate
<1>7. ASSUME Look \/ ConnectionChanges \/ UNCHANGED vars
      PROVE  /\ run' = run /\ version' = version
             /\ seen' = seen \/ seen' = [status |-> run, version |-> version]
  BY <1>7 DEF Look, ConnectionChanges, vars
<1> QED
  BY <1>1, <1>2, <1>3, <1>4, <1>5, <1>6, <1>7 DEF Next

(* What a step may do to the commands: an answer or a timeout ends one that is *)
(* out; the scheduler moves its current step's; a control revokes and stops.   *)
LEMMA CommandEffect ==
  ASSUME TypeOK, [Next]_vars
  PROVE  \/ cmd' = cmd
         \/ \E c \in Commands, s \in {"sent", "timed_out", "acknowledged", "nacked", "unknown"} :
              cmd[c] \in {"dispatchable", "sent"} /\ cmd' = [cmd EXCEPT ![c] = s]
         \/ /\ run \in Schedulable /\ run' \notin {"queued", "canceled"} /\ Open # {}
            /\ \E s \in CmdStatuses \ {"none"} : cmd' = [cmd EXCEPT ![Current] = s]
            /\ Current \in Safe \/ cmd[Current] = "none" \/ cmd'[Current] # "dispatchable"
         \/ run' = "canceling" /\ \E c \in {Cancel, Emergency} :
              cmd' = [Revoked EXCEPT ![c] = "dispatchable"]
<1> USE DEF TypeOK, cmdVars, CmdStatuses
<1>1. ASSUME NEW e \in inbox, MissionHandler(e)
      PROVE  \/ cmd' = cmd
             \/ /\ run \in Schedulable /\ run' \notin {"queued", "canceled"} /\ Open # {}
                /\ \E s \in CmdStatuses \ {"none"} : cmd' = [cmd EXCEPT ![Current] = s]
                /\ Current \in Safe \/ cmd[Current] = "none" \/ cmd'[Current] # "dispatchable"
  <2>1. CASE IgnoreInactive(e) \/ AllStepsSucceeded(e) \/ PauseDisconnected(e) \/ AwaitAsset(e)
             \/ KeepWaiting(e)
    BY <2>1 DEF IgnoreInactive, AllStepsSucceeded, PauseDisconnected, AwaitAsset, KeepWaiting
  <2>2. CASE IssueStep(e)
    BY <2>2 DEF IssueStep, Advances, Issue, Decide
  <2>3. CASE Acknowledge(e) \/ Refuse(e) \/ PauseOnTimeout(e)
    BY <2>3, CurrentIsLeast DEF Acknowledge, Refuse, PauseOnTimeout, TimesOut, Advances, Decide
  <2>4. CASE RetrySafely(e)
    <3>1. cmd' = [cmd EXCEPT ![Current] = "dispatchable"]
      BY <2>4 DEF RetrySafely, Issue
    <3> QED
      BY <2>4, <3>1 DEF RetrySafely, Retryable, TimesOut, Advances, Decide
  <2> QED
    BY <1>1, <2>1, <2>2, <2>3, <2>4 DEF MissionHandler
<1>2. ASSUME NEW e \in inbox, ControlHandler(e)
      PROVE  run' = "canceling" /\ \E c \in {Cancel, Emergency} :
               cmd' = [Revoked EXCEPT ![c] = "dispatchable"]
  BY <1>2 DEF ControlHandler, Issue, Decide
<1>3. ASSUME NEW e \in inbox, \/ DispatchNothing(e) \/ DispatchExpired(e) \/ Publish(e)
                              \/ PublishUnrecorded(e) \/ DeadLetter(e)
      PROVE  \/ cmd' = cmd
             \/ \E c \in Commands, s \in {"sent", "timed_out"} :
                  cmd[c] = "dispatchable" /\ cmd' = [cmd EXCEPT ![c] = s]
  BY <1>3, EventShape DEF DispatchNothing, DispatchExpired, Publish, Publishable,
     Dispatches, PublishUnrecorded, DeadLetter
<1>4. ASSUME NEW c \in Commands, \/ \E outcome \in {"ack", "nack"} : Reply(c, outcome)
                                 \/ DeadlinePasses(c) \/ ExpireUnknown(c)
      PROVE  \/ cmd' = cmd
             \/ \E s \in {"acknowledged", "nacked", "unknown"} :
                  cmd[c] \in {"dispatchable", "sent"} /\ cmd' = [cmd EXCEPT ![c] = s]
  BY <1>4 DEF Reply, DeadlinePasses, ExpireUnknown
<1>5. ASSUME NEW a \in Assets, CompleteCollectionStep(a) PROVE cmd' = cmd
  BY <1>5 DEF CompleteCollectionStep
<1>6. ASSUME NEW action \in Actions, Operate(action) PROVE cmd' = cmd
  BY <1>6 DEF Operate
<1>7. ASSUME Look \/ ConnectionChanges \/ UNCHANGED vars PROVE cmd' = cmd
  BY <1>7 DEF Look, ConnectionChanges, vars
<1> QED
  BY <1>1, <1>2, <1>3, <1>4, <1>5, <1>6, <1>7 DEF Next

(* Only what is dispatchable is published. *)
LEMMA WireEffect ==
  ASSUME TypeOK, [Next]_vars
  PROVE  \/ wire' = wire /\ sends' = sends
         \/ \E c \in Commands : /\ cmd[c] = "dispatchable"
                                 /\ wire' = wire \cup {c}
                                 /\ sends' = [sends EXCEPT ![c] = @ + 1]
<1> USE DEF outside
<1>1. ASSUME NEW e \in inbox, MissionHandler(e) PROVE wire' = wire /\ sends' = sends
  BY <1>1 DEF MissionHandler, IgnoreInactive, AllStepsSucceeded, PauseDisconnected, IssueStep,
     AwaitAsset, KeepWaiting, Acknowledge, Refuse, RetrySafely, PauseOnTimeout
<1>2. ASSUME NEW e \in inbox, Publish(e) \/ PublishUnrecorded(e)
      PROVE  \E c \in Commands : /\ cmd[c] = "dispatchable"
                                 /\ wire' = wire \cup {c}
                                 /\ sends' = [sends EXCEPT ![c] = @ + 1]
  BY <1>2, EventShape DEF Publish, PublishUnrecorded, Publishable, Dispatches, Reaches
<1>3. ASSUME NEW e \in inbox, \/ ControlHandler(e) \/ DispatchNothing(e)
                              \/ DispatchExpired(e) \/ DeadLetter(e)
      PROVE  wire' = wire /\ sends' = sends
  BY <1>3 DEF ControlHandler, DispatchNothing, DispatchExpired, DeadLetter
<1>4. ASSUME NEW c \in Commands, \/ \E outcome \in {"ack", "nack"} : Reply(c, outcome)
                                 \/ DeadlinePasses(c) \/ ExpireUnknown(c)
      PROVE  wire' = wire /\ sends' = sends
  BY <1>4 DEF Reply, DeadlinePasses, ExpireUnknown
<1>5. ASSUME NEW a \in Assets, CompleteCollectionStep(a) PROVE wire' = wire /\ sends' = sends
  BY <1>5 DEF CompleteCollectionStep
<1>6. ASSUME NEW action \in Actions, Operate(action) PROVE wire' = wire /\ sends' = sends
  BY <1>6 DEF Operate
<1>7. ASSUME Look \/ ConnectionChanges \/ UNCHANGED vars PROVE wire' = wire /\ sends' = sends
  BY <1>7 DEF Look, ConnectionChanges, vars
<1> QED
  BY <1>1, <1>2, <1>3, <1>4, <1>5, <1>6, <1>7 DEF Next

(* What a step may do to the run's steps: the scheduler moves the current one; *)
(* media completes one that is running.  What succeeded stays so.              *)
LEMMA StepEffect ==
  ASSUME TypeOK, [Next]_vars
  PROVE  \/ step' = step
         \/ /\ Open # {} /\ run \in Schedulable
            /\ \E s \in StepStatuses : step' = [step EXCEPT ![Current] = s]
            /\ step'[Current] = "succeeded" =>
                 /\ Uses[Current] = "command" /\ proto' = proto
                 /\ AckOf(Current, "ack") \in inbox
         \/ \E i \in Positions : /\ Uses[i] = "collect" /\ step[i] = "running"
                                  /\ step' = [step EXCEPT ![i] = "succeeded"]
                                  /\ assets' # Assets
<1> USE DEF TypeOK, StepStatuses
<1>1. ASSUME NEW e \in inbox, MissionHandler(e)
      PROVE  \/ step' = step
             \/ /\ Open # {} /\ run \in Schedulable
                /\ \E s \in StepStatuses : step' = [step EXCEPT ![Current] = s]
                /\ step'[Current] = "succeeded" =>
                     /\ Uses[Current] = "command" /\ proto' = proto
                     /\ AckOf(Current, "ack") \in inbox
  <2>1. CASE IgnoreInactive(e) \/ AllStepsSucceeded(e) \/ PauseDisconnected(e) \/ KeepWaiting(e)
    BY <2>1 DEF IgnoreInactive, AllStepsSucceeded, PauseDisconnected, KeepWaiting
  <2>2. CASE \/ IssueStep(e) \/ AwaitAsset(e) \/ Refuse(e) \/ RetrySafely(e) \/ PauseOnTimeout(e)
    BY <2>2, CurrentIsLeast DEF IssueStep, AwaitAsset, Refuse, RetrySafely, PauseOnTimeout,
       TimesOut, Advances
  <2>3. CASE Acknowledge(e)
    <3>1. AckOf(Current, "ack") \in inbox
      BY <2>3, EventShape DEF Acknowledge, Signals
    <3> QED
      BY <2>3, <3>1, CurrentIsLeast DEF Acknowledge, Advances
  <2> QED
    BY <1>1, <2>1, <2>2, <2>3 DEF MissionHandler
<1>2. ASSUME NEW a \in Assets, CompleteCollectionStep(a)
      PROVE  \/ step' = step
             \/ \E i \in Positions : /\ Uses[i] = "collect" /\ step[i] = "running"
                                      /\ step' = [step EXCEPT ![i] = "succeeded"]
                                      /\ assets' # Assets
  <2>1. Collecting \subseteq Nat
    BY DEF Collecting, Positions
  <2>2. Collecting # {} => First(Collecting) \in Collecting
    BY <2>1, FirstIsLeast
  <2>3. assets' # Assets
    BY <1>2 DEF CompleteCollectionStep
  <2> QED
    BY <1>2, <2>2, <2>3 DEF CompleteCollectionStep, Collecting
<1>3. ASSUME NEW e \in inbox, \/ ControlHandler(e) \/ DispatchNothing(e) \/ DispatchExpired(e)
                              \/ Publish(e) \/ PublishUnrecorded(e) \/ DeadLetter(e)
      PROVE  step' = step
  BY <1>3 DEF ControlHandler, DispatchNothing, DispatchExpired, Publish, PublishUnrecorded,
     DeadLetter, runVars
<1>4. ASSUME NEW c \in Commands, \/ \E outcome \in {"ack", "nack"} : Reply(c, outcome)
                                 \/ DeadlinePasses(c) \/ ExpireUnknown(c)
      PROVE  step' = step
  BY <1>4 DEF Reply, DeadlinePasses, ExpireUnknown
<1>5. ASSUME NEW action \in Actions, Operate(action) PROVE step' = step
  BY <1>5 DEF Operate
<1>6. ASSUME Look \/ ConnectionChanges \/ UNCHANGED vars PROVE step' = step
  BY <1>6 DEF Look, ConnectionChanges, vars
<1> QED
  BY <1>1, <1>2, <1>3, <1>4, <1>5, <1>6 DEF Next

(* What waits in the outbox was there before, is a control that set the run    *)
(* canceling, or is an answer that is recorded; answers stay recorded.         *)
LEMMA EventEffect ==
  ASSUME TypeOK, [Next]_vars
  PROVE  /\ \A e \in inbox' : e.type = "control" => e \in inbox \/ run' = "canceling"
         /\ \A e \in inbox' : e.type = "ack" /\ e.what = "ack"
                                => e \in inbox \/ proto'[e.at] = "acknowledged"
         /\ \A c \in Commands : proto[c] = "acknowledged" => proto'[c] = "acknowledged"
         /\ assets' \subseteq assets
<1> DEFINE Goal == /\ \A e \in inbox' : e.type = "control" => e \in inbox \/ run' = "canceling"
                   /\ \A e \in inbox' : e.type = "ack" /\ e.what = "ack"
                                          => e \in inbox \/ proto'[e.at] = "acknowledged"
                   /\ \A c \in Commands : proto[c] = "acknowledged" => proto'[c] = "acknowledged"
                   /\ assets' \subseteq assets
<1> USE DEF TypeOK, cmdVars, outside
<1>1. ASSUME NEW e \in inbox, MissionHandler(e) PROVE Goal
  BY <1>1 DEF MissionHandler, IgnoreInactive, AllStepsSucceeded, PauseDisconnected, IssueStep,
     AwaitAsset, KeepWaiting, Acknowledge, Refuse, RetrySafely, PauseOnTimeout, Issue, Enqueue,
     DispatchOf, Consume
<1>2. ASSUME NEW e \in inbox, ControlHandler(e) PROVE Goal
  BY <1>2 DEF ControlHandler, Issue, Enqueue, DispatchOf
<1>3. ASSUME NEW a \in Assets, CompleteCollectionStep(a) PROVE Goal
  BY <1>3 DEF CompleteCollectionStep, Collected
<1>4. ASSUME NEW e \in inbox, \/ DispatchNothing(e) \/ DispatchExpired(e) \/ PublishUnrecorded(e)
                              \/ DeadLetter(e)
      PROVE  Goal
  BY <1>4 DEF DispatchNothing, DispatchExpired, PublishUnrecorded, DeadLetter, Consume
<1>5. ASSUME NEW e \in inbox, Publish(e) PROVE Goal
  BY <1>5 DEF Publish, Publishable, Consume
<1>6. ASSUME NEW c \in Commands, NEW outcome \in {"ack", "nack"}, Reply(c, outcome) PROVE Goal
  BY <1>6 DEF Reply, AckOf
<1>7. ASSUME NEW c \in Commands, DeadlinePasses(c) \/ ExpireUnknown(c) PROVE Goal
  BY <1>7 DEF DeadlinePasses, ExpireUnknown, AckOf
<1>8. ASSUME NEW action \in Actions, Operate(action) PROVE Goal
  BY <1>8 DEF Operate, Decide, Announces, Control, Resumed
<1>9. ASSUME Look \/ ConnectionChanges \/ UNCHANGED vars PROVE Goal
  BY <1>9 DEF Look, ConnectionChanges, vars
<1> QED
  BY <1>1, <1>2, <1>3, <1>4, <1>5, <1>6, <1>7, <1>8, <1>9 DEF Next

(* A run succeeds only when its last step does. *)
LEMMA EndEffect ==
  ASSUME TypeOK, [Next]_vars, run' = "succeeded", run # "succeeded"
  PROVE  \A i \in Positions : step'[i] = "succeeded"
<1> USE DEF runVars, outside, Decide
<1>1. PICK e \in inbox : MissionHandler(e)
  <2>1. ASSUME NEW e \in inbox, \/ DispatchNothing(e) \/ DispatchExpired(e) \/ Publish(e)
                                \/ PublishUnrecorded(e) \/ DeadLetter(e) \/ ControlHandler(e)
        PROVE  run' # "succeeded"
    BY <2>1 DEF DispatchNothing, DispatchExpired, Publish, PublishUnrecorded, DeadLetter,
        ControlHandler
  <2>2. ASSUME NEW c \in Commands, \/ \E outcome \in {"ack", "nack"} : Reply(c, outcome)
                                   \/ DeadlinePasses(c) \/ ExpireUnknown(c)
        PROVE  run' # "succeeded"
    BY <2>2 DEF Reply, DeadlinePasses, ExpireUnknown
  <2>3. ASSUME NEW a \in Assets, CompleteCollectionStep(a) PROVE run' # "succeeded"
    BY <2>3 DEF CompleteCollectionStep
  <2>4. ASSUME NEW action \in Actions, Operate(action) PROVE run' # "succeeded"
    BY <2>4 DEF Operate, NextStatus
  <2>5. ASSUME Look \/ ConnectionChanges \/ UNCHANGED vars PROVE run' # "succeeded"
    BY <2>5 DEF Look, ConnectionChanges, vars
  <2> QED
    BY <2>1, <2>2, <2>3, <2>4, <2>5 DEF Next
<1>2. CASE AllStepsSucceeded(e)
  BY <1>2 DEF AllStepsSucceeded, Open
<1>3. CASE Acknowledge(e)
  <2>1. Open # {} /\ Current = Len(Uses) /\ step' = [step EXCEPT ![Current] = "succeeded"]
    BY <1>3 DEF Acknowledge, Advances
  <2>2. \A i \in Positions : i = Current \/ i \in 1..(Current - 1)
    BY <2>1, MissionAssumption DEF Positions
  <2> QED
    BY <2>1, <2>2, CurrentIsLeast DEF TypeOK
<1> QED
  BY <1>1, <1>2, <1>3 DEF MissionHandler, IgnoreInactive, PauseDisconnected, IssueStep,
      AwaitAsset,
     KeepWaiting, Refuse, RetrySafely, PauseOnTimeout

-----------------------------------------------------------------------------
(* A run as its creator leaves it satisfies the invariant. *)
LEMMA MissionInit == Init => MissionInv
<1> SUFFICES ASSUME Init PROVE MissionInv
  OBVIOUS
<1>1. /\ MaxControls \in Nat /\ MaxDead \in Nat /\ MaxUnrecorded \in Nat
      /\ \A n \in Nat : 0 \in 0..n
  BY MissionAssumption
<1>2. TypeOK
  BY <1>1 DEF Init, TypeOK, RunStatuses, StepStatuses, CmdStatuses, ProtoStatuses, Events
<1>3. Cancel \in Commands /\ Emergency \in Commands
  BY MissionAssumption DEF Cancel, Emergency, Commands
<1>4. \A i \in Positions : i \in Commands
  BY MissionAssumption DEF Positions, Commands
<1> QED
  BY <1>2, <1>3, <1>4 DEF Init, MissionInv, InOrder, OperatorSawRun, CanceledUntouched,
      CompletedByDevice,
     PublishedOnce, ControlsAreObeyed, StopRevokes, QueuedUntouched, AcksAreReal, Triggered

(* No step breaks the invariant. *)
LEMMA MissionStep == MissionInv /\ [Next]_vars => MissionInv'
<1> SUFFICES ASSUME MissionInv, [Next]_vars PROVE MissionInv'
  OBVIOUS
<1>1. TypeOK /\ TypeOK' /\ PublishedOnce'
  BY TypeStep DEF MissionInv
<1>2. /\ Len(Uses) \in Nat /\ Positions \subseteq Commands
      /\ Cancel \in Commands \ Positions /\ Emergency \in Commands \ Positions
  BY MissionAssumption DEF Positions, Commands, Cancel, Emergency
<1>3. ControlsAreObeyed'
  BY <1>1, RunEffect, EventEffect DEF MissionInv, ControlsAreObeyed, NextStatus, Schedulable,
      Actions
<1>4. OperatorSawRun'
  <2>1. version \in Nat /\ seen.version \in 0..version
    BY <1>1 DEF TypeOK
  <2> QED
    BY <2>1, RunEffect DEF MissionInv, OperatorSawRun
<1>5. StopRevokes'
  <2>1. CASE cmd[Cancel] # "none" \/ cmd[Emergency] # "none"
    <3>1. run = "canceling" /\ \A i \in Positions : cmd[i] # "dispatchable"
      BY <2>1 DEF MissionInv, StopRevokes
    <3>2. run' = "canceling"
      BY <3>1, RunEffect DEF NextStatus, Schedulable, Actions
    <3>3. \A i \in Positions : cmd'[i] # "dispatchable"
      BY <1>1, <1>2, <3>1, CommandEffect DEF Schedulable, Revoked, TypeOK
    <3> QED
      BY <3>2, <3>3 DEF StopRevokes
  <2>2. CASE cmd[Cancel] = "none" /\ cmd[Emergency] = "none"
    <3>1. CASE run' = "canceling" /\ \E c \in {Cancel, Emergency} :
                cmd' = [Revoked EXCEPT ![c] = "dispatchable"]
      BY <1>1, <1>2, <3>1 DEF StopRevokes, Revoked, TypeOK
    <3>2. CASE cmd' = cmd
      BY <2>2, <3>2 DEF StopRevokes
    <3>3. CASE \E c \in Commands, s \in {"sent", "timed_out", "acknowledged", "nacked", "unknown"} :
                 cmd[c] \in {"dispatchable", "sent"} /\ cmd' = [cmd EXCEPT ![c] = s]
      BY <1>1, <1>2, <2>2, <3>3 DEF StopRevokes, TypeOK
    <3>4. CASE Open # {} /\ \E s \in CmdStatuses \ {"none"} : cmd' = [cmd EXCEPT ![Current] = s]
      BY <1>1, <1>2, <2>2, <3>4, CurrentIsLeast DEF StopRevokes, TypeOK
    <3> QED
      BY <1>1, <3>1, <3>2, <3>3, <3>4, CommandEffect
  <2> QED
    BY <2>1, <2>2
<1>6. QueuedUntouched'
  <2> SUFFICES ASSUME run' = "queued" PROVE wire' = {} /\ \A c \in Commands : cmd'[c] = "none"
    BY DEF QueuedUntouched
  <2>1. run = "queued"
    BY RunEffect DEF NextStatus, Schedulable, Actions
  <2>2. wire = {} /\ \A c \in Commands : cmd[c] = "none"
    BY <2>1 DEF MissionInv, QueuedUntouched
  <2> QED
    BY <1>1, <2>2, CommandEffect, WireEffect
<1>7. CanceledUntouched'
  <2> SUFFICES ASSUME run' = "canceled" PROVE wire' = {} /\ \A c \in Commands : cmd'[c] = "none"
    BY DEF CanceledUntouched
  <2>1. run \in {"queued", "canceled"}
    BY RunEffect DEF NextStatus, Actions
  <2>2. wire = {} /\ \A c \in Commands : cmd[c] = "none"
    BY <2>1 DEF MissionInv, QueuedUntouched, CanceledUntouched
  <2> QED
    BY <1>1, <2>2, CommandEffect, WireEffect
<1>8. AcksAreReal'
  <2> SUFFICES ASSUME NEW e \in inbox', e.type = "ack", e.what = "ack"
               PROVE  proto'[e.at] = "acknowledged"
    BY DEF AcksAreReal
  <2>1. CASE e \in inbox
    <3>1. e.at \in Commands /\ proto[e.at] = "acknowledged"
      BY <1>1, <2>1, EventShape DEF MissionInv, AcksAreReal
    <3> QED
      BY <1>1, <3>1, EventEffect
  <2>2. CASE e \notin inbox
    BY <1>1, <2>2, EventEffect
  <2> QED
    BY <2>1, <2>2
<1>9. \A i \in Positions : step[i] = "succeeded" => step'[i] = "succeeded"
  BY <1>1, StepEffect, CurrentIsLeast DEF TypeOK
<1>10. InOrder'
  <2> SUFFICES ASSUME NEW i \in Positions, NEW j \in 1..(i - 1),
                      step'[i] # "pending" \/ cmd'[i] # "none" \/ i \in wire'
               PROVE  step'[j] = "succeeded"
    BY DEF InOrder
  <2>1. j \in Positions
    BY <1>2 DEF Positions
  <2>2. \/ step[i] # "pending" \/ cmd[i] # "none" \/ i \in wire
        \/ Open # {} /\ i = Current
    <3>1. step[i] = "pending" => step'[i] = "pending" \/ (Open # {} /\ i = Current)
      BY <1>1, StepEffect, CurrentIsLeast DEF TypeOK
    <3>2. cmd[i] = "none" => cmd'[i] = "none" \/ (Open # {} /\ i = Current)
      <4>1. CASE run' = "canceling" /\ \E c \in {Cancel, Emergency} :
                   cmd' = [Revoked EXCEPT ![c] = "dispatchable"]
        BY <1>1, <1>2, <4>1 DEF Revoked, TypeOK
      <4>2. CASE cmd' = cmd
        BY <4>2
      <4>3. CASE \E c \in Commands, s \in {"sent", "timed_out", "acknowledged", "nacked", "unknown"} :
                   cmd[c] \in {"dispatchable", "sent"} /\ cmd' = [cmd EXCEPT ![c] = s]
        BY <1>1, <1>2, <4>3 DEF TypeOK
      <4>4. CASE Open # {} /\ \E s \in CmdStatuses \ {"none"} : cmd' = [cmd EXCEPT ![Current] = s]
        BY <1>1, <1>2, <4>4, CurrentIsLeast DEF TypeOK
      <4> QED
        BY <1>1, <4>1, <4>2, <4>3, <4>4, CommandEffect
    <3>3. i \in wire' => i \in wire \/ cmd[i] # "none"
      BY <1>1, WireEffect
    <3> QED
      BY <3>1, <3>2, <3>3
  <2>3. step[j] = "succeeded"
    BY <1>1, <2>2, CurrentIsLeast DEF MissionInv, InOrder
  <2> QED
    BY <1>9, <2>1, <2>3
<1>11. CompletedByDevice'
  <2>1. ASSUME NEW i \in Positions, step'[i] = "succeeded"
        PROVE  IF Uses[i] = "command" THEN proto'[i] = "acknowledged" ELSE assets' # Assets
    <3>1. CASE step[i] = "succeeded"
      <4>1. IF Uses[i] = "command" THEN proto[i] = "acknowledged" ELSE assets # Assets
        BY <3>1 DEF MissionInv, CompletedByDevice
      <4>2. assets \subseteq Assets
        BY <1>1 DEF TypeOK
      <4>3. (proto[i] = "acknowledged" => proto'[i] = "acknowledged") /\ assets' \subseteq assets
        BY <1>1, <1>2, EventEffect
      <4>4. assets # Assets => assets' # Assets
        BY <4>2, <4>3
      <4> QED
        BY <4>1, <4>3, <4>4
    <3>2. CASE step[i] # "succeeded" /\ Open # {} /\ i = Current
               /\ Uses[i] = "command" /\ proto' = proto /\ AckOf(Current, "ack") \in inbox
      BY <3>2 DEF MissionInv, AcksAreReal, AckOf
    <3>3. CASE Uses[i] = "collect" /\ assets' # Assets
      BY <3>3
    <3> QED
      BY <1>1, <2>1, <3>1, <3>2, <3>3, StepEffect DEF TypeOK
  <2>2. ASSUME run' = "succeeded" PROVE \A i \in Positions : step'[i] = "succeeded"
    <3>1. CASE run = "succeeded"
      BY <1>9, <3>1 DEF MissionInv, CompletedByDevice
    <3>2. CASE run # "succeeded"
      BY <1>1, <2>2, <3>2, EndEffect
    <3> QED
      BY <3>1, <3>2
  <2> QED
    BY <2>1, <2>2 DEF CompletedByDevice
<1> QED
  BY <1>1, <1>3, <1>4, <1>5, <1>6, <1>7, <1>8, <1>10, <1>11 DEF MissionInv

(* The invariant holds in every state of every run. *)
THEOREM MissionInvariant == Spec => []MissionInv
  BY MissionInit, MissionStep, PTL DEF Spec

(* Every variable keeps its type for ever. *)
THEOREM MissionTypes == Spec => []TypeOK
  BY MissionInvariant, PTL DEF MissionInv

(* No step is begun, commanded or sent before the steps in front of it have   *)
(* succeeded.                                                                 *)
THEOREM InOrderHolds == Spec => []InOrder
  BY MissionInvariant, PTL DEF MissionInv

(* A step is completed by the device's own acknowledgement or by media, and a *)
(* run by all of its steps.                                                   *)
THEOREM CompletedByDeviceHolds == Spec => []CompletedByDevice
  BY MissionInvariant, PTL DEF MissionInv

(* The state version an operator sends back stands for the status it saw.     *)
THEOREM OperatorSawRunHolds == Spec => []OperatorSawRun
  BY MissionInvariant, PTL DEF MissionInv

(* A run that is called canceled never had a command.                         *)
THEOREM CanceledUntouchedHolds == Spec => []CanceledUntouched
  BY MissionInvariant, PTL DEF MissionInv

(* Succeeded, failed and canceled are final.                                  *)
THEOREM TerminalStaysHolds == Spec => TerminalStays
<1>1. MissionInv /\ [Next]_vars => [(run \in Terminal) => run' = run]_vars
  BY RunEffect DEF MissionInv, ControlsAreObeyed, Terminal, Schedulable, NextStatus, Actions
<1> QED
  BY <1>1, MissionInvariant, PTL DEF Spec, TerminalStays

(* Once a stop is issued no ordinary command reaches the device.              *)
THEOREM RevokedStaysSilentHolds == Spec => RevokedStaysSilent
<1> DEFINE Silent == cmd[Cancel] # "none" \/ cmd[Emergency] # "none" =>
                       \A i \in Positions : sends'[i] = sends[i]
<1>1. MissionInv /\ [Next]_vars => [Silent]_vars
  <2> SUFFICES ASSUME MissionInv, [Next]_vars PROVE Silent
    OBVIOUS
  <2>1. TypeOK /\ StopRevokes
    BY DEF MissionInv
  <2>2. \A c \in Commands, i \in Positions : c # i => [sends EXCEPT ![c] = @ + 1][i] = sends[i]
    BY <2>1, MissionAssumption DEF TypeOK, Positions, Commands
  <2> QED
    BY <2>1, <2>2, WireEffect DEF StopRevokes
<1> QED
  BY <1>1, MissionInvariant, PTL DEF Spec, RevokedStaysSilent

(* An unsafe command whose outcome is unknown or bad is never issued again.   *)
THEOREM UnsafeNotRepeatedHolds == Spec => UnsafeNotRepeated
<1> DEFINE Once == \A i \in Positions \ Safe :
                     cmd[i] \in {"unknown", "timed_out", "nacked"} => cmd'[i] # "dispatchable"
<1>1. MissionInv /\ [Next]_vars => [Once]_vars
  <2> SUFFICES ASSUME MissionInv, [Next]_vars, NEW i \in Positions \ Safe,
                      cmd[i] \in {"unknown", "timed_out", "nacked"}
               PROVE  cmd'[i] # "dispatchable"
    OBVIOUS
  <2>1. TypeOK /\ i \in Commands /\ i # Cancel /\ i # Emergency
    BY MissionAssumption DEF MissionInv, Positions, Commands, Cancel, Emergency
  <2> QED
    BY <2>1, CommandEffect, CurrentIsLeast DEF TypeOK, Revoked
<1> QED
  BY <1>1, MissionInvariant, PTL DEF Spec, UnsafeNotRepeated

-----------------------------------------------------------------------------
(* Nothing is forgotten. *)

(* Cancel and Emergency are commands of their own. *)
LEMMA ControlsApart ==
  /\ Positions \subseteq Commands /\ Cancel \in Commands /\ Emergency \in Commands
  /\ Cancel \notin Positions /\ Emergency \notin Positions /\ Cancel # Emergency
BY MissionAssumption DEF Positions, Commands, Cancel, Emergency

(* A command that is issued once is fresh until it is published. *)
LEMMA FreshStep == KeptInv /\ [Next]_vars => FreshIsUnsent'
<1> SUFFICES ASSUME KeptInv, [Next]_vars, NEW c \in Commands
             PROVE  /\ cmd'[c] = "none" => c \notin dispatched' /\ proto'[c] = "none"
                    /\ cmd'[c] = "dispatchable" /\ c \in OnceOnly => proto'[c] = "none"
                    /\ cmd'[c] = "unknown" => due'[c]
  BY DEF FreshIsUnsent, OnceOnly
<1> DEFINE Goal == /\ cmd'[c] = "none" => c \notin dispatched' /\ proto'[c] = "none"
                   /\ cmd'[c] = "dispatchable" /\ c \in OnceOnly => proto'[c] = "none"
                   /\ cmd'[c] = "unknown" => due'[c]
<1>0. /\ TypeOK
      /\ cmd \in [Commands -> CmdStatuses] /\ proto \in [Commands -> ProtoStatuses]
      /\ due \in [Commands -> BOOLEAN]
  BY DEF KeptInv, MissionInv, TypeOK
<1>f. /\ cmd[c] = "none" => c \notin dispatched /\ proto[c] = "none"
      /\ cmd[c] = "dispatchable" /\ c \in OnceOnly => proto[c] = "none"
      /\ cmd[c] = "unknown" => due[c]
  BY DEF KeptInv, FreshIsUnsent
<1>o. ASSUME cmd' = cmd, proto' = proto, dispatched' = dispatched, due' = due \/ due' = [due EXCEPT ![c] = TRUE]
      PROVE  Goal
  BY <1>o, <1>f, <1>0
<1>1. ASSUME NEW e \in inbox, \/ IgnoreInactive(e) \/ AllStepsSucceeded(e) \/ PauseDisconnected(e)
                              \/ AwaitAsset(e) \/ KeepWaiting(e) \/ DispatchNothing(e)
                              \/ PublishUnrecorded(e) \/ DeadLetter(e)
      PROVE  Goal
  BY <1>1, <1>o DEF IgnoreInactive, AllStepsSucceeded, PauseDisconnected, AwaitAsset, KeepWaiting,
     DispatchNothing, PublishUnrecorded, DeadLetter, cmdVars
<1>2. ASSUME NEW e \in inbox, IssueStep(e) \/ RetrySafely(e)
      PROVE  Goal
  <2>1. Open # {} /\ Current \in Commands
    BY <1>0, <1>2, CurrentIsLeast DEF IssueStep, RetrySafely, TimesOut, Advances
  <2>2. /\ cmd'[Current] = "dispatchable" /\ dispatched' = dispatched \cup {Current}
        /\ \A d \in Commands : d # Current => cmd'[d] = cmd[d] /\ due'[d] = due[d]
        /\ proto' = proto
    BY <1>0, <1>2, <2>1 DEF IssueStep, RetrySafely, Issue, Enqueue
  <2>3. cmd[Current] = "none" \/ Current \notin OnceOnly
    BY <1>2 DEF IssueStep, RetrySafely, Retryable, OnceOnly
  <2> QED
    BY <1>f, <2>1, <2>2, <2>3
<1>3. ASSUME NEW e \in inbox, Acknowledge(e) \/ Refuse(e) \/ PauseOnTimeout(e)
      PROVE  Goal
  <2>1. Open # {} /\ Current \in Commands
    BY <1>0, <1>3, CurrentIsLeast DEF Acknowledge, Refuse, PauseOnTimeout, TimesOut, Advances
  <2>2. \E s \in {"acknowledged", "nacked", "timed_out"} : cmd' = [cmd EXCEPT ![Current] = s]
    BY <1>3 DEF Acknowledge, Refuse, PauseOnTimeout
  <2>3. UNCHANGED <<proto, due, dispatched>>
    BY <1>3 DEF Acknowledge, Refuse, PauseOnTimeout
  <2> QED
    BY <1>f, <1>0, <2>1, <2>2, <2>3
<1>4. ASSUME NEW e \in inbox, ControlHandler(e)
      PROVE  Goal
  <2>1. PICK d \in {Cancel, Emergency} :
          /\ cmd' = [Revoked EXCEPT ![d] = "dispatchable"] /\ due' = [due EXCEPT ![d] = FALSE]
          /\ dispatched' = dispatched \cup {d} /\ proto' = proto
          /\ d = Cancel => e.what = "cancel"
    BY <1>4, ControlsApart DEF ControlHandler, Issue, Enqueue
  <2>2. /\ cmd'[d] = "dispatchable"
        /\ c # d => /\ cmd'[c] = IF c \in Positions /\ cmd[c] \in {"dispatchable", "sent"}
                                 THEN "canceled" ELSE cmd[c]
                    /\ due'[c] = due[c]
    BY <1>0, <2>1, ControlsApart DEF Revoked
  <2>3. d = Cancel => cmd[Cancel] = "none"
    BY <1>4, <2>1 DEF ControlHandler, KeptInv, CanceledOnce, Cancels
  <2>4. CASE c = d
    <3>1. d = Emergency => c \notin OnceOnly
      BY <2>4 DEF OnceOnly
    <3> QED
      BY <1>f, <2>1, <2>2, <2>3, <2>4, <3>1
  <2>5. CASE c # d
    BY <1>f, <2>1, <2>2, <2>5
  <2> QED
    BY <2>4, <2>5
<1>5. ASSUME NEW e \in inbox, DispatchExpired(e) \/ Publish(e)
      PROVE  Goal
  <2>1. e.at \in Commands
    BY <1>0, <1>5, EventShape DEF DispatchExpired, Publish, Publishable, Dispatches
  <2>2. \/ cmd' = [cmd EXCEPT ![e.at] = "timed_out"] /\ proto' = proto
        \/ cmd' = [cmd EXCEPT ![e.at] = "sent"] /\ proto' = [proto EXCEPT ![e.at] = "sent"]
    BY <1>5 DEF DispatchExpired, Publish
  <2>3. UNCHANGED <<due, dispatched>>
    BY <1>5 DEF DispatchExpired, Publish
  <2> QED
    BY <1>f, <1>0, <2>1, <2>2, <2>3
<1>6. ASSUME NEW d \in Commands, NEW o \in {"ack", "nack"}, Reply(d, o)
      PROVE  Goal
  <2>1. /\ proto[d] = "sent" /\ UNCHANGED <<due, dispatched>>
        /\ \E a \in {"acknowledged", "nacked"} :
             /\ proto' = [proto EXCEPT ![d] = a]
             /\ cmd' = [cmd EXCEPT ![d] = IF @ \in {"dispatchable", "sent"} THEN a ELSE @]
    BY <1>6 DEF Reply
  <2> QED
    BY <1>f, <1>0, <2>1
<1>7. ASSUME NEW d \in Commands, DeadlinePasses(d)
      PROVE  Goal
  BY <1>7, <1>f, <1>0 DEF DeadlinePasses
<1>8. ASSUME NEW d \in Commands, ExpireUnknown(d)
      PROVE  Goal
  BY <1>8, <1>f, <1>0 DEF ExpireUnknown
<1>9. ASSUME NEW a \in Assets, CompleteCollectionStep(a)
      PROVE  Goal
  BY <1>9, <1>o DEF CompleteCollectionStep, cmdVars
<1>10. ASSUME NEW action \in Actions, Operate(action)
      PROVE  Goal
  BY <1>10, <1>o DEF Operate, cmdVars
<1>11. ASSUME Look \/ ConnectionChanges \/ UNCHANGED vars
      PROVE  Goal
  BY <1>11, <1>o DEF Look, ConnectionChanges, vars, cmdVars
<1> QED
  BY <1>1, <1>2, <1>3, <1>4, <1>5, <1>6, <1>7, <1>8, <1>9, <1>10, <1>11 DEF Next, MissionHandler

(* The cancel events: one is inserted by the operator's cancel only, and its   *)
(* handler issues the cancel command.                                         *)
LEMMA CancelStep == KeptInv /\ [Next]_vars => CanceledOnce'
<1> SUFFICES ASSUME KeptInv, [Next]_vars PROVE CanceledOnce'
  OBVIOUS
<1>0. TypeOK /\ ControlsAreObeyed /\ StopRevokes /\ CanceledOnce /\ cmd \in [Commands -> CmdStatuses]
  BY DEF KeptInv, MissionInv, TypeOK
<1>o. ASSUME \A e \in inbox' : Cancels(e) => e \in inbox, cmd'[Cancel] = cmd[Cancel]
      PROVE  CanceledOnce'
  BY <1>o, <1>0 DEF CanceledOnce
<1>1. ASSUME NEW e \in inbox, MissionHandler(e)
      PROVE  CanceledOnce'
  <2>1. \A f \in inbox' : Cancels(f) => f \in inbox
    BY <1>1 DEF MissionHandler, IgnoreInactive, AllStepsSucceeded, PauseDisconnected, IssueStep,
       AwaitAsset, KeepWaiting, Acknowledge, Refuse, RetrySafely, PauseOnTimeout, Issue, Enqueue,
       DispatchOf, Consume, Cancels
  <2>2. cmd' = cmd \/ \E s \in CmdStatuses : Open # {} /\ cmd' = [cmd EXCEPT ![Current] = s]
    BY <1>1 DEF MissionHandler, IgnoreInactive, AllStepsSucceeded, PauseDisconnected, IssueStep,
       AwaitAsset, KeepWaiting, Acknowledge, Refuse, RetrySafely, PauseOnTimeout, TimesOut, Advances,
       Issue, cmdVars, CmdStatuses
  <2>3. cmd'[Cancel] = cmd[Cancel]
    BY <1>0, <2>2, CurrentIsLeast, ControlsApart
  <2> QED
    BY <1>o, <2>1, <2>3
<1>2. ASSUME NEW e \in inbox, ControlHandler(e)
      PROVE  CanceledOnce'
  <2>1. \A f \in inbox' : Cancels(f) => f \in inbox /\ f # e
    BY <1>2 DEF ControlHandler, Issue, Enqueue, DispatchOf, Cancels
  <2>2. CASE e.what = "cancel"
    <3>1. \A f \in inbox' : ~ Cancels(f)
      BY <1>0, <1>2, <2>1, <2>2 DEF ControlHandler, CanceledOnce, Cancels
    <3> QED
      BY <3>1 DEF CanceledOnce
  <2>3. CASE e.what # "cancel"
    <3>1. cmd'[Cancel] = cmd[Cancel]
      BY <1>0, <1>2, <2>3, ControlsApart DEF ControlHandler, Issue, Revoked
    <3> QED
      BY <1>o, <2>1, <3>1
  <2> QED
    BY <2>2, <2>3
<1>3. ASSUME NEW e \in inbox, \/ DispatchNothing(e) \/ DispatchExpired(e) \/ Publish(e)
                              \/ PublishUnrecorded(e) \/ DeadLetter(e)
      PROVE  CanceledOnce'
  <2>1. inbox' \subseteq inbox
    BY <1>3 DEF DispatchNothing, DispatchExpired, Publish, PublishUnrecorded, DeadLetter, Consume
  <2>2. cmd' = cmd \/ \E c \in Commands, s \in CmdStatuses : cmd[c] = "dispatchable" /\ cmd' = [cmd EXCEPT ![c] = s]
    BY <1>0, <1>3, EventShape DEF DispatchNothing, DispatchExpired, Publish, Publishable, Dispatches,
       PublishUnrecorded, DeadLetter, cmdVars, CmdStatuses
  <2>3. cmd'[Cancel] = "none" \/ cmd[Cancel] # "none"
    BY <1>0, <2>2, ControlsApart
  <2>4. cmd[Cancel] = "none" => cmd'[Cancel] = "none"
    BY <2>3
  <2> QED
    BY <1>0, <2>1, <2>4 DEF CanceledOnce
<1>4. ASSUME NEW c \in Commands, \/ \E outcome \in {"ack", "nack"} : Reply(c, outcome)
                                 \/ DeadlinePasses(c) \/ ExpireUnknown(c)
      PROVE  CanceledOnce'
  <2>1. \A f \in inbox' : Cancels(f) => f \in inbox
    BY <1>4 DEF Reply, DeadlinePasses, ExpireUnknown, AckOf, Cancels
  <2>2. cmd' = cmd \/ \E s \in CmdStatuses : cmd[c] \in {"dispatchable", "sent"} /\ cmd' = [cmd EXCEPT ![c] = s]
    BY <1>0, <1>4 DEF Reply, DeadlinePasses, ExpireUnknown, CmdStatuses
  <2>3. cmd[Cancel] = "none" => cmd'[Cancel] = "none"
    BY <1>0, <2>2, ControlsApart
  <2> QED
    BY <1>0, <2>1, <2>3 DEF CanceledOnce
<1>5. ASSUME NEW a \in Assets, CompleteCollectionStep(a)
      PROVE  CanceledOnce'
  BY <1>5, <1>o DEF CompleteCollectionStep, Collected, Cancels, cmdVars
<1>6. ASSUME NEW action \in Actions, Operate(action)
      PROVE  CanceledOnce'
  <2> DEFINE next == NextStatus(run, action)
  <2>1. inbox' = inbox \cup Announces(action, next) /\ cmd' = cmd /\ next # "rejected"
    BY <1>6 DEF Operate, cmdVars
  <2>2. CASE action = "cancel" /\ next = "canceling"
    <3>1. run \in {"running", "paused"}
      BY <2>2 DEF NextStatus
    <3>2. cmd[Cancel] = "none" /\ \A e \in inbox : ~ Cancels(e)
      BY <1>0, <3>1 DEF StopRevokes, ControlsAreObeyed, Cancels
    <3>3. inbox' = inbox \cup {Control(action, version + 1)}
      BY <2>1, <2>2 DEF Announces
    <3> QED
      BY <2>1, <3>2, <3>3 DEF CanceledOnce
  <2>3. CASE ~ (action = "cancel" /\ next = "canceling")
    <3>1. \A e \in Announces(action, next) : ~ Cancels(e)
      BY <2>3 DEF Announces, Control, Resumed, Cancels
    <3> QED
      BY <1>o, <2>1, <3>1
  <2> QED
    BY <2>2, <2>3
<1>7. ASSUME Look \/ ConnectionChanges \/ UNCHANGED vars
      PROVE  CanceledOnce'
  BY <1>7, <1>o DEF Look, ConnectionChanges, vars, cmdVars
<1> QED
  BY <1>1, <1>2, <1>3, <1>4, <1>5, <1>6, <1>7 DEF Next

(* A command that is issued once keeps its event until it is looked at. *)
LEMMA DispatchStep ==
  KeptInv /\ DispatchIsKept /\ dead' = 0 /\ [Next]_vars => DispatchIsKept'
<1> SUFFICES ASSUME KeptInv, DispatchIsKept, dead' = 0, [Next]_vars,
                    NEW c \in OnceOnly, cmd'[c] = "dispatchable"
             PROVE  DispatchOf(c) \in inbox'
  BY DEF DispatchIsKept, OnceOnly, DispatchOf
<1>0. /\ TypeOK /\ c \in Commands /\ c \notin Safe /\ c # Emergency
      /\ cmd \in [Commands -> CmdStatuses] /\ dead \in Nat
  BY MissionAssumption DEF KeptInv, MissionInv, TypeOK, OnceOnly
<1>f. /\ cmd[c] = "none" => c \notin dispatched
      /\ cmd[c] = "dispatchable" => proto[c] = "none" /\ DispatchOf(c) \in inbox
  BY <1>0 DEF KeptInv, FreshIsUnsent, DispatchIsKept
<1>o. ASSUME cmd'[c] = cmd[c], \A e \in inbox : e.type = "dispatch" => e \in inbox'
      PROVE  DispatchOf(c) \in inbox'
  BY <1>o, <1>f DEF DispatchOf
<1>1. ASSUME NEW e \in inbox, \/ IgnoreInactive(e) \/ AllStepsSucceeded(e) \/ PauseDisconnected(e)
                              \/ AwaitAsset(e) \/ KeepWaiting(e)
      PROVE  DispatchOf(c) \in inbox'
  BY <1>1, <1>o DEF IgnoreInactive, AllStepsSucceeded, PauseDisconnected, AwaitAsset, KeepWaiting,
     Advances, Wakes, Consume, cmdVars
<1>2. ASSUME NEW e \in inbox, IssueStep(e) \/ RetrySafely(e)
      PROVE  DispatchOf(c) \in inbox'
  <2>1. Open # {} /\ Current \in Commands /\ e.type # "dispatch"
    BY <1>0, <1>2, CurrentIsLeast DEF IssueStep, RetrySafely, TimesOut, Advances, Wakes
  <2>2. /\ inbox' = (inbox \ {e}) \cup (IF Current \in dispatched THEN {} ELSE {DispatchOf(Current)})
        /\ \A d \in Commands : d # Current => cmd'[d] = cmd[d]
    BY <1>0, <1>2, <2>1 DEF IssueStep, RetrySafely, Issue, Enqueue
  <2>3. cmd[Current] = "none" \/ Current \in Safe
    BY <1>2 DEF IssueStep, RetrySafely, Retryable
  <2>4. CASE c = Current
    BY <1>0, <1>f, <2>2, <2>3, <2>4
  <2>5. CASE c # Current
    <3>1. cmd'[c] = cmd[c]
      BY <1>0, <2>2, <2>5
    <3>2. \A f \in inbox : f.type = "dispatch" => f \in inbox'
      BY <2>1, <2>2
    <3> QED
      BY <1>o, <3>1, <3>2
  <2> QED
    BY <2>4, <2>5
<1>3. ASSUME NEW e \in inbox, Acknowledge(e) \/ Refuse(e) \/ PauseOnTimeout(e)
      PROVE  DispatchOf(c) \in inbox'
  <2>1. Open # {} /\ Current \in Commands /\ e.type # "dispatch" /\ inbox' = inbox \ {e}
    BY <1>0, <1>3, CurrentIsLeast DEF Acknowledge, Refuse, PauseOnTimeout, TimesOut, Advances, Wakes,
       Consume
  <2>2. \E s \in {"acknowledged", "nacked", "timed_out"} : cmd' = [cmd EXCEPT ![Current] = s]
    BY <1>3 DEF Acknowledge, Refuse, PauseOnTimeout
  <2>3. cmd'[c] = cmd[c]
    BY <1>0, <2>1, <2>2
  <2> QED
    BY <1>o, <2>1, <2>3
<1>4. ASSUME NEW e \in inbox, ControlHandler(e)
      PROVE  DispatchOf(c) \in inbox'
  <2>1. PICK d \in {Cancel, Emergency} :
          /\ cmd' = [Revoked EXCEPT ![d] = "dispatchable"]
          /\ inbox' = (inbox \ {e}) \cup (IF d \in dispatched THEN {} ELSE {DispatchOf(d)})
          /\ d = Cancel => e.what = "cancel"
    BY <1>4, ControlsApart DEF ControlHandler, Issue, Enqueue
  <2>2. e.type = "control" /\ \A f \in inbox : f.type = "dispatch" => f \in inbox'
    BY <1>4, <2>1 DEF ControlHandler
  <2>3. CASE c = d
    <3>1. cmd[c] = "none"
      BY <1>0, <2>1, <2>2, <2>3 DEF KeptInv, CanceledOnce, Cancels
    <3> QED
      BY <1>f, <2>1, <2>3, <3>1
  <2>4. CASE c # d
    <3>1. cmd'[c] = cmd[c]
      BY <1>0, <2>1, <2>4 DEF Revoked
    <3> QED
      BY <1>o, <2>2, <3>1
  <2> QED
    BY <2>3, <2>4
<1>5. ASSUME NEW e \in inbox, DispatchNothing(e) \/ DispatchExpired(e) \/ Publish(e)
      PROVE  DispatchOf(c) \in inbox'
  <2>1. e.at \in Commands /\ inbox' = inbox \ {e}
    BY <1>0, <1>5, EventShape DEF DispatchNothing, DispatchExpired, Publish, Publishable, Dispatches,
       Consume
  <2>2. CASE e.at = c
    <3>1. CASE DispatchNothing(e)
      BY <1>f, <2>2, <3>1 DEF DispatchNothing, cmdVars
    <3>2. CASE DispatchExpired(e) \/ Publish(e)
      BY <1>0, <2>2, <3>2 DEF DispatchExpired, Publish
    <3> QED
      BY <1>5, <3>1, <3>2
  <2>3. CASE e.at # c
    <3>1. cmd'[c] = cmd[c]
      BY <1>0, <1>5, <2>1, <2>3 DEF DispatchNothing, DispatchExpired, Publish, cmdVars
    <3> QED
      BY <1>f, <2>1, <2>3, <3>1 DEF DispatchOf
  <2> QED
    BY <2>2, <2>3
<1>6. ASSUME NEW d \in Commands, NEW o \in {"ack", "nack"}, Reply(d, o)
      PROVE  DispatchOf(c) \in inbox'
  <2>1. /\ inbox \subseteq inbox'
        /\ \E a \in {"acknowledged", "nacked"} :
             cmd' = [cmd EXCEPT ![d] = IF @ \in {"dispatchable", "sent"} THEN a ELSE @]
    BY <1>6 DEF Reply
  <2>2. cmd'[c] = cmd[c]
    BY <1>0, <2>1
  <2> QED
    BY <1>o, <2>1, <2>2
<1>7. ASSUME NEW d \in Commands, DeadlinePasses(d) \/ ExpireUnknown(d)
      PROVE  DispatchOf(c) \in inbox'
  <2>1. inbox \subseteq inbox' /\ (cmd' = cmd \/ cmd' = [cmd EXCEPT ![d] = "unknown"])
    BY <1>7 DEF DeadlinePasses, ExpireUnknown
  <2>2. cmd'[c] = cmd[c]
    BY <1>0, <2>1
  <2> QED
    BY <1>o, <2>1, <2>2
<1>8. ASSUME NEW a \in Assets, CompleteCollectionStep(a)
      PROVE  DispatchOf(c) \in inbox'
  BY <1>8, <1>o DEF CompleteCollectionStep, cmdVars
<1>9. ASSUME NEW action \in Actions, Operate(action)
      PROVE  DispatchOf(c) \in inbox'
  BY <1>9, <1>o DEF Operate, cmdVars
<1>10. ASSUME NEW e \in inbox, PublishUnrecorded(e) \/ DeadLetter(e)
      PROVE  DispatchOf(c) \in inbox'
  BY <1>10, <1>o, <1>0 DEF PublishUnrecorded, DeadLetter, cmdVars
<1>11. ASSUME Look \/ ConnectionChanges \/ UNCHANGED vars
      PROVE  DispatchOf(c) \in inbox'
  BY <1>11, <1>o DEF Look, ConnectionChanges, vars, cmdVars
<1> QED
  BY <1>1, <1>2, <1>3, <1>4, <1>5, <1>6, <1>7, <1>8, <1>9, <1>10, <1>11 DEF Next, MissionHandler

(* A run that is being canceled has issued its stop, or an event to do so. *)
LEMMA StopStep == KeptInv /\ StopIsKept /\ dead' = 0 /\ [Next]_vars => StopIsKept'
<1> SUFFICES ASSUME KeptInv, StopIsKept, dead' = 0, [Next]_vars PROVE StopIsKept'
  OBVIOUS
<1>0. /\ TypeOK /\ cmd \in [Commands -> CmdStatuses] /\ dead \in Nat
      /\ Cancel \in Commands /\ Emergency \in Commands
  BY MissionAssumption, ControlsApart DEF KeptInv, MissionInv, TypeOK
<1>s. \A c \in {Cancel, Emergency} : cmd[c] # "none" => cmd'[c] # "none"
  BY <1>0, CommandEffect, CurrentIsLeast DEF Revoked
<1>o. ASSUME run' = "canceling" => run = "canceling",
             \A e \in inbox : e.type = "control" => e \in inbox'
      PROVE  StopIsKept'
  BY <1>o, <1>s DEF StopIsKept
<1>1. ASSUME NEW e \in inbox, MissionHandler(e)
      PROVE  StopIsKept'
  <2>1. inbox \ {e} \subseteq inbox' /\ e.type # "control"
    BY <1>1 DEF MissionHandler, IgnoreInactive, AllStepsSucceeded, PauseDisconnected, IssueStep,
       AwaitAsset, KeepWaiting, Acknowledge, Refuse, RetrySafely, PauseOnTimeout, TimesOut, Advances,
       Wakes, Issue, Enqueue, Consume
  <2>2. run' # "canceling" \/ run' = run
    BY <1>1 DEF MissionHandler, IgnoreInactive, AllStepsSucceeded, PauseDisconnected, IssueStep,
       AwaitAsset, KeepWaiting, Acknowledge, Refuse, RetrySafely, PauseOnTimeout, Decide, runVars
  <2> QED
    BY <1>o, <2>1, <2>2
<1>2. ASSUME NEW e \in inbox, ControlHandler(e)
      PROVE  StopIsKept'
  <2>1. \E d \in {Cancel, Emergency} : cmd' = [Revoked EXCEPT ![d] = "dispatchable"]
    BY <1>2 DEF ControlHandler, Issue
  <2>2. DOMAIN Revoked = Commands
    BY DEF Revoked
  <2> QED
    BY <1>0, <2>1, <2>2 DEF StopIsKept
<1>3. ASSUME NEW e \in inbox, \/ DispatchNothing(e) \/ DispatchExpired(e) \/ Publish(e)
                              \/ PublishUnrecorded(e) \/ DeadLetter(e)
      PROVE  StopIsKept'
  <2>1. run' = run /\ \A f \in inbox : f.type = "control" => f \in inbox'
    BY <1>0, <1>3 DEF DispatchNothing, DispatchExpired, Publish, Publishable, Dispatches,
       PublishUnrecorded, DeadLetter, Consume, runVars
  <2> QED
    BY <1>o, <2>1
<1>4. ASSUME NEW c \in Commands, \/ \E outcome \in {"ack", "nack"} : Reply(c, outcome)
                                 \/ DeadlinePasses(c) \/ ExpireUnknown(c)
      PROVE  StopIsKept'
  BY <1>4, <1>o DEF Reply, DeadlinePasses, ExpireUnknown, runVars
<1>5. ASSUME NEW a \in Assets, CompleteCollectionStep(a)
      PROVE  StopIsKept'
  BY <1>5, <1>o DEF CompleteCollectionStep, runVars
<1>6. ASSUME NEW action \in Actions, Operate(action)
      PROVE  StopIsKept'
  <2> DEFINE next == NextStatus(run, action)
  <2>1. run' = next /\ inbox' = inbox \cup Announces(action, next)
    BY <1>6 DEF Operate, Decide
  <2>2. CASE next = "canceling"
    <3>1. Control(action, version + 1) \in inbox' /\ Control(action, version + 1).type = "control"
      BY <2>1, <2>2 DEF Announces, Control
    <3> QED
      BY <3>1 DEF StopIsKept
  <2>3. CASE next # "canceling"
    BY <1>o, <2>1, <2>3
  <2> QED
    BY <2>2, <2>3
<1>7. ASSUME Look \/ ConnectionChanges \/ UNCHANGED vars
      PROVE  StopIsKept'
  BY <1>7, <1>o DEF Look, ConnectionChanges, vars, runVars
<1> QED
  BY <1>1, <1>2, <1>3, <1>4, <1>5, <1>6, <1>7 DEF Next

(* The unknown outcome of the step that a running run works on rings again, *)
(* until a handler deals with it.                                           *)
LEMMA TimeoutStep == KeptInv /\ TimeoutIsKept /\ dead' = 0 /\ [Next]_vars => TimeoutIsKept'
<1> SUFFICES ASSUME KeptInv, TimeoutIsKept, dead' = 0, [Next]_vars, NEW i \in Positions,
                    run' = "running", step'[i] = "running", cmd'[i] = "unknown"
             PROVE  \E e \in inbox' : Rings(e, i)
  BY DEF TimeoutIsKept, Rings, AckOf
<1> DEFINE Goal == \E e \in inbox' : Rings(e, i)
<1>0. /\ TypeOK /\ InOrder /\ dead \in Nat /\ Len(Uses) \in Nat
      /\ cmd \in [Commands -> CmdStatuses] /\ step \in [Positions -> StepStatuses]
  BY MissionAssumption DEF KeptInv, MissionInv, TypeOK
<1>i. i \in Commands /\ i # Cancel /\ i # Emergency
  BY ControlsApart
<1>q. run = "queued" => cmd[i] = "none"
  BY <1>i DEF KeptInv, MissionInv, QueuedUntouched
<1>d. cmd[i] = "unknown" => due[i]
  BY <1>i DEF KeptInv, FreshIsUnsent
<1>c. ASSUME step[i] = "running" \/ cmd[i] # "none", Open # {}, step[i] # "succeeded"
      PROVE  Current = i
  <2>1. \A j \in 1..(i - 1) : step[j] = "succeeded"
    BY <1>0, <1>c DEF InOrder
  <2>2. Current \in Positions /\ step[Current] # "succeeded" /\ \A j \in 1..(Current - 1) : step[j] = "succeeded"
    BY <1>0, <1>c, CurrentIsLeast
  <2> QED
    BY <1>0, <1>c, <2>1, <2>2 DEF Positions
<1>o. ASSUME run = "running", step[i] = "running", cmd[i] = "unknown",
             \A e \in inbox : Rings(e, i) => e \in inbox'
      PROVE  Goal
  BY <1>o DEF TimeoutIsKept
<1>1. ASSUME NEW e \in inbox, IgnoreInactive(e)
      PROVE  Goal
  BY <1>1 DEF IgnoreInactive, runVars, Schedulable
<1>2. ASSUME NEW e \in inbox, AllStepsSucceeded(e) \/ PauseDisconnected(e)
      PROVE  Goal
  BY <1>2 DEF AllStepsSucceeded, PauseDisconnected, Decide
<1>3. ASSUME NEW e \in inbox, IssueStep(e) \/ RetrySafely(e)
      PROVE  Goal
  <2>1. Open # {} /\ Current \in Positions /\ run \in Schedulable
    BY <1>0, <1>3, CurrentIsLeast DEF IssueStep, RetrySafely, TimesOut, Advances
  <2>2. /\ cmd'[Current] = "dispatchable" /\ \A d \in Commands : d # Current => cmd'[d] = cmd[d]
        /\ \A d \in Positions : d # Current => step'[d] = step[d]
    <3>1. /\ Current \in Commands
          /\ \/ cmd' = [cmd EXCEPT ![Current] = "dispatchable"]
             \/ cmd' = [[cmd EXCEPT ![Current] = "timed_out"] EXCEPT ![Current] = "dispatchable"]
          /\ step' = [step EXCEPT ![Current] = "running"]
      BY <1>0, <1>3, <2>1, CurrentIsLeast DEF IssueStep, RetrySafely, Issue
    <3> QED
      BY <1>0, <2>1, <3>1
  <2>3. i # Current
    BY <2>2
  <2>4. step[i] = "running"
    BY <2>2, <2>3
  <2> QED
    BY <1>c, <2>1, <2>3, <2>4
<1>4. ASSUME NEW e \in inbox, AwaitAsset(e)
      PROVE  Goal
  <2>1. Open # {} /\ cmd' = cmd /\ cmd[Current] = "acknowledged" /\ step' = [step EXCEPT ![Current] = "running"]
    BY <1>4 DEF AwaitAsset, Advances, cmdVars
  <2>2. i # Current
    BY <2>1
  <2>3. step[i] = "running"
    BY <1>0, <2>1, <2>2
  <2> QED
    BY <1>c, <2>1, <2>2, <2>3
<1>5. ASSUME NEW e \in inbox, KeepWaiting(e)
      PROVE  Goal
  <2>1. /\ Open # {} /\ run = "running" /\ step[i] = "running" /\ cmd[i] = "unknown"
        /\ IF e.type = "ack" THEN e.at # Current ELSE ~due[Current]
        /\ inbox' = inbox \ {e}
    BY <1>5 DEF KeepWaiting, Advances, Consume, runVars, cmdVars
  <2>2. Current = i
    BY <1>c, <2>1
  <2>3. ~ Rings(e, i)
    <3>1. CASE e.type = "ack"
      BY <2>1, <2>2, <3>1 DEF Rings, AckOf
    <3>2. CASE e.type # "ack"
      BY <1>d, <2>1, <2>2, <3>2
    <3> QED
      BY <3>1, <3>2
  <2> QED
    BY <1>o, <2>1, <2>3
<1>6. ASSUME NEW e \in inbox, Acknowledge(e) \/ Refuse(e) \/ PauseOnTimeout(e)
      PROVE  Goal
  <2>1. Open # {} /\ Current \in Positions /\ Current \in Commands
    BY <1>0, <1>6, CurrentIsLeast DEF Acknowledge, Refuse, PauseOnTimeout, TimesOut, Advances
  <2>2. /\ \E s \in {"acknowledged", "nacked", "timed_out"} : cmd' = [cmd EXCEPT ![Current] = s]
        /\ \E s \in StepStatuses : step' = [step EXCEPT ![Current] = s]
    BY <1>6 DEF Acknowledge, Refuse, PauseOnTimeout, StepStatuses
  <2>3. i # Current
    BY <1>0, <2>1, <2>2
  <2>4. step[i] = "running"
    BY <1>0, <2>1, <2>2, <2>3
  <2> QED
    BY <1>c, <2>1, <2>3, <2>4
<1>7. ASSUME NEW e \in inbox, ControlHandler(e)
      PROVE  Goal
  BY <1>7 DEF ControlHandler, Decide
<1>8. ASSUME NEW e \in inbox, \/ DispatchNothing(e) \/ DispatchExpired(e) \/ Publish(e)
                              \/ PublishUnrecorded(e) \/ DeadLetter(e)
      PROVE  Goal
  <2>1. run' = run /\ step' = step /\ \A f \in inbox : Rings(f, i) => f \in inbox'
    BY <1>0, <1>8 DEF DispatchNothing, DispatchExpired, Publish, Publishable, Dispatches,
       PublishUnrecorded, DeadLetter, Consume, runVars, Rings, AckOf
  <2>2. cmd' = cmd \/ \E s \in {"sent", "timed_out"} : cmd' = [cmd EXCEPT ![e.at] = s]
    BY <1>0, <1>8 DEF DispatchNothing, DispatchExpired, Publish, PublishUnrecorded, DeadLetter, cmdVars
  <2>3. cmd[i] = "unknown"
    BY <1>0, <1>i, <2>2
  <2> QED
    BY <1>o, <2>1, <2>3
<1>9. ASSUME NEW d \in Commands, NEW o \in {"ack", "nack"}, Reply(d, o)
      PROVE  Goal
  <2>1. /\ inbox \subseteq inbox' /\ run' = run /\ step' = step
        /\ \E a \in {"acknowledged", "nacked"} :
             cmd' = [cmd EXCEPT ![d] = IF @ \in {"dispatchable", "sent"} THEN a ELSE @]
    BY <1>9 DEF Reply, runVars
  <2>2. cmd[i] = "unknown"
    BY <1>0, <1>i, <2>1
  <2> QED
    BY <1>o, <2>1, <2>2
<1>10. ASSUME NEW d \in Commands, ExpireUnknown(d)
      PROVE  Goal
  <2>1. /\ inbox' = inbox \cup {AckOf(d, "timeout")} /\ run' = run /\ step' = step
        /\ cmd' = [cmd EXCEPT ![d] = "unknown"]
    BY <1>10 DEF ExpireUnknown, runVars
  <2>2. CASE d = i
    BY <2>1, <2>2 DEF Rings
  <2>3. CASE d # i
    <3>1. cmd[i] = "unknown"
      BY <1>0, <1>i, <2>1, <2>3
    <3> QED
      BY <1>o, <2>1, <3>1
  <2> QED
    BY <2>2, <2>3
<1>11. ASSUME NEW d \in Commands, DeadlinePasses(d)
      PROVE  Goal
  BY <1>11, <1>o DEF DeadlinePasses, runVars
<1>12. ASSUME NEW a \in Assets, CompleteCollectionStep(a)
      PROVE  Goal
  <2>1. inbox \subseteq inbox' /\ run' = run /\ cmd' = cmd
    BY <1>12 DEF CompleteCollectionStep, runVars, cmdVars
  <2>2. step' = step \/ \E j \in Positions : step' = [step EXCEPT ![j] = "succeeded"]
    <3>1. Collecting \subseteq Nat /\ Collecting \subseteq Positions
      BY DEF Collecting, Positions
    <3>2. Collecting # {} => First(Collecting) \in Positions
      BY <3>1, FirstIsLeast
    <3> QED
      BY <1>12, <3>2 DEF CompleteCollectionStep
  <2>3. step[i] = "running"
    BY <1>0, <2>2
  <2> QED
    BY <1>o, <2>1, <2>3
<1>13. ASSUME NEW action \in Actions, Operate(action)
      PROVE  Goal
  <2> DEFINE next == NextStatus(run, action)
  <2>1. next = "running" /\ inbox' = inbox \cup Announces(action, next)
    BY <1>13 DEF Operate, Decide
  <2>2. Resumed(version + 1) \in inbox'
    BY <2>1 DEF Announces
  <2> QED
    BY <2>2 DEF Rings, Resumed
<1>14. ASSUME Look \/ ConnectionChanges \/ UNCHANGED vars
      PROVE  Goal
  BY <1>14, <1>o DEF Look, ConnectionChanges, vars, runVars, cmdVars
<1> QED
  BY <1>1, <1>2, <1>3, <1>4, <1>5, <1>6, <1>7, <1>8, <1>9, <1>10, <1>11, <1>12, <1>13, <1>14
     DEF Next, MissionHandler

(* A run as its creator leaves it has nothing to forget. *)
LEMMA KeptInit == Init => KeptInv
<1> SUFFICES ASSUME Init PROVE KeptInv
  OBVIOUS
<1>1. FreshIsUnsent
  BY DEF Init, FreshIsUnsent
<1>2. CanceledOnce
  BY DEF Init, CanceledOnce, Cancels, Triggered
<1>3. WorkIsKept
  BY ControlsApart DEF Init, WorkIsKept, DispatchIsKept, StopIsKept, TimeoutIsKept, OnceOnly
<1> QED
  BY <1>1, <1>2, <1>3, MissionInit DEF KeptInv

(* Nothing that was asked for is forgotten unless an event was dead-lettered.  *)
THEOREM KeptInvariant == Spec => []KeptInv
<1>1. KeptInv /\ [Next]_vars => KeptInv'
  <2> SUFFICES ASSUME KeptInv, [Next]_vars PROVE KeptInv'
    OBVIOUS
  <2>1. MissionInv'
    BY MissionStep DEF KeptInv
  <2>2. dead' = 0 => dead = 0
    <3>1. dead \in Nat
      BY MissionAssumption DEF KeptInv, MissionInv, TypeOK
    <3>2. dead' = dead \/ dead' = dead + 1
      BY DEF Next, MissionHandler, IgnoreInactive, AllStepsSucceeded, PauseDisconnected, IssueStep,
         AwaitAsset, KeepWaiting, Acknowledge, Refuse, RetrySafely, PauseOnTimeout, ControlHandler,
         DispatchNothing, DispatchExpired, Publish, PublishUnrecorded, DeadLetter, Reply,
         DeadlinePasses, ExpireUnknown, CompleteCollectionStep, Operate, Look, ConnectionChanges,
         bounds, vars
    <3> QED
      BY <3>1, <3>2
  <2>3. WorkIsKept'
    BY <2>2, DispatchStep, StopStep, TimeoutStep DEF KeptInv, WorkIsKept
  <2> QED
    BY <2>1, <2>3, FreshStep, CancelStep DEF KeptInv
<1> QED
  BY KeptInit, <1>1, PTL DEF Spec

(* A command that waits for its one dispatch, the stop of a run that is being   *)
(* canceled, and the unknown outcome of a running step keep somebody to deal   *)
(* with them.                                                                 *)
THEOREM WorkIsKeptHolds == Spec => []WorkIsKept
  BY KeptInvariant, PTL DEF KeptInv
=============================================================================
