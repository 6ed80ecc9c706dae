---------------------------- MODULE OutboxProofs ----------------------------
(***************************************************************************)
(* Proofs about Outbox for any sets of events and workers, any retry        *)
(* budget, batch size and assignment of event types to workers.            *)
(***************************************************************************)
EXTENDS Outbox, TLAPS

(* No step breaks the type invariant: Claim is the only writer of attempts and *)
(* tests the budget, and a commit is always for an event of the table.         *)
LEMMA TypeStep == TypeOK /\ [Next]_vars => TypeOK'
<1> SUFFICES ASSUME TypeOK, [Next]_vars PROVE TypeOK'
  OBVIOUS
<1> USE OutboxAssumption DEF TypeOK, Statuses, Points, Goto
<1>1. ASSUME NEW e \in Events, Publish(e) PROVE TypeOK'
  BY <1>1 DEF Publish, worker, ghost
<1>2. ASSUME NEW e \in Events, LeaseExpires(e) PROVE TypeOK'
  BY <1>2 DEF LeaseExpires, worker, ghost
<1>3. ASSUME NEW e \in Events, BecomesAvailable(e) PROVE TypeOK'
  BY <1>3 DEF BecomesAvailable, worker, ghost
<1>4. ASSUME NEW w \in Workers, Start(w) PROVE TypeOK'
  BY <1>4 DEF Start, row, ghost
<1>5. ASSUME NEW w \in Workers, Stop(w) PROVE TypeOK'
  BY <1>5 DEF Stop, row, ghost
<1>6. ASSUME NEW w \in Workers, RecoverSelect(w) PROVE TypeOK'
  BY <1>6 DEF RecoverSelect, Exhausted, Locked, row, ghost
<1>7. ASSUME NEW w \in Workers, RecoverApply(w) PROVE TypeOK'
  BY <1>7 DEF RecoverApply, ghost
<1>8. ASSUME NEW w \in Workers, Claim(w) PROVE TypeOK'
  <2> PICK S \in SUBSET Claimable(w) :
           /\ status'   = [e \in Events |-> IF e \in S THEN "processing" ELSE status[e]]
           /\ attempts' = [e \in Events |-> IF e \in S THEN attempts[e] + 1 ELSE attempts[e]]
           /\ owner'    = [e \in Events |-> IF e \in S THEN w ELSE owner[e]]
           /\ expired'  = [e \in Events |-> expired[e] /\ e \notin S]
           /\ batch'    = [batch EXCEPT ![w] = S]
    BY <1>8 DEF Claim
  <2>1. \A e \in S : e \in Events /\ attempts[e] < MaxAttempts
    BY DEF Claimable
  <2>2. attempts' \in [Events -> 0..MaxAttempts]
    BY <2>1
  <2> QED
    BY <1>8, <2>1, <2>2 DEF Claim, ghost
<1>9. ASSUME NEW w \in Workers, BatchDone(w) PROVE TypeOK'
  BY <1>9 DEF BatchDone, row, ghost
<1>10. ASSUME NEW w \in Workers, BeginProcess(w) PROVE TypeOK'
  BY <1>10 DEF BeginProcess, Locked, row
<1>11. ASSUME NEW w \in Workers, HandlerCommits(w) PROVE TypeOK'
  <2>1. cur[w] \in Events
    BY <1>11 DEF HandlerCommits, Commit, row
  <2> QED
    BY <1>11, <2>1 DEF HandlerCommits, Commit, row
<1>12. ASSUME NEW w \in Workers, CommitAnswerLost(w) PROVE TypeOK'
  <2>1. cur[w] \in Events
    BY <1>12 DEF CommitAnswerLost, Commit, row
  <2> QED
    BY <1>12, <2>1 DEF CommitAnswerLost, Commit, row
<1>13. ASSUME NEW w \in Workers, HandlerFails(w) PROVE TypeOK'
  BY <1>13 DEF HandlerFails, row, ghost
<1>14. ASSUME NEW w \in Workers, Fail(w) PROVE TypeOK'
  BY <1>14 DEF Fail, Locked, ghost
<1>15. ASSUME NEW w \in Workers, Complete(w) PROVE TypeOK'
  BY <1>15 DEF Complete, Locked, ghost
<1>16. ASSUME NEW w \in Workers, LeaseLost(w) PROVE TypeOK'
  BY <1>16 DEF LeaseLost, row, ghost
<1>17. CASE UNCHANGED vars
  BY <1>17 DEF vars
<1> QED
  BY <1>1, <1>2, <1>3, <1>4, <1>5, <1>6, <1>7, <1>8, <1>9,
     <1>10, <1>11, <1>12, <1>13, <1>14, <1>15, <1>16, <1>17 DEF Next, Step

(* Every variable keeps its type for ever; in particular attempts never        *)
(* exceeds max_attempts.                                                       *)
THEOREM TypeCorrect == Spec => []TypeOK
<1>1. Init => TypeOK
  BY OutboxAssumption DEF Init, TypeOK, Statuses, Points
<1> QED
  BY <1>1, TypeStep, PTL DEF Spec

-----------------------------------------------------------------------------
(* The initial state satisfies the inductive invariant. *)
LEMMA InvInit == Init => OutboxInv
  BY OutboxAssumption DEF Init, OutboxInv, TypeOK, Statuses, Points, ExactlyOnce,
     HandlerOwnsRow, InvocationsBounded, CompletedWasConsumed, DeadHasNoEffect,
     RecoveryLocks, CompletingConsumed, FailingRolledBack, ClaimsHaveAttempts,
     NothingBeforeInsert

(* Every step preserves it. *)
LEMMA InvStep == OutboxInv /\ [Next]_vars => OutboxInv'
<1> SUFFICES ASSUME OutboxInv, [Next]_vars PROVE OutboxInv'
  OBVIOUS
<1> USE OutboxAssumption
<1>0. TypeOK /\ TypeOK'
  BY TypeStep DEF OutboxInv
<1> USE DEF OutboxInv, TypeOK, Statuses, Points, ExactlyOnce, HandlerOwnsRow,
            InvocationsBounded, CompletedWasConsumed, DeadHasNoEffect, RecoveryLocks,
            CompletingConsumed, FailingRolledBack, ClaimsHaveAttempts,
            NothingBeforeInsert, Owned, Goto
<1>1. ASSUME NEW e \in Events, Publish(e) PROVE OutboxInv'
  BY <1>0, <1>1 DEF Publish, worker, ghost
<1>2. ASSUME NEW e \in Events, LeaseExpires(e) PROVE OutboxInv'
  BY <1>0, <1>2 DEF LeaseExpires, worker, ghost
<1>3. ASSUME NEW e \in Events, BecomesAvailable(e) PROVE OutboxInv'
  BY <1>0, <1>3 DEF BecomesAvailable, worker, ghost
<1>4. ASSUME NEW w \in Workers, Start(w) PROVE OutboxInv'
  BY <1>0, <1>4 DEF Start, row, ghost
<1>5. ASSUME NEW w \in Workers, Stop(w) PROVE OutboxInv'
  BY <1>0, <1>5 DEF Stop, row, ghost
<1>6. ASSUME NEW w \in Workers, RecoverSelect(w) PROVE OutboxInv'
  BY <1>0, <1>6 DEF RecoverSelect, Exhausted, Locked, row, ghost
<1>7. ASSUME NEW w \in Workers, RecoverApply(w) PROVE OutboxInv'
  BY <1>0, <1>7 DEF RecoverApply, ghost
<1>8. ASSUME NEW w \in Workers, Claim(w) PROVE OutboxInv'
  <2> PICK S \in SUBSET Claimable(w) :
           /\ status'   = [e \in Events |-> IF e \in S THEN "processing" ELSE status[e]]
           /\ attempts' = [e \in Events |-> IF e \in S THEN attempts[e] + 1 ELSE attempts[e]]
           /\ owner'    = [e \in Events |-> IF e \in S THEN w ELSE owner[e]]
           /\ expired'  = [e \in Events |-> expired[e] /\ e \notin S]
           /\ batch'    = [batch EXCEPT ![w] = S]
    BY <1>8 DEF Claim
  <2>1. pc[w] = "claiming" /\ pc' = [pc EXCEPT ![w] = "loop"]
        /\ UNCHANGED <<consumed, cur, victims, effects, runs, ambiguous>>
    BY <1>8 DEF Claim, ghost
  <2>2. \A e \in S : e \in Events /\ ~Locked(e) /\ status[e] \in {"pending", "processing"}
    BY DEF Claimable
  <2>3. ExactlyOnce'
    BY <2>1
  <2>4. HandlerOwnsRow'
    BY <1>0, <2>1, <2>2 DEF Locked
  <2>5. InvocationsBounded' /\ ClaimsHaveAttempts'
    BY <1>0, <2>1, <2>2
  <2>6. CompletedWasConsumed' /\ DeadHasNoEffect' /\ NothingBeforeInsert'
    BY <1>0, <2>1, <2>2
  <2>7. RecoveryLocks'
    BY <1>0, <2>1, <2>2 DEF Locked
  <2>8. CompletingConsumed' /\ FailingRolledBack'
    BY <1>0, <2>1, <2>2
  <2> QED
    BY <1>0, <2>3, <2>4, <2>5, <2>6, <2>7, <2>8
<1>9. ASSUME NEW w \in Workers, BatchDone(w) PROVE OutboxInv'
  BY <1>0, <1>9 DEF BatchDone, row, ghost
<1>10. ASSUME NEW w \in Workers, BeginProcess(w) PROVE OutboxInv'
  <2> PICK e \in batch[w] :
           /\ ~Locked(e)
           /\ cur'   = [cur EXCEPT ![w] = e]
           /\ batch' = [batch EXCEPT ![w] = @ \ {e}]
           /\ \/ ~Owned(w, e) /\ pc' = [pc EXCEPT ![w] = "failing"] /\ UNCHANGED runs
              \/ Owned(w, e) /\ e \in consumed /\ pc' = [pc EXCEPT ![w] = "completing"] /\ UNCHANGED runs
              \/ /\ Owned(w, e) /\ e \notin consumed
                 /\ pc' = [pc EXCEPT ![w] = "handling"]
                 /\ runs' = [runs EXCEPT ![e] = @ + 1]
    BY <1>10 DEF BeginProcess
  <2>1. pc[w] = "loop" /\ UNCHANGED <<status, attempts, owner, expired, delayed,
                                     consumed, victims, effects, ambiguous>>
    BY <1>10 DEF BeginProcess, row
  <2>2. e \in Events
    BY <1>0
  <2>3. ExactlyOnce' /\ CompletedWasConsumed' /\ DeadHasNoEffect' /\ NothingBeforeInsert'
    BY <2>1
  <2>4. HandlerOwnsRow'
    BY <1>0, <2>1, <2>2 DEF Locked
  <2>5. InvocationsBounded'
    <3> SUFFICES ASSUME NEW f \in Events PROVE runs'[f] <= attempts'[f]
      OBVIOUS
    <3>1. Owned(w, e) => runs[e] < attempts[e]
      OBVIOUS
    <3>2. runs[f] <= attempts[f] /\ runs[f] \in Nat /\ attempts[f] \in Nat
      OBVIOUS
    <3>3. attempts'[f] = attempts[f] /\ (runs'[f] = runs[f] \/ (f = e /\ Owned(w, e) /\ runs'[f] = runs[f] + 1))
      BY <1>0, <2>1, <2>2
    <3> QED
      BY <3>1, <3>2, <3>3
  <2>6. ClaimsHaveAttempts'
    <3> SUFFICES ASSUME NEW v \in Workers
                 PROVE  /\ pc'[v] \in {"unborn", "idle", "recovering", "claiming", "down"} => batch'[v] = {}
                        /\ \A f \in batch'[v] : Owned(v, f)' => runs'[f] < attempts'[f]
      OBVIOUS
    <3>1. CASE v = w
      BY <1>0, <2>1, <2>2, <3>1
    <3>2. CASE v # w
      BY <1>0, <2>1, <2>2, <3>2
    <3> QED
      BY <3>1, <3>2
  <2>7. RecoveryLocks'
    BY <1>0, <2>1
  <2>8. CompletingConsumed' /\ FailingRolledBack'
    BY <1>0, <2>1, <2>2
  <2> QED
    BY <1>0, <2>3, <2>4, <2>5, <2>6, <2>7, <2>8
<1>11. ASSUME NEW w \in Workers, HandlerCommits(w) PROVE OutboxInv'
  BY <1>0, <1>11 DEF HandlerCommits, Commit, row
<1>12. ASSUME NEW w \in Workers, CommitAnswerLost(w) PROVE OutboxInv'
  BY <1>0, <1>12 DEF CommitAnswerLost, Commit, row
<1>13. ASSUME NEW w \in Workers, HandlerFails(w) PROVE OutboxInv'
  BY <1>0, <1>13 DEF HandlerFails, row, ghost
<1>14. ASSUME NEW w \in Workers, Fail(w) PROVE OutboxInv'
  BY <1>0, <1>14 DEF Fail, Locked, ghost
<1>15. ASSUME NEW w \in Workers, Complete(w) PROVE OutboxInv'
  BY <1>0, <1>15 DEF Complete, Locked, ghost
<1>16. ASSUME NEW w \in Workers, LeaseLost(w) PROVE OutboxInv'
  BY <1>0, <1>16 DEF LeaseLost, row, ghost
<1>17. CASE UNCHANGED vars
  BY <1>17 DEF vars
<1> QED
  BY <1>1, <1>2, <1>3, <1>4, <1>5, <1>6, <1>7, <1>8, <1>9,
     <1>10, <1>11, <1>12, <1>13, <1>14, <1>15, <1>16, <1>17 DEF Next, Step

(* The inductive invariant holds in every reachable state, and with it the     *)
(* safety properties of Outbox.                                                *)
THEOREM InvariantHolds == Spec => []OutboxInv
  BY InvInit, InvStep, PTL DEF Spec

(* However often an event is delivered, retried or recovered, its handler's    *)
(* transaction commits at most once, exactly when its consumption is recorded. *)
THEOREM ExactlyOnceHolds == Spec => []ExactlyOnce
  BY InvariantHolds, PTL DEF OutboxInv

(* A running handler keeps its row: nobody reclaims or dead-letters it, even   *)
(* after its lease expired.                                                    *)
THEOREM HandlerOwnsRowHolds == Spec => []HandlerOwnsRow
  BY InvariantHolds, PTL DEF OutboxInv

(* A handler is invoked at most max_attempts times. *)
THEOREM InvocationsBoundedHolds == Spec => []InvocationsBounded
  BY InvariantHolds, PTL DEF OutboxInv

(* No committed work is dead-lettered unless a commit's answer was lost. *)
THEOREM DeadHasNoEffectHolds == Spec => []DeadHasNoEffect
  BY InvariantHolds, PTL DEF OutboxInv

-----------------------------------------------------------------------------
(* A settled event is never locked, claimed or owned again, so no action moves it. *)
LEMMA SettledStep ==
  OutboxInv /\ [Next]_vars =>
    \A e \in Events : status[e] \in {"completed", "dead"} => status'[e] = status[e]
<1> SUFFICES ASSUME OutboxInv, [Next]_vars, NEW e \in Events,
                    status[e] \in {"completed", "dead"}
             PROVE  status'[e] = status[e]
  OBVIOUS
<1> USE DEF OutboxInv, TypeOK
<1>1. ASSUME NEW f \in Events, Publish(f) \/ LeaseExpires(f) \/ BecomesAvailable(f)
      PROVE  status'[e] = status[e]
  BY <1>1 DEF Publish, LeaseExpires, BecomesAvailable
<1>2. ASSUME NEW w \in Workers, Start(w) \/ Stop(w) \/ RecoverSelect(w) \/ BatchDone(w)
                               \/ BeginProcess(w) \/ HandlerFails(w) \/ LeaseLost(w)
      PROVE  status'[e] = status[e]
  BY <1>2 DEF Start, Stop, RecoverSelect, BatchDone, BeginProcess, HandlerFails, LeaseLost, row
<1>3. ASSUME NEW w \in Workers, HandlerCommits(w) \/ CommitAnswerLost(w)
      PROVE  status'[e] = status[e]
  BY <1>3 DEF HandlerCommits, CommitAnswerLost, Commit, row
<1>4. ASSUME NEW w \in Workers, RecoverApply(w) PROVE status'[e] = status[e]
  BY <1>4 DEF RecoverApply, RecoveryLocks
<1>5. ASSUME NEW w \in Workers, Claim(w) PROVE status'[e] = status[e]
  BY <1>5 DEF Claim, Claimable
<1>6. ASSUME NEW w \in Workers, Fail(w) \/ Complete(w) PROVE status'[e] = status[e]
  BY <1>6 DEF Fail, Complete, Owned
<1>7. CASE UNCHANGED vars
  BY <1>7 DEF vars
<1> QED
  BY <1>1, <1>2, <1>3, <1>4, <1>5, <1>6, <1>7 DEF Next, Step

(* Completed and dead events stay as they are. *)
THEOREM SettledForeverHolds == Spec => SettledForever
<1>1. OutboxInv /\ [Next]_vars =>
        [\A e \in Events : status[e] \in {"completed", "dead"} => status'[e] = status[e]]_vars
  BY SettledStep
<1> QED
  BY <1>1, InvariantHolds, PTL DEF Spec, SettledForever

-----------------------------------------------------------------------------
(* Every step of the outbox is a step of Delivery or leaves it unchanged. *)
LEMMA DeliveryStep ==
  OutboxInv /\ [Next]_vars => [Promise!DNext]_(Promise!dvars)
<1> SUFFICES ASSUME OutboxInv, [Next]_vars, ~ UNCHANGED Promise!dvars
             PROVE  Promise!DNext
  OBVIOUS
<1> USE OutboxAssumption DEF OutboxInv, TypeOK, Promise!dvars, Job
<1>1. ASSUME NEW e \in Events, Publish(e) PROVE Promise!DNext
  <2>1. Job[e] = "none" /\ Job' = [Job EXCEPT ![e] = "waiting"] /\ UNCHANGED consumed
    BY <1>1 DEF Publish, JobOf
  <2> QED
    BY <2>1 DEF Promise!DNext, Promise!Submit
<1>2. ASSUME NEW e \in Events, LeaseExpires(e) \/ BecomesAvailable(e) PROVE FALSE
  BY <1>2 DEF LeaseExpires, BecomesAvailable
<1>3. ASSUME NEW w \in Workers, Start(w) \/ Stop(w) \/ RecoverSelect(w) \/ BatchDone(w)
                               \/ BeginProcess(w) \/ HandlerFails(w) \/ LeaseLost(w)
      PROVE  FALSE
  BY <1>3 DEF Start, Stop, RecoverSelect, BatchDone, BeginProcess, HandlerFails, LeaseLost, row
<1>4. ASSUME NEW w \in Workers, HandlerCommits(w) \/ CommitAnswerLost(w) PROVE Promise!DNext
  <2>1. pc[w] = "handling" /\ Commit(w)
    BY <1>4 DEF HandlerCommits, CommitAnswerLost
  <2>2. cur[w] \in Events /\ Job[cur[w]] = "waiting" /\ cur[w] \notin consumed
    BY <2>1 DEF HandlerOwnsRow, Owned, JobOf
  <2>3. UNCHANGED Job /\ consumed' = consumed \cup {cur[w]}
    BY <2>1 DEF Commit, row
  <2> QED
    BY <2>2, <2>3 DEF Promise!DNext, Promise!Apply
<1>5. ASSUME NEW w \in Workers, RecoverApply(w) PROVE Promise!DNext
  <2>1. victims[w] \in SUBSET Events /\ UNCHANGED consumed
    BY <1>5 DEF RecoverApply
  <2>2. \A e \in victims[w] : Job[e] = "waiting"
    BY <2>1 DEF RecoveryLocks, JobOf
  <2>3. Job' = [e \in Events |-> IF e \notin victims[w] THEN Job[e]
                               ELSE IF e \in consumed THEN "done" ELSE "dead"]
    BY <1>5 DEF RecoverApply, JobOf
  <2> QED
    BY <2>1, <2>2, <2>3 DEF Promise!DNext, Promise!SettleMany
<1>6. ASSUME NEW w \in Workers, Claim(w) PROVE FALSE
  <2>1. \A e \in Events : status'[e] = status[e] \/ (status[e] \in {"pending", "processing"}
                                                    /\ status'[e] = "processing")
    BY <1>6 DEF Claim, Claimable
  <2>2. \A e \in Events : JobOf(status'[e]) = JobOf(status[e])
    BY <2>1 DEF JobOf
  <2> QED
    BY <1>6, <2>2 DEF Claim
<1>7. ASSUME NEW w \in Workers, Fail(w) PROVE Promise!DNext
  <2>1. cur[w] \in Events /\ Job[cur[w]] = "waiting" /\ UNCHANGED consumed
    BY <1>7 DEF Fail, Owned, JobOf
  <2>2. Job' = [Job EXCEPT ![cur[w]] = "dead"] \/ Job' = Job
    BY <1>7, <2>1 DEF Fail, Owned, JobOf
  <2> QED
    BY <2>1, <2>2 DEF Promise!DNext, Promise!GiveUp
<1>8. ASSUME NEW w \in Workers, Complete(w) PROVE Promise!DNext
  <2>1. cur[w] \in Events /\ Job[cur[w]] = "waiting" /\ cur[w] \in consumed /\ UNCHANGED consumed
    BY <1>8 DEF Complete, Owned, JobOf, CompletingConsumed
  <2>2. Job' = [Job EXCEPT ![cur[w]] = "done"]
    BY <1>8, <2>1 DEF Complete, JobOf
  <2> QED
    BY <2>1, <2>2 DEF Promise!DNext, Promise!Acknowledge
<1>9. CASE UNCHANGED vars
  BY <1>9 DEF vars
<1> QED
  BY <1>1, <1>2, <1>3, <1>4, <1>5, <1>6, <1>7, <1>8, <1>9 DEF Next, Step

(* The outbox implements Delivery: at-most-once application, acknowledgement   *)
(* only after application, nothing after settlement.                           *)
THEOREM Refinement == Spec => ImplementsDelivery
<1>1. Init => Promise!DInit
  BY DEF Init, Promise!DInit, Job, JobOf
<1> QED
  BY <1>1, DeliveryStep, InvariantHolds, PTL DEF Spec, ImplementsDelivery, Promise!DSpec

-----------------------------------------------------------------------------
(* The attempts. *)

(* In the beginning no attempt was made. *)
LEMMA AttemptsInit == Init => AttemptsInv
BY InvInit, OutboxAssumption DEF Init, AttemptsInv, AttemptsDecide, VictimsExhausted, NoAttemptBeforeInsert

(* Claims count up to the limit, failures and recoveries give up at it. *)
LEMMA AttemptsStep == AttemptsInv /\ [Next]_vars => AttemptsInv'
<1> SUFFICES ASSUME AttemptsInv, [Next]_vars
             PROVE  AttemptsDecide' /\ VictimsExhausted' /\ NoAttemptBeforeInsert'
  BY InvStep DEF AttemptsInv
<1> DEFINE Goal == AttemptsDecide' /\ VictimsExhausted' /\ NoAttemptBeforeInsert'
<1>0. /\ TypeOK /\ RecoveryLocks /\ AttemptsDecide /\ VictimsExhausted /\ NoAttemptBeforeInsert
      /\ status \in [Events -> Statuses] /\ attempts \in [Events -> 0..MaxAttempts]
      /\ victims \in [Workers -> SUBSET Events] /\ MaxAttempts \in Nat \ {0}
      /\ cur \in [Workers -> Events \cup {Null}] /\ Null \notin Events
  BY OutboxAssumption DEF AttemptsInv, OutboxInv, TypeOK
<1>o. ASSUME status' = status, attempts' = attempts, \A w \in Workers : victims'[w] \subseteq victims[w]
      PROVE  Goal
  BY <1>o, <1>0 DEF AttemptsDecide, VictimsExhausted, NoAttemptBeforeInsert
<1>1. ASSUME NEW e \in Events, Publish(e)
      PROVE  Goal
  <2>1. attempts[e] = 0
    BY <1>0, <1>1 DEF Publish, NoAttemptBeforeInsert
  <2> QED
    BY <1>0, <1>1, <2>1 DEF Publish, worker, AttemptsDecide, VictimsExhausted, NoAttemptBeforeInsert
<1>2. ASSUME NEW e \in Events, LeaseExpires(e) \/ BecomesAvailable(e)
      PROVE  Goal
  BY <1>2, <1>o DEF LeaseExpires, BecomesAvailable, worker
<1>3. ASSUME NEW w \in Workers, \/ Start(w) \/ Stop(w) \/ BatchDone(w) \/ BeginProcess(w)
                                \/ HandlerCommits(w) \/ CommitAnswerLost(w) \/ HandlerFails(w)
                                \/ LeaseLost(w)
      PROVE  Goal
  <2>1. status' = status /\ attempts' = attempts
    BY <1>3 DEF Start, Stop, BatchDone, BeginProcess, HandlerCommits, CommitAnswerLost, Commit,
       HandlerFails, LeaseLost, row
  <2>2. victims' = victims \/ victims' = [victims EXCEPT ![w] = {}]
    BY <1>3 DEF Start, Stop, BatchDone, BeginProcess, HandlerCommits, CommitAnswerLost, Commit,
       HandlerFails, LeaseLost
  <2> QED
    BY <1>o, <1>0, <2>1, <2>2
<1>4. ASSUME NEW w \in Workers, RecoverSelect(w)
      PROVE  Goal
  <2>1. PICK S \in SUBSET Exhausted(w) : victims' = [victims EXCEPT ![w] = S]
    BY <1>4 DEF RecoverSelect
  <2>2. \A e \in S : e \in Events /\ attempts[e] = MaxAttempts
    BY <1>0, OutboxAssumption DEF Exhausted
  <2>3. status' = status /\ attempts' = attempts
    BY <1>4 DEF RecoverSelect, row
  <2> QED
    BY <1>0, <2>1, <2>2, <2>3 DEF AttemptsDecide, VictimsExhausted, NoAttemptBeforeInsert
<1>5. ASSUME NEW w \in Workers, RecoverApply(w)
      PROVE  Goal
  <2>1. /\ \A e \in Events : status'[e] = IF e \notin victims[w] THEN status[e]
                                          ELSE IF e \in consumed THEN "completed" ELSE "dead"
        /\ attempts' = attempts /\ \A v \in Workers : victims'[v] \subseteq victims[v]
    BY <1>0, <1>5 DEF RecoverApply
  <2> QED
    BY <1>0, <2>1 DEF AttemptsDecide, VictimsExhausted, NoAttemptBeforeInsert
<1>6. ASSUME NEW w \in Workers, Claim(w)
      PROVE  Goal
  <2>1. PICK S \in SUBSET Claimable(w) :
          /\ status'   = [e \in Events |-> IF e \in S THEN "processing" ELSE status[e]]
          /\ attempts' = [e \in Events |-> IF e \in S THEN attempts[e] + 1 ELSE attempts[e]]
    BY <1>6 DEF Claim
  <2>2. \A e \in S : e \in Events /\ attempts[e] < MaxAttempts
    BY OutboxAssumption DEF Claimable
  <2>3. victims' = victims /\ \A v \in Workers : \A e \in victims[v] : e \in Events /\ e \notin S
    BY <1>0, <1>6, <2>2 DEF Claim, VictimsExhausted
  <2> QED
    BY <1>0, <2>1, <2>2, <2>3 DEF AttemptsDecide, VictimsExhausted, NoAttemptBeforeInsert
<1>7. ASSUME NEW w \in Workers, Fail(w) \/ Complete(w)
      PROVE  Goal
  <2>1. cur[w] \in Events /\ attempts' = attempts /\ victims' = victims
    BY <1>0, <1>7 DEF Fail, Complete, Owned, TypeOK
  <2>2. \/ status' = [status EXCEPT ![cur[w]] = IF attempts[cur[w]] >= MaxAttempts THEN "dead" ELSE "pending"]
        \/ status' = [status EXCEPT ![cur[w]] = "completed"]
    BY <1>7 DEF Fail, Complete
  <2> QED
    BY <1>0, <2>1, <2>2 DEF AttemptsDecide, VictimsExhausted, NoAttemptBeforeInsert
<1>8. CASE UNCHANGED vars
  BY <1>8, <1>o DEF vars
<1> QED
  BY <1>1, <1>2, <1>3, <1>4, <1>5, <1>6, <1>7, <1>8 DEF Next, Step

(* Claims, failures and recoveries agree on which attempt is the last. *)
THEOREM AttemptsInvariant == Spec => []AttemptsInv
  BY AttemptsInit, AttemptsStep, PTL DEF Spec

(* An event that waits has an attempt left, one that is given up has used them  *)
(* all, and its handler was never invoked more often.                          *)
THEOREM AttemptsAreSpentHolds == Spec => []AttemptsAreSpent
<1>1. AttemptsInv => AttemptsAreSpent
  BY DEF AttemptsInv, AttemptsAreSpent, OutboxInv
<1> QED
  BY <1>1, AttemptsInvariant, PTL
=============================================================================
