------------------------------- MODULE Outbox -------------------------------
(***************************************************************************)
(* The PostgreSQL outbox (internal/outbox/outbox.go): a table of events and *)
(* any number of worker processes that claim batches under a lease, run one *)
(* handler transaction per event and acknowledge, retry or dead-letter it.  *)
(*                                                                         *)
(* A worker is one process run: runtime.New gives the consumer a fresh      *)
(* correlation id, so a process that went down never comes back under the   *)
(* same id and a restart is another member of Workers starting.            *)
(*                                                                         *)
(* Row locks are the ones the code takes with FOR UPDATE and holds for a    *)
(* whole transaction (Process and RecoverExhausted); the one-statement      *)
(* updates (Claim, Complete, Fail) are atomic and wait for, or skip, a row  *)
(* that is locked.                                                          *)
(***************************************************************************)
EXTENDS Naturals, FiniteSets

CONSTANTS Events,      \* the events producers may insert
          Workers,     \* process runs (consumer.workerID)
          Null,        \* no owner, no current event
          MaxAttempts, \* outbox_events.max_attempts
          Batch,       \* consumer.batchSize
          Handled      \* Handled[w]: events whose type w registered a handler for

ASSUME OutboxAssumption == /\ Null \notin Workers
                           /\ Null \notin Events
                           /\ MaxAttempts \in Nat \ {0}
                           /\ Batch \in Nat \ {0}
                           /\ Handled \in [Workers -> SUBSET Events]

VARIABLES
  status,    \* outbox_events.status, "absent" before the insert
  attempts,  \* outbox_events.attempts
  owner,     \* outbox_events.locked_by
  expired,   \* locked_until < now()
  delayed,   \* available_at > now()
  consumed,  \* outbox_consumptions of this consumer name
  pc,        \* where the worker is in ConsumeOnce
  batch,     \* the claimed events the worker still has in memory
  cur,       \* the event its loop is at
  victims,   \* rows locked by its RecoverExhausted transaction
  effects,   \* ghost: committed handler transactions per event
  runs,      \* ghost: handler invocations per event (external effects)
  ambiguous  \* ghost: events with a commit that was reported as an error

row    == <<status, attempts, owner, expired, delayed>>
worker == <<pc, batch, cur, victims>>
ghost  == <<effects, runs, ambiguous>>
vars   == <<status, attempts, owner, expired, delayed, consumed,
            pc, batch, cur, victims, effects, runs, ambiguous>>

Statuses == {"absent", "pending", "processing", "completed", "dead"}
Points   == {"unborn", "idle", "recovering", "claiming", "loop", "handling",
             "failing", "completing", "down"}

Init == /\ status    = [e \in Events |-> "absent"]
        /\ attempts  = [e \in Events |-> 0]
        /\ owner     = [e \in Events |-> Null]
        /\ expired   = [e \in Events |-> FALSE]
        /\ delayed   = [e \in Events |-> FALSE]
        /\ consumed  = {}
        /\ pc        = [w \in Workers |-> "unborn"]
        /\ batch     = [w \in Workers |-> {}]
        /\ cur       = [w \in Workers |-> Null]
        /\ victims   = [w \in Workers |-> {}]
        /\ effects   = [e \in Events |-> 0]
        /\ runs      = [e \in Events |-> 0]
        /\ ambiguous = {}

(* The row of e is locked by an open transaction: a running handler's or a *)
(* recovery's.                                                             *)
Locked(e) == \E w \in Workers : \/ pc[w] = "handling" /\ cur[w] = e
                                \/ pc[w] = "recovering" /\ e \in victims[w]

(* The claim of e by w still stands. *)
Owned(w, e) == status[e] = "processing" /\ owner[e] = w

(* The query took at most Batch of the candidate rows, and as many as it could. *)
Limited(S, candidates) == /\ S \subseteq candidates
                          /\ Cardinality(S) <= Batch
                          /\ S # candidates => Cardinality(S) = Batch

Goto(w, point) == pc' = [pc EXCEPT ![w] = point]

-----------------------------------------------------------------------------
(* The environment: producers, the passing of time, processes. *)

(* A business transaction that inserts the event commits. *)
Publish(e) == /\ status[e] = "absent"
              /\ status' = [status EXCEPT ![e] = "pending"]
              /\ UNCHANGED <<attempts, owner, expired, delayed, consumed, worker, ghost>>

LeaseExpires(e) == /\ status[e] = "processing" /\ ~expired[e]
                   /\ expired' = [expired EXCEPT ![e] = TRUE]
                   /\ UNCHANGED <<status, attempts, owner, delayed, consumed, worker, ghost>>

BecomesAvailable(e) == /\ delayed[e]
                       /\ delayed' = [delayed EXCEPT ![e] = FALSE]
                       /\ UNCHANGED <<status, attempts, owner, expired, consumed, worker, ghost>>

Start(w) == /\ pc[w] = "unborn"
            /\ Goto(w, "idle")
            /\ UNCHANGED <<row, consumed, batch, cur, victims, ghost>>

(* The process stops: killed, its context cancelled, or the database call    *)
(* it is in fails and ConsumeOnce returns the error, which ends Run and with *)
(* it the whole process.  An open transaction rolls back, a claim stays.     *)
Stop(w) == /\ pc[w] \notin {"unborn", "down"}
           /\ Goto(w, "down")
           /\ batch'   = [batch EXCEPT ![w] = {}]
           /\ cur'     = [cur EXCEPT ![w] = Null]
           /\ victims' = [victims EXCEPT ![w] = {}]
           /\ UNCHANGED <<row, consumed, ghost>>

-----------------------------------------------------------------------------
(* ConsumeOnce: recover, claim, then one event at a time. *)

(* Mutant: nobody looks for exhausted leases. *)
NothingExhaustedMutant(w) == {}

Exhausted(w) == {e \in Handled[w] : /\ status[e] = "processing" /\ expired[e]
                                    /\ attempts[e] >= MaxAttempts
                                    /\ ~Locked(e)}

(* RecoverExhausted's SELECT ... FOR UPDATE SKIP LOCKED. *)
RecoverSelect(w) ==
  /\ pc[w] = "idle"
  /\ \E S \in SUBSET Exhausted(w) :
       /\ Limited(S, Exhausted(w))
       /\ victims' = [victims EXCEPT ![w] = S]
  /\ Goto(w, "recovering")
  /\ UNCHANGED <<row, consumed, batch, cur, ghost>>

(* Mutant: the UPDATE does not look at outbox_consumptions. *)
AlwaysDeadMutant(w) ==
  /\ pc[w] = "recovering"
  /\ status' = [e \in Events |-> IF e \in victims[w] THEN "dead" ELSE status[e]]
  /\ owner'   = [e \in Events |-> IF e \in victims[w] THEN Null ELSE owner[e]]
  /\ expired' = [e \in Events |-> expired[e] /\ e \notin victims[w]]
  /\ victims' = [victims EXCEPT ![w] = {}]
  /\ Goto(w, "claiming")
  /\ UNCHANGED <<attempts, delayed, consumed, batch, cur, ghost>>

(* Its UPDATE, which reads the consumptions in a fresh snapshot. *)
RecoverApply(w) ==
  /\ pc[w] = "recovering"
  /\ status' = [e \in Events |-> IF e \notin victims[w] THEN status[e]
                                 ELSE IF e \in consumed THEN "completed" ELSE "dead"]
  /\ owner'   = [e \in Events |-> IF e \in victims[w] THEN Null ELSE owner[e]]
  /\ expired' = [e \in Events |-> expired[e] /\ e \notin victims[w]]
  /\ victims' = [victims EXCEPT ![w] = {}]
  /\ Goto(w, "claiming")
  /\ UNCHANGED <<attempts, delayed, consumed, batch, cur, ghost>>

Claimable(w) == {e \in Handled[w] : /\ attempts[e] < MaxAttempts
                                    /\ ~delayed[e]
                                    /\ \/ status[e] = "pending"
                                       \/ status[e] = "processing" /\ expired[e]
                                    /\ ~Locked(e)}

(* Mutant: a reclaimed event does not use up an attempt. *)
FreeReclaimMutant(w) ==
  /\ pc[w] = "claiming"
  /\ \E S \in SUBSET Claimable(w) :
       /\ Limited(S, Claimable(w))
       /\ status'   = [e \in Events |-> IF e \in S THEN "processing" ELSE status[e]]
       /\ attempts' = [e \in Events |-> IF e \in S /\ status[e] = "pending"
                                        THEN attempts[e] + 1 ELSE attempts[e]]
       /\ owner'    = [e \in Events |-> IF e \in S THEN w ELSE owner[e]]
       /\ expired'  = [e \in Events |-> expired[e] /\ e \notin S]
       /\ batch'    = [batch EXCEPT ![w] = S]
  /\ Goto(w, "loop")
  /\ UNCHANGED <<delayed, consumed, cur, victims, ghost>>

Claim(w) ==
  /\ pc[w] = "claiming"
  /\ \E S \in SUBSET Claimable(w) :
       /\ Limited(S, Claimable(w))
       /\ status'   = [e \in Events |-> IF e \in S THEN "processing" ELSE status[e]]
       /\ attempts' = [e \in Events |-> IF e \in S THEN attempts[e] + 1 ELSE attempts[e]]
       /\ owner'    = [e \in Events |-> IF e \in S THEN w ELSE owner[e]]
       /\ expired'  = [e \in Events |-> expired[e] /\ e \notin S]
       /\ batch'    = [batch EXCEPT ![w] = S]
  /\ Goto(w, "loop")
  /\ UNCHANGED <<delayed, consumed, cur, victims, ghost>>

BatchDone(w) == /\ pc[w] = "loop" /\ batch[w] = {}
                /\ Goto(w, "idle")
                /\ UNCHANGED <<row, consumed, batch, cur, victims, ghost>>

(* Mutant: Process does not look for an earlier consumption. *)
ForgetfulProcessMutant(w) ==
  /\ pc[w] = "loop"
  /\ \E e \in batch[w] :
       /\ ~Locked(e)
       /\ cur'   = [cur EXCEPT ![w] = e]
       /\ batch' = [batch EXCEPT ![w] = @ \ {e}]
       /\ IF Owned(w, e) THEN Goto(w, "handling") /\ runs' = [runs EXCEPT ![e] = @ + 1]
                         ELSE Goto(w, "failing") /\ UNCHANGED runs
  /\ UNCHANGED <<row, consumed, victims, effects, ambiguous>>

(* Process begins its transaction: lock the row, check the owner, look for an *)
(* earlier consumption, and only then call the handler.                       *)
BeginProcess(w) ==
  /\ pc[w] = "loop"
  /\ \E e \in batch[w] :
       /\ ~Locked(e)
       /\ cur'   = [cur EXCEPT ![w] = e]
       /\ batch' = [batch EXCEPT ![w] = @ \ {e}]
       /\ \/ ~Owned(w, e) /\ Goto(w, "failing") /\ UNCHANGED runs
          \/ Owned(w, e) /\ e \in consumed /\ Goto(w, "completing") /\ UNCHANGED runs
          \/ /\ Owned(w, e) /\ e \notin consumed
             /\ Goto(w, "handling")
             /\ runs' = [runs EXCEPT ![e] = @ + 1]
  /\ UNCHANGED <<row, consumed, victims, effects, ambiguous>>

(* The handler returns nil; its writes and the consumption commit together. *)
Commit(w) ==
  /\ consumed' = consumed \cup {cur[w]}
  /\ effects'  = [effects EXCEPT ![cur[w]] = @ + 1]
  /\ UNCHANGED <<row, batch, cur, victims, runs>>

HandlerCommits(w) == /\ pc[w] = "handling"
                     /\ Commit(w)
                     /\ Goto(w, "completing")
                     /\ UNCHANGED ambiguous

(* The commit happened but the connection broke before the answer: Process *)
(* returns an error for an event that is consumed.                         *)
CommitAnswerLost(w) == /\ pc[w] = "handling"
                       /\ Commit(w)
                       /\ Goto(w, "failing")
                       /\ ambiguous' = ambiguous \cup {cur[w]}

(* Mutant: a handler's error is swallowed. *)
SwallowedErrorMutant(w) == /\ pc[w] = "handling"
                           /\ Goto(w, "completing")
                           /\ UNCHANGED <<row, consumed, batch, cur, victims, ghost>>

(* The handler or the commit fails, the transaction rolls back. *)
HandlerFails(w) == /\ pc[w] = "handling"
                   /\ Goto(w, "failing")
                   /\ UNCHANGED <<row, consumed, batch, cur, victims, ghost>>

(* Fail gives the row back for a retry, or dead-letters it. *)
Fail(w) ==
  LET e == cur[w] IN
  /\ pc[w] = "failing" /\ ~Locked(e) /\ Owned(w, e)
  /\ status'  = [status EXCEPT ![e] = IF attempts[e] >= MaxAttempts THEN "dead" ELSE "pending"]
  /\ delayed' = [delayed EXCEPT ![e] = attempts[e] < MaxAttempts]
  /\ owner'   = [owner EXCEPT ![e] = Null]
  /\ expired' = [expired EXCEPT ![e] = FALSE]
  /\ cur'     = [cur EXCEPT ![w] = Null]
  /\ Goto(w, "loop")
  /\ UNCHANGED <<attempts, consumed, batch, victims, ghost>>

Complete(w) ==
  LET e == cur[w] IN
  /\ pc[w] = "completing" /\ ~Locked(e) /\ Owned(w, e)
  /\ status'  = [status EXCEPT ![e] = "completed"]
  /\ owner'   = [owner EXCEPT ![e] = Null]
  /\ expired' = [expired EXCEPT ![e] = FALSE]
  /\ cur'     = [cur EXCEPT ![w] = Null]
  /\ Goto(w, "loop")
  /\ UNCHANGED <<attempts, delayed, consumed, batch, victims, ghost>>

(* Fail and Complete match no row when the claim is gone; ConsumeOnce returns *)
(* the error and the process stops.                                           *)
LeaseLost(w) ==
  /\ pc[w] \in {"failing", "completing"} /\ ~Locked(cur[w]) /\ ~Owned(w, cur[w])
  /\ Goto(w, "down")
  /\ batch' = [batch EXCEPT ![w] = {}]
  /\ cur'   = [cur EXCEPT ![w] = Null]
  /\ UNCHANGED <<row, consumed, victims, ghost>>

Step(w) == \/ RecoverSelect(w) \/ RecoverApply(w) \/ Claim(w) \/ BatchDone(w)
           \/ BeginProcess(w) \/ HandlerCommits(w) \/ CommitAnswerLost(w)
           \/ HandlerFails(w) \/ Fail(w) \/ Complete(w) \/ LeaseLost(w)

Next == \/ \E e \in Events : Publish(e) \/ LeaseExpires(e) \/ BecomesAvailable(e)
        \/ \E w \in Workers : Start(w) \/ Stop(w) \/ Step(w)

Spec == Init /\ [][Next]_vars

(* Time passes and a running process keeps executing: ConsumeOnce is called   *)
(* on every tick, and a handler returns because its HTTP and SQL calls carry  *)
(* timeouts.  Nothing forces a process to start or to stay up.                *)
Fairness == /\ \A e \in Events : WF_vars(LeaseExpires(e)) /\ WF_vars(BecomesAvailable(e))
            /\ \A w \in Workers : WF_vars(Step(w))

FairSpec == Spec /\ Fairness

-----------------------------------------------------------------------------
TypeOK == /\ status \in [Events -> Statuses]
          /\ attempts \in [Events -> 0..MaxAttempts]
          /\ owner \in [Events -> Workers \cup {Null}]
          /\ expired \in [Events -> BOOLEAN]
          /\ delayed \in [Events -> BOOLEAN]
          /\ consumed \subseteq Events
          /\ pc \in [Workers -> Points]
          /\ batch \in [Workers -> SUBSET Events]
          /\ cur \in [Workers -> Events \cup {Null}]
          /\ victims \in [Workers -> SUBSET Events]
          /\ effects \in [Events -> Nat]
          /\ runs \in [Events -> Nat]
          /\ ambiguous \subseteq Events
          /\ \A w \in Workers :
               cur[w] # Null <=> pc[w] \in {"handling", "failing", "completing"}

(* However often an event is delivered, its handler's transaction commits at *)
(* most once, exactly when its consumption is recorded (Process, 157-176).   *)
ExactlyOnce == \A e \in Events : effects[e] = IF e \in consumed THEN 1 ELSE 0

(* While a handler runs, its worker still owns the row, whatever happened to *)
(* the lease's time: nobody reclaims or dead-letters work in progress        *)
(* (the FOR UPDATE of Process against SKIP LOCKED of Claim and recovery).    *)
HandlerOwnsRow ==
  \A w \in Workers : pc[w] = "handling" =>
    /\ Owned(w, cur[w])
    /\ cur[w] \notin consumed
    /\ \A v \in Workers : pc[v] = "recovering" => cur[w] \notin victims[v]

(* A handler, with the external calls it makes, is invoked at most once per  *)
(* claim, so never more often than max_attempts.                             *)
InvocationsBounded == \A e \in Events : runs[e] <= attempts[e]

(* An event is acknowledged only after its effects were committed. *)
CompletedWasConsumed == \A e \in Events : status[e] = "completed" => e \in consumed

(* An event is dead-lettered with its effects committed only if the answer   *)
(* to a commit was lost; a crash between Process and Complete, even at the   *)
(* last attempt, is recovered as completed (RecoverExhausted, 79-91).        *)
DeadHasNoEffect == \A e \in Events :
                     status[e] = "dead" /\ e \in consumed => e \in ambiguous

(* The facts that make the above inductive.                                *)
(*   - rows locked by a recovery are still processing, are locked by one     *)
(*     recovery only and are never a running handler's;                     *)
(*   - a worker that is about to complete an event has seen it consumed;     *)
(*   - a worker that is about to fail an event it owns either rolled back or *)
(*     lost the commit's answer;                                            *)
(*   - a claimed event that was not processed yet has an attempt to spare,   *)
(*     and a worker that is not in its loop has no claimed event in memory.  *)
RecoveryLocks ==
  \A w \in Workers : \A e \in victims[w] :
    /\ pc[w] = "recovering"
    /\ status[e] = "processing"
    /\ \A v \in Workers : e \in victims[v] => v = w

CompletingConsumed == \A w \in Workers : pc[w] = "completing" => cur[w] \in consumed

FailingRolledBack ==
  \A w \in Workers : pc[w] = "failing" /\ Owned(w, cur[w]) /\ cur[w] \in consumed
                       => cur[w] \in ambiguous

ClaimsHaveAttempts ==
  \A w \in Workers :
    /\ pc[w] \in {"unborn", "idle", "recovering", "claiming", "down"} => batch[w] = {}
    /\ \A e \in batch[w] : Owned(w, e) => runs[e] < attempts[e]

NothingBeforeInsert == \A e \in Events : status[e] = "absent" => e \notin consumed

OutboxInv == /\ TypeOK
             /\ ExactlyOnce
             /\ HandlerOwnsRow
             /\ InvocationsBounded
             /\ CompletedWasConsumed
             /\ DeadHasNoEffect
             /\ RecoveryLocks
             /\ CompletingConsumed
             /\ FailingRolledBack
             /\ ClaimsHaveAttempts
             /\ NothingBeforeInsert

(* The last attempt decides: an event that waits for another delivery has an   *)
(* attempt left, or nobody would ever claim or recover it, and one that is     *)
(* given up has used them all (the "<" of Claim against the ">=" of Fail and   *)
(* of RecoverExhausted).                                                      *)
AttemptsDecide == \A e \in Events : /\ status[e] = "pending" => attempts[e] < MaxAttempts
                                    /\ status[e] = "dead" => attempts[e] = MaxAttempts

(* Attempts are neither exceeded, nor wasted, nor left over. *)
AttemptsAreSpent == InvocationsBounded /\ AttemptsDecide

(* Inductive with this: what is about to be recovered is still exhausted. *)
VictimsExhausted == \A w \in Workers : \A e \in victims[w] : attempts[e] = MaxAttempts

NoAttemptBeforeInsert == \A e \in Events : status[e] = "absent" => attempts[e] = 0

AttemptsInv == OutboxInv /\ AttemptsDecide /\ VictimsExhausted /\ NoAttemptBeforeInsert

(* Completed and dead events stay as they are: no late Complete, Fail, claim *)
(* or recovery of a stale worker moves them.                                 *)
SettledForever == [][\A e \in Events :
                       status[e] \in {"completed", "dead"} => status'[e] = status[e]]_vars

(* An inserted event that some worker handles is eventually completed or     *)
(* dead-lettered, if from some time on a worker that handles it stays up.    *)
Settles == \A e \in Events :
             <>[](\E w \in Workers : e \in Handled[w] /\ pc[w] \notin {"unborn", "down"})
               => (status[e] = "pending" ~> status[e] \in {"completed", "dead"})

(* The outbox as its producers see it. *)
JobOf(s) == IF s = "absent" THEN "none"
            ELSE IF s = "completed" THEN "done"
            ELSE IF s = "dead" THEN "dead" ELSE "waiting"

Job == [e \in Events |-> JobOf(status[e])]

Promise == INSTANCE Delivery WITH job <- Job, applied <- consumed

(* Leases, retries and crashes implement at-most-once application with       *)
(* acknowledgement only after application.                                   *)
ImplementsDelivery == Promise!DSpec
=============================================================================
