---------------------------- MODULE TriggerProofs ----------------------------
(***************************************************************************)
(* Proofs about TaskTrigger for any instances, callers, versions, limits   *)
(* and occurrences.                                                        *)
(***************************************************************************)
EXTENDS TaskTrigger, FiniteSetTheorems, TLAPS

(* Division by the length of a minute. *)
LEMMA Division ==
  ASSUME NEW t \in Nat
  PROVE  /\ t = Minute * (t \div Minute) + (t % Minute)
         /\ t \div Minute \in Nat /\ t % Minute \in 0..(Minute - 1)
<1>1. Minute \in Nat /\ Minute > 0
  BY TriggerAssumption
<1> QED
  BY <1>1

(* The present minute began at most a minute ago. *)
LEMMA FloorIsNear == ASSUME NEW t \in Nat
                     PROVE  Floor(t) \in 0..t /\ t - Minute < Floor(t)
<1>1. Minute \in Nat /\ Minute > 0
  BY TriggerAssumption
<1>2. Minute * (t \div Minute) \in Nat
  BY <1>1, Division
<1> QED
  BY <1>1, <1>2, Division DEF Floor

(* An occurrence of the last minute, its two ends included, is in time. *)
LEMMA RecentIsInTime ==
  ASSUME NEW s, now[s] \in Nat, Evaluated,
         NEW m \in Occurrences, m <= now[s], m >= Deadline(now[s])
  PROVE  m \in InTime(s)
<1> DEFINE t == now[s]
           a == m \div Minute
           b == t \div Minute
<1>1. Minute \in Nat /\ Minute > 0 /\ m \in Nat /\ m % Minute = 0 /\ t \in Nat
  BY TriggerAssumption DEF Occurrences
<1>2. t = Minute * b + (t % Minute) /\ b \in Nat /\ t % Minute \in 0..(Minute - 1)
  BY <1>1, Division
<1>3. m = Minute * a /\ a \in Nat
  <2>1. m = Minute * a + (m % Minute) /\ a \in Nat
    BY <1>1, Division
  <2>2. Minute * a \in Nat
    BY <1>1, <2>1
  <2> QED
    BY <1>1, <2>1, <2>2
<1> HIDE DEF a, b
<1>4. a <= b
  <2>1. CASE a >= b + 1
    <3>1. Minute * a >= Minute * (b + 1)
      BY <1>1, <1>2, <1>3, <2>1
    <3>2. Minute * (b + 1) = Minute * b + Minute
      BY <1>1, <1>2
    <3> QED
      BY <3>1, <3>2, <1>1, <1>2, <1>3
  <2> QED
    BY <2>1, <1>2, <1>3
<1>5. a >= b - 1
  <2>1. CASE a <= b - 2
    <3>1. Minute * a <= Minute * (b - 2)
      BY <1>1, <1>2, <1>3, <2>1
    <3>2. Minute * (b - 2) = Minute * b - 2 * Minute
      BY <1>1, <1>2
    <3> QED
      BY <3>1, <3>2, <1>1, <1>2, <1>3 DEF Deadline
  <2> QED
    BY <2>1, <1>2, <1>3
<1>6. CASE a = b
  BY <1>6, <1>1, <1>2, <1>3 DEF InTime, Floor
<1>7. CASE a = b - 1
  <2>1. Minute * (b - 1) = Minute * b - Minute
    BY <1>1, <1>2
  <2> QED
    BY <2>1, <1>7, <1>1, <1>2, <1>3 DEF InTime, Floor
<1> QED
  BY <1>4, <1>5, <1>6, <1>7, <1>2, <1>3

(* A minute that is due began at most sixty seconds ago and is after the cursor. *)
LEMMA DueIsRecent ==
  ASSUME NEW s, now[s] \in Nat, NEW m \in Due(s)
  PROVE  /\ m <= now[s] /\ m >= Deadline(now[s]) /\ m > cursor /\ m \notin DOMAIN records
         /\ m \in Cron[found[s]] /\ m \in {Floor(now[s]), Floor(now[s]) - Minute}
<1>1. /\ Minute \in Nat /\ Minute > 0 /\ Floor(now[s]) \in 0..now[s]
      /\ now[s] - Minute < Floor(now[s])
  BY FloorIsNear, TriggerAssumption
<1>2. m \in InTime(s) /\ m > cursor /\ m \notin DOMAIN records /\ m \in Cron[found[s]]
  BY DEF Due
<1>3. CASE m = Floor(now[s])
  BY <1>1, <1>2, <1>3 DEF Deadline
<1>4. CASE m = Floor(now[s]) - Minute /\ m >= Deadline(now[s])
  BY <1>1, <1>2, <1>4
<1> QED
  BY <1>2, <1>3, <1>4 DEF InTime

-----------------------------------------------------------------------------
(* What an evaluation plans is typed. *)
LEMMA PlansTyped ==
  /\ Nothing \in Audits
  /\ \A D \in SUBSET Occurrences : \A f \in [D -> Outcomes] : f \in Audits
<1>1. {} \in SUBSET Occurrences /\ Nothing \in [{} -> Outcomes]
  BY DEF Nothing
<1>2. \A D \in SUBSET Occurrences : \A f \in [D -> Outcomes] : f \in Audits
  BY DEF Audits
<1> QED
  BY <1>1, <1>2

(* Adding the runs of a set of keys keeps the runs finite. *)
LEMMA RunsAdded ==
  ASSUME NEW p, NEW K, IsFiniteSet(K), NEW new, new = {NewRun(p, k) : k \in K}
  PROVE  IsFiniteSet(new) /\ Cardinality(new) <= Cardinality(K)
<1> DEFINE f == [k \in K |-> NewRun(p, k)]
<1>1. f \in Surjection(K, new)
  BY DEF Surjection
<1> QED
  BY <1>1, FS_Surjection

LEMMA OccurrencesFinite == ASSUME NEW D, D \subseteq Occurrences
                           PROVE  IsFiniteSet(D) /\ D \subseteq Nat
<1>1. IsFiniteSet(0..MaxClock)
  BY FS_Interval, TriggerAssumption
<1>2. D \in SUBSET (0..MaxClock)
  BY DEF Occurrences
<1>3. IsFiniteSet(D)
  BY <1>1, <1>2, FS_Subset
<1> QED
  BY <1>2, <1>3

(* The variables keep their types. *)
LEMMA TypeStep == TypeOK /\ SchedulesDecided /\ CallsDecided /\ [Next]_vars => TypeOK'
<1> SUFFICES ASSUME TypeOK, SchedulesDecided, CallsDecided, [Next]_vars PROVE TypeOK'
  OBVIOUS
<1>0. /\ Minute \in Nat /\ Minute > 0 /\ MaxClock \in Nat /\ MaxChanges \in Nat /\ MaxAborts \in Nat
      /\ LastVersion \in Nat /\ version \in Versions /\ Versions \subseteq Nat /\ clock \in 0..MaxClock
      /\ Cron \in [Versions -> SUBSET Occurrences]
  BY TriggerAssumption DEF TypeOK, Versions
<1>a. ASSUME NEW p \in Procs, NEW to \in {"idle", "done"}, Return(p, to)
      PROVE  /\ pc' \in [Procs -> {"idle", "found", "sampled", "decided", "done"}]
             /\ found' \in [Procs -> {None} \cup Versions]
             /\ now' \in [Procs -> 0..MaxClock] /\ plan' \in [Procs -> Audits]
  BY <1>a, <1>0, PlansTyped DEF Return, TypeOK
<1> USE DEF Procs
<1>1. ASSUME NEW s \in Schedulers, Discover(s) \/ Sample(s) PROVE TypeOK'
  BY <1>1, <1>0 DEF Discover, Sample, TypeOK, task, audit
<1>2. ASSUME NEW s \in Schedulers, GiveUp(s) PROVE TypeOK'
  BY <1>2, <1>a DEF GiveUp, TypeOK, task, audit
<1>3. ASSUME NEW s \in Schedulers, Evaluate(s) PROVE TypeOK'
  <2>1. found[s] = version
    BY <1>3 DEF Evaluate, Superseded
  <2>2. Due(s) \subseteq Occurrences
    BY <2>1, <1>0 DEF Due
  <2>3. [m \in Due(s) |-> Outcome(s, m)] \in Audits
    BY <2>2, PlansTyped DEF Outcome, Outcomes
  <2>4. plan' \in [Procs -> Audits]
    BY <2>3, <1>3, PlansTyped DEF Evaluate, TypeOK
  <2> QED
    BY <2>4, <1>3 DEF Evaluate, TypeOK, task, audit
<1>4. ASSUME NEW s \in Schedulers, FinishSchedule(s) PROVE TypeOK'
  <2> DEFINE K == {d \in DOMAIN plan[s] : plan[s][d] = "accepted" /\ ~Known(d)}
             new == {NewRun(s, m) : m \in K}
  <2>1. /\ status = "active" /\ found[s] = version /\ now[s] \in 0..MaxClock /\ plan[s] \in Audits
    BY <1>4 DEF FinishSchedule, SchedulesDecided, TypeOK
  <2>2. DOMAIN plan[s] \subseteq Occurrences /\ \A m \in DOMAIN plan[s] : plan[s][m] \in Outcomes
    BY <2>1 DEF Audits
  <2>3. DOMAIN records \subseteq Occurrences /\ \A m \in DOMAIN records : records[m] \in Outcomes
    BY DEF Audits, TypeOK
  <2>4. records' \in Audits
    BY <1>4, <2>2, <2>3, PlansTyped DEF FinishSchedule
  <2>5. K \subseteq Occurrences /\ IsFiniteSet(K)
    BY <2>2, OccurrencesFinite
  <2>6. IsFiniteSet(new)
    <3> HIDE DEF K
    <3> QED
      BY <2>5, RunsAdded
  <2>7. Cardinality(runs) \in Nat
    BY FS_CardinalityType DEF TypeOK
  <2>8. new \subseteq Runs
    BY <2>1, <2>5, <2>7, <1>0 DEF NewRun, Runs, Keys
  <2>9. runs' = runs \cup new
    BY <1>4 DEF FinishSchedule
  <2>10. runs' \subseteq Runs /\ IsFiniteSet(runs') /\ ended' \subseteq runs'
    <3> HIDE DEF new
    <3>1. ended' = ended /\ IsFiniteSet(runs) /\ runs \subseteq Runs /\ ended \subseteq runs
      BY <1>4 DEF FinishSchedule, TypeOK
    <3>2. IsFiniteSet(runs \cup new)
      BY <2>6, <3>1, FS_Union
    <3> QED
      BY <2>8, <2>9, <3>1, <3>2
  <2>11. missed' \subseteq (0..MaxClock) \X (0..MaxClock)
    BY <1>4, <2>1, <1>0 DEF FinishSchedule, Gap, Deadline, Evaluated, Never, TypeOK
  <2>12. Floor(now[s]) \in 0..MaxClock
    BY <2>1, FloorIsNear, <1>0
  <2>13. invalid' \subseteq Versions \X (0..MaxClock)
    BY <1>4, <2>12, <1>0 DEF FinishSchedule, TypeOK
  <2> QED
    BY <1>4, <2>1, <2>4, <2>10, <2>11, <2>13, <1>a DEF FinishSchedule, TypeOK, task
<1>5. ASSUME NEW c \in Callers, Ask(c) PROVE TypeOK'
  BY <1>5, <1>0 DEF Ask, TypeOK, task, audit
<1>6. ASSUME NEW c \in Callers, Hear(c) PROVE TypeOK'
  BY <1>6, <1>0, <1>a DEF Hear, TypeOK, task, audit
<1>7. ASSUME NEW c \in Callers, Decide(c) PROVE TypeOK'
  BY <1>7, <1>0 DEF Decide, TypeOK, task, audit
<1>8. ASSUME NEW c \in Callers, Refuse(c) PROVE TypeOK'
  BY <1>8, <1>a DEF Refuse, TypeOK, task, audit
<1>9. ASSUME NEW c \in Callers, FinishCall(c) PROVE TypeOK'
  <2>1. found[c] = version
    BY <1>9 DEF FinishCall, CallsDecided
  <2>2. Cardinality(runs) \in Nat
    BY FS_CardinalityType DEF TypeOK
  <2>3. NewRun(c, Key[c]) \in Runs
    BY <2>1, <2>2, <1>0 DEF NewRun, Runs, Keys
  <2>4. IsFiniteSet(runs')
    BY <1>9, FS_AddElement DEF FinishCall, TypeOK
  <2> QED
    BY <1>9, <2>3, <2>4, <1>a DEF FinishCall, TypeOK, task, audit
<1>10. ASSUME NEW p \in Procs, Abort(p) PROVE TypeOK'
  BY <1>10, <1>a, <1>0 DEF Abort, TypeOK, task, audit
<1>11. ASSUME Tick \/ Publish \/ SetState \/ Revoke PROVE TypeOK'
  <2>1. authorized' \in BOOLEAN
    BY <1>11 DEF Tick, Publish, SetState, Revoke, TypeOK, task
  <2>2. CASE Tick
    BY <2>2, <1>0 DEF Tick, TypeOK, task, audit, local
  <2>3. CASE Publish \/ SetState \/ Revoke
    BY <2>1, <2>3, <1>0 DEF Publish, SetState, Revoke, TypeOK, audit, local
  <2> QED
    BY <1>11, <2>2, <2>3
<1>12. ASSUME NEW r \in runs, RunEnds(r) PROVE TypeOK'
  BY <1>12 DEF RunEnds, TypeOK, task, audit, local
<1>13. CASE UNCHANGED vars
  BY <1>13 DEF vars, TypeOK, task, audit, local
<1> QED
  BY <1>1, <1>2, <1>3, <1>4, <1>5, <1>6, <1>7, <1>8, <1>9, <1>10, <1>11, <1>12, <1>13
  DEF Next, SchedulerStep, CallerStep

-----------------------------------------------------------------------------
(* A step without the lock leaves alone what the lock protects, and what the *)
(* one who holds it has decided.                                             *)
Quiet ==
  /\ UNCHANGED <<task, audit, runs, lock>> /\ ended \subseteq ended' /\ clock' \in {clock, clock + 1}
  /\ \A p \in Procs : /\ pc[p] = "decided" <=> pc'[p] = "decided"
                      /\ pc[p] = "decided" => /\ found'[p] = found[p] /\ now'[p] = now[p]
                                              /\ plan'[p] = plan[p]
                      /\ now'[p] \in {0, now[p], clock}

LEMMA StepKinds ==
  ASSUME TypeOK, [Next]_vars
  PROVE  \/ Quiet
         \/ Publish \/ SetState \/ Revoke
         \/ \E s \in Schedulers : Evaluate(s) \/ FinishSchedule(s)
         \/ \E c \in Callers : Decide(c) \/ FinishCall(c)
         \/ \E p \in Procs : Abort(p)
<1>0. /\ clock \in Nat /\ pc \in [Procs -> {"idle", "found", "sampled", "decided", "done"}]
      /\ DOMAIN found = Procs /\ DOMAIN now = Procs /\ DOMAIN plan = Procs
  BY TriggerAssumption DEF TypeOK
<1> USE <1>0 DEF Quiet, Procs
<1>1. ASSUME NEW s \in Schedulers, Discover(s) \/ Sample(s) PROVE Quiet
  BY <1>1 DEF Discover, Sample
<1>2. ASSUME NEW s \in Schedulers, GiveUp(s) PROVE Quiet
  BY <1>2 DEF GiveUp, Return
<1>3. ASSUME NEW c \in Callers, Ask(c) PROVE Quiet
  BY <1>3 DEF Ask
<1>4. ASSUME NEW c \in Callers, Hear(c) PROVE Quiet
  BY <1>4 DEF Hear, Return
<1>5. ASSUME NEW c \in Callers, Refuse(c) PROVE Quiet
  BY <1>5 DEF Refuse, Return
<1>6. CASE Tick
  BY <1>6 DEF Tick, local
<1>7. ASSUME NEW r \in runs, RunEnds(r) PROVE Quiet
  BY <1>7 DEF RunEnds, local
<1>8. CASE UNCHANGED vars
  BY <1>8 DEF vars, local
<1> QED
  BY <1>1, <1>2, <1>3, <1>4, <1>5, <1>6, <1>7, <1>8 DEF Next, SchedulerStep, CallerStep

(* The lock is held exactly while something is decided and not committed. *)
LEMMA LockStep == TypeOK /\ LockFollowsControl /\ [Next]_vars => LockFollowsControl'
<1> SUFFICES ASSUME TypeOK, LockFollowsControl, [Next]_vars PROVE LockFollowsControl'
  OBVIOUS
<1>0. None \notin Procs /\ pc \in [Procs -> {"idle", "found", "sampled", "decided", "done"}]
  BY TriggerAssumption DEF TypeOK
<1> USE <1>0 DEF LockFollowsControl
<1>1. CASE Quiet
  BY <1>1 DEF Quiet
<1>2. CASE Publish \/ SetState \/ Revoke
  BY <1>2 DEF Publish, SetState, Revoke, local
<1>3. ASSUME NEW p \in Procs, Evaluate(p) \/ Decide(p) PROVE LockFollowsControl'
  BY <1>3 DEF Evaluate, Decide, LockFree
<1>4. ASSUME NEW p \in Procs, FinishSchedule(p) \/ FinishCall(p) \/ Abort(p)
      PROVE  LockFollowsControl'
  BY <1>4 DEF FinishSchedule, FinishCall, Abort, Return
<1> QED
  BY <1>1, <1>2, <1>3, <1>4, StepKinds DEF Procs

(* Time: records lie behind the cursor, the cursor behind the clock. *)
LEMMA PastStep ==
  TypeOK /\ PastIsBehind /\ SchedulesDecided /\ [Next]_vars => PastIsBehind'
<1> SUFFICES ASSUME TypeOK, PastIsBehind, SchedulesDecided, [Next]_vars PROVE PastIsBehind'
  OBVIOUS
<1>0. /\ clock \in Nat /\ cursor \in Int /\ now \in [Procs -> Nat]
      /\ records \in Audits /\ missed \subseteq Int \X Int
      /\ Minute \in Nat /\ Minute > 0 /\ Cron \in [Versions -> SUBSET Occurrences]
  BY TriggerAssumption DEF TypeOK, Never
<1>a. \A m \in DOMAIN records : m \in Int
  BY <1>0, TriggerAssumption DEF Audits, Occurrences
<1>b. ASSUME NEW p \in Procs, NEW to, Return(p, to) PROVE \A q \in Procs : now'[q] \in {0, now[q]}
  BY <1>b, <1>0 DEF Return
<1>1. CASE Quiet
  BY <1>1, <1>0, <1>a DEF Quiet, PastIsBehind, audit
<1>2. CASE Publish \/ SetState \/ Revoke
  BY <1>2 DEF Publish, SetState, Revoke, local, audit, PastIsBehind
<1>3. ASSUME NEW p \in Procs, Evaluate(p) \/ Decide(p) PROVE PastIsBehind'
  BY <1>3 DEF Evaluate, Decide, PastIsBehind, audit
<1>4. ASSUME NEW p \in Procs, FinishCall(p) \/ Abort(p) PROVE PastIsBehind'
  BY <1>4, <1>b, <1>0 DEF FinishCall, Abort, PastIsBehind, audit
<1>5. ASSUME NEW s \in Schedulers, FinishSchedule(s) PROVE PastIsBehind'
  <2>1. s \in Procs /\ now[s] \in Nat /\ cursor <= now[s] /\ now[s] <= clock
    BY <1>5, <1>0 DEF FinishSchedule, SchedulesDecided, Procs, PastIsBehind
  <2>2. cursor' = now[s] /\ clock' = clock
    BY <1>5 DEF FinishSchedule
  <2>3. \A m \in DOMAIN plan[s] : m <= now[s]
    BY <1>5, <2>1, DueIsRecent DEF FinishSchedule, SchedulesDecided
  <2>4. \A m \in DOMAIN records' : m <= cursor'
    BY <1>5, <2>1, <2>2, <2>3, <1>0, <1>a DEF FinishSchedule, PastIsBehind
  <2>5. \A i \in missed' : i[1] < i[2] /\ i[2] <= cursor'
    BY <1>5, <2>1, <2>2, <1>0 DEF FinishSchedule, PastIsBehind, Gap, Deadline
  <2>6. \A q \in Procs : now'[q] <= clock'
    BY <1>5, <2>1, <2>2, <1>b, <1>0 DEF FinishSchedule, PastIsBehind
  <2> QED
    BY <2>1, <2>2, <2>4, <2>5, <2>6 DEF PastIsBehind
<1> QED
  BY <1>1, <1>2, <1>3, <1>4, <1>5, StepKinds DEF Procs

(* Under the lock nothing else is inserted, so the count only falls. *)
LEMMA QuietCount ==
  ASSUME TypeOK, runs' = runs, ended \subseteq ended'
  PROVE  Occupied \in Nat /\ Occupied' \in Nat /\ Occupied' <= Occupied
<1>1. IsFiniteSet(Active)
  BY FS_Subset DEF TypeOK, Active
<1>2. Active' \in SUBSET Active
  BY DEF Active
<1> QED
  BY <1>1, <1>2, FS_Subset, FS_CardinalityType DEF Occupied

(* Accepting in the order of the minutes keeps to the limit. *)
LEMMA AcceptedFit ==
  ASSUME NEW a \in Int, NEW b \in Int, b < a, NEW D, D \subseteq {a, b}, NEW S, S \subseteq D,
  S # {},
         NEW n \in Nat, NEW limit \in Nat,
         \A m \in S : n + Cardinality({e \in D : e < m}) < limit
  PROVE  n + Cardinality(S) <= limit
<1>1. /\ IsFiniteSet({a, b}) /\ IsFiniteSet({b}) /\ Cardinality({b}) = 1
      /\ Cardinality({a, b}) = 2
  <2>1. IsFiniteSet({b}) /\ Cardinality({b}) = 1
    BY FS_Singleton
  <2>2. a \notin {b} /\ {a, b} = {b} \cup {a}
    OBVIOUS
  <2> QED
    BY <2>1, <2>2, FS_AddElement
<1>2. \A T \in SUBSET {a, b} : IsFiniteSet(T) /\ Cardinality(T) \in Nat
  BY <1>1, FS_Subset, FS_CardinalityType
<1>3. CASE a \in S /\ b \in S
  <2>1. D = {a, b} /\ S = {a, b}
    BY <1>3
  <2>2. {e \in {a, b} : e < a} = {b}
    OBVIOUS
  <2>3. n + Cardinality({e \in D : e < a}) < limit
    BY <1>3
  <2> QED
    BY <2>1, <2>2, <2>3, <1>1
<1>4. CASE ~(a \in S /\ b \in S)
  <2>1. PICK x \in S : S = {x}
    BY <1>4
  <2>2. Cardinality(S) = 1
    BY <2>1, FS_Singleton
  <2>3. Cardinality({e \in D : e < x}) \in Nat
    BY <1>2
  <2> QED
    BY <2>1, <2>2, <2>3
<1> QED
  BY <1>3, <1>4

(* What an instance decided holds until it commits. *)
LEMMA SchedulesStep ==
  TypeOK /\ LockFollowsControl /\ LockFollowsControl' /\ PastIsBehind /\ AuditIsTrue
    /\ SchedulesDecided /\ [Next]_vars => SchedulesDecided'
<1> SUFFICES ASSUME TypeOK, LockFollowsControl, LockFollowsControl', PastIsBehind, AuditIsTrue,
                    SchedulesDecided, [Next]_vars,
                    NEW s \in Schedulers, pc'[s] = "decided"
             PROVE  /\ status' = "active" /\ found'[s] = version' /\ cursor' <= now'[s]
                    /\ DOMAIN plan'[s] = IF Kind[version'] = "invalid" THEN {} ELSE Due(s)'
                    /\ Accepted(s)' # {} =>
                         /\ authorized'
                         /\ Occupied' + Cardinality(Accepted(s)') <= Limit[version']
  BY DEF SchedulesDecided
<1>0. /\ None \notin Procs /\ s \in Procs /\ s \notin Callers
      /\ Minute \in Nat /\ Minute > 0 /\ Limit \in [Versions -> Nat \ {0}] /\ version \in Versions
      /\ now \in [Procs -> Nat] /\ cursor \in Int /\ plan \in [Procs -> Audits]
      /\ pc \in [Procs -> {"idle", "found", "sampled", "decided", "done"}]
  BY TriggerAssumption DEF Procs, TypeOK, Never
<1>1. lock' = s
  BY <1>0 DEF LockFollowsControl
<1>2. ASSUME Quiet PROVE
        /\ status' = "active" /\ found'[s] = version' /\ cursor' <= now'[s]
        /\ DOMAIN plan'[s] = IF Kind[version'] = "invalid" THEN {} ELSE Due(s)'
        /\ Accepted(s)' # {} => authorized' /\ Occupied' + Cardinality(Accepted(s)') <= Limit[version']
  <2>1. /\ pc[s] = "decided" /\ UNCHANGED <<status, version, authorized, cursor, records, runs>>
        /\ found'[s] = found[s] /\ now'[s] = now[s] /\ plan'[s] = plan[s]
    BY <1>0, <1>2 DEF Quiet, task, audit
  <2>2. Due(s)' = Due(s) /\ Accepted(s)' = Accepted(s)
    BY <2>1 DEF Due, InTime, Accepted, Evaluated
  <2>3. Occupied \in Nat /\ Occupied' \in Nat /\ Occupied' <= Occupied
    BY <2>1, <1>2, QuietCount DEF Quiet
  <2>4. Cardinality(Accepted(s)) \in Nat /\ Limit[version] \in Nat
    <3>1. Accepted(s) \subseteq Occurrences
      BY <1>0 DEF Accepted, Audits
    <3> QED
      BY <3>1, <1>0, OccurrencesFinite, FS_CardinalityType
  <2> QED
    BY <2>1, <2>2, <2>3, <2>4 DEF SchedulesDecided
<1>3. ASSUME Evaluate(s) PROVE
        /\ status' = "active" /\ found'[s] = version' /\ cursor' <= now'[s]
        /\ DOMAIN plan'[s] = IF Kind[version'] = "invalid" THEN {} ELSE Due(s)'
        /\ Accepted(s)' # {} => authorized' /\ Occupied' + Cardinality(Accepted(s)') <= Limit[version']
  <2>1. /\ status = "active" /\ found[s] = version /\ cursor <= now[s] /\ now[s] \in Nat
        /\ UNCHANGED <<status, version, authorized, cursor, records, runs, ended, found, now>>
    BY <1>3, <1>0 DEF Evaluate, Superseded, Overtaken, Evaluated, Never, task, audit
  <2>2. Due(s)' = Due(s) /\ Occupied' = Occupied
    BY <2>1 DEF Due, InTime, Evaluated, Occupied, Active
  <2>3. plan'[s] = IF Kind[version] = "invalid" THEN Nothing ELSE [m \in Due(s) |-> Outcome(s, m)]
    BY <1>3, <1>0 DEF Evaluate
  <2>4. DOMAIN plan'[s] = IF Kind[version'] = "invalid" THEN {} ELSE Due(s)'
    BY <2>1, <2>2, <2>3 DEF Nothing
  <2>5. Accepted(s)' \subseteq Due(s) /\ \A m \in Accepted(s)' : Outcome(s, m) = "accepted"
    BY <2>3 DEF Accepted, Nothing
  <2>6. \A m \in Due(s) : ~Known(m)
    <3> SUFFICES ASSUME NEW m \in Due(s), NEW r \in runs, r.key = m PROVE FALSE
      BY DEF Known
    <3>1. m \in Occurrences /\ m \notin DOMAIN records
      BY <2>1, <1>0, DueIsRecent, TriggerAssumption
    <3> QED
      BY <3>1 DEF AuditIsTrue, Scheduled
  <2>7. \A m \in Accepted(s)' : /\ authorized
                               /\ Occupied + Cardinality({e \in Due(s) : e < m}) < Limit[version]
    BY <2>5, <2>6 DEF Outcome
  <2>8. ASSUME Accepted(s)' # {} PROVE Occupied + Cardinality(Accepted(s)') <= Limit[version]
    <3>1. Due(s) \subseteq {Floor(now[s]), Floor(now[s]) - Minute}
      BY <2>1, DueIsRecent
    <3>2. Floor(now[s]) \in Int /\ Floor(now[s]) - Minute \in Int /\ Floor(now[s]) - Minute < Floor(now[s])
      BY <2>1, <1>0, FloorIsNear
    <3>3. Occupied \in Nat /\ Limit[version] \in Nat
      BY <2>1, <1>0, QuietCount
    <3>4. \A m \in Accepted(s)' : Occupied + Cardinality({e \in Due(s) : e < m}) < Limit[version]
      BY <2>7
    <3> HIDE <2>7
    <3> QED
      BY <3>1, <3>2, <3>3, <3>4, <2>5, <2>8, AcceptedFit
  <2> QED
    BY <2>1, <2>2, <2>4, <2>7, <2>8
<1>4. lock = s \/ Evaluate(s) \/ Quiet
  <2>1. ASSUME NEW p \in Procs, lock' # p PROVE ~Evaluate(p) /\ ~Decide(p)
    BY <2>1 DEF Evaluate, Decide
  <2>2. ASSUME NEW p PROVE ~FinishSchedule(p) /\ ~FinishCall(p) /\ ~Abort(p)
    BY <1>0, <1>1 DEF FinishSchedule, FinishCall, Abort
  <2>3. ~Publish /\ ~SetState /\ ~Revoke
    BY <1>0, <1>1 DEF Publish, SetState, Revoke, LockFree
  <2> QED
    BY <2>1, <2>2, <2>3, <1>0, <1>1, StepKinds DEF Procs
<1>5. Evaluate(s) \/ Quiet
  <2>1. ASSUME lock = s, NEW p PROVE ~Evaluate(p) /\ ~Decide(p)
    BY <2>1, <1>0 DEF Evaluate, Decide, LockFree
  <2>2. ASSUME NEW p PROVE ~FinishSchedule(p) /\ ~FinishCall(p) /\ ~Abort(p)
    BY <1>0, <1>1 DEF FinishSchedule, FinishCall, Abort
  <2>3. ~Publish /\ ~SetState /\ ~Revoke
    BY <1>0, <1>1 DEF Publish, SetState, Revoke, LockFree
  <2> QED
    BY <2>1, <2>2, <2>3, <1>4, StepKinds
<1> QED
  BY <1>2, <1>3, <1>5

(* What a request was granted holds until it commits. *)
LEMMA CallsStep ==
  TypeOK /\ LockFollowsControl /\ LockFollowsControl' /\ CallsDecided /\ [Next]_vars
    => CallsDecided'
<1> SUFFICES ASSUME TypeOK, LockFollowsControl, LockFollowsControl', CallsDecided, [Next]_vars,
                    NEW c \in Callers, pc'[c] = "decided"
             PROVE  /\ status' = "active" /\ found'[c] = version' /\ ~Known(Key[c])' /\ ~Denied'
                    /\ Occupied' < Limit[version']
  BY DEF CallsDecided, Known
<1>0. /\ None \notin Procs /\ c \in Procs /\ c \notin Schedulers
      /\ Limit \in [Versions -> Nat \ {0}] /\ version \in Versions /\ Limit[version] \in Nat
      /\ pc \in [Procs -> {"idle", "found", "sampled", "decided", "done"}]
      /\ found \in [Procs -> {None} \cup Versions]
  BY TriggerAssumption DEF Procs, TypeOK
<1>1. lock' = c
  BY <1>0 DEF LockFollowsControl
<1>2. ASSUME Quiet PROVE
        /\ status' = "active" /\ found'[c] = version' /\ ~Known(Key[c])' /\ ~Denied'
        /\ Occupied' < Limit[version']
  <2>1. /\ pc[c] = "decided" /\ UNCHANGED <<status, version, authorized, runs>>
        /\ found'[c] = found[c]
    BY <1>0, <1>2 DEF Quiet, task
  <2>2. Occupied \in Nat /\ Occupied' \in Nat /\ Occupied' <= Occupied
    BY <2>1, <1>2, QuietCount DEF Quiet
  <2> QED
    BY <2>1, <2>2, <1>0 DEF CallsDecided, Known, Denied
<1>3. ASSUME Decide(c) PROVE
        /\ status' = "active" /\ found'[c] = version' /\ ~Known(Key[c])' /\ ~Denied'
        /\ Occupied' < Limit[version']
  <2>1. /\ status = "active" /\ ~Known(Key[c]) /\ ~Denied /\ Occupied < Limit[version]
        /\ UNCHANGED <<status, version, authorized, runs, ended>> /\ found'[c] = version
    BY <1>3, <1>0 DEF Decide, Allowed, task
  <2> QED
    BY <2>1 DEF Known, Denied, Occupied, Active
<1>4. Decide(c) \/ Quiet
  <2>1. ASSUME NEW p, p # c PROVE ~Evaluate(p) /\ ~Decide(p)
    BY <2>1, <1>1 DEF Evaluate, Decide
  <2>2. ASSUME NEW p PROVE ~FinishSchedule(p) /\ ~FinishCall(p) /\ ~Abort(p)
    BY <1>0, <1>1 DEF FinishSchedule, FinishCall, Abort
  <2>3. ~Publish /\ ~SetState /\ ~Revoke
    BY <1>0, <1>1 DEF Publish, SetState, Revoke, LockFree
  <2> QED
    BY <2>1, <2>2, <2>3, <1>0, StepKinds
<1> QED
  BY <1>2, <1>3, <1>4

-----------------------------------------------------------------------------
(* Only the two commits change the runs. *)
LEMMA RunsChange ==
  ASSUME TypeOK, [Next]_vars, runs' # runs
  PROVE  \/ \E s \in Schedulers : FinishSchedule(s)
         \/ \E c \in Callers : FinishCall(c)
<1>1. ASSUME NEW p, Evaluate(p) \/ Decide(p) \/ Abort(p) PROVE FALSE
  BY <1>1 DEF Evaluate, Decide, Abort
<1>2. ~Quiet /\ ~Publish /\ ~SetState /\ ~Revoke
  BY DEF Quiet, Publish, SetState, Revoke
<1> QED
  BY <1>1, <1>2, StepKinds

(* Only the commit of an evaluation changes what it leaves behind. *)
LEMMA AuditChanges ==
  ASSUME TypeOK, [Next]_vars, audit' # audit
  PROVE  \E s \in Schedulers : FinishSchedule(s)
<1>1. ASSUME NEW p, Evaluate(p) \/ Decide(p) \/ Abort(p) \/ FinishCall(p) PROVE FALSE
  BY <1>1 DEF Evaluate, Decide, Abort, FinishCall
<1>2. ~Quiet /\ ~Publish /\ ~SetState /\ ~Revoke
  BY DEF Quiet, Publish, SetState, Revoke
<1> QED
  BY <1>1, <1>2, StepKinds

(* What the commit of an evaluation starts: one run for each occurrence it *)
(* accepted, none of which had one.                                        *)
LEMMA ScheduleStarts ==
  ASSUME TypeOK, SchedulesDecided, AuditIsTrue, NEW s \in Schedulers, FinishSchedule(s)
  PROVE  /\ runs' = runs \cup {NewRun(s, m) : m \in Accepted(s)}
         /\ \A m \in Accepted(s) : ~Known(m)
         /\ Accepted(s) \subseteq DOMAIN plan[s] /\ DOMAIN plan[s] \subseteq Due(s)
         /\ Due(s) \subseteq Occurrences /\ now[s] \in Nat
<1>1. /\ DOMAIN plan[s] \subseteq Due(s) /\ now[s] \in Nat /\ found[s] \in Versions
      /\ Accepted(s) \subseteq DOMAIN plan[s]
  <2>1. s \in Procs /\ now \in [Procs -> Nat] /\ version \in Versions
    BY TriggerAssumption DEF TypeOK, Procs
  <2>2. /\ found[s] = version
        /\ DOMAIN plan[s] = IF Kind[version] = "invalid" THEN {} ELSE Due(s)
    BY DEF FinishSchedule, SchedulesDecided
  <2> QED
    BY <2>1, <2>2 DEF Accepted
<1>2. Due(s) \subseteq Occurrences
  BY <1>1, TriggerAssumption DEF Due
<1>3. \A m \in Due(s) : m \notin DOMAIN records
  BY DEF Due
<1>4. \A m \in Accepted(s) : ~Known(m)
  BY <1>1, <1>2, <1>3 DEF AuditIsTrue, Scheduled, Known
<1>5. {d \in DOMAIN plan[s] : plan[s][d] = "accepted" /\ ~Known(d)} = Accepted(s)
  BY <1>4 DEF Accepted
<1> QED
  BY <1>1, <1>2, <1>4, <1>5 DEF FinishSchedule

(* The runs of one commit have different keys, and new ones. *)
LEMMA RunsStep ==
  TypeOK /\ SchedulesDecided /\ CallsDecided /\ AuditIsTrue /\ OneRunPerKey /\ [Next]_vars
    => OneRunPerKey'
<1> SUFFICES ASSUME TypeOK, SchedulesDecided, CallsDecided, AuditIsTrue, OneRunPerKey, [Next]_vars
             PROVE  OneRunPerKey'
  OBVIOUS
<1>1. CASE runs' = runs
  BY <1>1 DEF OneRunPerKey
<1>2. ASSUME NEW s \in Schedulers, FinishSchedule(s) PROVE OneRunPerKey'
  <2>1. /\ runs' = runs \cup {NewRun(s, m) : m \in Accepted(s)}
        /\ \A m \in Accepted(s) : ~Known(m)
    BY <1>2, ScheduleStarts
  <2>2. \A m \in Accepted(s) : NewRun(s, m).key = m
    BY DEF NewRun
  <2> QED
    BY <2>1, <2>2 DEF OneRunPerKey, Known
<1>3. ASSUME NEW c \in Callers, FinishCall(c) PROVE OneRunPerKey'
  <2>1. runs' = runs \cup {NewRun(c, Key[c])} /\ ~Known(Key[c]) /\ NewRun(c, Key[c]).key = Key[c]
    BY <1>3 DEF FinishCall, CallsDecided, NewRun
  <2> QED
    BY <2>1 DEF OneRunPerKey, Known
<1> QED
  BY <1>1, <1>2, <1>3, RunsChange

(* A request is told from an occurrence by its key. *)
LEMMA CallsAreNotScheduled == ASSUME NEW c \in Callers PROVE ~Scheduled(NewRun(c, Key[c]))
<1>1. Key[c] \notin Int /\ Occurrences \subseteq Int /\ NewRun(c, Key[c]).key = Key[c]
  BY TriggerAssumption DEF Occurrences, NewRun
<1> QED
  BY <1>1 DEF Scheduled

(* The audit stays true of the runs, and of the time that was missed. *)
LEMMA AuditStep ==
  TypeOK /\ PastIsBehind /\ SchedulesDecided /\ CallsDecided /\ AuditIsTrue /\ [Next]_vars
    => AuditIsTrue'
<1> SUFFICES ASSUME TypeOK, PastIsBehind, SchedulesDecided, CallsDecided, AuditIsTrue, [Next]_vars
             PROVE  AuditIsTrue'
  OBVIOUS
<1>0. /\ cursor \in Int /\ DOMAIN records \subseteq Int /\ missed \subseteq Int \X Int
      /\ Minute \in Nat /\ Minute > 0 /\ Occurrences \subseteq Int
  BY TriggerAssumption DEF TypeOK, Never, Audits, Occurrences
<1>1. CASE runs' = runs /\ audit' = audit
  BY <1>1 DEF AuditIsTrue, audit, Scheduled
<1>2. ASSUME NEW s \in Schedulers, FinishSchedule(s) PROVE AuditIsTrue'
  <2>1. /\ runs' = runs \cup {NewRun(s, m) : m \in Accepted(s)}
        /\ Accepted(s) \subseteq DOMAIN plan[s] /\ DOMAIN plan[s] \subseteq Due(s)
        /\ Due(s) \subseteq Occurrences /\ now[s] \in Nat
    BY <1>2, ScheduleStarts
  <2>2. \A m \in DOMAIN plan[s] : /\ m \in Int /\ m > cursor /\ m >= Deadline(now[s])
                                  /\ m \notin DOMAIN records
    BY <2>1, <1>0, DueIsRecent
  <2>3. /\ DOMAIN records' = DOMAIN records \cup DOMAIN plan[s]
        /\ \A m \in DOMAIN records : records'[m] = records[m]
        /\ \A m \in DOMAIN plan[s] : records'[m] = plan[s][m]
    BY <1>2, <2>2 DEF FinishSchedule
  <2>4. {m \in DOMAIN records' : records'[m] = "accepted"}
          = {m \in DOMAIN records : records[m] = "accepted"} \cup Accepted(s)
    BY <2>2, <2>3 DEF Accepted
  <2>5. \A m \in Accepted(s) : NewRun(s, m).key = m /\ m \in Occurrences
    BY <2>1 DEF NewRun
  <2>6. {r.key : r \in {q \in runs' : Scheduled(q)'}}
          = {r.key : r \in {q \in runs : Scheduled(q)}} \cup Accepted(s)
    BY <2>1, <2>5 DEF Scheduled
  <2>7. {m \in DOMAIN records' : records'[m] = "accepted"}
          = {r.key : r \in {q \in runs' : Scheduled(q)'}}
    BY <2>4, <2>6 DEF AuditIsTrue
  <2>8. Gap(s) \subseteq {<<cursor, Deadline(now[s])>>} /\ missed' = missed \cup Gap(s)
    BY <1>2 DEF FinishSchedule, Gap
  <2>9. ASSUME NEW m \in DOMAIN records', NEW i \in missed' PROVE ~(i[1] < m /\ m < i[2])
    <3>1. CASE i \in missed /\ m \in DOMAIN records
      BY <3>1 DEF AuditIsTrue
    <3>2. CASE i \in missed /\ m \in DOMAIN plan[s]
      BY <3>2, <2>2, <1>0 DEF PastIsBehind
    <3>3. CASE i = <<cursor, Deadline(now[s])>> /\ m \in DOMAIN records
      BY <3>3, <1>0 DEF PastIsBehind
    <3>4. CASE i = <<cursor, Deadline(now[s])>> /\ m \in DOMAIN plan[s]
      <4>1. Deadline(now[s]) \in Int
        BY <2>1, <1>0 DEF Deadline
      <4> QED
        BY <4>1, <3>4, <2>2
    <3> QED
      BY <2>3, <2>8, <3>1, <3>2, <3>3, <3>4
  <2>10. ASSUME NEW i \in missed', NEW j \in missed'
         PROVE  i = j \/ i[2] <= j[1] \/ j[2] <= i[1]
    <3>1. CASE i \in missed /\ j \in missed
      BY <3>1 DEF AuditIsTrue
    <3>2. CASE i \in missed /\ j = <<cursor, Deadline(now[s])>>
      BY <3>2, <1>0 DEF PastIsBehind
    <3>3. CASE i = <<cursor, Deadline(now[s])>> /\ j \in missed
      BY <3>3, <1>0 DEF PastIsBehind
    <3> QED
      BY <2>8, <3>1, <3>2, <3>3
  <2> QED
    BY <2>7, <2>9, <2>10 DEF AuditIsTrue
<1>3. ASSUME NEW c \in Callers, FinishCall(c) PROVE AuditIsTrue'
  <2>1. runs' = runs \cup {NewRun(c, Key[c])} /\ audit' = audit
    BY <1>3 DEF FinishCall
  <2>2. {q \in runs' : Scheduled(q)'} = {q \in runs : Scheduled(q)}
    BY <2>1, CallsAreNotScheduled DEF Scheduled
  <2> QED
    BY <2>1, <2>2 DEF AuditIsTrue, audit
<1> QED
  BY <1>1, <1>2, <1>3, RunsChange, AuditChanges

(* Nothing is decided, recorded or running at first. *)
LEMMA TriggerInit == Init => TriggerInv
<1> SUFFICES ASSUME Init PROVE TriggerInv
  OBVIOUS
<1>0. /\ Minute \in Nat /\ Minute > 0 /\ MaxClock \in Nat /\ MaxClock >= Minute
      /\ LastVersion \in Nat \ {0} /\ MaxChanges \in Nat /\ MaxAborts \in Nat /\ None \notin Procs
  BY TriggerAssumption
<1>1. TypeOK
  <2>1. IsFiniteSet({})
    BY FS_EmptySet
  <2> QED
    BY <2>1, <1>0, PlansTyped DEF Init, TypeOK, Versions
<1>2. LockFollowsControl /\ SchedulesDecided /\ CallsDecided
  BY <1>0 DEF Init, LockFollowsControl, SchedulesDecided, CallsDecided, Procs
<1>3. PastIsBehind /\ OneRunPerKey /\ AuditIsTrue
  BY <1>0 DEF Init, PastIsBehind, OneRunPerKey, AuditIsTrue, Nothing, Never
<1> QED
  BY <1>1, <1>2, <1>3 DEF TriggerInv

LEMMA TriggerStep == TriggerInv /\ [Next]_vars => TriggerInv'
  BY TypeStep, LockStep, PastStep, SchedulesStep, CallsStep, RunsStep, AuditStep DEF TriggerInv

(* What every state of the specification satisfies. *)
THEOREM TriggerInvariant == Spec => []TriggerInv
  BY TriggerInit, TriggerStep, PTL DEF Spec

(* The variables have their types. *)
THEOREM TriggerTypes == Spec => []TypeOK
<1>1. TriggerInv => TypeOK
  BY DEF TriggerInv
<1> QED
  BY <1>1, TriggerInvariant, PTL

(* An occurrence, an upstream run or a request starts one run. *)
THEOREM OneRunPerKeyHolds == Spec => []OneRunPerKey
<1>1. TriggerInv => OneRunPerKey
  BY DEF TriggerInv
<1> QED
  BY <1>1, TriggerInvariant, PTL

(* The audit says of an occurrence what happened to it. *)
THEOREM AuditIsTrueHolds == Spec => []AuditIsTrue
<1>1. TriggerInv => AuditIsTrue
  BY DEF TriggerInv
<1> QED
  BY <1>1, TriggerInvariant, PTL

-----------------------------------------------------------------------------
(* The active runs, those just started included, keep to the limit. *)
THEOREM LimitHeldHolds == Spec => LimitHeld
<1>1. ASSUME TriggerInv, [Next]_vars, runs' # runs PROVE Cardinality(Active') <= Limit[version]
  <2>0. /\ TypeOK /\ SchedulesDecided /\ CallsDecided /\ AuditIsTrue
        /\ Limit[version] \in Nat /\ IsFiniteSet(Active) /\ ended \subseteq runs
    BY <1>1, TriggerAssumption, FS_Subset DEF TriggerInv, TypeOK, Active
  <2>a. ASSUME NEW new, IsFiniteSet(new), runs' = runs \cup new, ended' = ended
        PROVE  Cardinality(Active') <= Occupied + Cardinality(new) /\ Occupied \in Nat
    <3>1. Active' \in SUBSET (Active \cup new)
      BY <2>a DEF Active
    <3>2. /\ IsFiniteSet(Active \cup new)
          /\ Cardinality(Active \cup new) = Cardinality(Active) + Cardinality(new)
                                              - Cardinality(Active \cap new)
      BY <2>0, <2>a, FS_Union
    <3>3. IsFiniteSet(Active \cap new)
      BY <2>0, FS_Intersection
    <3>4. /\ Cardinality(Active) \in Nat /\ Cardinality(new) \in Nat
          /\ Cardinality(Active \cap new) \in Nat
      BY <2>0, <2>a, <3>3, FS_CardinalityType
    <3>5. IsFiniteSet(Active') /\ Cardinality(Active') <= Cardinality(Active \cup new)
      BY <3>1, <3>2, FS_Subset
    <3>6. Cardinality(Active') \in Nat
      BY <3>5, FS_CardinalityType
    <3> QED
      BY <3>2, <3>4, <3>5, <3>6 DEF Occupied
  <2>b. Cardinality(Active') \in Nat
    <3>1. IsFiniteSet(runs')
      BY <1>1, <2>0, TypeStep DEF TypeOK
    <3> QED
      BY <3>1, FS_Subset, FS_CardinalityType DEF Active
  <2>1. ASSUME NEW s \in Schedulers, FinishSchedule(s) PROVE Cardinality(Active') <= Limit[version]
    <3> DEFINE new == {NewRun(s, m) : m \in Accepted(s)}
    <3>1. /\ runs' = runs \cup new /\ Accepted(s) \subseteq Occurrences /\ ended' = ended
      BY <2>0, <2>1, ScheduleStarts DEF FinishSchedule
    <3>2. Accepted(s) # {}
      BY <1>1, <3>1
    <3>3. IsFiniteSet(Accepted(s)) /\ Cardinality(Accepted(s)) \in Nat
      BY <3>1, OccurrencesFinite, FS_CardinalityType
    <3>4. IsFiniteSet(new) /\ Cardinality(new) <= Cardinality(Accepted(s))
      BY <3>3, RunsAdded
    <3>5. Cardinality(new) \in Nat
      BY <3>4, FS_CardinalityType
    <3>6. Occupied + Cardinality(Accepted(s)) <= Limit[version]
      BY <2>0, <2>1, <3>2 DEF FinishSchedule, SchedulesDecided
    <3> HIDE DEF new
    <3>7. Cardinality(Active') <= Occupied + Cardinality(new) /\ Occupied \in Nat
      BY <3>1, <3>4, <2>a
    <3> QED
      BY <2>0, <2>b, <3>3, <3>4, <3>5, <3>6, <3>7
  <2>2. ASSUME NEW c \in Callers, FinishCall(c) PROVE Cardinality(Active') <= Limit[version]
    <3> DEFINE new == {NewRun(c, Key[c])}
    <3>1. IsFiniteSet(new) /\ Cardinality(new) = 1
      BY FS_Singleton
    <3>2. runs' = runs \cup new /\ ended' = ended /\ Occupied < Limit[version]
      BY <2>0, <2>2 DEF FinishCall, CallsDecided
    <3> HIDE DEF new
    <3>3. Cardinality(Active') <= Occupied + Cardinality(new) /\ Occupied \in Nat
      BY <3>1, <3>2, <2>a
    <3> QED
      BY <2>0, <2>b, <3>1, <3>2, <3>3
  <2> QED
    BY <1>1, <2>0, <2>1, <2>2, RunsChange
<1>2. TriggerInv /\ [Next]_vars => [runs' # runs => Cardinality(Active') <= Limit[version]]_vars
  BY <1>1
<1> QED
  BY <1>2, TriggerInvariant, PTL DEF Spec, LimitHeld

(* An instance starts only occurrences that were due and a minute old at most. *)
THEOREM NoCatchUpHolds == Spec => NoCatchUp
<1>1. ASSUME TriggerInv, [Next]_vars, NEW r \in runs' \ runs, Scheduled(r)
      PROVE  r.key <= now[lock] /\ now[lock] <= r.key + Minute
  <2>0. TypeOK /\ SchedulesDecided /\ AuditIsTrue /\ LockFollowsControl
    BY <1>1 DEF TriggerInv
  <2>1. ASSUME NEW s \in Schedulers, FinishSchedule(s)
        PROVE  r.key <= now[lock] /\ now[lock] <= r.key + Minute
    <3>1. /\ runs' = runs \cup {NewRun(s, m) : m \in Accepted(s)} /\ now[s] \in Nat
          /\ Accepted(s) \subseteq Due(s) /\ Due(s) \subseteq Occurrences
      BY <2>0, <2>1, ScheduleStarts
    <3>2. r.key \in Due(s) /\ r.key \in Int
      BY <1>1, <3>1, TriggerAssumption DEF NewRun, Occurrences
    <3>3. lock = s
      BY <2>0, <2>1 DEF FinishSchedule, LockFollowsControl, Procs
    <3>4. r.key <= now[s] /\ r.key >= Deadline(now[s]) /\ Minute \in Nat
      BY <3>1, <3>2, DueIsRecent, TriggerAssumption
    <3> QED
      BY <3>1, <3>2, <3>3, <3>4 DEF Deadline
  <2>2. ASSUME NEW c \in Callers, FinishCall(c) PROVE FALSE
    BY <1>1, <2>2, CallsAreNotScheduled DEF FinishCall
  <2> QED
    BY <1>1, <2>0, <2>1, <2>2, RunsChange
<1>2. TriggerInv /\ [Next]_vars
        => [\A r \in runs' \ runs : Scheduled(r) =>
              r.key <= now[lock] /\ now[lock] <= r.key + Minute]_vars
  BY <1>1
<1> QED
  BY <1>2, TriggerInvariant, PTL DEF Spec, NoCatchUp

(* A run starts with the current version of an active task, whose delegate has *)
(* access if one is needed.                                                    *)
THEOREM OnlyCurrentStartsHolds == Spec => OnlyCurrentStarts
<1>1. ASSUME TriggerInv, [Next]_vars PROVE StartsAreCurrent
  <2>0. TypeOK /\ SchedulesDecided /\ CallsDecided /\ AuditIsTrue
    BY <1>1 DEF TriggerInv
  <2>1. ASSUME NEW r \in runs' \ runs, NEW s \in Schedulers, FinishSchedule(s)
        PROVE  /\ r.version = version /\ status = "active" /\ authorized /\ r.key \in Cron[version]
    <3>1. /\ runs' = runs \cup {NewRun(s, m) : m \in Accepted(s)} /\ now[s] \in Nat
          /\ Accepted(s) \subseteq Due(s)
      BY <2>0, <2>1, ScheduleStarts
    <3>2. PICK m \in Accepted(s) : r = NewRun(s, m)
      BY <2>1, <3>1
    <3>3. r.key = m /\ r.version = found[s] /\ m \in Cron[found[s]]
      BY <3>1, <3>2 DEF NewRun, Due
    <3>4. status = "active" /\ found[s] = version /\ authorized
      BY <2>0, <2>1, <3>2 DEF FinishSchedule, SchedulesDecided
    <3> QED
      BY <3>3, <3>4
  <2>2. ASSUME NEW r \in runs' \ runs, NEW c \in Callers, FinishCall(c)
        PROVE  /\ r.version = version /\ status = "active" /\ ~Scheduled(r)
               /\ version \in Typed => authorized
    <3>1. r = NewRun(c, Key[c])
      BY <2>2 DEF FinishCall
    <3>2. r.version = found[c]
      BY <3>1 DEF NewRun
    <3>3. status = "active" /\ found[c] = version /\ ~Denied
      BY <2>0, <2>2 DEF FinishCall, CallsDecided
    <3> QED
      BY <3>1, <3>2, <3>3, CallsAreNotScheduled DEF Denied
  <2> QED
    BY <1>1, <2>0, <2>1, <2>2, RunsChange DEF StartsAreCurrent
<1>2. TriggerInv /\ [Next]_vars => [StartsAreCurrent]_vars
  BY <1>1
<1> QED
  BY <1>2, TriggerInvariant, PTL DEF Spec, OnlyCurrentStarts

(* An occurrence the cursor leaves behind has an outcome or was missed. *)
THEOREM AccountedHolds == Spec => Accounted
<1>1. ASSUME TriggerInv, [Next]_vars PROVE LeavesNoneBehind
  <2>0. TypeOK /\ SchedulesDecided /\ Cron[version] \subseteq Occurrences
    BY <1>1, TriggerAssumption DEF TriggerInv, TypeOK
  <2> SUFFICES ASSUME NEW s \in Schedulers, FinishSchedule(s) PROVE LeavesNoneBehind
    BY <1>1, <2>0, AuditChanges DEF LeavesNoneBehind, audit
  <2>1. /\ found[s] = version /\ cursor' = now[s] /\ now[s] \in Nat /\ cursor \in Int
        /\ DOMAIN records' = DOMAIN records \cup DOMAIN plan[s]
        /\ DOMAIN plan[s] = IF Kind[version] = "invalid" THEN {} ELSE Due(s)
    BY <2>0, TriggerAssumption DEF FinishSchedule, SchedulesDecided, TypeOK, Procs, Never
  <2>2. CASE Kind[version] = "invalid"
    BY <2>1, <2>2 DEF LeavesNoneBehind, FinishSchedule
  <2>3. CASE Kind[version] # "invalid"
    <3> SUFFICES ASSUME NEW m \in Cron[version], Evaluated, cursor < m, m <= now[s]
                 PROVE  m \in DOMAIN records' \/ \E i \in missed' : i[1] < m /\ m < i[2]
      BY <2>1, <2>3 DEF LeavesNoneBehind
    <3>1. m \in Int /\ m \in Occurrences /\ Deadline(now[s]) \in Int
      BY <2>0, <2>1, TriggerAssumption DEF Occurrences, Deadline
    <3>2. CASE m >= Deadline(now[s])
      <4>1. m \in InTime(s)
        BY <3>1, <3>2, <2>1, RecentIsInTime
      <4>2. m \in DOMAIN records \/ m \in Due(s)
        BY <4>1, <2>1, <3>1 DEF Due
      <4> QED
        BY <4>2, <2>1, <2>3
    <3>3. CASE m < Deadline(now[s])
      <4>1. cursor < Deadline(now[s])
        BY <3>1, <3>3, <2>1
      <4>2. <<cursor, Deadline(now[s])>> \in missed'
        BY <4>1, <2>3 DEF FinishSchedule, Gap
      <4> QED
        BY <4>2, <3>3
    <3> QED
      BY <3>1, <3>2, <3>3
  <2> QED
    BY <2>2, <2>3
<1>2. TriggerInv /\ [Next]_vars => [LeavesNoneBehind]_vars
  BY <1>1
<1> QED
  BY <1>2, TriggerInvariant, PTL DEF Spec, Accounted
=============================================================================
