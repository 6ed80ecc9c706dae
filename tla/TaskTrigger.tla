---------------------------- MODULE TaskTrigger ----------------------------
(***************************************************************************)
(* How one task gets its runs (internal/tasktrigger, httpapi/task_triggers *)
(* .go): instances of the server look for due schedules and each evaluates *)
(* the task in a transaction; users and events of other components ask for *)
(* a run.  Whoever creates one finds the task outside its transaction or   *)
(* reads it without a lock, so that by the time it holds the advisory lock *)
(* another version may be published, the task disabled, its delegate gone, *)
(* the minute evaluated by somebody else, or the limit reached.            *)
(*                                                                         *)
(* Time is counted in ticks, Minute of them per minute; a scheduled        *)
(* occurrence is the tick its minute begins with.                          *)
(***************************************************************************)
EXTENDS Integers, FiniteSets

CONSTANTS
  Schedulers,   \* instances of the server that run the scheduler
  Callers,      \* requests of users, and events and jobs that trigger the task
  Source,       \* Source[c]: "user" or "event" (an upstream run or a copilot job)
  Key,          \* Key[c]: the idempotency key of a caller
  LastVersion,  \* versions 1..LastVersion are published in this order
  Kind,         \* Kind[v]: what triggers version v: "schedule", "user", "event",
                \* or "invalid", a schedule whose cron or time zone does not parse
  Typed,        \* the versions written in aerosight/v2
  Cron,         \* Cron[v]: the occurrences of version v
  Limit,        \* Limit[v]: its concurrency limit
  Minute,       \* ticks per minute
  MaxClock, MaxChanges, MaxAborts,   \* bounds of the environment
  None

Versions == 1..LastVersion
Procs == Schedulers \cup Callers
Occurrences == {t \in 0..MaxClock : t % Minute = 0}

ASSUME TriggerAssumption ==
  /\ Schedulers \cap Callers = {} /\ None \notin Procs \cup Versions
  /\ LastVersion \in Nat \ {0}
  /\ Source \in [Callers -> {"user", "event"}]
  /\ \A c \in Callers : Key[c] \notin Int
  /\ Kind \in [Versions -> {"schedule", "user", "event", "invalid"}]
  /\ Typed \subseteq Versions
  /\ Minute \in Nat \ {0}
  /\ MaxClock \in Nat /\ MaxClock >= Minute /\ MaxChanges \in Nat /\ MaxAborts \in Nat
  /\ Cron \in [Versions -> SUBSET Occurrences]
  /\ Limit \in [Versions -> Nat \ {0}]

VARIABLES
  clock,
  version, status, authorized,  \* the task row; whether its delegate may operate it
  cursor,                       \* tasks.schedule_evaluated_at, Never at first
  records,                      \* task_trigger_records of occurrences: outcomes
  missed, invalid,              \* those of missed intervals, and of broken schedules
  runs, ended,                  \* task_runs, and those in a final state
  lock,                         \* who holds the advisory lock and the locks on rows
  pc, found, now, plan,         \* of each process
  changes, aborts

task == <<version, status, authorized>>
audit == <<cursor, records, missed, invalid>>
local == <<pc, found, now, plan>>
vars == <<clock, task, audit, runs, ended, lock, local, changes, aborts>>

Never == -1
Evaluated == cursor # Never
Outcomes == {"accepted", "skipped", "error"}
Nothing == [m \in {} |-> "accepted"]

Active == runs \ ended
(* Mutant: only a run that has not ended is a replay. *)
KnownActiveMutant(key) == \E r \in Active : r.key = key

(* A run with this key exists, whichever version it belongs to. *)
Known(key) == \E r \in runs : r.key = key
(* Mutant: nobody waits for the lock. *)
UnlockedMutant == TRUE

(* pg_advisory_xact_lock, followed by FOR UPDATE on the task and its version. *)
LockFree == lock = None
Occupied == Cardinality(Active)

Init ==
  /\ clock = Minute - 1
  /\ version = 1 /\ status = "active" /\ authorized = TRUE
  /\ cursor = Never /\ records = Nothing /\ missed = {} /\ invalid = {}
  /\ runs = {} /\ ended = {} /\ lock = None
  /\ pc = [p \in Procs |-> "idle"]
  /\ found = [p \in Procs |-> None]
  /\ now = [p \in Procs |-> 0]
  /\ plan = [p \in Procs |-> Nothing]
  /\ changes = 0 /\ aborts = 0

(* A procedure returns: its variables are gone. *)
Return(p, to) ==
  /\ pc' = [pc EXCEPT ![p] = to] /\ found' = [found EXCEPT ![p] = None]
  /\ now' = [now EXCEPT ![p] = 0] /\ plan' = [plan EXCEPT ![p] = Nothing]

(***************************** The scheduler *******************************)

(* scheduleCandidates: a query of its own, before any transaction. *)
Discover(s) ==
  /\ pc[s] = "idle" /\ status = "active" /\ Kind[version] \in {"schedule", "invalid"}
  /\ pc' = [pc EXCEPT ![s] = "found"] /\ found' = [found EXCEPT ![s] = version]
  /\ UNCHANGED <<clock, task, audit, runs, ended, lock, now, plan, changes, aborts>>

(* reconcileSchedule reads the clock before it asks for the lock. *)
Sample(s) ==
  /\ pc[s] = "found"
  /\ pc' = [pc EXCEPT ![s] = "sampled"] /\ now' = [now EXCEPT ![s] = clock]
  /\ UNCHANGED <<clock, task, audit, runs, ended, lock, found, plan, changes, aborts>>

(* Mutant: the version that was found is not compared with the current one. *)
FoundIsEnoughMutant(s) == status # "active" /\ found[s] \in Versions

(* Mutant: an evaluation that read an earlier time goes on. *)
NeverOvertakenMutant(s) == FALSE

(* What was found is no longer what is there, or a later time was evaluated. *)
Superseded(s) == status # "active" \/ version # found[s]
Overtaken(s) == Evaluated /\ now[s] < cursor

GiveUp(s) ==
  /\ pc[s] = "sampled" /\ LockFree /\ (Superseded(s) \/ Overtaken(s))
  /\ Return(s, "idle")
  /\ UNCHANGED <<clock, task, audit, runs, ended, lock, changes, aborts>>

Floor(t) == t - (t % Minute)
Deadline(t) == t - Minute

(* Mutant: exactly sixty seconds is too late. *)
OffByOneMutant(s) == {Floor(now[s])} \cup
  {m \in {Floor(now[s]) - Minute} : Evaluated /\ m > Deadline(now[s])}

(* The minutes still in time: the present one, and the one before on its    *)
(* last instant, sixty seconds after it began.                              *)
InTime(s) == {Floor(now[s])} \cup
  {m \in {Floor(now[s]) - Minute} : Evaluated /\ m >= Deadline(now[s])}

Due(s) == {m \in InTime(s) : /\ m > cursor /\ m \notin DOMAIN records
                             /\ m \in Cron[found[s]]}

(* createRun for one occurrence after those before it; an error rolls back to *)
(* the savepoint of the occurrence only.                                      *)
Outcome(s, m) ==
  IF Known(m) THEN "accepted"
  ELSE IF ~authorized THEN "error"
  ELSE IF Occupied + Cardinality({e \in Due(s) : e < m}) < Limit[version]
       THEN "accepted" ELSE "skipped"

Evaluate(s) ==
  /\ pc[s] = "sampled" /\ LockFree /\ ~Superseded(s) /\ ~Overtaken(s)
  /\ lock' = s /\ pc' = [pc EXCEPT ![s] = "decided"]
  /\ plan' = [plan EXCEPT ![s] = IF Kind[version] = "invalid" THEN Nothing
                                 ELSE [m \in Due(s) |-> Outcome(s, m)]]
  /\ UNCHANGED <<clock, task, audit, runs, ended, found, now, changes, aborts>>

(* One interval stands for the time nobody evaluated. *)
Gap(s) == {i \in {<<cursor, Deadline(now[s])>>} :
             Kind[version] # "invalid" /\ Evaluated /\ cursor < Deadline(now[s])}

(* A run, its key and version; "after" (the runs there were before) tells two *)
(* runs of the same key apart.                                                *)
NewRun(p, key) == [key |-> key, version |-> found[p], after |-> Cardinality(runs)]

FinishSchedule(s) ==
  /\ pc[s] = "decided"
  /\ records' = [m \in DOMAIN records \cup DOMAIN plan[s] |->
                   IF m \in DOMAIN records THEN records[m] ELSE plan[s][m]]
  /\ runs' = runs \cup {NewRun(s, m) : m \in {d \in DOMAIN plan[s] :
                                                plan[s][d] = "accepted" /\ ~Known(d)}}
  /\ missed' = missed \cup Gap(s)
  /\ invalid' = invalid \cup {i \in {<<version, Floor(now[s])>>} : Kind[version] = "invalid"}
  /\ cursor' = now[s]
  /\ lock' = None /\ Return(s, "idle")
  /\ UNCHANGED <<clock, task, ended, changes, aborts>>

(****************************** The callers ********************************)

(* POST of a user, who may name the version the page showed, and may send the *)
(* same request as often as it likes.                                         *)
Ask(c) ==
  /\ pc[c] \in {"idle", "done"} /\ Source[c] = "user"
  /\ pc' = [pc EXCEPT ![c] = "found"]
  /\ \E v \in {None, version} : found' = [found EXCEPT ![c] = v]
  /\ UNCHANGED <<clock, task, audit, runs, ended, lock, now, plan, changes, aborts>>

(* UpstreamHandler and CreateCopilotRuns look for the versions to trigger. *)
Hear(c) ==
  /\ pc[c] = "idle" /\ Source[c] = "event"
  /\ IF status = "active" /\ Kind[version] = "event"
     THEN /\ pc' = [pc EXCEPT ![c] = "found"] /\ found' = [found EXCEPT ![c] = version]
          /\ UNCHANGED <<now, plan>>
     ELSE Return(c, "done")
  /\ UNCHANGED <<clock, task, audit, runs, ended, lock, changes, aborts>>

(* The version the caller found or was shown is the current one. *)
StillCurrent(c) == IF Source[c] = "user" THEN found[c] \in {None, version}
                                         ELSE found[c] = version
(* A user may also start a typed schedule now. *)
Suits(c) ==
  \/ Kind[version] = Source[c]
  \/ Source[c] = "user" /\ version \in Typed /\ Kind[version] \in {"schedule", "invalid"}

Denied == version \in Typed /\ ~authorized

Allowed(c) ==
  /\ ~Known(Key[c]) /\ status = "active" /\ StillCurrent(c) /\ Suits(c)
  /\ ~Denied /\ Occupied < Limit[version]

(* A missing delegate is an error, with which an event's handler fails. *)
HandlerFails(c) ==
  Source[c] = "event" /\ ~Known(Key[c]) /\ status = "active" /\ StillCurrent(c) /\ Denied

Decide(c) ==
  /\ pc[c] = "found" /\ LockFree /\ Allowed(c)
  /\ lock' = c /\ pc' = [pc EXCEPT ![c] = "decided"]
  /\ found' = [found EXCEPT ![c] = version]
  /\ UNCHANGED <<clock, task, audit, runs, ended, now, plan, changes, aborts>>

(* A replay, a refusal, or nothing to do; a failed handler is run again. *)
Refuse(c) ==
  /\ pc[c] = "found" /\ LockFree /\ ~Allowed(c)
  /\ Return(c, IF HandlerFails(c) THEN "idle" ELSE "done")
  /\ UNCHANGED <<clock, task, audit, runs, ended, lock, changes, aborts>>

FinishCall(c) ==
  /\ pc[c] = "decided"
  /\ runs' = runs \cup {NewRun(c, Key[c])}
  /\ lock' = None /\ Return(c, "done")
  /\ UNCHANGED <<clock, task, audit, ended, changes, aborts>>

(* A transaction fails or its process dies: everything it did is undone. The *)
(* schedule is evaluated again, the event delivered again, the request sent  *)
(* again.                                                                    *)
Abort(p) ==
  /\ pc[p] = "decided" /\ aborts < MaxAborts
  /\ lock' = None /\ Return(p, "idle")
  /\ aborts' = aborts + 1
  /\ UNCHANGED <<clock, task, audit, runs, ended, changes>>

(**************************** The environment ******************************)

Tick ==
  /\ clock < MaxClock /\ clock' = clock + 1
  /\ UNCHANGED <<task, audit, runs, ended, lock, local, changes, aborts>>

(* Publishing waits for the lock on the task's row; it binds the publisher as *)
(* the delegate of a typed version.                                           *)
Publish ==
  /\ LockFree /\ changes < MaxChanges /\ changes' = changes + 1
  /\ version + 1 \in Versions
  /\ version' = version + 1
  /\ authorized' = (authorized \/ version' \in Typed)
  /\ UNCHANGED <<clock, status, audit, runs, ended, lock, local, aborts>>

(* A user disables the task, or activates it (again) and becomes its delegate; *)
(* this too takes the advisory lock.                                           *)
SetState ==
  /\ LockFree /\ changes < MaxChanges /\ changes' = changes + 1
  /\ status' \in {"active", "disabled"}
  /\ authorized' = (authorized \/ status' = "active")
  /\ UNCHANGED <<clock, version, audit, runs, ended, lock, local, aborts>>

(* The delegate leaves the team or loses a permission.  A transaction that    *)
(* looked at those rows holds them FOR SHARE.                                 *)
Revoke ==
  /\ LockFree /\ changes < MaxChanges /\ changes' = changes + 1
  /\ authorized /\ authorized' = FALSE
  /\ UNCHANGED <<clock, version, status, audit, runs, ended, lock, local, aborts>>

RunEnds(r) ==
  /\ r \in Active /\ ended' = ended \cup {r}
  /\ UNCHANGED <<clock, task, audit, runs, lock, local, changes, aborts>>

SchedulerStep(s) ==
  Discover(s) \/ Sample(s) \/ GiveUp(s) \/ Evaluate(s) \/ FinishSchedule(s)
CallerStep(c) == Ask(c) \/ Hear(c) \/ Decide(c) \/ Refuse(c) \/ FinishCall(c)

Next ==
  \/ \E s \in Schedulers : SchedulerStep(s)
  \/ \E c \in Callers : CallerStep(c)
  \/ \E p \in Procs : Abort(p)
  \/ Tick \/ Publish \/ SetState \/ Revoke
  \/ \E r \in runs : RunEnds(r)

Spec == Init /\ [][Next]_vars

------------------------------------------------------------------------------

Keys == Occurrences \cup {Key[c] : c \in Callers}
Audits == UNION {[D -> Outcomes] : D \in SUBSET Occurrences}
Runs == [key : Keys, version : Versions, after : Nat]

TypeOK ==
  /\ clock \in 0..MaxClock
  /\ version \in Versions /\ status \in {"active", "disabled"} /\ authorized \in BOOLEAN
  /\ cursor \in {Never} \cup 0..MaxClock
  /\ records \in Audits
  /\ missed \subseteq (0..MaxClock) \X (0..MaxClock)
  /\ invalid \subseteq Versions \X (0..MaxClock)
  /\ runs \subseteq Runs /\ IsFiniteSet(runs) /\ ended \subseteq runs
  /\ lock \in {None} \cup Procs
  /\ pc \in [Procs -> {"idle", "found", "sampled", "decided", "done"}]
  /\ found \in [Procs -> {None} \cup Versions]
  /\ now \in [Procs -> 0..MaxClock]
  /\ plan \in [Procs -> Audits]
  /\ changes \in 0..MaxChanges /\ aborts \in 0..MaxAborts

(* An occurrence, an upstream run or a request starts one run, also when it is *)
(* evaluated by two instances, repeated, or another version is published       *)
(* between its two attempts (the unique index alone is per version).           *)
OneRunPerKey == \A r, q \in runs : r.key = q.key => r = q

(* A run starts only if the active ones of all versions and sources, itself    *)
(* included, keep to the limit of the version that is current (the count and   *)
(* the insert are under one lock).                                             *)
LimitHeld == [][runs' # runs => Cardinality(Active') <= Limit[version]]_vars

Scheduled(r) == r.key \in Occurrences

(* What the audit says of an occurrence is what happened to it: accepted if    *)
(* and only if it has a run, never inside an interval reported missed, and no  *)
(* time is reported missed twice.                                              *)
AuditIsTrue ==
  /\ {m \in DOMAIN records : records[m] = "accepted"} = {r.key : r \in {q \in runs : Scheduled(q)}}
  /\ \A m \in DOMAIN records, i \in missed : ~(i[1] < m /\ m < i[2])
  /\ \A i, j \in missed : i = j \/ i[2] <= j[1] \/ j[2] <= i[1]

(* When the cursor moves on, every occurrence it leaves behind has an outcome  *)
(* or lies in a missed interval; a broken schedule has its error.              *)
LeavesNoneBehind ==
  cursor' # cursor =>
    IF Kind[version] = "invalid" THEN <<version, Floor(cursor')>> \in invalid'
    ELSE \A m \in Cron[version] :
           Evaluated /\ cursor < m /\ m <= cursor' =>
             m \in DOMAIN records' \/ \E i \in missed' : i[1] < m /\ m < i[2]
Accounted == [][LeavesNoneBehind]_vars

(* After downtime nothing is flown late: an instance starts an occurrence only *)
(* if, by the time it read, it was due and at most one minute old.             *)
NoCatchUp ==
  [][\A r \in runs' \ runs : Scheduled(r) =>
        r.key <= now[lock] /\ now[lock] <= r.key + Minute]_vars

(* A run starts only with the version that is current, while the task is       *)
(* active and its delegate has access, whatever was true when it was found.    *)
StartsAreCurrent ==
  \A r \in runs' \ runs : /\ r.version = version /\ status = "active"
                          /\ Scheduled(r) \/ version \in Typed => authorized
                          /\ Scheduled(r) => r.key \in Cron[version]
OnlyCurrentStarts == [][StartsAreCurrent]_vars

(* The minute is measured from the time read before the lock was granted; by   *)
(* the clock at which the run is inserted it may be over.                      *)
NeverLate == [][\A r \in runs' \ runs :
                  Scheduled(r) => clock <= r.key + Minute]_vars

(* Why the properties hold: what a transaction decided stays true until it     *)
(* commits, because it holds the lock.                                         *)
LockFollowsControl == \A p \in Procs : pc[p] = "decided" <=> lock = p

(* Recorded and missed time lies behind the cursor, which lies behind the clock *)
PastIsBehind ==
  /\ cursor <= clock /\ \A p \in Procs : now[p] <= clock
  /\ \A m \in DOMAIN records : m <= cursor
  /\ \A i \in missed : i[1] < i[2] /\ i[2] <= cursor

Accepted(s) == {m \in DOMAIN plan[s] : plan[s][m] = "accepted"}

SchedulesDecided ==
  \A s \in Schedulers : pc[s] = "decided" =>
    /\ status = "active" /\ found[s] = version /\ cursor <= now[s]
    /\ DOMAIN plan[s] = IF Kind[version] = "invalid" THEN {} ELSE Due(s)
    /\ Accepted(s) # {} => /\ authorized
                           /\ Occupied + Cardinality(Accepted(s)) <= Limit[version]

CallsDecided ==
  \A c \in Callers : pc[c] = "decided" =>
    /\ status = "active" /\ found[c] = version /\ ~Known(Key[c]) /\ ~Denied
    /\ Occupied < Limit[version]

TriggerInv == /\ TypeOK /\ LockFollowsControl /\ PastIsBehind /\ SchedulesDecided
              /\ CallsDecided /\ OneRunPerKey /\ AuditIsTrue
=============================================================================
