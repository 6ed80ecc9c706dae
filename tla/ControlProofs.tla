---------------------------- MODULE ControlProofs ----------------------------
(***************************************************************************)
(* Proofs about ControlSession for any sessions and any number of failures. *)
(***************************************************************************)
EXTENDS ControlSession, TLAPS

(* What every action is written with. *)
USE DEF row, ghost, vars, Become

(* What a step does to the events: one of them moves into S. *)
Typed == event' \in [Sessions -> [Kinds -> EventStates]]

Moves(s, k, S) ==
  /\ Typed /\ event'[s][k] \in S
  /\ \A t \in Sessions, l \in Kinds : t # s \/ l # k => event'[t][l] = event[t][l]

(* A new event of a session, beside what happens to the others. *)
Inserted(s, l) == event[s][l] = "absent" /\ event'[s][l] = "pending"

Adds(s, k) ==
  /\ Typed
  /\ \A t \in Sessions, l \in Kinds : \/ event'[t][l] = event[t][l]
                                      \/ t = s /\ l = k /\ Inserted(s, l)

(* Assigning to one event of a session. *)
LEMMA Assigned ==
  ASSUME NEW e \in [Sessions -> [Kinds -> EventStates]],
         NEW s \in Sessions, NEW k \in Kinds, NEW x \in EventStates,
         event' = [e EXCEPT ![s][k] = x]
  PROVE  /\ Typed /\ event'[s][k] = x
         /\ \A t \in Sessions, l \in Kinds : t # s \/ l # k => event'[t][l] = e[t][l]
<1>1. [e[s] EXCEPT ![k] = x] \in [Kinds -> EventStates]
  OBVIOUS
<1> QED
  BY <1>1 DEF Typed

(* A handler goes on to a point, ... *)
LEMMA GoesTo ==
  ASSUME TypeOK, NEW s \in Sessions, NEW k \in Kinds, NEW x \in EventStates, Goto(s, k, x)
  PROVE  Moves(s, k, {x})
<1>1. event \in [Sessions -> [Kinds -> EventStates]] /\ event' = [event EXCEPT ![s][k] = x]
  BY DEF TypeOK, Goto
<1>2. /\ Typed /\ event'[s][k] = x
      /\ \A t \in Sessions, l \in Kinds : t # s \/ l # k => event'[t][l] = event[t][l]
  BY <1>1, Assigned
<1> QED
  BY <1>2 DEF Moves

(* ... or returns. *)
LEMMA GoesBack ==
  ASSUME TypeOK, NEW s \in Sessions, NEW k \in Kinds, Returns(s, k, event)
  PROVE  Moves(s, k, {"done", "pending"}) /\ failures' \in Nat
<1>1. "done" \in EventStates /\ "pending" \in EventStates
  BY DEF EventStates
<1>2. PICK x \in {"done", "pending"} : event' = [event EXCEPT ![s][k] = x]
  BY DEF Returns
<1>3. Moves(s, k, {x})
  <2>1. event \in [Sessions -> [Kinds -> EventStates]] /\ x \in EventStates
    BY <1>1 DEF TypeOK
  <2>2. /\ Typed /\ event'[s][k] = x
        /\ \A t \in Sessions, l \in Kinds : t # s \/ l # k => event'[t][l] = event[t][l]
    BY <1>2, <2>1, Assigned
  <2> QED
    BY <2>2 DEF Moves
<1>4. failures' \in Nat
  BY DEF Returns, TypeOK
<1> QED
  BY <1>3, <1>4 DEF Moves

(* An event is inserted, unless it was before. *)
LEMMA Inserts ==
  ASSUME TypeOK, NEW s \in Sessions, NEW k \in Kinds
  PROVE  /\ WithEvent(s, k) \in [Sessions -> [Kinds -> EventStates]]
         /\ WithEvent(s, k)[s][k] = IF event[s][k] = "absent" THEN "pending" ELSE event[s][k]
         /\ \A t \in Sessions, l \in Kinds :
              t # s \/ l # k => WithEvent(s, k)[t][l] = event[t][l]
<1> DEFINE x == IF event[s][k] = "absent" THEN "pending" ELSE event[s][k]
<1>1. event \in [Sessions -> [Kinds -> EventStates]]
  BY DEF TypeOK
<1>2. x \in EventStates
  BY <1>1 DEF EventStates
<1>3. WithEvent(s, k) = [event EXCEPT ![s][k] = x]
  BY DEF WithEvent
<1> HIDE DEF x
<1>4. [event[s] EXCEPT ![k] = x] \in [Kinds -> EventStates]
  BY <1>1, <1>2
<1>5. /\ WithEvent(s, k) \in [Sessions -> [Kinds -> EventStates]]
      /\ WithEvent(s, k)[s][k] = x
      /\ \A t \in Sessions, l \in Kinds :
           t # s \/ l # k => WithEvent(s, k)[t][l] = event[t][l]
  BY <1>1, <1>3, <1>4
<1> QED
  BY <1>5 DEF x

(* What a request or a sweep, which inserts one, does to the events. *)
LEMMA InsertMoves ==
  ASSUME TypeOK, NEW s \in Sessions, NEW k \in Kinds, event' = WithEvent(s, k)
  PROVE  Adds(s, k)
<1>1. /\ WithEvent(s, k) \in [Sessions -> [Kinds -> EventStates]]
      /\ WithEvent(s, k)[s][k] = IF event[s][k] = "absent" THEN "pending" ELSE event[s][k]
      /\ \A t \in Sessions, l \in Kinds :
           t # s \/ l # k => WithEvent(s, k)[t][l] = event[t][l]
  BY Inserts
<1>2. Typed
  BY <1>1 DEF Typed
<1>3. event'[s][k] = event[s][k] \/ Inserted(s, k)
  BY <1>1 DEF Inserted
<1>4. \A t \in Sessions, l \in Kinds : t # s \/ l # k => event'[t][l] = event[t][l]
  BY <1>1
<1>5. ASSUME NEW t \in Sessions, NEW l \in Kinds
      PROVE  \/ event'[t][l] = event[t][l]
             \/ t = s /\ l = k /\ Inserted(s, l)
  <2>1. CASE t = s /\ l = k
    BY <1>3, <2>1 DEF Inserted
  <2>2. CASE t # s \/ l # k
    BY <1>4, <2>2
  <2> QED
    BY <2>1, <2>2
<1> QED
  BY <1>2, <1>5 DEF Adds

(* What the steps of a handler do to the events: it returns, ... *)
LEMMA ReturnMoves ==
  ASSUME TypeOK, NEW s \in Sessions, NEW k \in Kinds,
         \/ AcquireLost(s, k) \/ ReleaseLost(s, k) \/ Unconfirmed(s, k)
         \/ Activate(s, k) \/ Refuse(s, k) \/ FinishRelease(s, k)
  PROVE  Moves(s, k, {"done", "pending"}) /\ failures' \in Nat
<1>1. Returns(s, k, event)
  BY DEF AcquireLost, ReleaseLost, Unconfirmed, Activate, Refuse, FinishRelease
<1> QED
  BY <1>1, GoesBack

(* ... reads what it will do, ... *)
LEMMA LoadMoves ==
  ASSUME TypeOK, NEW s \in Sessions, NEW k \in Kinds, Load(s, k)
  PROVE  /\ failures' \in Nat
         /\ \/ Branch(s) = {} /\ Moves(s, k, {"done", "pending"})
            \/ Moves(s, k, Branch(s))
<1>1. Branch(s) \subseteq EventStates
  BY DEF Branch, EventStates, Points
<1>2. CASE Branch(s) = {}
  BY <1>2, GoesBack DEF Load
<1>3. CASE Branch(s) # {}
  <2>1. PICK x \in Branch(s) : Goto(s, k, x)
    BY <1>3 DEF Load
  <2>2. Moves(s, k, {x})
    BY <1>1, <2>1, GoesTo
  <2> QED
    BY <1>3, <2>2 DEF Load, Moves, TypeOK
<1> QED
  BY <1>2, <1>3

(* ... stops on the way, ... *)
LEMMA FailMoves ==
  ASSUME TypeOK, NEW s \in Sessions, NEW k \in Kinds, Fail(s, k)
  PROVE  Moves(s, k, {"pending"})
<1>1. "pending" \in EventStates
  BY DEF EventStates
<1> QED
  BY <1>1, GoesTo DEF Fail

(* ... or goes on. *)
LEMMA CallMoves ==
  ASSUME TypeOK, NEW s \in Sessions, NEW k \in Kinds
  PROVE  /\ BeginAcquire(s, k) => Moves(s, k, {"acquireCall", "nacked"})
         /\ AcquireServed(s, k) => \/ cloud' = s /\ Moves(s, k, {"accepted", "unknown"})
                                   \/ cloud' = cloud /\ Moves(s, k, {"nacked", "unknown"})
         /\ BeginRelease(s, k) => Moves(s, k, {"releaseCall", "unanswered"})
         /\ ReleaseServed(s, k) => \/ /\ cloud' = None /\ confirmed' = confirmed \cup {s}
                                      /\ Moves(s, k, {"givenBack"})
                                   \/ /\ cloud' \in {None, cloud} /\ confirmed' = confirmed
                                      /\ Moves(s, k, {"unanswered"})
<1>1. {"acquireCall", "nacked", "accepted", "unknown", "releaseCall", "unanswered", "givenBack"}
        \subseteq EventStates
  BY DEF EventStates, Points
<1>2. BeginAcquire(s, k) => Moves(s, k, {"acquireCall", "nacked"})
  BY <1>1, GoesTo DEF BeginAcquire, Moves
<1>3. AcquireServed(s, k) => \/ cloud' = s /\ Moves(s, k, {"accepted", "unknown"})
                             \/ cloud' = cloud /\ Moves(s, k, {"nacked", "unknown"})
  BY <1>1, GoesTo DEF AcquireServed, Moves
<1>4. BeginRelease(s, k) => Moves(s, k, {"releaseCall", "unanswered"})
  BY <1>1, GoesTo DEF BeginRelease, Moves
<1>5. ReleaseServed(s, k) => \/ /\ cloud' = None /\ confirmed' = confirmed \cup {s}
                                /\ Moves(s, k, {"givenBack"})
                             \/ /\ cloud' \in {None, cloud} /\ confirmed' = confirmed
                                /\ Moves(s, k, {"unanswered"})
  BY <1>1, GoesTo DEF ReleaseServed
<1> QED
  BY <1>2, <1>3, <1>4, <1>5

(* A call that is counted keeps the counts typed. *)
LEMMA CountsTyped ==
  ASSUME TypeOK, NEW s \in Sessions, NEW kind \in {"acquire", "release"},
         Call(s, kind) \/ UNCHANGED calls
  PROVE  calls' \in [Sessions -> [{"acquire", "release"} -> Nat]]
<1>1. calls \in [Sessions -> [{"acquire", "release"} -> Nat]]
  BY DEF TypeOK
<1>2. [calls[s] EXCEPT ![kind] = @ + 1] \in [{"acquire", "release"} -> Nat]
  BY <1>1
<1> QED
  BY <1>1, <1>2 DEF Call

(* What queueing a release does to them: the handler returns, and the event of *)
(* the automatic release is inserted when the session begins to release.       *)
LEMMA QueueMoves ==
  ASSUME TypeOK, NEW s \in Sessions, NEW k \in Kinds, QueueRelease(s, k)
  PROVE  /\ Typed /\ event'[s][k] \in {"done", "pending"} /\ failures' \in Nat
         /\ \A t \in Sessions, l \in Kinds :
              t # s \/ l # k => \/ event'[t][l] = event[t][l]
                                \/ /\ t = s /\ Inserted(s, l) /\ l = "auto-release"
                                   /\ status'[s] = "releasing"
<1>1. CASE status[s] \in {"requested", "acquiring", "active"}
  <2> DEFINE e == WithEvent(s, "auto-release")
  <2>1. "auto-release" \in Kinds /\ "done" \in EventStates /\ "pending" \in EventStates
    BY DEF Kinds, EventStates
  <2>2. status'[s] = "releasing" /\ Returns(s, k, e) /\ failures' \in Nat
    BY <1>1 DEF QueueRelease, Returns, TypeOK
  <2>3. PICK x \in {"done", "pending"} : event' = [e EXCEPT ![s][k] = x]
    BY <2>2 DEF Returns
  <2>4. /\ e \in [Sessions -> [Kinds -> EventStates]]
        /\ e[s]["auto-release"] = IF event[s]["auto-release"] = "absent" THEN "pending"
                                  ELSE event[s]["auto-release"]
        /\ \A t \in Sessions, l \in Kinds : t # s \/ l # "auto-release" => e[t][l] = event[t][l]
    BY <2>1, Inserts
  <2> HIDE DEF e
  <2>5. /\ Typed /\ event'[s][k] = x
        /\ \A t \in Sessions, l \in Kinds : t # s \/ l # k => event'[t][l] = e[t][l]
    <3>1. x \in EventStates
      BY <2>1
    <3> QED
      BY <3>1, <2>3, <2>4, Assigned
  <2> QED
    BY <2>1, <2>2, <2>4, <2>5 DEF Inserted
<1>2. CASE status[s] \notin {"requested", "acquiring", "active"}
  BY <1>2, GoesBack DEF QueueRelease, Moves
<1> QED
  BY <1>1, <1>2

-----------------------------------------------------------------------------
(* Every step keeps the types. *)
LEMMA StepTypes == ControlInv /\ [Next]_vars => TypeOK'
<1> SUFFICES ASSUME ControlInv, [Next]_vars PROVE TypeOK'
  OBVIOUS
<1>0. TypeOK
  BY DEF ControlInv
<1> USE ControlAssumption DEF ControlInv, TypeOK, Typed, Statuses, Live, Ended
<1>1. ASSUME NEW s \in Sessions, HalfASecond(s) \/ LeaseExpires(s) \/ Heartbeat(s)
      PROVE  TypeOK'
  BY <1>1 DEF HalfASecond, LeaseExpires, Heartbeat
<1>2. ASSUME NEW s \in Sessions, Create(s)
      PROVE  TypeOK'
  <2>1. Adds(s, "acquire")
    BY <1>0, <1>2, InsertMoves DEF Create, Kinds
  <2> QED
    BY <1>2, <2>1 DEF Create, Inserted, Adds
<1>3. ASSUME NEW s \in Sessions, Release(s)
      PROVE  TypeOK'
  <2>1. Adds(s, "release")
    BY <1>0, <1>3, InsertMoves DEF Release, Kinds
  <2> QED
    BY <1>3, <2>1 DEF Release, Inserted, Adds
<1>4. ASSUME NEW s \in Sessions, SweepExpired(s) \/ SweepRevoked(s)
      PROVE  TypeOK'
  <2>1. Adds(s, "auto-release")
    BY <1>0, <1>4, InsertMoves DEF SweepExpired, SweepRevoked, Swept, Kinds
  <2> QED
    BY <1>4, <2>1 DEF SweepExpired, SweepRevoked, Swept, Inserted, Adds
<1>5. ASSUME NEW s \in Sessions, NEW k \in Kinds, Load(s, k)
      PROVE  TypeOK'
  <2>1. Typed /\ failures' \in Nat
    BY <1>0, <1>5, LoadMoves DEF Moves
  <2> QED
    BY <1>5, <2>1 DEF Load
<1>6. ASSUME NEW s \in Sessions, NEW k \in Kinds, Fail(s, k)
      PROVE  TypeOK'
  <2>1. Moves(s, k, {"pending"})
    BY <1>0, <1>6, FailMoves
  <2> QED
    BY <1>6, <2>1 DEF Fail, Moves
<1>7. ASSUME NEW s \in Sessions, NEW k \in Kinds, BeginAcquire(s, k)
      PROVE  TypeOK'
  <2>1. calls' \in [Sessions -> [{"acquire", "release"} -> Nat]]
    BY <1>0, <1>7, CountsTyped DEF BeginAcquire
  <2>2. Moves(s, k, {"acquireCall", "nacked"})
    BY <1>0, <1>7, CallMoves
  <2>3. /\ acquires' \in [Sessions -> 0..1] /\ releases' \in [Sessions -> 0..1]
        /\ status' \in [Sessions -> Statuses]
    BY <1>7 DEF BeginAcquire, Acquirable
  <2> QED
    BY <1>7, <2>1, <2>2, <2>3 DEF BeginAcquire, Moves
<1>8. ASSUME NEW s \in Sessions, NEW k \in Kinds, 
             \/ AcquireLost(s, k) \/ ReleaseLost(s, k) \/ Unconfirmed(s, k)
             \/ Activate(s, k) \/ Refuse(s, k) \/ FinishRelease(s, k)
      PROVE  TypeOK'
  <2>1. Moves(s, k, {"done", "pending"}) /\ failures' \in Nat
    BY <1>0, <1>8, ReturnMoves
  <2>2. CASE AcquireLost(s, k) \/ ReleaseLost(s, k) \/ Unconfirmed(s, k)
    BY <2>1, <2>2 DEF AcquireLost, ReleaseLost, Unconfirmed, Moves
  <2>3. CASE Activate(s, k)
    BY <2>1, <2>3 DEF Activate, Moves
  <2>4. CASE Refuse(s, k)
    BY <2>1, <2>4 DEF Refuse, Moves
  <2>5. CASE FinishRelease(s, k)
    BY <2>1, <2>5 DEF FinishRelease, Moves
  <2> QED
    BY <1>8, <2>2, <2>3, <2>4, <2>5
<1>9. ASSUME NEW s \in Sessions, NEW k \in Kinds, AcquireServed(s, k)
      PROVE  TypeOK'
  <2>1. \/ cloud' = s /\ Moves(s, k, {"accepted", "unknown"})
        \/ cloud' = cloud /\ Moves(s, k, {"nacked", "unknown"})
    BY <1>0, <1>9, CallMoves
  <2> QED
    BY <1>9, <2>1 DEF AcquireServed, Moves
<1>10. ASSUME NEW s \in Sessions, NEW k \in Kinds, QueueRelease(s, k)
      PROVE  TypeOK'
  <2>1. /\ Typed /\ event'[s][k] \in {"done", "pending"} /\ failures' \in Nat
        /\ \A t \in Sessions, l \in Kinds :
             t # s \/ l # k => \/ event'[t][l] = event[t][l]
                               \/ /\ t = s /\ Inserted(s, l) /\ l = "auto-release"
                                  /\ status'[s] = "releasing"
    BY <1>0, <1>10, QueueMoves
  <2> QED
    BY <1>10, <2>1 DEF QueueRelease, Inserted
<1>11. ASSUME NEW s \in Sessions, NEW k \in Kinds, BeginRelease(s, k)
      PROVE  TypeOK'
  <2>1. calls' \in [Sessions -> [{"acquire", "release"} -> Nat]]
    BY <1>0, <1>11, CountsTyped DEF BeginRelease
  <2>2. Moves(s, k, {"releaseCall", "unanswered"})
    BY <1>0, <1>11, CallMoves
  <2>3. /\ acquires' \in [Sessions -> 0..1] /\ releases' \in [Sessions -> 0..1]
        /\ status' \in [Sessions -> Statuses]
    BY <1>11 DEF BeginRelease, Releasable
  <2> QED
    BY <1>11, <2>1, <2>2, <2>3 DEF BeginRelease, Moves
<1>12. ASSUME NEW s \in Sessions, NEW k \in Kinds, ReleaseServed(s, k)
      PROVE  TypeOK'
  <2>1. \/ cloud' = None /\ confirmed' = confirmed \cup {s} /\ Moves(s, k, {"givenBack"})
        \/ cloud' \in {None, cloud} /\ confirmed' = confirmed /\ Moves(s, k, {"unanswered"})
    BY <1>0, <1>12, CallMoves
  <2> QED
    BY <1>12, <2>1 DEF ReleaseServed, Moves
<1>13. CASE UNCHANGED vars
  BY <1>13
<1> QED
  BY <1>1, <1>2, <1>3, <1>4, <1>5, <1>6, <1>7, <1>8, <1>9, <1>10,
     <1>11, <1>12, <1>13 DEF Next, Handle

(* A call is counted before it is made. *)
LEMMA StepCalls == ControlInv /\ [Next]_vars => CallsCounted'
<1> SUFFICES ASSUME ControlInv, [Next]_vars PROVE CallsCounted'
  OBVIOUS
<1>0. TypeOK
  BY DEF ControlInv
<1> USE ControlAssumption DEF ControlInv, TypeOK, CallsCounted
<1>1. ASSUME NEW s \in Sessions, 
             \/ HalfASecond(s) \/ LeaseExpires(s) \/ Create(s) \/ Heartbeat(s) \/ Release(s)
             \/ SweepExpired(s) \/ SweepRevoked(s)
      PROVE  CallsCounted'
  BY <1>1 DEF HalfASecond, LeaseExpires, Create, Heartbeat, Release,
              SweepExpired, SweepRevoked, Swept
<1>2. ASSUME NEW s \in Sessions, NEW k \in Kinds, 
             \/ Load(s, k) \/ Fail(s, k) \/ AcquireLost(s, k) \/ AcquireServed(s, k)
             \/ ReleaseLost(s, k) \/ ReleaseServed(s, k) \/ Unconfirmed(s, k)
      PROVE  CallsCounted'
  BY <1>2 DEF Load, Fail, AcquireLost, AcquireServed, ReleaseLost, ReleaseServed, Unconfirmed
<1>3. ASSUME NEW s \in Sessions, NEW k \in Kinds, 
             \/ Activate(s, k) \/ Refuse(s, k) \/ QueueRelease(s, k) \/ FinishRelease(s, k)
      PROVE  CallsCounted'
  BY <1>3 DEF Activate, Activatable, Refuse, Finishable, QueueRelease, FinishRelease
<1>4. ASSUME NEW s \in Sessions, NEW k \in Kinds, BeginAcquire(s, k)
      PROVE  CallsCounted'
  BY <1>4 DEF BeginAcquire, Acquirable, Call
<1>5. ASSUME NEW s \in Sessions, NEW k \in Kinds, BeginRelease(s, k)
      PROVE  CallsCounted'
  BY <1>5 DEF BeginRelease, Releasable, Call
<1>6. CASE UNCHANGED vars
  BY <1>6
<1> QED
  BY <1>1, <1>2, <1>3, <1>4, <1>5, <1>6 DEF Next, Handle

(* A session is created only where no other one is live. *)
LEMMA StepOneLive == ControlInv /\ [Next]_vars => OneLive'
<1> SUFFICES ASSUME ControlInv, [Next]_vars PROVE OneLive'
  OBVIOUS
<1>0. TypeOK
  BY DEF ControlInv
<1> USE ControlAssumption DEF ControlInv, TypeOK, OneLive, Live, Ended
<1>1. ASSUME NEW s \in Sessions, 
             \/ HalfASecond(s) \/ LeaseExpires(s) \/ Create(s) \/ Heartbeat(s) \/ Release(s)
             \/ SweepExpired(s) \/ SweepRevoked(s)
      PROVE  OneLive'
  BY <1>1 DEF HalfASecond, LeaseExpires, Create, Heartbeat, Release,
              SweepExpired, SweepRevoked, Swept
<1>2. ASSUME NEW s \in Sessions, NEW k \in Kinds, 
             \/ Load(s, k) \/ Fail(s, k) \/ AcquireLost(s, k) \/ AcquireServed(s, k)
             \/ ReleaseLost(s, k) \/ ReleaseServed(s, k) \/ Unconfirmed(s, k)
      PROVE  OneLive'
  BY <1>2 DEF Load, Fail, AcquireLost, AcquireServed, ReleaseLost, ReleaseServed, Unconfirmed
<1>3. ASSUME NEW s \in Sessions, NEW k \in Kinds, 
             \/ Activate(s, k) \/ Refuse(s, k) \/ QueueRelease(s, k) \/ FinishRelease(s, k)
      PROVE  OneLive'
  BY <1>3 DEF Activate, Activatable, Refuse, Finishable, QueueRelease, FinishRelease
<1>4. ASSUME NEW s \in Sessions, NEW k \in Kinds, BeginAcquire(s, k)
      PROVE  OneLive'
  BY <1>4 DEF BeginAcquire, Acquirable, Call
<1>5. ASSUME NEW s \in Sessions, NEW k \in Kinds, BeginRelease(s, k)
      PROVE  OneLive'
  BY <1>5 DEF BeginRelease, Releasable, Call
<1>6. CASE UNCHANGED vars
  BY <1>6
<1> QED
  BY <1>1, <1>2, <1>3, <1>4, <1>5, <1>6 DEF Next, Handle

(* The release events come after the acquire. *)
LEMMA StepReleasesLater == ControlInv /\ [Next]_vars => ReleasesComeLater'
<1> SUFFICES ASSUME ControlInv, [Next]_vars PROVE ReleasesComeLater'
  OBVIOUS
<1>0. TypeOK
  BY DEF ControlInv
<1> USE ControlAssumption DEF ControlInv, TypeOK, Kinds, ReleasesComeLater, AcquirePoints
<1>1. ASSUME NEW s \in Sessions, HalfASecond(s) \/ LeaseExpires(s) \/ Heartbeat(s)
      PROVE  ReleasesComeLater'
  BY <1>1 DEF HalfASecond, LeaseExpires, Heartbeat
<1>2. ASSUME NEW s \in Sessions, Create(s)
      PROVE  ReleasesComeLater'
  <2>1. Adds(s, "acquire")
    BY <1>0, <1>2, InsertMoves DEF Create, Kinds
  <2> QED
    BY <1>2, <2>1 DEF Create, Inserted, Adds
<1>3. ASSUME NEW s \in Sessions, Release(s)
      PROVE  ReleasesComeLater'
  <2>1. Adds(s, "release")
    BY <1>0, <1>3, InsertMoves DEF Release, Kinds
  <2> QED
    BY <1>3, <2>1 DEF Release, Inserted, Adds
<1>4. ASSUME NEW s \in Sessions, SweepExpired(s) \/ SweepRevoked(s)
      PROVE  ReleasesComeLater'
  <2>1. Adds(s, "auto-release")
    BY <1>0, <1>4, InsertMoves DEF SweepExpired, SweepRevoked, Swept, Kinds
  <2> QED
    BY <1>4, <2>1 DEF SweepExpired, SweepRevoked, Swept, Inserted, Adds
<1>5. ASSUME NEW s \in Sessions, NEW k \in Kinds, Load(s, k)
      PROVE  ReleasesComeLater'
  <2>1. \/ Branch(s) = {} /\ Moves(s, k, {"done", "pending"})
        \/ Moves(s, k, Branch(s))
    BY <1>0, <1>5, LoadMoves
  <2> QED
    BY <1>5, <2>1 DEF Load, Branch, Moves
<1>6. ASSUME NEW s \in Sessions, NEW k \in Kinds, Fail(s, k)
      PROVE  ReleasesComeLater'
  <2>1. Moves(s, k, {"pending"})
    BY <1>0, <1>6, FailMoves
  <2>2. event[s][k] # "absent"
    BY <1>6 DEF Fail, Points
  <2> QED
    BY <1>6, <2>1, <2>2 DEF Fail, Moves
<1>7. ASSUME NEW s \in Sessions, NEW k \in Kinds, BeginAcquire(s, k)
      PROVE  ReleasesComeLater'
  <2>1. Moves(s, k, {"acquireCall", "nacked"})
    BY <1>0, <1>7, CallMoves
  <2> QED
    BY <1>7, <2>1 DEF BeginAcquire, Acquirable, Call, Moves
<1>8. ASSUME NEW s \in Sessions, NEW k \in Kinds, 
             \/ AcquireLost(s, k) \/ ReleaseLost(s, k) \/ Unconfirmed(s, k)
             \/ Activate(s, k) \/ Refuse(s, k) \/ FinishRelease(s, k)
      PROVE  ReleasesComeLater'
  <2>1. Moves(s, k, {"done", "pending"}) /\ failures' \in Nat
    BY <1>0, <1>8, ReturnMoves
  <2> QED
    BY <1>8, <2>1 DEF AcquireLost, ReleaseLost, Unconfirmed, Activate, Activatable, Refuse,
                    FinishRelease, Finishable, Moves
<1>9. ASSUME NEW s \in Sessions, NEW k \in Kinds, AcquireServed(s, k)
      PROVE  ReleasesComeLater'
  <2>1. \/ cloud' = s /\ Moves(s, k, {"accepted", "unknown"})
        \/ cloud' = cloud /\ Moves(s, k, {"nacked", "unknown"})
    BY <1>0, <1>9, CallMoves
  <2> QED
    BY <1>9, <2>1 DEF AcquireServed, Moves
<1>10. ASSUME NEW s \in Sessions, NEW k \in Kinds, QueueRelease(s, k)
      PROVE  ReleasesComeLater'
  <2>1. /\ Typed /\ event'[s][k] \in {"done", "pending"} /\ failures' \in Nat
        /\ \A t \in Sessions, l \in Kinds :
             t # s \/ l # k => \/ event'[t][l] = event[t][l]
                               \/ /\ t = s /\ Inserted(s, l) /\ l = "auto-release"
                                  /\ status'[s] = "releasing"
    BY <1>0, <1>10, QueueMoves
  <2> QED
    BY <1>10, <2>1 DEF QueueRelease, Inserted
<1>11. ASSUME NEW s \in Sessions, NEW k \in Kinds, BeginRelease(s, k)
      PROVE  ReleasesComeLater'
  <2>1. Moves(s, k, {"releaseCall", "unanswered"})
    BY <1>0, <1>11, CallMoves
  <2> QED
    BY <1>11, <2>1 DEF BeginRelease, Releasable, Call, Moves
<1>12. ASSUME NEW s \in Sessions, NEW k \in Kinds, ReleaseServed(s, k)
      PROVE  ReleasesComeLater'
  <2>1. \/ cloud' = None /\ confirmed' = confirmed \cup {s} /\ Moves(s, k, {"givenBack"})
        \/ cloud' \in {None, cloud} /\ confirmed' = confirmed /\ Moves(s, k, {"unanswered"})
    BY <1>0, <1>12, CallMoves
  <2> QED
    BY <1>12, <2>1 DEF ReleaseServed, Moves
<1>13. CASE UNCHANGED vars
  BY <1>13
<1> QED
  BY <1>1, <1>2, <1>3, <1>4, <1>5, <1>6, <1>7, <1>8, <1>9, <1>10,
     <1>11, <1>12, <1>13 DEF Next, Handle

(* What the acquiring handler has in hand stays true. *)
LEMMA StepAcquire == ControlInv /\ [Next]_vars => AcquireInHand'
<1> SUFFICES ASSUME ControlInv, [Next]_vars PROVE AcquireInHand'
  OBVIOUS
<1>0. TypeOK
  BY DEF ControlInv
<1> USE ControlAssumption
    DEF ControlInv, TypeOK, Kinds, AcquireInHand, ReleasesComeLater, OneLive, Live,
        Ended, AcquirePoints, Points
<1>1. ASSUME NEW s \in Sessions, HalfASecond(s) \/ LeaseExpires(s) \/ Heartbeat(s)
      PROVE  AcquireInHand'
  BY <1>1 DEF HalfASecond, LeaseExpires, Heartbeat
<1>2. ASSUME NEW s \in Sessions, Create(s)
      PROVE  AcquireInHand'
  <2>1. Adds(s, "acquire")
    BY <1>0, <1>2, InsertMoves DEF Create, Kinds
  <2> QED
    BY <1>2, <2>1 DEF Create, Inserted, Adds
<1>3. ASSUME NEW s \in Sessions, Release(s)
      PROVE  AcquireInHand'
  <2>1. Adds(s, "release")
    BY <1>0, <1>3, InsertMoves DEF Release, Kinds
  <2> QED
    BY <1>3, <2>1 DEF Release, Inserted, Adds
<1>4. ASSUME NEW s \in Sessions, SweepExpired(s) \/ SweepRevoked(s)
      PROVE  AcquireInHand'
  <2>1. Adds(s, "auto-release")
    BY <1>0, <1>4, InsertMoves DEF SweepExpired, SweepRevoked, Swept, Kinds
  <2> QED
    BY <1>4, <2>1 DEF SweepExpired, SweepRevoked, Swept, Inserted, Adds
<1>5. ASSUME NEW s \in Sessions, NEW k \in Kinds, Load(s, k)
      PROVE  AcquireInHand'
  <2>1. \/ Branch(s) = {} /\ Moves(s, k, {"done", "pending"})
        \/ Moves(s, k, Branch(s))
    BY <1>0, <1>5, LoadMoves
  <2> QED
    BY <1>5, <2>1 DEF Load, Branch, Moves
<1>6. ASSUME NEW s \in Sessions, NEW k \in Kinds, Fail(s, k)
      PROVE  AcquireInHand'
  <2>1. Moves(s, k, {"pending"})
    BY <1>0, <1>6, FailMoves
  <2> QED
    BY <1>6, <2>1 DEF Fail, Moves
<1>7. ASSUME NEW s \in Sessions, NEW k \in Kinds, BeginAcquire(s, k)
      PROVE  AcquireInHand'
  <2>1. Moves(s, k, {"acquireCall", "nacked"})
    BY <1>0, <1>7, CallMoves
  <2> QED
    BY <1>7, <2>1 DEF BeginAcquire, Acquirable, Call, Moves
<1>8. ASSUME NEW s \in Sessions, NEW k \in Kinds, 
             \/ AcquireLost(s, k) \/ ReleaseLost(s, k) \/ Unconfirmed(s, k)
             \/ Activate(s, k) \/ Refuse(s, k) \/ FinishRelease(s, k)
      PROVE  AcquireInHand'
  <2>1. Moves(s, k, {"done", "pending"}) /\ failures' \in Nat
    BY <1>0, <1>8, ReturnMoves
  <2> QED
    BY <1>8, <2>1 DEF AcquireLost, ReleaseLost, Unconfirmed, Activate, Activatable, Refuse,
                    FinishRelease, Finishable, Moves
<1>9. ASSUME NEW s \in Sessions, NEW k \in Kinds, AcquireServed(s, k)
      PROVE  AcquireInHand'
  <2>1. \/ cloud' = s /\ Moves(s, k, {"accepted", "unknown"})
        \/ cloud' = cloud /\ Moves(s, k, {"nacked", "unknown"})
    BY <1>0, <1>9, CallMoves
  <2> QED
    BY <1>9, <2>1 DEF AcquireServed, Moves
<1>10. ASSUME NEW s \in Sessions, NEW k \in Kinds, QueueRelease(s, k)
      PROVE  AcquireInHand'
  <2>1. /\ Typed /\ event'[s][k] \in {"done", "pending"} /\ failures' \in Nat
        /\ \A t \in Sessions, l \in Kinds :
             t # s \/ l # k => \/ event'[t][l] = event[t][l]
                               \/ /\ t = s /\ Inserted(s, l) /\ l = "auto-release"
                                  /\ status'[s] = "releasing"
    BY <1>0, <1>10, QueueMoves
  <2> QED
    BY <1>10, <2>1 DEF QueueRelease, Inserted
<1>11. ASSUME NEW s \in Sessions, NEW k \in Kinds, BeginRelease(s, k)
      PROVE  AcquireInHand'
  <2>1. Moves(s, k, {"releaseCall", "unanswered"})
    BY <1>0, <1>11, CallMoves
  <2> QED
    BY <1>11, <2>1 DEF BeginRelease, Releasable, Call, Moves
<1>12. ASSUME NEW s \in Sessions, NEW k \in Kinds, ReleaseServed(s, k)
      PROVE  AcquireInHand'
  <2>1. \/ cloud' = None /\ confirmed' = confirmed \cup {s} /\ Moves(s, k, {"givenBack"})
        \/ cloud' \in {None, cloud} /\ confirmed' = confirmed /\ Moves(s, k, {"unanswered"})
    BY <1>0, <1>12, CallMoves
  <2> QED
    BY <1>12, <2>1 DEF ReleaseServed, Moves
<1>13. CASE UNCHANGED vars
  BY <1>13
<1> QED
  BY <1>1, <1>2, <1>3, <1>4, <1>5, <1>6, <1>7, <1>8, <1>9, <1>10,
     <1>11, <1>12, <1>13 DEF Next, Handle

(* What the releasing handlers have in hand stays true. *)
LEMMA StepRelease == ControlInv /\ [Next]_vars => ReleaseInHand'
<1> SUFFICES ASSUME ControlInv, [Next]_vars PROVE ReleaseInHand'
  OBVIOUS
<1>0. TypeOK
  BY DEF ControlInv
<1> USE ControlAssumption
    DEF ControlInv, TypeOK, Kinds, ReleaseInHand, AcquireInHand, ReleasesComeLater,
        Ended, AcquirePoints, ReleasePoints, Points
<1>1. ASSUME NEW s \in Sessions, HalfASecond(s) \/ LeaseExpires(s) \/ Heartbeat(s)
      PROVE  ReleaseInHand'
  BY <1>1 DEF HalfASecond, LeaseExpires, Heartbeat
<1>2. ASSUME NEW s \in Sessions, Create(s)
      PROVE  ReleaseInHand'
  <2>1. Adds(s, "acquire")
    BY <1>0, <1>2, InsertMoves DEF Create, Kinds
  <2> QED
    BY <1>2, <2>1 DEF Create, Inserted, Adds
<1>3. ASSUME NEW s \in Sessions, Release(s)
      PROVE  ReleaseInHand'
  <2>1. Adds(s, "release")
    BY <1>0, <1>3, InsertMoves DEF Release, Kinds
  <2> QED
    BY <1>3, <2>1 DEF Release, Inserted, Adds
<1>4. ASSUME NEW s \in Sessions, SweepExpired(s) \/ SweepRevoked(s)
      PROVE  ReleaseInHand'
  <2>1. Adds(s, "auto-release")
    BY <1>0, <1>4, InsertMoves DEF SweepExpired, SweepRevoked, Swept, Kinds
  <2> QED
    BY <1>4, <2>1 DEF SweepExpired, SweepRevoked, Swept, Inserted, Adds
<1>5. ASSUME NEW s \in Sessions, NEW k \in Kinds, Load(s, k)
      PROVE  ReleaseInHand'
  <2>1. CASE Branch(s) = {} /\ Moves(s, k, {"done", "pending"})
    BY <1>5, <2>1 DEF Load, Moves
  <2>2. CASE Moves(s, k, Branch(s))
    <3>1. event'[s][k] \in ReleasePoints =>
            status[s] = "releasing" /\ event'[s][k] \in {"releasable", "attempted"}
      BY <2>2 DEF Branch, Moves
    <3> QED
      BY <1>5, <2>2, <3>1 DEF Load, Moves
  <2> QED
    BY <1>0, <1>5, <2>1, <2>2, LoadMoves
<1>6. ASSUME NEW s \in Sessions, NEW k \in Kinds, Fail(s, k)
      PROVE  ReleaseInHand'
  <2>1. Moves(s, k, {"pending"})
    BY <1>0, <1>6, FailMoves
  <2> QED
    BY <1>6, <2>1 DEF Fail, Moves
<1>7. ASSUME NEW s \in Sessions, NEW k \in Kinds, BeginAcquire(s, k)
      PROVE  ReleaseInHand'
  <2>1. Moves(s, k, {"acquireCall", "nacked"})
    BY <1>0, <1>7, CallMoves
  <2> QED
    BY <1>7, <2>1 DEF BeginAcquire, Acquirable, Call, Moves
<1>8. ASSUME NEW s \in Sessions, NEW k \in Kinds, 
             \/ AcquireLost(s, k) \/ ReleaseLost(s, k) \/ Unconfirmed(s, k)
             \/ Activate(s, k) \/ Refuse(s, k) \/ FinishRelease(s, k)
      PROVE  ReleaseInHand'
  <2>1. Moves(s, k, {"done", "pending"}) /\ failures' \in Nat
    BY <1>0, <1>8, ReturnMoves
  <2> QED
    BY <1>8, <2>1 DEF AcquireLost, ReleaseLost, Unconfirmed, Activate, Activatable, Refuse,
                    FinishRelease, Finishable, Moves
<1>9. ASSUME NEW s \in Sessions, NEW k \in Kinds, AcquireServed(s, k)
      PROVE  ReleaseInHand'
  <2>1. \/ cloud' = s /\ Moves(s, k, {"accepted", "unknown"})
        \/ cloud' = cloud /\ Moves(s, k, {"nacked", "unknown"})
    BY <1>0, <1>9, CallMoves
  <2> QED
    BY <1>9, <2>1 DEF AcquireServed, Moves
<1>10. ASSUME NEW s \in Sessions, NEW k \in Kinds, QueueRelease(s, k)
      PROVE  ReleaseInHand'
  <2>1. /\ Typed /\ event'[s][k] \in {"done", "pending"} /\ failures' \in Nat
        /\ \A t \in Sessions, l \in Kinds :
             t # s \/ l # k => \/ event'[t][l] = event[t][l]
                               \/ /\ t = s /\ Inserted(s, l) /\ l = "auto-release"
                                  /\ status'[s] = "releasing"
    BY <1>0, <1>10, QueueMoves
  <2> QED
    BY <1>10, <2>1 DEF QueueRelease, Inserted
<1>11. ASSUME NEW s \in Sessions, NEW k \in Kinds, BeginRelease(s, k)
      PROVE  ReleaseInHand'
  <2>1. Moves(s, k, {"releaseCall", "unanswered"})
    BY <1>0, <1>11, CallMoves
  <2> QED
    BY <1>11, <2>1 DEF BeginRelease, Releasable, Call, Moves
<1>12. ASSUME NEW s \in Sessions, NEW k \in Kinds, ReleaseServed(s, k)
      PROVE  ReleaseInHand'
  <2>1. \/ cloud' = None /\ confirmed' = confirmed \cup {s} /\ Moves(s, k, {"givenBack"})
        \/ cloud' \in {None, cloud} /\ confirmed' = confirmed /\ Moves(s, k, {"unanswered"})
    BY <1>0, <1>12, CallMoves
  <2> QED
    BY <1>12, <2>1 DEF ReleaseServed, Moves
<1>13. CASE UNCHANGED vars
  BY <1>13
<1> HIDE DEF ReleaseInHand
<1> QED
  BY <1>1, <1>2, <1>3, <1>4, <1>5, <1>6, <1>7, <1>8, <1>9, <1>10,
     <1>11, <1>12, <1>13 DEF Next, Handle

(* What was active ends confirmed. *)
LEMMA StepConfirmed == ControlInv /\ [Next]_vars => ActivatedEndsConfirmed'
<1> SUFFICES ASSUME ControlInv, [Next]_vars PROVE ActivatedEndsConfirmed'
  OBVIOUS
<1>0. TypeOK
  BY DEF ControlInv
<1> USE ControlAssumption
    DEF ControlInv, TypeOK, Kinds, ActivatedEndsConfirmed, AcquireInHand, ReleaseInHand,
        ReleasesComeLater, Ended, AcquirePoints
<1>1. ASSUME NEW s \in Sessions, HalfASecond(s) \/ LeaseExpires(s) \/ Heartbeat(s)
      PROVE  ActivatedEndsConfirmed'
  BY <1>1 DEF HalfASecond, LeaseExpires, Heartbeat
<1>2. ASSUME NEW s \in Sessions, Create(s)
      PROVE  ActivatedEndsConfirmed'
  <2>1. Adds(s, "acquire")
    BY <1>0, <1>2, InsertMoves DEF Create, Kinds
  <2> QED
    BY <1>2, <2>1 DEF Create, Inserted, Adds
<1>3. ASSUME NEW s \in Sessions, Release(s)
      PROVE  ActivatedEndsConfirmed'
  <2>1. Adds(s, "release")
    BY <1>0, <1>3, InsertMoves DEF Release, Kinds
  <2> QED
    BY <1>3, <2>1 DEF Release, Inserted, Adds
<1>4. ASSUME NEW s \in Sessions, SweepExpired(s) \/ SweepRevoked(s)
      PROVE  ActivatedEndsConfirmed'
  <2>1. Adds(s, "auto-release")
    BY <1>0, <1>4, InsertMoves DEF SweepExpired, SweepRevoked, Swept, Kinds
  <2> QED
    BY <1>4, <2>1 DEF SweepExpired, SweepRevoked, Swept, Inserted, Adds
<1>5. ASSUME NEW s \in Sessions, NEW k \in Kinds, Load(s, k)
      PROVE  ActivatedEndsConfirmed'
  <2>1. \/ Branch(s) = {} /\ Moves(s, k, {"done", "pending"})
        \/ Moves(s, k, Branch(s))
    BY <1>0, <1>5, LoadMoves
  <2> QED
    BY <1>5, <2>1 DEF Load, Branch, Moves
<1>6. ASSUME NEW s \in Sessions, NEW k \in Kinds, Fail(s, k)
      PROVE  ActivatedEndsConfirmed'
  <2>1. Moves(s, k, {"pending"})
    BY <1>0, <1>6, FailMoves
  <2> QED
    BY <1>6, <2>1 DEF Fail, Moves
<1>7. ASSUME NEW s \in Sessions, NEW k \in Kinds, BeginAcquire(s, k)
      PROVE  ActivatedEndsConfirmed'
  <2>1. Moves(s, k, {"acquireCall", "nacked"})
    BY <1>0, <1>7, CallMoves
  <2> QED
    BY <1>7, <2>1 DEF BeginAcquire, Acquirable, Call, Moves
<1>8. ASSUME NEW s \in Sessions, NEW k \in Kinds, 
             \/ AcquireLost(s, k) \/ ReleaseLost(s, k) \/ Unconfirmed(s, k)
             \/ Activate(s, k) \/ Refuse(s, k) \/ FinishRelease(s, k)
      PROVE  ActivatedEndsConfirmed'
  <2>1. Moves(s, k, {"done", "pending"}) /\ failures' \in Nat
    BY <1>0, <1>8, ReturnMoves
  <2> QED
    BY <1>8, <2>1 DEF AcquireLost, ReleaseLost, Unconfirmed, Activate, Activatable, Refuse,
                    FinishRelease, Finishable, Moves
<1>9. ASSUME NEW s \in Sessions, NEW k \in Kinds, AcquireServed(s, k)
      PROVE  ActivatedEndsConfirmed'
  <2>1. \/ cloud' = s /\ Moves(s, k, {"accepted", "unknown"})
        \/ cloud' = cloud /\ Moves(s, k, {"nacked", "unknown"})
    BY <1>0, <1>9, CallMoves
  <2> QED
    BY <1>9, <2>1 DEF AcquireServed, Moves
<1>10. ASSUME NEW s \in Sessions, NEW k \in Kinds, QueueRelease(s, k)
      PROVE  ActivatedEndsConfirmed'
  <2>1. /\ Typed /\ event'[s][k] \in {"done", "pending"} /\ failures' \in Nat
        /\ \A t \in Sessions, l \in Kinds :
             t # s \/ l # k => \/ event'[t][l] = event[t][l]
                               \/ /\ t = s /\ Inserted(s, l) /\ l = "auto-release"
                                  /\ status'[s] = "releasing"
    BY <1>0, <1>10, QueueMoves
  <2> QED
    BY <1>10, <2>1 DEF QueueRelease, Inserted
<1>11. ASSUME NEW s \in Sessions, NEW k \in Kinds, BeginRelease(s, k)
      PROVE  ActivatedEndsConfirmed'
  <2>1. Moves(s, k, {"releaseCall", "unanswered"})
    BY <1>0, <1>11, CallMoves
  <2> QED
    BY <1>11, <2>1 DEF BeginRelease, Releasable, Call, Moves
<1>12. ASSUME NEW s \in Sessions, NEW k \in Kinds, ReleaseServed(s, k)
      PROVE  ActivatedEndsConfirmed'
  <2>1. \/ cloud' = None /\ confirmed' = confirmed \cup {s} /\ Moves(s, k, {"givenBack"})
        \/ cloud' \in {None, cloud} /\ confirmed' = confirmed /\ Moves(s, k, {"unanswered"})
    BY <1>0, <1>12, CallMoves
  <2> QED
    BY <1>12, <2>1 DEF ReleaseServed, Moves
<1>13. CASE UNCHANGED vars
  BY <1>13
<1> HIDE DEF ActivatedEndsConfirmed
<1> QED
  BY <1>1, <1>2, <1>3, <1>4, <1>5, <1>6, <1>7, <1>8, <1>9, <1>10,
     <1>11, <1>12, <1>13 DEF Next, Handle

(* What ends leaves no control behind, but in haste. *)
LEMMA StepOrphans == ControlInv /\ [Next]_vars => OrphansOnlyByHaste'
<1> SUFFICES ASSUME ControlInv, [Next]_vars PROVE OrphansOnlyByHaste'
  OBVIOUS
<1>0. TypeOK
  BY DEF ControlInv
<1> USE ControlAssumption
    DEF ControlInv, TypeOK, Kinds, OrphansOnlyByHaste, AcquireInHand, ReleaseInHand,
        ReleasesComeLater, Ended, AcquirePoints
<1>1. ASSUME NEW s \in Sessions, HalfASecond(s) \/ LeaseExpires(s) \/ Heartbeat(s)
      PROVE  OrphansOnlyByHaste'
  BY <1>1 DEF HalfASecond, LeaseExpires, Heartbeat
<1>2. ASSUME NEW s \in Sessions, Create(s)
      PROVE  OrphansOnlyByHaste'
  <2>1. Adds(s, "acquire")
    BY <1>0, <1>2, InsertMoves DEF Create, Kinds
  <2> QED
    BY <1>2, <2>1 DEF Create, Inserted, Adds
<1>3. ASSUME NEW s \in Sessions, Release(s)
      PROVE  OrphansOnlyByHaste'
  <2>1. Adds(s, "release")
    BY <1>0, <1>3, InsertMoves DEF Release, Kinds
  <2> QED
    BY <1>3, <2>1 DEF Release, Inserted, Adds
<1>4. ASSUME NEW s \in Sessions, SweepExpired(s) \/ SweepRevoked(s)
      PROVE  OrphansOnlyByHaste'
  <2>1. Adds(s, "auto-release")
    BY <1>0, <1>4, InsertMoves DEF SweepExpired, SweepRevoked, Swept, Kinds
  <2> QED
    BY <1>4, <2>1 DEF SweepExpired, SweepRevoked, Swept, Inserted, Adds
<1>5. ASSUME NEW s \in Sessions, NEW k \in Kinds, Load(s, k)
      PROVE  OrphansOnlyByHaste'
  <2>1. \/ Branch(s) = {} /\ Moves(s, k, {"done", "pending"})
        \/ Moves(s, k, Branch(s))
    BY <1>0, <1>5, LoadMoves
  <2> QED
    BY <1>5, <2>1 DEF Load, Branch, Moves
<1>6. ASSUME NEW s \in Sessions, NEW k \in Kinds, Fail(s, k)
      PROVE  OrphansOnlyByHaste'
  <2>1. Moves(s, k, {"pending"})
    BY <1>0, <1>6, FailMoves
  <2> QED
    BY <1>6, <2>1 DEF Fail, Moves
<1>7. ASSUME NEW s \in Sessions, NEW k \in Kinds, BeginAcquire(s, k)
      PROVE  OrphansOnlyByHaste'
  <2>1. Moves(s, k, {"acquireCall", "nacked"})
    BY <1>0, <1>7, CallMoves
  <2> QED
    BY <1>7, <2>1 DEF BeginAcquire, Acquirable, Call, Moves
<1>8. ASSUME NEW s \in Sessions, NEW k \in Kinds, 
             \/ AcquireLost(s, k) \/ ReleaseLost(s, k) \/ Unconfirmed(s, k)
             \/ Activate(s, k) \/ Refuse(s, k) \/ FinishRelease(s, k)
      PROVE  OrphansOnlyByHaste'
  <2>1. Moves(s, k, {"done", "pending"}) /\ failures' \in Nat
    BY <1>0, <1>8, ReturnMoves
  <2> QED
    BY <1>8, <2>1 DEF AcquireLost, ReleaseLost, Unconfirmed, Activate, Activatable, Refuse,
                    FinishRelease, Finishable, Moves
<1>9. ASSUME NEW s \in Sessions, NEW k \in Kinds, AcquireServed(s, k)
      PROVE  OrphansOnlyByHaste'
  <2>1. \/ cloud' = s /\ Moves(s, k, {"accepted", "unknown"})
        \/ cloud' = cloud /\ Moves(s, k, {"nacked", "unknown"})
    BY <1>0, <1>9, CallMoves
  <2> QED
    BY <1>9, <2>1 DEF AcquireServed, Moves
<1>10. ASSUME NEW s \in Sessions, NEW k \in Kinds, QueueRelease(s, k)
      PROVE  OrphansOnlyByHaste'
  <2>1. /\ Typed /\ event'[s][k] \in {"done", "pending"} /\ failures' \in Nat
        /\ \A t \in Sessions, l \in Kinds :
             t # s \/ l # k => \/ event'[t][l] = event[t][l]
                               \/ /\ t = s /\ Inserted(s, l) /\ l = "auto-release"
                                  /\ status'[s] = "releasing"
    BY <1>0, <1>10, QueueMoves
  <2> QED
    BY <1>10, <2>1 DEF QueueRelease, Inserted
<1>11. ASSUME NEW s \in Sessions, NEW k \in Kinds, BeginRelease(s, k)
      PROVE  OrphansOnlyByHaste'
  <2>1. Moves(s, k, {"releaseCall", "unanswered"})
    BY <1>0, <1>11, CallMoves
  <2> QED
    BY <1>11, <2>1 DEF BeginRelease, Releasable, Call, Moves
<1>12. ASSUME NEW s \in Sessions, NEW k \in Kinds, ReleaseServed(s, k)
      PROVE  OrphansOnlyByHaste'
  <2>1. \/ cloud' = None /\ confirmed' = confirmed \cup {s} /\ Moves(s, k, {"givenBack"})
        \/ cloud' \in {None, cloud} /\ confirmed' = confirmed /\ Moves(s, k, {"unanswered"})
    BY <1>0, <1>12, CallMoves
  <2> QED
    BY <1>12, <2>1 DEF ReleaseServed, Moves
<1>13. CASE UNCHANGED vars
  BY <1>13
<1> HIDE DEF OrphansOnlyByHaste
<1> QED
  BY <1>1, <1>2, <1>3, <1>4, <1>5, <1>6, <1>7, <1>8, <1>9, <1>10,
     <1>11, <1>12, <1>13 DEF Next, Handle

(* An accepted acquire is held, or lost to another session. *)
LEMMA StepAccepted == ControlInv /\ [Next]_vars => AcceptedIsHeld'
<1> SUFFICES ASSUME ControlInv, [Next]_vars PROVE AcceptedIsHeld'
  OBVIOUS
<1>0. TypeOK
  BY DEF ControlInv
<1> USE ControlAssumption
    DEF ControlInv, TypeOK, Kinds, AcceptedIsHeld, ActiveIsHeld, OneLive, AcquireInHand,
        ReleaseInHand, ReleasesComeLater, Live, Ended, AcquirePoints, ReleasePoints
<1>1. ASSUME NEW s \in Sessions, HalfASecond(s) \/ LeaseExpires(s) \/ Heartbeat(s)
      PROVE  AcceptedIsHeld'
  BY <1>1 DEF HalfASecond, LeaseExpires, Heartbeat
<1>2. ASSUME NEW s \in Sessions, Create(s)
      PROVE  AcceptedIsHeld'
  <2>1. Adds(s, "acquire")
    BY <1>0, <1>2, InsertMoves DEF Create, Kinds
  <2> QED
    BY <1>2, <2>1 DEF Create, Inserted, Adds
<1>3. ASSUME NEW s \in Sessions, Release(s)
      PROVE  AcceptedIsHeld'
  <2>1. Adds(s, "release")
    BY <1>0, <1>3, InsertMoves DEF Release, Kinds
  <2> QED
    BY <1>3, <2>1 DEF Release, Inserted, Adds
<1>4. ASSUME NEW s \in Sessions, SweepExpired(s) \/ SweepRevoked(s)
      PROVE  AcceptedIsHeld'
  <2>1. Adds(s, "auto-release")
    BY <1>0, <1>4, InsertMoves DEF SweepExpired, SweepRevoked, Swept, Kinds
  <2> QED
    BY <1>4, <2>1 DEF SweepExpired, SweepRevoked, Swept, Inserted, Adds
<1>5. ASSUME NEW s \in Sessions, NEW k \in Kinds, Load(s, k)
      PROVE  AcceptedIsHeld'
  <2>1. \/ Branch(s) = {} /\ Moves(s, k, {"done", "pending"})
        \/ Moves(s, k, Branch(s))
    BY <1>0, <1>5, LoadMoves
  <2>2. /\ event'[s][k] # "accepted"
        /\ \A t \in Sessions, l \in Kinds : t # s \/ l # k => event'[t][l] = event[t][l]
    BY <2>1 DEF Branch, Moves
  <2> QED
    BY <1>5, <2>2 DEF Load
<1>6. ASSUME NEW s \in Sessions, NEW k \in Kinds, Fail(s, k)
      PROVE  AcceptedIsHeld'
  <2>1. Moves(s, k, {"pending"})
    BY <1>0, <1>6, FailMoves
  <2> QED
    BY <1>6, <2>1 DEF Fail, Moves
<1>7. ASSUME NEW s \in Sessions, NEW k \in Kinds, BeginAcquire(s, k)
      PROVE  AcceptedIsHeld'
  <2>1. Moves(s, k, {"acquireCall", "nacked"})
    BY <1>0, <1>7, CallMoves
  <2> QED
    BY <1>7, <2>1 DEF BeginAcquire, Acquirable, Call, Moves
<1>8. ASSUME NEW s \in Sessions, NEW k \in Kinds, 
             \/ AcquireLost(s, k) \/ ReleaseLost(s, k) \/ Unconfirmed(s, k)
             \/ Activate(s, k) \/ Refuse(s, k) \/ FinishRelease(s, k)
      PROVE  AcceptedIsHeld'
  <2>1. Moves(s, k, {"done", "pending"}) /\ failures' \in Nat
    BY <1>0, <1>8, ReturnMoves
  <2> QED
    BY <1>8, <2>1 DEF AcquireLost, ReleaseLost, Unconfirmed, Activate, Activatable, Refuse,
                    FinishRelease, Finishable, Moves
<1>9. ASSUME NEW s \in Sessions, NEW k \in Kinds, AcquireServed(s, k)
      PROVE  AcceptedIsHeld'
  <2>1. \/ cloud' = s /\ Moves(s, k, {"accepted", "unknown"})
        \/ cloud' = cloud /\ Moves(s, k, {"nacked", "unknown"})
    BY <1>0, <1>9, CallMoves
  <2> QED
    BY <1>9, <2>1 DEF AcquireServed, Moves
<1>10. ASSUME NEW s \in Sessions, NEW k \in Kinds, QueueRelease(s, k)
      PROVE  AcceptedIsHeld'
  <2>1. /\ Typed /\ event'[s][k] \in {"done", "pending"} /\ failures' \in Nat
        /\ \A t \in Sessions, l \in Kinds :
             t # s \/ l # k => \/ event'[t][l] = event[t][l]
                               \/ /\ t = s /\ Inserted(s, l) /\ l = "auto-release"
                                  /\ status'[s] = "releasing"
    BY <1>0, <1>10, QueueMoves
  <2> QED
    BY <1>10, <2>1 DEF QueueRelease, Inserted
<1>11. ASSUME NEW s \in Sessions, NEW k \in Kinds, BeginRelease(s, k)
      PROVE  AcceptedIsHeld'
  <2>1. Moves(s, k, {"releaseCall", "unanswered"})
    BY <1>0, <1>11, CallMoves
  <2> QED
    BY <1>11, <2>1 DEF BeginRelease, Releasable, Call, Moves
<1>12. ASSUME NEW s \in Sessions, NEW k \in Kinds, ReleaseServed(s, k)
      PROVE  AcceptedIsHeld'
  <2>1. \/ cloud' = None /\ confirmed' = confirmed \cup {s} /\ Moves(s, k, {"givenBack"})
        \/ cloud' \in {None, cloud} /\ confirmed' = confirmed /\ Moves(s, k, {"unanswered"})
    BY <1>0, <1>12, CallMoves
  <2> QED
    BY <1>12, <2>1 DEF ReleaseServed, Moves
<1>13. CASE UNCHANGED vars
  BY <1>13
<1> HIDE DEF AcceptedIsHeld
<1> QED
  BY <1>1, <1>2, <1>3, <1>4, <1>5, <1>6, <1>7, <1>8, <1>9, <1>10,
     <1>11, <1>12, <1>13 DEF Next, Handle

(* An active session holds the device, or has lost it to another session. *)
LEMMA StepActive == ControlInv /\ [Next]_vars => ActiveIsHeld'
<1> SUFFICES ASSUME ControlInv, [Next]_vars PROVE ActiveIsHeld'
  OBVIOUS
<1>0. TypeOK
  BY DEF ControlInv
<1> USE ControlAssumption
    DEF ControlInv, TypeOK, Kinds, AcceptedIsHeld, ActiveIsHeld, OneLive, AcquireInHand,
        ReleaseInHand, ReleasesComeLater, Live, Ended, AcquirePoints, ReleasePoints
<1>1. ASSUME NEW s \in Sessions, HalfASecond(s) \/ LeaseExpires(s) \/ Heartbeat(s)
      PROVE  ActiveIsHeld'
  BY <1>1 DEF HalfASecond, LeaseExpires, Heartbeat
<1>2. ASSUME NEW s \in Sessions, Create(s)
      PROVE  ActiveIsHeld'
  <2>1. Adds(s, "acquire")
    BY <1>0, <1>2, InsertMoves DEF Create, Kinds
  <2> QED
    BY <1>2, <2>1 DEF Create, Inserted, Adds
<1>3. ASSUME NEW s \in Sessions, Release(s)
      PROVE  ActiveIsHeld'
  <2>1. Adds(s, "release")
    BY <1>0, <1>3, InsertMoves DEF Release, Kinds
  <2> QED
    BY <1>3, <2>1 DEF Release, Inserted, Adds
<1>4. ASSUME NEW s \in Sessions, SweepExpired(s) \/ SweepRevoked(s)
      PROVE  ActiveIsHeld'
  <2>1. Adds(s, "auto-release")
    BY <1>0, <1>4, InsertMoves DEF SweepExpired, SweepRevoked, Swept, Kinds
  <2> QED
    BY <1>4, <2>1 DEF SweepExpired, SweepRevoked, Swept, Inserted, Adds
<1>5. ASSUME NEW s \in Sessions, NEW k \in Kinds, Load(s, k)
      PROVE  ActiveIsHeld'
  <2>1. \/ Branch(s) = {} /\ Moves(s, k, {"done", "pending"})
        \/ Moves(s, k, Branch(s))
    BY <1>0, <1>5, LoadMoves
  <2> QED
    BY <1>5, <2>1 DEF Load, Branch, Moves
<1>6. ASSUME NEW s \in Sessions, NEW k \in Kinds, Fail(s, k)
      PROVE  ActiveIsHeld'
  <2>1. Moves(s, k, {"pending"})
    BY <1>0, <1>6, FailMoves
  <2> QED
    BY <1>6, <2>1 DEF Fail, Moves
<1>7. ASSUME NEW s \in Sessions, NEW k \in Kinds, BeginAcquire(s, k)
      PROVE  ActiveIsHeld'
  <2>1. Moves(s, k, {"acquireCall", "nacked"})
    BY <1>0, <1>7, CallMoves
  <2> QED
    BY <1>7, <2>1 DEF BeginAcquire, Acquirable, Call, Moves
<1>8. ASSUME NEW s \in Sessions, NEW k \in Kinds, 
             \/ AcquireLost(s, k) \/ ReleaseLost(s, k) \/ Unconfirmed(s, k)
             \/ Activate(s, k) \/ Refuse(s, k) \/ FinishRelease(s, k)
      PROVE  ActiveIsHeld'
  <2>1. Moves(s, k, {"done", "pending"}) /\ failures' \in Nat
    BY <1>0, <1>8, ReturnMoves
  <2> QED
    BY <1>8, <2>1 DEF AcquireLost, ReleaseLost, Unconfirmed, Activate, Activatable, Refuse,
                    FinishRelease, Finishable, Moves
<1>9. ASSUME NEW s \in Sessions, NEW k \in Kinds, AcquireServed(s, k)
      PROVE  ActiveIsHeld'
  <2>1. \/ cloud' = s /\ Moves(s, k, {"accepted", "unknown"})
        \/ cloud' = cloud /\ Moves(s, k, {"nacked", "unknown"})
    BY <1>0, <1>9, CallMoves
  <2> QED
    BY <1>9, <2>1 DEF AcquireServed, Moves
<1>10. ASSUME NEW s \in Sessions, NEW k \in Kinds, QueueRelease(s, k)
      PROVE  ActiveIsHeld'
  <2>1. /\ Typed /\ event'[s][k] \in {"done", "pending"} /\ failures' \in Nat
        /\ \A t \in Sessions, l \in Kinds :
             t # s \/ l # k => \/ event'[t][l] = event[t][l]
                               \/ /\ t = s /\ Inserted(s, l) /\ l = "auto-release"
                                  /\ status'[s] = "releasing"
    BY <1>0, <1>10, QueueMoves
  <2> QED
    BY <1>10, <2>1 DEF QueueRelease, Inserted
<1>11. ASSUME NEW s \in Sessions, NEW k \in Kinds, BeginRelease(s, k)
      PROVE  ActiveIsHeld'
  <2>1. Moves(s, k, {"releaseCall", "unanswered"})
    BY <1>0, <1>11, CallMoves
  <2> QED
    BY <1>11, <2>1 DEF BeginRelease, Releasable, Call, Moves
<1>12. ASSUME NEW s \in Sessions, NEW k \in Kinds, ReleaseServed(s, k)
      PROVE  ActiveIsHeld'
  <2>1. \/ cloud' = None /\ confirmed' = confirmed \cup {s} /\ Moves(s, k, {"givenBack"})
        \/ cloud' \in {None, cloud} /\ confirmed' = confirmed /\ Moves(s, k, {"unanswered"})
    BY <1>0, <1>12, CallMoves
  <2> QED
    BY <1>12, <2>1 DEF ReleaseServed, Moves
<1>13. CASE UNCHANGED vars
  BY <1>13
<1> HIDE DEF ActiveIsHeld
<1> QED
  BY <1>1, <1>2, <1>3, <1>4, <1>5, <1>6, <1>7, <1>8, <1>9, <1>10,
     <1>11, <1>12, <1>13 DEF Next, Handle

-----------------------------------------------------------------------------
(* The initial state satisfies the invariant. *)
LEMMA InitHolds == Init => ControlInv
<1> SUFFICES ASSUME Init PROVE ControlInv
  OBVIOUS
<1> USE ControlAssumption DEF Init
<1>1. TypeOK
  BY DEF TypeOK, Statuses, EventStates
<1>2. CallsCounted /\ OneLive /\ ReleasesComeLater
  BY DEF CallsCounted, OneLive, Live, ReleasesComeLater, AcquirePoints, Kinds
<1>3. AcquireInHand
  BY DEF AcquireInHand, AcquirePoints, Kinds
<1>4. ReleaseInHand
  BY DEF ReleaseInHand, ReleasePoints
<1>5. ActivatedEndsConfirmed /\ OrphansOnlyByHaste /\ AcceptedIsHeld /\ ActiveIsHeld
  BY DEF ActivatedEndsConfirmed, OrphansOnlyByHaste, AcceptedIsHeld, ActiveIsHeld, Ended
<1> QED
  BY <1>1, <1>2, <1>3, <1>4, <1>5 DEF ControlInv

(* Every step keeps it. *)
LEMMA ControlStep == ControlInv /\ [Next]_vars => ControlInv'
BY StepTypes, StepCalls, StepOneLive, StepReleasesLater, StepAcquire, StepRelease,
   StepConfirmed, StepOrphans, StepAccepted, StepActive DEF ControlInv

(* The invariant holds in every reachable state, for any number of sessions of *)
(* the device and any number of handlers that fail or stop half-way.           *)
THEOREM ControlInvariant == Spec => []ControlInv
BY InitHolds, ControlStep, PTL DEF Spec

(* The variables of a session keep their types. *)
THEOREM ControlTypes == Spec => []TypeOK
<1>1. ControlInv => TypeOK
  BY DEF ControlInv
<1> QED
  BY ControlInvariant, <1>1, PTL

(* A session calls the cloud once to acquire and once to release, however often *)
(* its handlers stop and come back.                                            *)
THEOREM SingleAttemptHolds == Spec => []SingleAttempt
<1>1. ControlInv => SingleAttempt
  BY DEF ControlInv, SingleAttempt, CallsCounted, TypeOK
<1> QED
  BY ControlInvariant, <1>1, PTL

(* At most one session of a device is live. *)
THEOREM OneLiveHolds == Spec => []OneLive
<1>1. ControlInv => OneLive
  BY DEF ControlInv
<1> QED
  BY ControlInvariant, <1>1, PTL

(* What was active ends only with the confirmation of the cloud. *)
THEOREM ActivatedEndsConfirmedHolds == Spec => []ActivatedEndsConfirmed
<1>1. ControlInv => ActivatedEndsConfirmed
  BY DEF ControlInv
<1> QED
  BY ControlInvariant, <1>1, PTL

(* A session that ends leaves the device under its control in the cloud only if *)
(* it was released while its acquire was out.                                  *)
THEOREM OrphansOnlyByHasteHolds == Spec => []OrphansOnlyByHaste
<1>1. ControlInv => OrphansOnlyByHaste
  BY DEF ControlInv
<1> QED
  BY ControlInvariant, <1>1, PTL

(* An active session has lost the device only to the call of another session    *)
(* that was released in haste or ended with that call under way.               *)
THEOREM ActiveIsHeldHolds == Spec => []ActiveIsHeld
<1>1. ControlInv => ActiveIsHeld
  BY DEF ControlInv
<1> QED
  BY ControlInvariant, <1>1, PTL

-----------------------------------------------------------------------------
(* Somebody is left to go on with every session. *)

(* What was inserted is pending. *)
LEMMA InsertedIsPending ==
  ASSUME TypeOK, NEW s \in Sessions, NEW k \in Kinds, event' = WithEvent(s, k)
  PROVE  /\ event'[s][k] = IF event[s][k] = "absent" THEN "pending" ELSE event[s][k]
         /\ \A t \in Sessions, l \in Kinds : t # s \/ l # k => event'[t][l] = event[t][l]
BY Inserts

(* A release that is queued for a session that has none inserts its event. *)
LEMMA QueuedIsPending ==
  ASSUME TypeOK, NEW s \in Sessions, NEW k \in Kinds, k # "auto-release", QueueRelease(s, k),
         status[s] \in {"requested", "acquiring", "active"}, event[s]["auto-release"] = "absent"
  PROVE  event'[s]["auto-release"] = "pending"
<1> DEFINE e == WithEvent(s, "auto-release")
<1>1. "auto-release" \in Kinds /\ "done" \in EventStates /\ "pending" \in EventStates
  BY DEF Kinds, EventStates
<1>2. e \in [Sessions -> [Kinds -> EventStates]] /\ e[s]["auto-release"] = "pending"
  BY <1>1, Inserts
<1>3. PICK x \in {"done", "pending"} : event' = [e EXCEPT ![s][k] = x]
  BY DEF QueueRelease, Returns
<1> HIDE DEF e
<1>4. \A t \in Sessions, l \in Kinds : t # s \/ l # k => event'[t][l] = e[t][l]
  <2>1. x \in EventStates
    BY <1>1
  <2> QED
    BY <1>2, <1>3, <2>1, Assigned
<1> QED
  BY <1>1, <1>2, <1>4

(* What the points of the handlers tell. *)
LEMMA PointsTell ==
  ASSUME ControlInv, NEW s \in Sessions, NEW k \in Kinds
  PROVE  /\ event[s][k] \in AcquirePoints => k = "acquire"
         /\ event[s][k] \in {"releaseCall", "givenBack"} => releases[s] = 1
         /\ event[s]["acquire"] = "gated" => acquires[s] = 0
         /\ status[s] \in {"absent", "requested", "acquiring"} =>
              event[s]["release"] = "absent" /\ event[s]["auto-release"] = "absent"
         /\ event[s][k] \in EventStates /\ status[s] \in Statuses /\ releases[s] \in 0..1
BY DEF ControlInv, TypeOK, ReleasesComeLater, AcquireInHand, ReleaseInHand, Kinds

(* Somebody is left to go on with every session. *)
LEMMA StepAttended == HandlerInv /\ [Next]_vars => NeverUnattended'
<1> SUFFICES ASSUME HandlerInv, [Next]_vars, NEW t \in Sessions PROVE Attended(t)'
  BY DEF NeverUnattended
<1>0. TypeOK /\ ControlInv /\ Attended(t)
  BY DEF HandlerInv, ControlInv, NeverUnattended
<1>a. /\ event \in [Sessions -> [Kinds -> EventStates]] /\ status \in [Sessions -> Statuses]
      /\ releases \in [Sessions -> 0..1] /\ acquires \in [Sessions -> 0..1]
  BY <1>0 DEF TypeOK
<1>b. /\ status[t] = "absent" => event[t]["acquire"] = "absent"
      /\ status[t] = "active" => event[t]["release"] = "absent" /\ event[t]["auto-release"] = "absent"
  BY DEF HandlerInv, EventsFollow
<1>k. "acquire" \in Kinds /\ "release" \in Kinds /\ "auto-release" \in Kinds
  BY DEF Kinds
<1>p. \A k \in Kinds : /\ event[t][k] \in AcquirePoints => k = "acquire"
                       /\ event[t][k] \in {"releaseCall", "givenBack"} => releases[t] = 1
                       /\ event[t]["acquire"] = "gated" => acquires[t] = 0
                       /\ status[t] \in {"absent", "requested", "acquiring"} =>
                            event[t]["release"] = "absent" /\ event[t]["auto-release"] = "absent"
  BY <1>0, PointsTell
<1>o. ASSUME status'[t] = status[t], releases'[t] = releases[t],
             \A l \in Kinds : event'[t][l] = event[t][l]
      PROVE  Attended(t)'
  BY <1>0, <1>o, <1>k DEF Attended
<1>1. ASSUME NEW s \in Sessions, HalfASecond(s) \/ LeaseExpires(s) \/ Heartbeat(s)
      PROVE  Attended(t)'
  BY <1>1, <1>o DEF HalfASecond, LeaseExpires, Heartbeat
<1>2. ASSUME NEW s \in Sessions, Create(s)
      PROVE  Attended(t)'
  <2>1. /\ event'[s]["acquire"] = IF event[s]["acquire"] = "absent" THEN "pending" ELSE event[s]["acquire"]
        /\ \A u \in Sessions, l \in Kinds : u # s \/ l # "acquire" => event'[u][l] = event[u][l]
    BY <1>0, <1>2, <1>k, InsertedIsPending DEF Create
  <2> QED
    BY <1>2, <1>a, <1>b, <1>k, <1>o, <2>1 DEF Create, Attended
<1>3. ASSUME NEW s \in Sessions, Release(s)
      PROVE  Attended(t)'
  <2>1. /\ event'[s]["release"] = IF event[s]["release"] = "absent" THEN "pending" ELSE event[s]["release"]
        /\ \A u \in Sessions, l \in Kinds : u # s \/ l # "release" => event'[u][l] = event[u][l]
    BY <1>0, <1>3, <1>k, InsertedIsPending DEF Release
  <2>2. CASE t # s
    BY <1>3, <1>a, <1>o, <2>1, <2>2 DEF Release
  <2>3. CASE t = s /\ status[s] = "releasing"
    BY <1>3, <1>a, <1>0, <1>k, <2>1, <2>3 DEF Release, Attended
  <2>4. CASE t = s /\ status[s] \in {"requested", "acquiring", "active"}
    BY <1>3, <1>a, <1>b, <1>p, <1>k, <2>1, <2>4 DEF Release, Attended
  <2> QED
    BY <1>3, <2>2, <2>3, <2>4 DEF Release, Live
<1>4. ASSUME NEW s \in Sessions, SweepExpired(s) \/ SweepRevoked(s)
      PROVE  Attended(t)'
  <2>0. Swept(s)
    BY <1>4 DEF SweepExpired, SweepRevoked
  <2>1. /\ event'[s]["auto-release"] = IF event[s]["auto-release"] = "absent" THEN "pending"
                                       ELSE event[s]["auto-release"]
        /\ \A u \in Sessions, l \in Kinds : u # s \/ l # "auto-release" => event'[u][l] = event[u][l]
    BY <1>0, <2>0, <1>k, InsertedIsPending DEF Swept
  <2> QED
    BY <2>0, <1>a, <1>b, <1>k, <1>o, <2>1 DEF Swept, Attended
<1>5. ASSUME NEW s \in Sessions, NEW k \in Kinds, Load(s, k)
      PROVE  Attended(t)'
  <2>0. status' = status /\ releases' = releases
    BY <1>5 DEF Load
  <2>1. CASE Branch(s) = {} /\ Moves(s, k, {"done", "pending"})
    <3>1. t = s => status[t] \notin {"requested", "acquiring", "releasing"}
      BY <2>1 DEF Branch
    <3> QED
      BY <1>o, <2>0, <2>1, <3>1 DEF Moves, Attended
  <2>2. CASE Moves(s, k, Branch(s))
    <3>1. CASE t = s /\ status[s] = "requested"
      BY <1>0, <1>k, <2>0, <2>2, <3>1 DEF Branch, Moves, Attended
    <3>2. CASE t = s /\ status[s] = "acquiring"
      BY <1>0, <1>k, <2>0, <2>2, <3>2 DEF Branch, Moves, Attended
    <3>3. CASE t = s /\ status[s] = "releasing"
      BY <1>0, <1>a, <1>k, <2>0, <2>2, <3>3 DEF Branch, Moves, Attended
    <3>4. CASE t = s /\ status[s] \notin {"requested", "acquiring", "releasing"}
      BY <2>0, <3>4 DEF Attended
    <3>5. CASE t # s
      BY <1>o, <2>0, <2>2, <3>5 DEF Moves
    <3> QED
      BY <3>1, <3>2, <3>3, <3>4, <3>5
  <2> QED
    BY <1>0, <1>5, <2>1, <2>2, LoadMoves
<1>6. ASSUME NEW s \in Sessions, NEW k \in Kinds, Fail(s, k)
      PROVE  Attended(t)'
  <2>1. Moves(s, k, {"pending"}) /\ status' = status /\ releases' = releases
    BY <1>0, <1>6, FailMoves DEF Fail
  <2> QED
    BY <1>0, <1>k, <1>o, <2>1 DEF Moves, Attended
<1>7. ASSUME NEW s \in Sessions, NEW k \in Kinds, BeginAcquire(s, k)
      PROVE  Attended(t)'
  <2>1. Moves(s, k, {"acquireCall", "nacked"})
    BY <1>0, <1>7, CallMoves
  <2>2. t = s => k = "acquire" /\ status'[s] = "acquiring"
    BY <1>7, <1>a, <1>p DEF BeginAcquire, AcquirePoints
  <2> QED
    BY <1>7, <1>a, <1>k, <1>o, <2>1, <2>2 DEF BeginAcquire, Moves, Attended
<1>8. ASSUME NEW s \in Sessions, NEW k \in Kinds,
             \/ AcquireLost(s, k) \/ ReleaseLost(s, k) \/ Unconfirmed(s, k)
             \/ Activate(s, k) \/ Refuse(s, k) \/ FinishRelease(s, k)
      PROVE  Attended(t)'
  <2>0. releases' = releases
    BY <1>8 DEF AcquireLost, ReleaseLost, Unconfirmed, Activate, Refuse, FinishRelease
  <2>1. Moves(s, k, {"done", "pending"})
    BY <1>0, <1>8, ReturnMoves
  <2>2. CASE t # s
    <3>1. status'[t] = status[t]
      BY <1>8, <1>a, <2>2 DEF AcquireLost, ReleaseLost, Unconfirmed, Activate, Refuse, FinishRelease
    <3> QED
      BY <1>o, <2>0, <2>1, <2>2, <3>1 DEF Moves
  <2>3. CASE t = s /\ (AcquireLost(s, k) \/ ReleaseLost(s, k) \/ Unconfirmed(s, k))
    <3>0. status' = status
      BY <2>3 DEF AcquireLost, ReleaseLost, Unconfirmed
    <3>1. CASE event[s][k] = "gated" /\ ~Acquirable(s)
      <4>1. k = "acquire" /\ status[s] \notin {"requested", "acquiring"}
        BY <1>0, <1>p, <2>3, <3>1 DEF AcquirePoints, Acquirable, Attended
      <4> QED
        BY <1>0, <1>k, <2>0, <2>1, <2>3, <3>0, <4>1 DEF Moves, Attended
    <3>2. CASE event[s][k] = "releasable" /\ ~Releasable(s)
      <4>1. ~(status[s] = "releasing" /\ releases[s] = 0)
        BY <3>2 DEF Releasable
      <4>2. status[s] \in {"requested", "acquiring"} => k # "acquire"
        BY <1>0, <2>3, <3>2 DEF Attended
      <4> QED
        BY <1>0, <1>k, <2>0, <2>1, <2>3, <3>0, <4>1, <4>2 DEF Moves, Attended
    <3>3. CASE event[s][k] \in {"unanswered", "attempted"}
      BY <1>0, <1>k, <2>0, <2>1, <2>3, <3>0, <3>3 DEF Moves, Attended
    <3> QED
      BY <2>3, <3>1, <3>2, <3>3 DEF AcquireLost, ReleaseLost, Unconfirmed
  <2>4. CASE t = s /\ Activate(s, k)
    <3>1. k = "acquire" /\ event[s]["acquire"] = "accepted"
      BY <1>p, <2>4 DEF Activate, AcquirePoints
    <3>2. status'[s] = "active" \/ (status'[s] = status[s] /\ status[s] # "acquiring")
      BY <1>a, <2>4 DEF Activate, Activatable
    <3> QED
      BY <1>0, <1>k, <2>0, <2>1, <2>4, <3>1, <3>2 DEF Moves, Attended
  <2>5. CASE t = s /\ (Refuse(s, k) \/ FinishRelease(s, k))
    <3>1. status'[s] \notin {"requested", "acquiring", "releasing"}
      BY <1>a, <2>5 DEF Refuse, FinishRelease, Finishable
    <3> QED
      BY <2>5, <3>1 DEF Attended
  <2> QED
    BY <1>8, <2>2, <2>3, <2>4, <2>5
<1>9. ASSUME NEW s \in Sessions, NEW k \in Kinds, AcquireServed(s, k)
      PROVE  Attended(t)'
  <2>1. Moves(s, k, {"accepted", "unknown", "nacked"}) /\ status' = status /\ releases' = releases
    BY <1>0, <1>9, CallMoves DEF AcquireServed, Moves
  <2>2. t = s => k = "acquire" /\ event[s]["acquire"] = "acquireCall"
    BY <1>p, <1>9 DEF AcquireServed, AcquirePoints
  <2> QED
    BY <1>0, <1>k, <1>o, <2>1, <2>2 DEF Moves, Attended
<1>10. ASSUME NEW s \in Sessions, NEW k \in Kinds, QueueRelease(s, k)
      PROVE  Attended(t)'
  <2>1. /\ \A u \in Sessions, l \in Kinds :
             u # s \/ l # k => \/ event'[u][l] = event[u][l]
                               \/ u = s /\ Inserted(s, l) /\ l = "auto-release"
        /\ releases' = releases
    BY <1>0, <1>10, QueueMoves DEF QueueRelease
  <2>2. CASE t # s
    <3>1. status'[t] = status[t]
      BY <1>10, <1>a, <2>2 DEF QueueRelease
    <3> QED
      BY <1>o, <2>1, <2>2, <3>1
  <2>3. CASE t = s
    <3>1. k = "acquire"
      BY <1>10, <1>p, <2>3 DEF QueueRelease, AcquirePoints
    <3>2. CASE status[s] \in {"requested", "acquiring", "active"}
      <4>1. event[s]["auto-release"] = "absent"
        BY <1>b, <1>p, <1>k, <2>3, <3>2
      <4>2. event'[s]["auto-release"] = "pending" /\ status'[s] = "releasing"
        BY <1>0, <1>a, <1>10, <3>1, <3>2, <4>1, QueuedIsPending DEF QueueRelease
      <4> QED
        BY <2>3, <4>2 DEF Attended
    <3>3. CASE status[s] \notin {"requested", "acquiring", "active"}
      <4>1. status'[s] = status[s]
        BY <1>10, <3>3 DEF QueueRelease
      <4> QED
        BY <1>0, <1>k, <2>1, <2>3, <3>1, <3>3, <4>1 DEF Attended, Inserted
    <3> QED
      BY <3>2, <3>3
  <2> QED
    BY <2>2, <2>3
<1>11. ASSUME NEW s \in Sessions, NEW k \in Kinds, BeginRelease(s, k)
      PROVE  Attended(t)'
  <2>1. Moves(s, k, {"releaseCall", "unanswered"})
    BY <1>0, <1>11, CallMoves
  <2> QED
    BY <1>11, <1>a, <1>k, <1>o, <2>1 DEF BeginRelease, Releasable, Moves, Attended
<1>12. ASSUME NEW s \in Sessions, NEW k \in Kinds, ReleaseServed(s, k)
      PROVE  Attended(t)'
  <2>1. Moves(s, k, {"givenBack", "unanswered"}) /\ status' = status /\ releases' = releases
    BY <1>0, <1>12, CallMoves DEF ReleaseServed, Moves
  <2>2. t = s => releases[t] = 1 /\ event[t][k] = "releaseCall"
    BY <1>p, <1>12 DEF ReleaseServed
  <2> QED
    BY <1>0, <1>k, <1>o, <2>1, <2>2 DEF Moves, Attended
<1>13. CASE UNCHANGED vars
  BY <1>13, <1>o
<1> QED
  BY <1>1, <1>2, <1>3, <1>4, <1>5, <1>6, <1>7, <1>8, <1>9, <1>10,
     <1>11, <1>12, <1>13 DEF Next, Handle

(* A handler has an event, and changes its session and its event only, but for *)
(* the one that queues a release.                                              *)
LEMMA HandlerMoves ==
  ASSUME HandlerInv, NEW s \in Sessions, NEW k \in Kinds, Handle(s, k) \/ Fail(s, k)
  PROVE  /\ event[s][k] # "absent"
         /\ \A u \in Sessions, l \in Kinds :
              u # s \/ l # k => \/ event'[u][l] = event[u][l]
                                \/ u = s /\ status'[s] = "releasing"
         /\ \A u \in Sessions : u # s => status'[u] = status[u]
         /\ status'[s] = "active" => status[s] \in {"acquiring", "active"}
         /\ status'[s] # "absent" \/ status[s] = "absent"
<1> DEFINE Kept == \A u \in Sessions, l \in Kinds :
                     u # s \/ l # k => \/ event'[u][l] = event[u][l]
                                       \/ u = s /\ status'[s] = "releasing"
           Stat == /\ event[s][k] # "absent"
                   /\ \A u \in Sessions : u # s => status'[u] = status[u]
                   /\ status'[s] = "active" => status[s] \in {"acquiring", "active"}
                   /\ status'[s] # "absent" \/ status[s] = "absent"
<1>0. TypeOK /\ status \in [Sessions -> Statuses]
  BY DEF HandlerInv, ControlInv, TypeOK
<1>m. ASSUME NEW S, Moves(s, k, S) PROVE Kept
  BY <1>m DEF Moves
<1>1. CASE Load(s, k)
  <2>1. Kept
    BY <1>0, <1>1, <1>m, LoadMoves
  <2> QED
    BY <1>1, <2>1 DEF Load
<1>2. CASE Fail(s, k)
  <2>1. Kept
    BY <1>0, <1>2, <1>m, FailMoves
  <2> QED
    BY <1>2, <2>1 DEF Fail, Points
<1>3. CASE BeginAcquire(s, k) \/ AcquireServed(s, k) \/ BeginRelease(s, k) \/ ReleaseServed(s, k)
  <2>1. Kept
    BY <1>0, <1>3, <1>m, CallMoves
  <2>2. Stat
    BY <1>0, <1>3 DEF BeginAcquire, AcquireServed, BeginRelease, ReleaseServed
  <2> QED
    BY <2>1, <2>2
<1>4. CASE \/ AcquireLost(s, k) \/ ReleaseLost(s, k) \/ Unconfirmed(s, k)
           \/ Activate(s, k) \/ Refuse(s, k) \/ FinishRelease(s, k)
  <2>1. Kept
    BY <1>0, <1>4, <1>m, ReturnMoves
  <2>2. Stat
    <3>1. CASE AcquireLost(s, k) \/ ReleaseLost(s, k) \/ Unconfirmed(s, k)
      BY <3>1 DEF AcquireLost, ReleaseLost, Unconfirmed
    <3>2. CASE Activate(s, k)
      BY <1>0, <3>2 DEF Activate, Activatable
    <3>3. CASE Refuse(s, k) \/ FinishRelease(s, k)
      BY <1>0, <3>3 DEF Refuse, FinishRelease, Finishable
    <3> QED
      BY <1>4, <3>1, <3>2, <3>3
  <2> QED
    BY <2>1, <2>2
<1>5. CASE QueueRelease(s, k)
  <2>1. Kept
    BY <1>0, <1>5, QueueMoves
  <2>2. Stat
    BY <1>0, <1>5 DEF QueueRelease
  <2> QED
    BY <2>1, <2>2
<1> QED
  BY <1>1, <1>2, <1>3, <1>4, <1>5 DEF Handle

(* An event is inserted when its session is asked for or begins to release. *)
LEMMA StepFollow == HandlerInv /\ [Next]_vars => EventsFollow'
<1> SUFFICES ASSUME HandlerInv, [Next]_vars, NEW t \in Sessions
             PROVE  /\ status'[t] = "absent" => event'[t]["acquire"] = "absent"
                    /\ status'[t] = "active" => /\ event'[t]["release"] = "absent"
                                                /\ event'[t]["auto-release"] = "absent"
  BY DEF EventsFollow
<1>0. TypeOK /\ ControlInv /\ status \in [Sessions -> Statuses]
  BY DEF HandlerInv, ControlInv, TypeOK
<1>k. "acquire" \in Kinds /\ "release" \in Kinds /\ "auto-release" \in Kinds
  BY DEF Kinds
<1>b. /\ status[t] = "absent" => \A k \in Kinds : event[t][k] = "absent"
      /\ status[t] \in {"acquiring", "active"} => \A k \in Kinds \ {"acquire"} : event[t][k] = "absent"
  BY <1>0, PointsTell DEF HandlerInv, EventsFollow, Kinds
<1>1. ASSUME NEW s \in Sessions, HalfASecond(s) \/ LeaseExpires(s) \/ Heartbeat(s) \/ UNCHANGED vars
      PROVE  status' = status /\ event' = event
  BY <1>1 DEF HalfASecond, LeaseExpires, Heartbeat
<1>2. ASSUME NEW s \in Sessions, NEW l \in Kinds, NEW new \in {"requested", "releasing"},
             Become(s, new), event' = WithEvent(s, l)
      PROVE  /\ t = s => status'[t] \notin {"absent", "active"}
             /\ t # s => status'[t] = status[t] /\ \A k \in Kinds : event'[t][k] = event[t][k]
  <2>1. \A u \in Sessions, k \in Kinds : u # s \/ k # l => event'[u][k] = event[u][k]
    BY <1>0, <1>2, InsertedIsPending
  <2> QED
    BY <1>0, <1>2, <2>1
<1>3. ASSUME NEW s \in Sessions, Create(s) \/ Release(s) \/ SweepExpired(s) \/ SweepRevoked(s)
      PROVE  \E l \in Kinds, new \in {"requested", "releasing"} : Become(s, new) /\ event' = WithEvent(s, l)
  BY <1>3, <1>k DEF Create, Release, SweepExpired, SweepRevoked, Swept
<1>4. ASSUME NEW s \in Sessions, NEW k \in Kinds, Handle(s, k) \/ Fail(s, k)
      PROVE  /\ status'[t] = "absent" => event'[t]["acquire"] = "absent"
             /\ status'[t] = "active" => /\ event'[t]["release"] = "absent"
                                         /\ event'[t]["auto-release"] = "absent"
  <2>1. /\ event[s][k] # "absent"
        /\ \A u \in Sessions, l \in Kinds :
              u # s \/ l # k => \/ event'[u][l] = event[u][l]
                                \/ u = s /\ status'[s] = "releasing"
        /\ \A u \in Sessions : u # s => status'[u] = status[u]
        /\ status'[s] = "active" => status[s] \in {"acquiring", "active"}
        /\ status'[s] # "absent" \/ status[s] = "absent"
    BY <1>4, HandlerMoves
  <2>2. CASE t # s
    BY <1>b, <1>k, <2>1, <2>2
  <2>3. CASE t = s /\ status'[t] = "active"
    <3>1. k = "acquire"
      BY <1>b, <2>1, <2>3
    <3> QED
      BY <1>b, <1>k, <2>1, <2>3, <3>1
  <2>4. CASE t = s /\ status'[t] = "absent"
    BY <1>b, <2>1, <2>4
  <2> QED
    BY <2>2, <2>3, <2>4
<1> QED
  BY <1>1, <1>2, <1>3, <1>4, <1>b, <1>k DEF Next

(* A call that is awaited or was answered has been made. *)
LEMMA StepMade == HandlerInv /\ [Next]_vars => CallsMade'
<1> SUFFICES ASSUME HandlerInv, [Next]_vars
               PROVE  \A t \in Sessions, l \in Kinds :
                        /\ event'[t]["acquire"] \in {"acquireCall", "accepted"} => calls'[t]["acquire"] = 1
                        /\ event'[t][l] \in {"releaseCall", "givenBack"} => calls'[t]["release"] = 1
  <2>1. "acquire" \in Kinds
    BY DEF Kinds
  <2> QED
    BY <2>1 DEF CallsMade
<1> TAKE t \in Sessions, l \in Kinds
<1> DEFINE Goal == /\ event'[t]["acquire"] \in {"acquireCall", "accepted"} => calls'[t]["acquire"] = 1
                   /\ event'[t][l] \in {"releaseCall", "givenBack"} => calls'[t]["release"] = 1
<1>0. TypeOK /\ ControlInv
  BY DEF HandlerInv, ControlInv
<1>a. /\ calls \in [Sessions -> [{"acquire", "release"} -> Nat]]
      /\ acquires \in [Sessions -> 0..1] /\ releases \in [Sessions -> 0..1]
  BY <1>0 DEF TypeOK
<1>k. "acquire" \in Kinds
  BY DEF Kinds
<1>c. /\ event[t]["acquire"] \in {"acquireCall", "accepted"} => calls[t]["acquire"] = 1
      /\ event[t][l] \in {"releaseCall", "givenBack"} => calls[t]["release"] = 1
  BY DEF HandlerInv, CallsMade
<1>o. ASSUME calls' = calls,
             \A k \in Kinds : \/ event'[t][k] = event[t][k]
                              \/ event'[t][k] \notin {"acquireCall", "accepted", "releaseCall", "givenBack"}
      PROVE  Goal
  BY <1>o, <1>c, <1>k
<1>1. ASSUME NEW s \in Sessions,
             \/ HalfASecond(s) \/ LeaseExpires(s) \/ Create(s) \/ Heartbeat(s) \/ Release(s)
             \/ SweepExpired(s) \/ SweepRevoked(s) \/ UNCHANGED vars
      PROVE  Goal
  <2>1. calls' = calls /\ (event' = event \/ \E k \in Kinds : event' = WithEvent(s, k))
    BY <1>1 DEF HalfASecond, LeaseExpires, Create, Heartbeat, Release, SweepExpired, SweepRevoked,
                Swept, Kinds
  <2>2. ASSUME NEW k \in Kinds, event' = WithEvent(s, k) PROVE Goal
    <3>1. Adds(s, k)
      BY <1>0, <2>2, InsertMoves
    <3> QED
      BY <1>o, <2>1, <3>1 DEF Adds, Inserted
  <2> QED
    BY <1>o, <2>1, <2>2
<1>2. ASSUME NEW s \in Sessions, NEW k \in Kinds, Load(s, k)
      PROVE  Goal
  <2>1. calls' = calls /\ Branch(s) \subseteq {"gated", "refused", "interrupted", "attempted", "releasable"}
    BY <1>2 DEF Load, Branch
  <2>2. \E S \in {Branch(s), {"done", "pending"}} : Moves(s, k, S)
    BY <1>0, <1>2, LoadMoves
  <2> QED
    BY <1>o, <2>1, <2>2 DEF Moves
<1>3. ASSUME NEW s \in Sessions, NEW k \in Kinds, Fail(s, k)
      PROVE  Goal
  BY <1>0, <1>o, <1>3, FailMoves DEF Fail, Moves
<1>4. ASSUME NEW s \in Sessions, NEW k \in Kinds,
             \/ AcquireLost(s, k) \/ ReleaseLost(s, k) \/ Unconfirmed(s, k)
             \/ Activate(s, k) \/ Refuse(s, k) \/ FinishRelease(s, k)
      PROVE  Goal
  <2>1. calls' = calls
    BY <1>4 DEF AcquireLost, ReleaseLost, Unconfirmed, Activate, Refuse, FinishRelease
  <2>2. Moves(s, k, {"done", "pending"})
    BY <1>0, <1>4, ReturnMoves
  <2> QED
    BY <1>o, <2>1, <2>2 DEF Moves
<1>5. ASSUME NEW s \in Sessions, NEW k \in Kinds, QueueRelease(s, k)
      PROVE  Goal
  <2>1. calls' = calls
    BY <1>5 DEF QueueRelease
  <2>2. /\ event'[s][k] \in {"done", "pending"}
        /\ \A u \in Sessions, m \in Kinds :
             u # s \/ m # k => \/ event'[u][m] = event[u][m]
                               \/ /\ u = s /\ Inserted(s, m) /\ m = "auto-release"
                                  /\ status'[s] = "releasing"
    BY <1>0, <1>5, QueueMoves
  <2> QED
    BY <1>o, <2>1, <2>2 DEF Inserted
<1>6. ASSUME NEW s \in Sessions, NEW k \in Kinds, BeginAcquire(s, k)
      PROVE  Goal
  <2>1. CASE Goto(s, k, "nacked") /\ calls' = calls
    <3>1. "nacked" \in EventStates
      BY DEF EventStates, Points
    <3>2. Moves(s, k, {"nacked"})
      BY <1>0, <2>1, <3>1, GoesTo
    <3> QED
      BY <1>o, <2>1, <3>2 DEF Moves
  <2>2. CASE Goto(s, k, "acquireCall") /\ Call(s, "acquire")
    <3>1. "acquireCall" \in EventStates
      BY DEF EventStates, Points
    <3>2. Moves(s, k, {"acquireCall"})
      BY <1>0, <2>2, <3>1, GoesTo
    <3>3. calls[s]["acquire"] = 0
      BY <1>a, <1>0, <1>6 DEF BeginAcquire, Acquirable, ControlInv, CallsCounted
    <3>4. /\ calls'[s]["acquire"] = 1 /\ calls'[s]["release"] = calls[s]["release"]
          /\ \A u \in Sessions : u # s => calls'[u] = calls[u]
      BY <1>a, <2>2, <3>3 DEF Call
    <3>5. k = "acquire"
      BY <1>0, <1>6, PointsTell DEF BeginAcquire, AcquirePoints
    <3> QED
      BY <1>c, <1>k, <3>2, <3>4, <3>5 DEF Moves
  <2> QED
    BY <1>6, <2>1, <2>2 DEF BeginAcquire
<1>7. ASSUME NEW s \in Sessions, NEW k \in Kinds, AcquireServed(s, k)
      PROVE  Goal
  <2>1. Moves(s, k, {"accepted", "unknown", "nacked"}) /\ calls' = calls
    BY <1>0, <1>7, CallMoves DEF AcquireServed, Moves
  <2>2. k = "acquire" /\ event[s]["acquire"] = "acquireCall"
    BY <1>0, <1>7, PointsTell DEF AcquireServed, AcquirePoints
  <2> QED
    BY <1>c, <2>1, <2>2 DEF Moves
<1>8. ASSUME NEW s \in Sessions, NEW k \in Kinds, BeginRelease(s, k)
      PROVE  Goal
  <2>1. CASE Goto(s, k, "unanswered") /\ calls' = calls
    <3>1. "unanswered" \in EventStates
      BY DEF EventStates, Points
    <3>2. Moves(s, k, {"unanswered"})
      BY <1>0, <2>1, <3>1, GoesTo
    <3> QED
      BY <1>o, <2>1, <3>2 DEF Moves
  <2>2. CASE Goto(s, k, "releaseCall") /\ Call(s, "release")
    <3>1. "releaseCall" \in EventStates
      BY DEF EventStates, Points
    <3>2. Moves(s, k, {"releaseCall"})
      BY <1>0, <2>2, <3>1, GoesTo
    <3>3. calls[s]["release"] = 0
      BY <1>a, <1>0, <1>8 DEF BeginRelease, Releasable, ControlInv, CallsCounted
    <3>4. /\ calls'[s]["release"] = 1 /\ calls'[s]["acquire"] = calls[s]["acquire"]
          /\ \A u \in Sessions : u # s => calls'[u] = calls[u]
      BY <1>a, <2>2, <3>3 DEF Call
    <3> QED
      BY <1>c, <1>k, <3>2, <3>4 DEF Moves
  <2> QED
    BY <1>8, <2>1, <2>2 DEF BeginRelease
<1>9. ASSUME NEW s \in Sessions, NEW k \in Kinds, ReleaseServed(s, k)
      PROVE  Goal
  <2>1. Moves(s, k, {"givenBack", "unanswered"}) /\ calls' = calls
    BY <1>0, <1>9, CallMoves DEF ReleaseServed, Moves
  <2>2. calls[s]["release"] = 1
    BY <1>9 DEF ReleaseServed, HandlerInv, CallsMade
  <2> QED
    BY <1>c, <1>k, <2>1, <2>2 DEF Moves
<1> QED
  BY <1>1, <1>2, <1>3, <1>4, <1>5, <1>6, <1>7, <1>8, <1>9 DEF Next, Handle

(* In the beginning nothing is asked for. *)
LEMMA HandlerInit == Init => HandlerInv
<1> SUFFICES ASSUME Init PROVE HandlerInv
  OBVIOUS
<1>1. ControlInv
  BY InitHolds
<1>k. "acquire" \in Kinds /\ "release" \in Kinds /\ "auto-release" \in Kinds
  BY DEF Kinds
<1>2. \A s \in Sessions : status[s] = "absent" /\ \A k \in Kinds : event[s][k] = "absent"
  BY DEF Init
<1>3. CallsMade
  BY <1>k, <1>2 DEF CallsMade
<1>4. EventsFollow
  BY <1>k, <1>2 DEF EventsFollow
<1>5. NeverUnattended
  BY <1>2 DEF NeverUnattended, Attended
<1> QED
  BY <1>1, <1>3, <1>4, <1>5 DEF HandlerInv

(* Calls that are awaited were made, events follow their sessions, and no      *)
(* session that has not ended is left without somebody to go on with it.       *)
THEOREM HandlerInvariant == Spec => []HandlerInv
<1>1. HandlerInv /\ [Next]_vars => HandlerInv'
  BY ControlStep, StepAttended, StepFollow, StepMade DEF HandlerInv, NeverUnattended
<1> QED
  BY <1>1, HandlerInit, PTL DEF Spec

(* Whatever stopped on the way, an event is left whose handler goes on with a  *)
(* session that is requested, being acquired, or releasing without an attempt. *)
THEOREM NeverUnattendedHolds == Spec => []NeverUnattended
<1>1. HandlerInv => NeverUnattended
  BY DEF HandlerInv
<1> QED
  BY <1>1, HandlerInvariant, PTL

-----------------------------------------------------------------------------
(* The refinement. *)

(* How the steps move what DeviceControl sees. *)
LEMMA StagesMove ==
  ASSUME TypeOK, NEW s \in Sessions, NEW new \in Statuses, Become(s, new)
  PROVE  Stages' = [Stages EXCEPT ![s] = Stage(new)]
  BY DEF TypeOK, Stages, Stage

LEMMA StagesStay ==
  ASSUME status' = status
  PROVE  Stages' = Stages
  BY DEF Stages, Stage

LEMMA CallsMove ==
  ASSUME TypeOK, NEW s \in Sessions, NEW kind \in {"acquire", "release"},
         Call(s, kind), calls[s][kind] = 0
  PROVE  /\ CallsOf(kind)[s] = 0
         /\ CallsOf(kind)' = [CallsOf(kind) EXCEPT ![s] = 1]
         /\ \A other \in {"acquire", "release"} \ {kind} : CallsOf(other)' = CallsOf(other)
<1>0. calls \in [Sessions -> [{"acquire", "release"} -> Nat]]
  BY DEF TypeOK
<1>1. /\ calls'[s][kind] = 1
      /\ \A u \in Sessions, other \in {"acquire", "release"} :
           u # s \/ other # kind => calls'[u][other] = calls[u][other]
  BY <1>0 DEF Call
<1> QED
  BY <1>1 DEF CallsOf

LEMMA CallsStay ==
  ASSUME calls' = calls, NEW kind
  PROVE  CallsOf(kind)' = CallsOf(kind)
  BY DEF CallsOf

(* Every step of the sessions is a step of DeviceControl or leaves it unchanged. *)
LEMMA PromiseStep == HandlerInv /\ [Next]_vars => [Promise!CNext]_(Promise!cvars)
<1> SUFFICES ASSUME HandlerInv, [Next]_vars, ~ UNCHANGED Promise!cvars
             PROVE  Promise!CNext
  OBVIOUS
<1> DEFINE Took == CallsOf("acquire")
           Gave == CallsOf("release")
           Forth(s, stages, new) ==
             \E t \in Statuses : /\ Stage(t) = new /\ Become(s, t)
                                 /\ Stage(status[s]) \in stages
<1>0. TypeOK /\ ControlInv
  BY DEF HandlerInv, ControlInv
<1>a. /\ status \in [Sessions -> Statuses] /\ calls \in [Sessions -> [{"acquire", "release"} -> Nat]]
      /\ acquires \in [Sessions -> 0..1] /\ releases \in [Sessions -> 0..1]
  BY <1>0 DEF TypeOK
<1>s. \A s \in Sessions : Stages[s] = Stage(status[s])
  BY DEF Stages
<1>f. ASSUME NEW s \in Sessions, NEW stages, NEW new, Forth(s, stages, new)
      PROVE  Promise!Enter(s, new) /\ Stages[s] \in stages
  <2>1. PICK t \in Statuses : Stage(t) = new /\ Become(s, t) /\ Stage(status[s]) \in stages
    BY <1>f
  <2> QED
    BY <1>0, <1>s, <2>1, StagesMove DEF Promise!Enter
<1>c. calls' = calls => Took' = Took /\ Gave' = Gave
  BY CallsStay
<1>u. status' = status => Stages' = Stages
  BY StagesStay
<1>n. Stages' # Stages \/ Took' # Took \/ Gave' # Gave \/ activated' # activated \/ confirmed' # confirmed
  BY DEF Promise!cvars
<1>1. ASSUME NEW s \in Sessions,
             HalfASecond(s) \/ LeaseExpires(s) \/ Heartbeat(s)
      PROVE  FALSE
  <2>1. UNCHANGED <<status, calls, activated, confirmed>>
    BY <1>1 DEF HalfASecond, LeaseExpires, Heartbeat
  <2> QED
    BY <2>1, <1>c, <1>u, <1>n
<1>2. ASSUME NEW s \in Sessions, Create(s) PROVE Promise!CNext
  <2>1. UNCHANGED <<calls, activated, confirmed>> /\ Forth(s, {"new"}, "asking")
    BY <1>2 DEF Create, Stage, Statuses
  <2>2. \A t \in Sessions : Stages[t] \in {"new", "over"}
    BY <1>2, <1>a, <1>s DEF Create, Stage, Live, Statuses
  <2> QED
    BY <2>1, <2>2, <1>c, <1>f DEF Promise!CNext, Promise!Ask
<1>3. ASSUME NEW s \in Sessions, status[s] \in {"requested", "acquiring", "active"},
             Become(s, "releasing"), UNCHANGED <<calls, activated, confirmed>>
      PROVE  Promise!CNext
  <2>1. Forth(s, {"asking", "holding"}, "leaving")
    BY <1>3 DEF Stage, Statuses
  <2> QED
    BY <1>3, <2>1, <1>c, <1>f DEF Promise!CNext, Promise!Leave
<1>4. ASSUME NEW s \in Sessions, Release(s) \/ SweepExpired(s) \/ SweepRevoked(s) PROVE Promise!CNext
  <2>1. UNCHANGED <<calls, activated, confirmed>> /\ Become(s, "releasing") /\ status[s] \in Live
    BY <1>4 DEF Release, SweepExpired, SweepRevoked, Swept, Live
  <2>2. status[s] # "releasing"
    <3>1. status[s] = "releasing" => status' = status
      BY <1>a, <2>1
    <3> QED
      BY <2>1, <3>1, <1>c, <1>u, <1>n
  <2> QED
    BY <1>3, <2>1, <2>2 DEF Live
<1>5. ASSUME NEW s \in Sessions, NEW k \in Kinds,
             \/ Load(s, k) \/ Fail(s, k) \/ AcquireLost(s, k) \/ AcquireServed(s, k)
             \/ ReleaseLost(s, k) \/ Unconfirmed(s, k)
      PROVE  FALSE
  <2>1. UNCHANGED <<status, calls, activated, confirmed>>
    BY <1>5 DEF Load, Fail, AcquireLost, AcquireServed, ReleaseLost, Unconfirmed
  <2> QED
    BY <2>1, <1>c, <1>u, <1>n
<1>6. ASSUME NEW s \in Sessions, NEW k \in Kinds, BeginAcquire(s, k) PROVE Promise!CNext
  <2>1. /\ status[s] = "requested" /\ acquires[s] = 0 /\ Become(s, "acquiring")
        /\ UNCHANGED <<activated, confirmed>>
        /\ Call(s, "acquire") \/ UNCHANGED calls
    BY <1>6 DEF BeginAcquire, Acquirable
  <2>2. Stages' = Stages /\ Stages[s] = "asking"
    <3>1. Stages' = [Stages EXCEPT ![s] = "asking"]
      BY <1>0, <2>1, StagesMove DEF Stage, Statuses
    <3>2. Stages[s] = "asking"
      BY <1>s, <2>1 DEF Stage
    <3> QED
      BY <3>1, <3>2 DEF Stages
  <2>3. calls[s]["acquire"] = 0
    BY <1>0, <1>a, <2>1 DEF ControlInv, CallsCounted
  <2>4. Call(s, "acquire")
    BY <2>1, <2>2, <1>c, <1>n
  <2>5. /\ Took[s] = 0 /\ Took' = [Took EXCEPT ![s] = 1] /\ Gave' = Gave
    BY <1>0, <2>3, <2>4, CallsMove
  <2> QED
    BY <2>1, <2>2, <2>5 DEF Promise!CNext, Promise!Take
<1>7. ASSUME NEW s \in Sessions, NEW k \in Kinds, Activate(s, k) PROVE Promise!CNext
  <2>1. UNCHANGED <<calls, confirmed>>
    BY <1>7 DEF Activate
  <2>2. Activatable(s)
    <3>1. ~ Activatable(s) => UNCHANGED <<status, activated>>
      BY <1>7 DEF Activate
    <3> QED
      BY <2>1, <3>1, <1>c, <1>u, <1>n
  <2>3. Forth(s, {"asking"}, "holding") /\ activated' = activated \cup {s}
    BY <1>7, <2>2 DEF Activate, Activatable, Stage, Statuses
  <2>4. Took[s] = 1
    <3>1. k = "acquire" /\ event[s]["acquire"] = "accepted"
      BY <1>0, <1>7, PointsTell DEF Activate, AcquirePoints
    <3> QED
      BY <3>1 DEF HandlerInv, CallsMade, CallsOf
  <2> QED
    BY <2>1, <2>3, <2>4, <1>c, <1>f DEF Promise!CNext, Promise!Hold
<1>8. ASSUME NEW s \in Sessions, NEW k \in Kinds, Refuse(s, k) \/ FinishRelease(s, k)
      PROVE  Promise!CNext
  <2>1. UNCHANGED <<calls, activated, confirmed>>
    BY <1>8 DEF Refuse, FinishRelease
  <2>2. status[s] \in Finishable
    <3>1. status[s] \notin Finishable => status' = status
      BY <1>8 DEF Refuse, FinishRelease
    <3> QED
      BY <2>1, <3>1, <1>c, <1>u, <1>n
  <2>3. Forth(s, {"asking", "leaving"}, "over")
    BY <1>8, <2>2 DEF Refuse, FinishRelease, Finishable, Stage, Statuses
  <2>4. s \in activated => s \in confirmed
    <3>1. CASE Refuse(s, k)
      <4>1. event[s][k] \in {"refused", "nacked"}
        BY <3>1 DEF Refuse
      <4>2. k = "acquire"
        BY <1>0, <4>1, PointsTell DEF AcquirePoints
      <4> QED
        BY <1>0, <4>1, <4>2 DEF ControlInv, AcquireInHand, AcquirePoints
    <3>2. CASE FinishRelease(s, k)
      BY <1>0, <3>2 DEF FinishRelease, ControlInv, ReleaseInHand
    <3> QED
      BY <1>8, <3>1, <3>2
  <2> QED
    BY <2>1, <2>3, <2>4, <1>c, <1>f DEF Promise!CNext, Promise!End
<1>9. ASSUME NEW s \in Sessions, NEW k \in Kinds, QueueRelease(s, k) PROVE Promise!CNext
  <2>1. UNCHANGED <<calls, activated, confirmed>>
    BY <1>9 DEF QueueRelease
  <2>2. status[s] \in {"requested", "acquiring", "active"} /\ Become(s, "releasing")
    <3>1. \/ status[s] \in {"requested", "acquiring", "active"} /\ Become(s, "releasing")
          \/ status' = status
      BY <1>9 DEF QueueRelease
    <3> QED
      BY <2>1, <3>1, <1>c, <1>u, <1>n
  <2> QED
    BY <1>3, <2>1, <2>2
<1>10. ASSUME NEW s \in Sessions, NEW k \in Kinds, BeginRelease(s, k) PROVE Promise!CNext
  <2>1. /\ status[s] = "releasing" /\ releases[s] = 0
        /\ UNCHANGED <<status, activated, confirmed>>
        /\ Call(s, "release") \/ UNCHANGED calls
    BY <1>10 DEF BeginRelease, Releasable
  <2>2. Stages' = Stages /\ Stages[s] = "leaving"
    BY <2>1, <1>s, <1>u DEF Stage
  <2>3. calls[s]["release"] = 0
    BY <1>0, <1>a, <2>1 DEF ControlInv, CallsCounted
  <2>4. Call(s, "release")
    BY <2>1, <2>2, <1>c, <1>n
  <2>5. /\ Gave[s] = 0 /\ Gave' = [Gave EXCEPT ![s] = 1] /\ Took' = Took
    BY <1>0, <2>3, <2>4, CallsMove
  <2> QED
    BY <2>1, <2>2, <2>5 DEF Promise!CNext, Promise!Give
<1>11. ASSUME NEW s \in Sessions, NEW k \in Kinds, ReleaseServed(s, k) PROVE Promise!CNext
  <2>1. UNCHANGED <<status, calls, activated>> /\ event[s][k] = "releaseCall"
    BY <1>11 DEF ReleaseServed
  <2>2. confirmed' = confirmed \cup {s}
    <3>1. confirmed' = confirmed \cup {s} \/ confirmed' = confirmed
      BY <1>11 DEF ReleaseServed
    <3> QED
      BY <2>1, <3>1, <1>c, <1>u, <1>n
  <2>3. Gave[s] = 1
    BY <2>1 DEF HandlerInv, CallsMade, CallsOf
  <2>4. Stages[s] \in {"leaving", "over"}
    <3>1. status[s] = "releasing" \/ status[s] \in Ended
      BY <1>0, <2>1 DEF ControlInv, ReleaseInHand, ReleasePoints
    <3> QED
      BY <1>s, <3>1 DEF Stage, Ended
  <2> QED
    BY <2>1, <2>2, <2>3, <2>4, <1>c, <1>u DEF Promise!CNext, Promise!Confirm
<1>12. CASE UNCHANGED vars
  BY <1>12, <1>c, <1>u, <1>n
<1> QED
  BY <1>1, <1>2, <1>4, <1>5, <1>6, <1>7, <1>8, <1>9, <1>10, <1>11, <1>12 DEF Next, Handle

(* The sessions of a device, their rows, events, handlers and crashes,         *)
(* implement DeviceControl: one session at a time has the device, takes and    *)
(* gives back control once each, and in that order.                            *)
THEOREM DeviceControlHolds == Spec => ImplementsDeviceControl
<1>1. Init => Promise!CInit
  BY DEF Init, Promise!CInit, Stages, Stage, CallsOf
<1> QED
  BY <1>1, PromiseStep, HandlerInvariant, PTL DEF Spec, ImplementsDeviceControl, Promise!CSpec
=============================================================================
