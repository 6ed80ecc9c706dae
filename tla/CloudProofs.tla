---------------------------- MODULE CloudProofs ----------------------------
(***************************************************************************)
(* Proofs about CloudCommand for any commands, pollers, deadlines and       *)
(* bounds.                                                                  *)
(***************************************************************************)
EXTENDS CloudCommand, FiniteSetTheorems, SequenceTheorems, TLAPS

Operation == [by : Commands, created : Times, updated : Times, state : States]

(* The last operation of the list is one. *)
LEMMA LastIsOperation ==
  ASSUME TypeOK, ops # <<>>
  PROVE  /\ Len(ops) \in Nat \ {0} /\ Len(ops) \in DOMAIN ops
         /\ ops[Len(ops)] \in Operation
<1>1. ops \in Seq(Operation)
  BY DEF TypeOK, Operation
<1>2. Len(ops) \in Nat \ {0} /\ DOMAIN ops = 1..Len(ops)
  BY <1>1, EmptySeq, LenProperties
<1>3. Len(ops) \in 1..Len(ops)
  BY <1>2
<1> QED
  BY <1>1, <1>2, <1>3, ElementOfSeq

(* What one step does to the operations. *)
Appends(c) == \E r \in Operation : r.by = c /\ ops' = Append(ops, r)

(* A command's operations are finitely many. *)
LEMMA MadeIsFinite == ASSUME TypeOK, NEW c \in Commands
                      PROVE  IsFiniteSet(Made(c)) /\ Made(c) \subseteq 1..Len(ops)
<1>1. Len(ops) \in Nat /\ DOMAIN ops = 1..Len(ops)
  BY DEF TypeOK
<1>2. Made(c) \subseteq 1..Len(ops)
  BY <1>1 DEF Made
<1>3. IsFiniteSet(1..Len(ops))
  BY <1>1, FS_Interval
<1> QED
  BY <1>2, <1>3, FS_Subset

(* A new operation is one more of its command's, and of no other's. *)
LEMMA MadeByCall ==
  ASSUME TypeOK, NEW c \in Commands, Appends(c), NEW d \in Commands
  PROVE  /\ d # c => Made(d)' = Made(d)
         /\ IsFiniteSet(Made(d)) /\ Cardinality(Made(d)) \in Nat
         /\ d = c => /\ Cardinality(Made(d)') \in Nat
                     /\ Cardinality(Made(d)') <= Cardinality(Made(d)) + 1
<1>1. PICK r \in Operation : r.by = c /\ ops' = Append(ops, r)
  BY DEF Appends
<1>2. ops \in Seq(Operation) /\ Len(ops) \in Nat
  BY DEF TypeOK, Operation
<1>3. /\ DOMAIN ops = 1..Len(ops) /\ DOMAIN ops' = 1..(Len(ops) + 1)
      /\ \A o \in 1..Len(ops) : ops'[o] = ops[o]
      /\ ops'[Len(ops) + 1] = r
  BY <1>1, <1>2
<1>4. d # c => Made(d)' = Made(d)
  BY <1>1, <1>2, <1>3 DEF Made
<1>5. Made(c)' = Made(c) \cup {Len(ops) + 1}
  BY <1>1, <1>2, <1>3 DEF Made
<1>6. IsFiniteSet(Made(d)) /\ Cardinality(Made(d)) \in Nat
  BY MadeIsFinite, FS_CardinalityType
<1>7. ASSUME d = c
      PROVE  /\ Cardinality(Made(d)') \in Nat
             /\ Cardinality(Made(d)') <= Cardinality(Made(d)) + 1
  <2>1. Made(d)' = Made(d) \cup {Len(ops) + 1}
    BY <1>5, <1>7
  <2>2. /\ Cardinality(Made(d) \cup {Len(ops) + 1}) \in Nat
        /\ Cardinality(Made(d) \cup {Len(ops) + 1}) <= Cardinality(Made(d)) + 1
    <3>1. Cardinality(Made(d) \cup {Len(ops) + 1})
            = IF Len(ops) + 1 \in Made(d) THEN Cardinality(Made(d)) ELSE Cardinality(Made(d)) + 1
      BY <1>6, FS_AddElement
    <3> QED
      BY <1>6, <3>1
  <2> QED
    BY <2>1, <2>2
<1> QED
  BY <1>4, <1>6, <1>7

(* The progress of an operation does not change whose it is. *)
LEMMA MadeStays == ASSUME TypeOK, Progress, NEW d \in Commands
                   PROVE  Made(d)' = Made(d)
<1>1. ops # <<>>
  BY DEF Progress
<1>2. Len(ops) \in DOMAIN ops /\ ops[Len(ops)] \in Operation /\ ops \in Seq(Operation)
  BY <1>1, LastIsOperation DEF TypeOK, Operation
<1>3. PICK state : ops' = [ops EXCEPT ![Len(ops)].state = state, ![Len(ops)].updated = now]
  BY DEF Progress
<1>4. DOMAIN ops' = DOMAIN ops
  BY <1>3
<1>5. \A o \in DOMAIN ops : ops'[o].by = ops[o].by
  BY <1>2, <1>3 DEF Operation
<1> QED
  BY <1>4, <1>5 DEF Made

(* What an answer is made into: decisions for commands of the group, on the  *)
(* operation that is shown.                                                  *)
LEMMA FetchDecides ==
  ASSUME TypeOK, Operated, NEW p \in Pollers, Fetch(p), NEW G \in Groups(known[p])
  PROVE  \A d \in Reconcile(Part(known[p], G), Shown) : d \in Decisions /\ d.op > 0
<1>1. Len(ops) \in Nat \ {0} /\ ops[Len(ops)] \in Operation
  BY LastIsOperation DEF Fetch, Operated
<1>2. /\ Shown.op \in Nat \ {0} /\ Shown.updated \in Times /\ Shown.state \in States
  BY <1>1 DEF Shown, Operation
<1>3. /\ DOMAIN Part(known[p], G) = G /\ G \subseteq Commands
      /\ \A c \in G : Part(known[p], G)[c].op \in Nat
  BY DEF Part, Groups, TypeOK, Bounds
<1> QED
  BY <1>2, <1>3 DEF Reconcile, Decisions

-----------------------------------------------------------------------------
(* A call keeps the types, ... *)
LEMMA TypeInvoke == ASSUME TypeOK, NEW c \in Commands, Invoke(c) PROVE TypeOK'
<1> USE CloudAssumption DEF Times, Answers
<1>1. /\ sentAt' \in [Commands -> 0..MaxTime]
      /\ dispatch' \in [Commands -> {"pending", "done"} \cup Answers]
  BY DEF Invoke, Dispatch, TypeOK
<1>2. ops' \in Seq(Operation)
  <2>1. [by |-> c, created |-> now, updated |-> now, state |-> "running"] \in Operation
    BY DEF Operation, States, TypeOK
  <2>2. ops \in Seq(Operation)
    BY DEF TypeOK, Operation
  <2>3. \/ ops' = ops
        \/ ops' = Append(ops, [by |-> c, created |-> now, updated |-> now, state |-> "running"])
    BY DEF Invoke
  <2> QED
    BY <2>1, <2>2, <2>3, AppendProperties
<1> QED
  BY <1>1, <1>2 DEF Invoke, TypeOK, polls, Operation

(* ... and so does every other step. *)
LEMMA TypeStep == TypeOK /\ Operated /\ [Next]_vars => TypeOK'
<1> SUFFICES ASSUME TypeOK, Operated, [Next]_vars PROVE TypeOK'
  OBVIOUS
<1> USE CloudAssumption DEF Times, Statuses, Open, Answers
<1>1. CASE Tick
  BY <1>1 DEF Tick, TypeOK, command, send, polls
<1>2. CASE Progress
  <2>1. ops # <<>> /\ UNCHANGED <<now, command, send, polls, verdicts>>
    BY <1>2 DEF Progress
  <2>2. PICK state \in States : ops' = [ops EXCEPT ![Len(ops)].state = state, ![Len(ops)].updated = now]
    BY <1>2 DEF Progress, States
  <2>3. Len(ops) \in DOMAIN ops /\ ops[Len(ops)] \in Operation /\ ops \in Seq(Operation) /\ now \in Times
    BY <2>1, LastIsOperation DEF TypeOK, Operation
  <2>4. [ops[Len(ops)] EXCEPT !.state = state, !.updated = now] \in Operation
    BY <2>3 DEF Operation
  <2>5. ops' \in Seq(Operation)
    <3> DEFINE moved == [ops[Len(ops)] EXCEPT !.state = state, !.updated = now]
    <3>1. ops' = [ops EXCEPT ![Len(ops)] = moved]
      BY <2>2, <2>3
    <3>2. moved \in Operation /\ Len(ops) \in 1..Len(ops)
      BY <2>3, <2>4
    <3> HIDE DEF moved
    <3> QED
      BY <2>3, <3>1, <3>2, ExceptSeq
  <2> QED
    BY <2>1, <2>5 DEF TypeOK, command, send, polls, Operation
<1>3. CASE ExpireUnknown
  BY <1>3 DEF ExpireUnknown, TypeOK, Overdue, Settle, Announce, send, polls
<1>4. CASE ApplyEvidence
  <2>1. PICK captured \in 1..now : /\ Settle(Confirmed(captured), "acknowledged", "acknowledged")
                                    /\ Announce(Confirmed(captured), "state", "ack")
    BY <1>4 DEF ApplyEvidence
  <2>2. Confirmed(captured) \subseteq Commands
    BY DEF Confirmed, Sent
  <2>3. /\ status' \in [Commands -> Statuses]
        /\ attempt' \in [Commands -> {"none", "sent", "acknowledged", "nacked",
                                      "transport_error", "timed_out"}]
    BY <2>1, <2>2 DEF Settle, TypeOK
  <2>4. verdicts' \subseteq Commands \X {"timeout", "state", "status"}
                                    \X {"timeout", "ack", "nack"}
    BY <2>1, <2>2 DEF Announce, TypeOK
  <2>5. UNCHANGED <<now, sentAt, bound, dispatch, lost, ops, phase, known, decisions>>
    BY <1>4 DEF ApplyEvidence, send, polls
  <2> QED
    BY <2>3, <2>4, <2>5 DEF TypeOK
<1>5. ASSUME NEW c \in Commands, Stop(c) PROVE TypeOK'
  BY <1>5 DEF Stop, Dispatch, TypeOK, polls
<1>6. ASSUME NEW c \in Commands, Invoke(c) PROVE TypeOK'
  BY <1>6, TypeInvoke
<1>7. ASSUME NEW c \in Commands, Commit(c) PROVE TypeOK'
  BY <1>7 DEF Commit, Dispatch, TypeOK, polls
<1>8. ASSUME NEW c \in Commands, Lose(c) PROVE TypeOK'
  BY <1>8 DEF Lose, Dispatch, TypeOK, polls
<1>9. ASSUME NEW p \in Pollers, LoadPending(p) PROVE TypeOK'
  <2>1. phase' \in [Pollers -> {"idle", "loaded", "fetched"}]
    BY <1>9 DEF LoadPending, TypeOK
  <2>2. [c \in Sent |-> bound[c]] \in [Sent -> Bounds] /\ Sent \subseteq Commands
    BY DEF TypeOK, Sent
  <2>3. \A q \in Pollers : known'[q] = known[q] \/ known'[q] = [c \in Sent |-> bound[c]]
    BY <1>9 DEF LoadPending
  <2>4. \A q \in Pollers : DOMAIN known'[q] \subseteq Commands
                           /\ known'[q] \in [DOMAIN known'[q] -> Bounds]
    BY <2>2, <2>3 DEF TypeOK
  <2> QED
    BY <1>9, <2>1, <2>4 DEF LoadPending, TypeOK, command, send
<1>10. ASSUME NEW p \in Pollers, Fetch(p) PROVE TypeOK'
  <2>1. PICK G \in Groups(known[p]) :
          /\ decisions' = [decisions EXCEPT ![p] = Reconcile(Part(known[p], G), Shown)]
          /\ known' = [known EXCEPT ![p] = Part(known[p], DOMAIN known[p] \ G)]
    BY <1>10 DEF Fetch
  <2>2. phase' \in [Pollers -> {"idle", "loaded", "fetched"}]
    BY <1>10 DEF Fetch, TypeOK
  <2>3. decisions' \in [Pollers -> SUBSET Decisions]
    BY <1>10, <2>1, FetchDecides DEF TypeOK
  <2>4. /\ DOMAIN Part(known[p], DOMAIN known[p] \ G) \subseteq Commands
        /\ Part(known[p], DOMAIN known[p] \ G)
             \in [DOMAIN Part(known[p], DOMAIN known[p] \ G) -> Bounds]
    BY DEF TypeOK, Part
  <2>5. \A q \in Pollers : \/ known'[q] = known[q]
                           \/ known'[q] = Part(known[p], DOMAIN known[p] \ G)
    BY <2>1 DEF TypeOK
  <2>6. DOMAIN known' = Pollers
        /\ \A q \in Pollers : DOMAIN known'[q] \subseteq Commands
                              /\ known'[q] \in [DOMAIN known'[q] -> Bounds]
    BY <2>1, <2>4, <2>5 DEF TypeOK
  <2> QED
    BY <1>10, <2>2, <2>3, <2>6 DEF Fetch, TypeOK, command, send
<1>11. ASSUME NEW p \in Pollers, Apply(p) \/ PollFails(p) PROVE TypeOK'
  <2>1. /\ phase' \in [Pollers -> {"idle", "loaded", "fetched"}]
        /\ decisions' \in [Pollers -> SUBSET Decisions]
    BY <1>11 DEF Apply, PollFails, Rest, TypeOK
  <2>2. known' = known \/ known' = [known EXCEPT ![p] = <<>>]
    BY <1>11 DEF Apply, PollFails, Rest
  <2>3. DOMAIN known' = Pollers
        /\ \A q \in Pollers : DOMAIN known'[q] \subseteq Commands
                              /\ known'[q] \in [DOMAIN known'[q] -> Bounds]
    <3>1. DOMAIN <<>> = {} /\ <<>> \in [DOMAIN <<>> -> Bounds]
      OBVIOUS
    <3>2. DOMAIN known' = Pollers /\ \A q \in Pollers : known'[q] = known[q] \/ known'[q] = <<>>
      BY <2>2 DEF TypeOK
    <3> QED
      BY <3>1, <3>2 DEF TypeOK
  <2>4. /\ status' \in [Commands -> Statuses]
        /\ attempt' \in [Commands -> {"none", "sent", "acknowledged", "nacked",
                                      "transport_error", "timed_out"}]
        /\ bound' \in [Commands -> Bounds]
        /\ verdicts' \subseteq Commands \X {"timeout", "state", "status"}
                                        \X {"timeout", "ack", "nack"}
    <3>1. CASE UNCHANGED <<status, attempt, bound, verdicts>>
      BY <3>1 DEF TypeOK
    <3>2. ASSUME NEW d \in Decisions, Decide(d)
          PROVE  /\ status' \in [Commands -> Statuses]
                 /\ attempt' \in [Commands -> {"none", "sent", "acknowledged", "nacked",
                                               "transport_error", "timed_out"}]
                 /\ bound' \in [Commands -> Bounds]
                 /\ verdicts' \subseteq Commands \X {"timeout", "state", "status"}
                                                 \X {"timeout", "ack", "nack"}
      <4>1. bound' \in [Commands -> Bounds]
        BY <3>2 DEF Decide, Decisions, Bounds, TypeOK
      <4>2. d.command \in Commands
        BY DEF Decisions
      <4>3. CASE UNCHANGED <<status, attempt, verdicts>>
        BY <4>1, <4>3 DEF TypeOK
      <4>4. CASE Finish(d)
        <5>1. \E new \in {"acknowledged", "nacked"}, outcome \in {"ack", "nack"} :
                Settle({d.command}, new, new) /\ Announce({d.command}, "status", outcome)
          BY <4>4 DEF Finish
        <5> QED
          BY <4>1, <4>2, <5>1 DEF Settle, Announce, TypeOK
      <4> QED
        BY <3>2, <4>3, <4>4 DEF Decide
    <3> QED
      BY <1>11, <3>1, <3>2 DEF Apply, PollFails, command, TypeOK
  <2> QED
    BY <1>11, <2>1, <2>3, <2>4 DEF Apply, PollFails, TypeOK, send, command
<1>12. CASE UNCHANGED vars
  BY <1>12 DEF vars, TypeOK
<1> QED
  BY <1>1, <1>2, <1>3, <1>4, <1>5, <1>6, <1>7, <1>8, <1>9, <1>10, <1>11, <1>12
     DEF Next, Send, Poll

-----------------------------------------------------------------------------
(* What is under way is as the rows say. *)
LEMMA InHandStep == TypeOK /\ InHand /\ [Next]_vars => InHand'
<1> SUFFICES ASSUME TypeOK, InHand, [Next]_vars PROVE InHand'
  OBVIOUS
<1> USE DEF InHand
<1>1. CASE Tick \/ Progress
  BY <1>1 DEF Tick, Progress, command, send
<1>2. CASE ExpireUnknown
  BY <1>2 DEF ExpireUnknown, Overdue, Settle, send
<1>3. CASE ApplyEvidence
  BY <1>3 DEF ApplyEvidence, Confirmed, Sent, Settle, send
<1>4. ASSUME NEW c \in Commands, Stop(c) \/ Invoke(c) \/ Commit(c) \/ Lose(c) PROVE InHand'
  <2>1. \A d \in Commands \ {c} : dispatch'[d] = dispatch[d] /\ status'[d] = status[d] /\ attempt'[d] = attempt[d]
    BY <1>4 DEF Stop, Invoke, Commit, Lose, Dispatch, TypeOK
  <2>2. dispatch'[c] # "done" => status'[c] = status[c] /\ attempt'[c] = attempt[c] /\ dispatch[c] # "done"
    BY <1>4 DEF Stop, Invoke, Commit, Lose, Dispatch, TypeOK, Answers
  <2> QED
    BY <2>1, <2>2
<1>5. ASSUME NEW p \in Pollers, LoadPending(p) \/ Fetch(p) \/ PollFails(p) PROVE InHand'
  BY <1>5 DEF LoadPending, Fetch, PollFails, command, send
<1>6. ASSUME NEW p \in Pollers, Apply(p) PROVE InHand'
  <2>1. dispatch' = dispatch
    BY <1>6 DEF Apply, send
  <2>2. CASE UNCHANGED <<status, attempt>>
    BY <2>1, <2>2
  <2>3. ASSUME NEW d, d.command \in Sent, Finish(d) PROVE InHand'
    <3>1. dispatch[d.command] = "done" /\ d.command \in Commands
      BY <2>3 DEF Sent
    <3>2. \A c \in Commands \ {d.command} : status'[c] = status[c] /\ attempt'[c] = attempt[c]
      BY <2>3 DEF Finish, Settle
    <3> QED
      BY <2>1, <3>1, <3>2
  <2>4. \/ UNCHANGED <<status, attempt>>
        \/ \E d \in decisions[p] : d.command \in Sent /\ Finish(d)
    BY <1>6 DEF Apply, Decide, Unchanged
  <2> QED
    BY <2>2, <2>3, <2>4
<1>7. CASE UNCHANGED vars
  BY <1>7 DEF vars
<1> QED
  BY <1>1, <1>2, <1>3, <1>4, <1>5, <1>6, <1>7 DEF Next, Send, Poll

(* Where something was accepted the list of operations is not empty. *)
LEMMA OperatedStep == TypeOK /\ InHand /\ Operated /\ [Next]_vars => Operated'
<1> SUFFICES ASSUME TypeOK, InHand, Operated, [Next]_vars PROVE Operated'
  OBVIOUS
<1> USE DEF Operated
<1>1. CASE Tick
  BY <1>1 DEF Tick, command, send, polls
<1>2. CASE Progress
  <2>1. ops # <<>>
    BY <1>2 DEF Progress
  <2>2. Len(ops) \in DOMAIN ops /\ DOMAIN ops' = DOMAIN ops
    BY <1>2, <2>1, LastIsOperation DEF Progress
  <2> QED
    BY <2>2
<1>3. CASE ExpireUnknown
  BY <1>3 DEF ExpireUnknown, Overdue, Settle, send, polls
<1>4. CASE ApplyEvidence
  BY <1>4 DEF ApplyEvidence, Confirmed, Sent, Settle, send, polls
<1>5. ASSUME NEW c \in Commands, Invoke(c) PROVE Operated'
  <2>1. CASE UNCHANGED ops
    BY <1>5, <2>1 DEF Invoke, Dispatch, TypeOK, polls
  <2>2. CASE \E r \in Operation : ops' = Append(ops, r)
    <3>1. ops \in Seq(Operation)
      BY DEF TypeOK, Operation
    <3> QED
      BY <2>2, <3>1, AppendProperties
  <2>3. [by |-> c, created |-> now, updated |-> now, state |-> "running"] \in Operation
    BY DEF Operation, States, TypeOK
  <2> QED
    BY <1>5, <2>1, <2>2, <2>3 DEF Invoke
<1>6. ASSUME NEW c \in Commands, Stop(c) \/ Commit(c) \/ Lose(c) PROVE Operated'
  BY <1>6 DEF Stop, Commit, Lose, Dispatch, TypeOK, polls, Answers
<1>7. ASSUME NEW p \in Pollers, LoadPending(p) \/ Fetch(p) \/ PollFails(p) PROVE Operated'
  BY <1>7 DEF LoadPending, Fetch, PollFails, Rest, TypeOK, Sent, command, send
<1>8. ASSUME NEW p \in Pollers, Apply(p) PROVE Operated'
  <2>1. ops' = ops /\ dispatch' = dispatch
    BY <1>8 DEF Apply, send
  <2>2. \A c \in Commands : status'[c] = "sent" => status[c] = "sent"
    <3>1. CASE UNCHANGED status
      BY <3>1
    <3>2. ASSUME NEW d, Finish(d)
          PROVE  \A c \in Commands : status'[c] = "sent" => status[c] = "sent"
      BY <3>2 DEF Finish, Settle
    <3> QED
      BY <1>8, <3>1, <3>2 DEF Apply, Decide
  <2>3. ops # <<>>
    BY <1>8 DEF Apply
  <2> QED
    BY <2>1, <2>2, <2>3
<1>9. CASE UNCHANGED vars
  BY <1>9 DEF vars
<1> QED
  BY <1>1, <1>2, <1>3, <1>4, <1>5, <1>6, <1>7, <1>8, <1>9 DEF Next, Send, Poll

-----------------------------------------------------------------------------
(* Where the operations, and what counts them, stay as they are. *)
Quiet == /\ \A d \in Commands : Made(d)' = Made(d)
         /\ dispatch' = dispatch /\ lost' = lost

(* All steps but those of a dispatch are quiet. *)
LEMMA QuietSteps ==
  ASSUME TypeOK,
         \/ Tick \/ Progress \/ ExpireUnknown \/ ApplyEvidence \/ UNCHANGED vars
         \/ \E p \in Pollers : LoadPending(p) \/ Fetch(p) \/ Apply(p) \/ PollFails(p)
  PROVE  Quiet
<1>1. CASE Progress
  BY <1>1, MadeStays DEF Quiet, Progress, send
<1>2. CASE Tick \/ ExpireUnknown \/ ApplyEvidence \/ UNCHANGED vars
  BY <1>2 DEF Quiet, Made, Tick, ExpireUnknown, ApplyEvidence, send, vars
<1>3. ASSUME NEW p \in Pollers, LoadPending(p) \/ Fetch(p) \/ Apply(p) \/ PollFails(p) PROVE Quiet
  BY <1>3 DEF Quiet, Made, LoadPending, Fetch, Apply, PollFails, send
<1> QED
  BY <1>1, <1>2, <1>3

(* A call makes an operation, or none. *)
LEMMA InvokeMakes ==
  ASSUME TypeOK, NEW c \in Commands, Invoke(c)
  PROVE  /\ UNCHANGED <<lost, status, verdicts>>
         /\ dispatch[c] = "pending" /\ dispatch'[c] \in Answers
         /\ \A d \in Commands \ {c} : dispatch'[d] = dispatch[d]
         /\ \/ UNCHANGED ops
            \/ Appends(c) /\ dispatch'[c] # "nacked"
<1>1. [by |-> c, created |-> now, updated |-> now, state |-> "running"] \in Operation
  BY DEF Operation, States, TypeOK
<1> QED
  BY <1>1 DEF Invoke, Dispatch, TypeOK, Appends, Answers

(* The other steps of a dispatch make none. *)
LEMMA DispatchMoves ==
  ASSUME TypeOK, NEW c \in Commands, Stop(c) \/ Commit(c) \/ Lose(c)
  PROVE  /\ \A d \in Commands : Made(d)' = Made(d)
         /\ \A d \in Commands \ {c} : dispatch'[d] = dispatch[d] /\ status'[d] = status[d]
         /\ verdicts' = verdicts
         /\ \/ lost' = lost /\ dispatch'[c] = "done"
            \/ lost' = lost + 1 /\ dispatch[c] \in Answers /\ dispatch'[c] = "pending" /\ status' = status
BY DEF Stop, Commit, Lose, Dispatch, TypeOK, Made

(* The number of operations is bounded, with one to come for a pending call. *)
LEMMA CountStep == TypeOK /\ CallsCounted /\ [Next]_vars => CallsCounted'
<1> SUFFICES ASSUME TypeOK, CallsCounted, [Next]_vars, NEW d \in Commands
             PROVE  Cardinality(Made(d)') <= lost' + (IF dispatch'[d] = "pending" THEN 0 ELSE 1)
  BY DEF CallsCounted
<1>1. /\ Cardinality(Made(d)) \in Nat /\ lost \in Nat
      /\ Cardinality(Made(d)) <= lost + (IF dispatch[d] = "pending" THEN 0 ELSE 1)
  <2>1. lost \in Nat
    BY CloudAssumption DEF TypeOK
  <2>2. IsFiniteSet(Made(d))
    BY MadeIsFinite
  <2>3. Cardinality(Made(d)) \in Nat
    BY <2>2, FS_CardinalityType
  <2> QED
    BY <2>1, <2>3 DEF CallsCounted
<1>2. CASE Quiet
  BY <1>1, <1>2 DEF Quiet
<1>3. ASSUME NEW c \in Commands, Invoke(c)
      PROVE  Cardinality(Made(d)') <= lost' + (IF dispatch'[d] = "pending" THEN 0 ELSE 1)
  <2>1. CASE UNCHANGED ops
    <3>1. Made(d)' = Made(d)
      BY <2>1 DEF Made
    <3> QED
      BY <1>1, <1>3, <3>1, InvokeMakes DEF Answers
  <2>2. CASE Appends(c) /\ d = c
    <3>1. Cardinality(Made(d)') <= Cardinality(Made(d)) + 1 /\ Cardinality(Made(d)') \in Nat
      BY <2>2, MadeByCall
    <3> QED
      BY <1>1, <1>3, <2>2, <3>1, InvokeMakes DEF Answers
  <2>3. CASE Appends(c) /\ d # c
    <3>1. Made(d)' = Made(d)
      BY <2>3, MadeByCall
    <3> QED
      BY <1>1, <1>3, <2>3, <3>1, InvokeMakes
  <2> QED
    BY <1>3, <2>1, <2>2, <2>3, InvokeMakes
<1>4. ASSUME NEW c \in Commands, Stop(c) \/ Commit(c) \/ Lose(c)
      PROVE  Cardinality(Made(d)') <= lost' + (IF dispatch'[d] = "pending" THEN 0 ELSE 1)
  <2>1. Made(d)' = Made(d)
    BY <1>4, DispatchMoves
  <2>2. CASE d = c
    BY <1>1, <1>4, <2>1, <2>2, DispatchMoves DEF Answers
  <2>3. CASE d # c
    BY <1>1, <1>4, <2>1, <2>3, DispatchMoves
  <2> QED
    BY <2>2, <2>3
<1> QED
  BY <1>2, <1>3, <1>4, QuietSteps DEF Next, Send, Poll

(* What was not sent, or refused, has made nothing but in a lost dispatch. *)
LEMMA NothingStep == TypeOK /\ NothingMade /\ [Next]_vars => NothingMade'
<1> SUFFICES ASSUME TypeOK, NothingMade, [Next]_vars, NEW d \in Commands,
                    dispatch'[d] \in {"pending", "nacked"}, Made(d)' # {}
             PROVE  lost' > 0
  BY DEF NothingMade
<1>1. lost \in Nat /\ (dispatch[d] \in {"pending", "nacked"} /\ Made(d) # {} => lost > 0)
  BY CloudAssumption DEF NothingMade, TypeOK
<1>2. CASE Quiet
  BY <1>1, <1>2 DEF Quiet
<1>3. ASSUME NEW c \in Commands, Invoke(c) PROVE lost' > 0
  <2>1. CASE UNCHANGED ops
    <3>1. Made(d)' = Made(d)
      BY <2>1 DEF Made
    <3> QED
      BY <1>1, <1>3, <3>1, InvokeMakes
  <2>2. CASE Appends(c) /\ d # c
    <3>1. Made(d)' = Made(d)
      BY <2>2, MadeByCall
    <3> QED
      BY <1>1, <1>3, <2>2, <3>1, InvokeMakes
  <2> QED
    BY <1>3, <2>1, <2>2, InvokeMakes DEF Answers
<1>4. ASSUME NEW c \in Commands, Stop(c) \/ Commit(c) \/ Lose(c) PROVE lost' > 0
  <2>1. Made(d)' = Made(d)
    BY <1>4, DispatchMoves
  <2> QED
    BY <1>1, <1>4, <2>1, DispatchMoves
<1> QED
  BY <1>2, <1>3, <1>4, QuietSteps DEF Next, Send, Poll

-----------------------------------------------------------------------------
(* What an end of a command means for its row. *)
StatusFor(outcome) == CASE outcome = "ack" -> "acknowledged" [] outcome = "nack" -> "nacked"
                        [] OTHER -> "unknown"

(* What a step does to the verdicts: a sent command gets its only one. *)
Decides(S, source, outcome) ==
  /\ S \subseteq Commands /\ \A c \in S : status[c] = "sent" /\ status'[c] = StatusFor(outcome)
  /\ \A c \in Commands \ S : status'[c] = status[c]
  /\ verdicts' = verdicts \cup (S \X {source} \X {outcome})

(* It is its only one, and the others keep theirs. *)
LEMMA DecidedOnce ==
  ASSUME TypeOK, OneVerdict, NEW S, NEW source, NEW outcome, Decides(S, source, outcome)
  PROVE  /\ OneVerdict'
         /\ \A c \in S : Verdict(c)' # {}
         /\ \A c \in Commands \ S : Verdict(c)' = Verdict(c) /\ status'[c] = status[c]
<1>1. ASSUME NEW c \in S PROVE Verdict(c)' = {<<c, source, outcome>>}
  <2>1. Verdict(c) = {}
    BY <1>1 DEF Decides, OneVerdict, Verdict
  <2> QED
    BY <1>1, <2>1 DEF Decides, Verdict
<1>2. ASSUME NEW c \in Commands \ S PROVE Verdict(c)' = Verdict(c) /\ status'[c] = status[c]
  BY <1>2 DEF Decides, Verdict
<1>3. ASSUME NEW c \in Commands, NEW v \in Verdict(c)'
      PROVE  /\ Verdict(c)' = {v}
             /\ status'[c] = StatusFor(v[3])
  <2>1. CASE c \in S
    BY <1>1, <1>3, <2>1 DEF Decides
  <2>2. CASE c \notin S
    BY <1>2, <1>3, <2>2 DEF OneVerdict, StatusFor
  <2> QED
    BY <2>1, <2>2
<1>4. OneVerdict'
  BY <1>3 DEF OneVerdict, StatusFor
<1> QED
  BY <1>1, <1>2, <1>4

(* The loops decide, each in its way. *)
LEMMA LoopsDecide ==
  ASSUME TypeOK, \/ ExpireUnknown \/ ApplyEvidence
                 \/ \E p \in Pollers : Apply(p)
  PROVE  \/ \E S, source, outcome : Decides(S, source, outcome)
         \/ UNCHANGED <<status, verdicts>>
<1>1. CASE ExpireUnknown
  <2>1. Decides(Overdue, "timeout", "timeout")
    BY <1>1 DEF ExpireUnknown, Overdue, Settle, Announce, Decides, StatusFor, TypeOK
  <2> QED
    BY <2>1
<1>2. CASE ApplyEvidence
  <2>1. PICK captured \in 1..now : /\ Settle(Confirmed(captured), "acknowledged", "acknowledged")
                                    /\ Announce(Confirmed(captured), "state", "ack")
    BY <1>2 DEF ApplyEvidence
  <2>2. Decides(Confirmed(captured), "state", "ack")
    BY <2>1 DEF Confirmed, Sent, Settle, Announce, Decides, StatusFor, TypeOK
  <2> QED
    BY <2>2
<1>3. ASSUME NEW p \in Pollers, Apply(p)
      PROVE  \/ \E S, source, outcome : Decides(S, source, outcome)
             \/ UNCHANGED <<status, verdicts>>
  <2>1. CASE UNCHANGED <<status, verdicts>>
    BY <2>1
  <2>2. CASE \E d \in decisions[p] : d.command \in Sent /\ Finish(d)
    <3>1. PICK d \in decisions[p] : d.command \in Sent /\ Finish(d)
      BY <2>2
    <3>2. Decides({d.command}, "status", "ack") \/ Decides({d.command}, "status", "nack")
      BY <3>1 DEF Finish, Sent, Settle, Announce, Decides, StatusFor, TypeOK
    <3> QED
      BY <3>2
  <2> QED
    BY <1>3, <2>1, <2>2 DEF Apply, Decide, Unchanged
<1> QED
  BY <1>1, <1>2, <1>3

(* The others do not. *)
LEMMA OthersDoNot ==
  ASSUME \/ Tick \/ Progress \/ UNCHANGED vars
         \/ \E p \in Pollers : LoadPending(p) \/ Fetch(p) \/ PollFails(p)
  PROVE  UNCHANGED <<status, verdicts>>
BY DEF Tick, Progress, vars, LoadPending, Fetch, PollFails, command

(* One verdict, and the one the row shows. *)
LEMMA VerdictStep == TypeOK /\ InHand /\ OneVerdict /\ [Next]_vars => OneVerdict'
<1> SUFFICES ASSUME TypeOK, InHand, OneVerdict, [Next]_vars PROVE OneVerdict'
  OBVIOUS
<1>1. CASE UNCHANGED <<status, verdicts>>
  BY <1>1 DEF OneVerdict, Verdict
<1>2. CASE \E S, source, outcome : Decides(S, source, outcome)
  BY <1>2, DecidedOnce
<1>3. ASSUME NEW c \in Commands, Stop(c) \/ Commit(c) \/ Lose(c) PROVE OneVerdict'
  <2>1. status[c] = "dispatchable"
    BY <1>3 DEF Stop, Commit, Lose, InHand, Answers
  <2>2. verdicts' = verdicts /\ \A d \in Commands \ {c} : status'[d] = status[d]
    BY <1>3, DispatchMoves
  <2>3. Verdict(c) = {}
    BY <2>1 DEF OneVerdict
  <2> QED
    BY <2>2, <2>3 DEF OneVerdict, Verdict
<1>4. ASSUME NEW c \in Commands, Invoke(c) PROVE OneVerdict'
  BY <1>1, <1>4, InvokeMakes
<1> QED
  BY <1>1, <1>2, <1>3, <1>4, LoopsDecide, OthersDoNot DEF Next, Send, Poll

(* What was refused has done nothing, but for a lost dispatch. *)
LEMMA RefusedStep ==
  TypeOK /\ InHand /\ NothingMade /\ OneVerdict /\ RefusedDoesNothing /\ [Next]_vars
    => RefusedDoesNothing'
<1> SUFFICES ASSUME TypeOK, InHand, NothingMade, OneVerdict, RefusedDoesNothing, [Next]_vars,
                    NEW d \in Commands, status'[d] \in {"canceled", "timed_out", "nacked"},
                    Verdict(d)' = {}, Made(d)' # {}
             PROVE  lost' > 0
  BY DEF RefusedDoesNothing
<1>1. status[d] \in {"canceled", "timed_out", "nacked"} /\ Verdict(d) = {} /\ Made(d) # {} => lost > 0
  BY DEF RefusedDoesNothing
<1>2. CASE Quiet /\ UNCHANGED <<status, verdicts>>
  BY <1>1, <1>2 DEF Quiet, Verdict
<1>3. CASE Quiet /\ \E S, source, outcome : Decides(S, source, outcome)
  BY <1>1, <1>3, DecidedOnce DEF Quiet
<1>4. ASSUME NEW c \in Commands, Invoke(c) PROVE lost' > 0
  <2>1. status'[d] = status[d] /\ Verdict(d)' = Verdict(d) /\ lost' = lost
    BY <1>4, InvokeMakes DEF Verdict
  <2>2. d # c
    BY <1>4, <2>1, InvokeMakes DEF InHand
  <2>3. Made(d)' = Made(d)
    BY <1>4, <2>2, InvokeMakes, MadeByCall DEF Made
  <2> QED
    BY <1>1, <2>1, <2>3
<1>5. ASSUME NEW c \in Commands, Stop(c) \/ Commit(c) \/ Lose(c) PROVE lost' > 0
  <2>1. Made(d)' = Made(d) /\ Verdict(d)' = Verdict(d) /\ lost \in Nat
    BY <1>5, DispatchMoves, CloudAssumption DEF Verdict, TypeOK
  <2>2. CASE d # c
    BY <1>1, <1>5, <2>1, <2>2, DispatchMoves
  <2>3. CASE d = c
    <3>1. status[c] = "dispatchable"
      BY <1>5 DEF Stop, Commit, Lose, InHand, Answers
    <3>2. dispatch[c] \in {"pending", "nacked"} \/ lost' = lost + 1
      BY <1>5, <2>3, <3>1 DEF Stop, Commit, Lose, TypeOK, Answers
    <3> QED
      BY <1>5, <2>1, <2>3, <3>2, DispatchMoves DEF NothingMade
  <2> QED
    BY <2>2, <2>3
<1> QED
  BY <1>2, <1>3, <1>4, <1>5, QuietSteps, LoopsDecide, OthersDoNot DEF Next, Send, Poll

-----------------------------------------------------------------------------
(* Only an answer of the cloud binds, and one command at most, which is under *)
(* way and unbound, or bound to that operation as it was before.             *)
LEMMA OnlyApplyBinds ==
  ASSUME TypeOK, [Next]_vars
  PROVE  \/ bound' = bound
         \/ \E p \in Pollers : \E d \in decisions[p] :
              /\ Unchanged(d)
              /\ bound' = [bound EXCEPT ![d.command] = [op |-> d.op, version |-> d.version]]
<1>1. CASE Tick \/ Progress \/ ExpireUnknown \/ ApplyEvidence \/ UNCHANGED vars
  BY <1>1 DEF Tick, Progress, ExpireUnknown, ApplyEvidence, vars, command
<1>2. CASE \E c \in Commands : Send(c) \/ Lose(c)
  BY <1>2 DEF Send, Stop, Invoke, Commit, Lose
<1>3. CASE \E p \in Pollers : LoadPending(p) \/ Fetch(p) \/ PollFails(p)
  BY <1>3 DEF LoadPending, Fetch, PollFails, command
<1>4. CASE \E p \in Pollers : Apply(p)
  BY <1>4 DEF Apply, Decide
<1> QED
  BY <1>1, <1>2, <1>3, <1>4 DEF Next, Poll

(* A command is bound to an operation, and a decision is about the one that   *)
(* its command was bound to, if any.                                         *)
LEMMA BoundStep == TypeOK /\ Operated /\ BoundToSome /\ [Next]_vars => BoundToSome'
<1> SUFFICES ASSUME TypeOK, Operated, BoundToSome, [Next]_vars PROVE BoundToSome'
  OBVIOUS
<1>1. ASSUME NEW c \in Commands, bound'[c] # Unbound PROVE bound'[c].op > 0
  <2>1. CASE bound' = bound
    BY <1>1, <2>1 DEF BoundToSome
  <2>2. ASSUME NEW p \in Pollers, NEW d \in decisions[p],
               bound' = [bound EXCEPT ![d.command] = [op |-> d.op, version |-> d.version]]
        PROVE  bound'[c].op > 0
    <3>1. d.op > 0
      BY DEF BoundToSome
    <3> QED
      BY <1>1, <2>2, <3>1 DEF BoundToSome, TypeOK
  <2> QED
    BY <2>1, <2>2, OnlyApplyBinds
<1> DEFINE Fine(d) == d.op > 0 /\ d.from \in {0, d.op}
<1>2. ASSUME NEW p \in Pollers, Fetch(p), NEW q \in Pollers, NEW d \in decisions'[q]
      PROVE  Fine(d)
  <2>1. PICK G \in Groups(known[p]) :
          decisions' = [decisions EXCEPT ![p] = Reconcile(Part(known[p], G), Shown)]
    BY <1>2 DEF Fetch
  <2>2. CASE d \in Reconcile(Part(known[p], G), Shown)
    <3>1. d.op > 0
      BY <1>2, <2>2, FetchDecides
    <3>2. PICK c \in G : /\ d.from = Part(known[p], G)[c].op /\ d.op = Shown.op
                        /\ Matches(Part(known[p], G), Shown, c)
      BY <2>2 DEF Reconcile, Candidates, Part
    <3>3. d.from \in {0, d.op}
      BY <3>2 DEF Matches, Unbound
    <3> QED
      BY <3>1, <3>3
  <2>3. CASE d \in decisions[q]
    BY <2>3 DEF BoundToSome
  <2> QED
    BY <1>2, <2>1, <2>2, <2>3 DEF TypeOK
<1>3. ASSUME NEW p \in Pollers, Apply(p) \/ PollFails(p), NEW q \in Pollers, NEW d \in decisions'[q]
      PROVE  Fine(d)
  <2>1. decisions' = [decisions EXCEPT ![p] = {}]
    BY <1>3 DEF Apply, PollFails
  <2> QED
    BY <1>3, <2>1 DEF BoundToSome, TypeOK
<1>4. \/ UNCHANGED decisions
      \/ \E p \in Pollers : Fetch(p) \/ Apply(p) \/ PollFails(p)
  BY DEF Next, Tick, Progress, ExpireUnknown, ApplyEvidence, Send, Stop, Invoke, Commit, Lose,
         Poll, LoadPending, polls, vars
<1>5. ASSUME NEW q \in Pollers, NEW d \in decisions'[q] PROVE Fine(d)
  BY <1>2, <1>3, <1>4, <1>5 DEF BoundToSome
<1> QED
  BY <1>1, <1>5 DEF BoundToSome

-----------------------------------------------------------------------------
(* Nothing is under way at first. *)
LEMMA CloudInit == Init => CloudInv
<1> SUFFICES ASSUME Init PROVE CloudInv
  OBVIOUS
<1>1. TypeOK
  <2>1. ops \in Seq([by : Commands, created : Times, updated : Times, state : States])
    BY EmptySeq DEF Init
  <2>2. <<>> \in [DOMAIN <<>> -> Bounds]
    OBVIOUS
  <2>3. Unbound \in Bounds /\ 1 \in Times /\ 0 \in 0..MaxTime /\ 0 \in 0..MaxLost
    BY CloudAssumption DEF Unbound, Bounds, Times
  <2> QED
    BY <2>1, <2>2, <2>3 DEF Init, TypeOK, Statuses, Open, Answers
<1>2. InHand /\ Operated
  BY DEF Init, InHand, Operated
<1>3. \A c \in Commands : Made(c) = {} /\ Verdict(c) = {}
  BY DEF Init, Made, Verdict
<1>4. CallsCounted
  <2>1. Cardinality({}) = 0
    BY FS_EmptySet
  <2>2. CallsCounted
    <3> SUFFICES ASSUME NEW c \in Commands
                 PROVE  Cardinality(Made(c)) <= lost + (IF dispatch[c] = "pending" THEN 0 ELSE 1)
      BY DEF CallsCounted
    <3>1. Made(c) = {} /\ lost = 0 /\ dispatch[c] = "pending"
      BY <1>3 DEF Init
    <3>2. Cardinality(Made(c)) = 0
      BY <2>1, <3>1
    <3> QED
      BY <3>1, <3>2
  <2> QED
    BY <2>2
<1>5. NothingMade /\ OneVerdict /\ RefusedDoesNothing /\ BoundToSome
  BY <1>3 DEF Init, NothingMade, OneVerdict, RefusedDoesNothing, BoundToSome
<1> QED
  BY <1>1, <1>2, <1>4, <1>5 DEF CloudInv

(* Every step keeps the invariant. *)
LEMMA CloudStep == CloudInv /\ [Next]_vars => CloudInv'
BY TypeStep, InHandStep, OperatedStep, CountStep, NothingStep, VerdictStep,
    RefusedStep, BoundStep DEF CloudInv

(* The invariant behind them: what is under way is as the rows say, and      *)
(* counted.                                                                  *)
THEOREM CloudInvariant == Spec => []CloudInv
BY CloudInit, CloudStep, PTL DEF Spec

(* The variables have their types, whatever the bounds. *)
THEOREM CloudTypes == Spec => []TypeOK
<1>1. CloudInv => TypeOK
  BY DEF CloudInv
<1> QED
  BY <1>1, CloudInvariant, PTL

(* Of any number of status loops, the telemetry and the deadline, one only    *)
(* announces how a command ended, and the row shows the same.                *)
THEOREM OneVerdictHolds == Spec => []OneVerdict
<1>1. CloudInv => OneVerdict
  BY DEF CloudInv
<1> QED
  BY <1>1, CloudInvariant, PTL

(* A call is repeated only after a dispatch whose transaction was lost        *)
(* (NackAndTimeoutNeverRetry).                                                *)
THEOREM RepeatedOnlyAfterLossHolds == Spec => []RepeatedOnlyAfterLoss
<1>1. CloudInv => RepeatedOnlyAfterLoss
  <2> SUFFICES ASSUME CloudInv, NEW c \in Commands PROVE Cardinality(Made(c)) <= 1 + lost
    BY DEF RepeatedOnlyAfterLoss
  <2>1. TypeOK /\ Cardinality(Made(c)) <= lost + (IF dispatch[c] = "pending" THEN 0 ELSE 1)
    BY DEF CloudInv, CallsCounted
  <2>2. Cardinality(Made(c)) \in Nat /\ lost \in Nat
    BY <2>1, MadeIsFinite, FS_CardinalityType, CloudAssumption DEF TypeOK
  <2> QED
    BY <2>1, <2>2
<1> QED
  BY <1>1, CloudInvariant, PTL

(* A command that was not sent, or refused, has done nothing, but for a       *)
(* dispatch whose transaction was lost.                                      *)
THEOREM RefusedDoesNothingHolds == Spec => []RefusedDoesNothing
<1>1. CloudInv => RefusedDoesNothing
  BY DEF CloudInv
<1> QED
  BY <1>1, CloudInvariant, PTL

(* Of any number of status loops, none moves a command to another operation   *)
(* of the cloud, brings back an older observation, or changes what a command  *)
(* that has ended was found to be, however late its answer is                 *)
(* (applyDecisions).                                                          *)
THEOREM BindingStaysHolds == Spec => BindingStays
<1> DEFINE Stays(c) == /\ bound[c] # Unbound => /\ bound'[c].op = bound[c].op
                                                /\ bound'[c].version >= bound[c].version
                       /\ status[c] \notin Open => bound'[c] = bound[c]
<1>1. ASSUME CloudInv, [Next]_vars, NEW c \in Commands PROVE Stays(c)
  <2>1. TypeOK /\ BoundToSome /\ bound[c].version \in Nat
    BY <1>1, CloudAssumption DEF CloudInv, TypeOK, Bounds
  <2>2. CASE bound'[c] = bound[c]
    BY <2>1, <2>2
  <2>3. ASSUME NEW p \in Pollers, NEW d \in decisions[p], Unchanged(d), d.command = c,
               bound' = [bound EXCEPT ![c] = [op |-> d.op, version |-> d.version]]
        PROVE  Stays(c)
    <3>1. bound'[c] = [op |-> d.op, version |-> d.version]
      BY <2>1, <2>3 DEF TypeOK
    <3>2. status[c] \in Open /\ bound[c].op = d.from /\ bound[c].version < d.version
      BY <2>3 DEF Unchanged, Sent, Open
    <3>3. d.version \in Nat
      BY <2>1, CloudAssumption DEF TypeOK, Decisions, Times
    <3>4. bound[c] # Unbound => d.op = bound[c].op
      BY <2>1, <3>2 DEF BoundToSome
    <3> QED
      BY <2>1, <3>1, <3>2, <3>3, <3>4
  <2> QED
    BY <1>1, <2>1, <2>2, <2>3, OnlyApplyBinds DEF TypeOK
<1>2. CloudInv /\ [Next]_vars => [\A c \in Commands : Stays(c)]_vars
  BY <1>1
<1> HIDE DEF Stays
<1>3. Spec => [][\A c \in Commands : Stays(c)]_vars
  BY <1>2, CloudInvariant, PTL DEF Spec
<1> QED
  BY <1>3 DEF BindingStays, Stays
=============================================================================
