-------------------------- MODULE InboundStatusProofs --------------------------
(***************************************************************************)
(* Proofs about status events from the university, for any number of       *)
(* deliveries, events and faults.                                          *)
(***************************************************************************)
EXTENDS InboundStatus, FiniteSetTheorems, SequenceTheorems, TLAPS

(* The events the university has sent are numbered without a gap, and a    *)
(* delivery handles one of them.                                           *)
Numbered ==
    /\ Last \in Nat
    /\ DOMAIN wire = 1 .. Last
    /\ moves \in Seq(DOMAIN wire)
    /\ \A d \in Deliveries: handling[d].step # "idle" => handling[d].event \in DOMAIN wire

Attempt == [sub: Nat, state: {"awaiting_handoff"}, ref: {NoRef}]
TypeInv ==
    /\ TypeOK
    /\ Numbered
    /\ DOMAIN attempts \subseteq Nat
    /\ attempts \in [DOMAIN attempts -> Attempt]

(***************************************************************************)
(* What is on record of an event                                           *)
(***************************************************************************)

At(d, steps) == handling[d].step \in steps
Moved(n) == \E i \in DOMAIN moves: moves[i] = n

(* A delivery that has yet to move the application, or to say that it did, *)
(* has its event on record as neither applied nor skipped.                 *)
HoldsItsRow ==
    \A d \in Deliveries: At(d, {"stored", "moved"}) =>
        /\ handling[d].event \in DOMAIN events
        /\ events[handling[d].event].skipped = "none"
        /\ Moved(handling[d].event) <=> At(d, {"moved"})

(* The insert lets one delivery of an event past it.                       *)
OneMoverPerEvent ==
    \A d, e \in Deliveries:
        /\ At(d, {"stored", "moved"}) /\ At(e, {"stored", "moved"})
        /\ handling[d].event = handling[e].event
        => d = e

(* No event moves the application twice.                                   *)
AppliedAtMostOnce == \A i, j \in DOMAIN moves: moves[i] = moves[j] => i = j

(* Without a failing insert, what is about to be answered is on record.    *)
HandledIsStored ==
    ~Happened("insert_error") =>
        /\ answered \subseteq DOMAIN events
        /\ \A d \in Deliveries: At(d, {"done"}) => handling[d].event \in DOMAIN events

(* Without a crash, what is neither applied nor skipped is being handled.  *)
SaysWhyOrHandled ==
    ~Happened("crash") =>
        \A n \in DOMAIN events:
            \/ events[n].applied
            \/ events[n].skipped # "none"
            \/ \E d \in Deliveries: handling[d].event = n /\ At(d, {"stored", "moved"})

RecordInv ==
    /\ HoldsItsRow
    /\ OneMoverPerEvent
    /\ AppliedAtMostOnce
    /\ MovesAreRecorded
    /\ HandledIsStored
    /\ SkippedDidNotMoveIfAudited
    /\ SaysWhyOrHandled

(***************************************************************************)
(* An ordered partner, answered by one process at a time                   *)
(***************************************************************************)

(* Where the n-th event leaves the application.                            *)
Reported(n) == IF n = 0 THEN "submitted_pending" ELSE StateForInbound(wire[n].kind)

(* A partner that waits for its answers and reports no withdrawal, to one  *)
(* process at a time.                                                      *)
Orderly ==
    /\ Ordered
    /\ "withdrawn" \notin Kinds
    /\ \E d \in Deliveries: Deliveries = {d}

Lossless == ~Happened("crash") /\ ~Happened("insert_error")

(* Every event is a legal move from where the one before it left, and      *)
(* refers to the application.                                              *)
ReportsInOrder ==
    /\ view = Reported(Last)
    /\ \A n \in DOMAIN wire:
           /\ wire[n].kind \in Kinds
           /\ CanTransition(Reported(n - 1), Reported(n))
           /\ wire[n].ref = 1
           /\ n = 1 => wire[n].modexRef = 1

(* The events before n are settled: answered, on record, and applied.      *)
SettledBefore(n) ==
    /\ answered = 1 .. n
    /\ DOMAIN events = 1 .. n
    /\ state = Reported(n)
    /\ externalRef = IF n = 0 THEN NoRef ELSE 1

(* A delivery handles a copy of an event that is settled, or the next.     *)
Settling(d, n) ==
    LET next == handling[d].event = n + 1
        copy == handling[d].event \in 1 .. n
    IN  \/ At(d, {"idle"}) /\ SettledBefore(n)
        \/ At(d, {"read"}) /\ SettledBefore(n) /\ (copy \/ (next /\ handling[d].skip = "none"))
        \/ At(d, {"done"}) /\ SettledBefore(n) /\ copy
        \/ /\ At(d, {"stored", "moved", "done"}) /\ next
           /\ answered = 1 .. n
           /\ DOMAIN events = 1 .. n + 1
           /\ LET now == IF At(d, {"stored"}) THEN n ELSE n + 1
              IN  /\ state = Reported(now)
                  /\ externalRef = IF now = 0 THEN NoRef ELSE 1

OrderInv ==
    /\ attempts = [n \in {1} |-> [sub |-> 1, state |-> "awaiting_handoff", ref |-> NoRef]]
    /\ issued = {1}
    /\ Orderly => ReportsInOrder
    /\ Orderly /\ Lossless => \E n \in 0 .. Last: \A d \in Deliveries: Settling(d, n)

(***************************************************************************)
(* Lemmas about the operators                                              *)
(***************************************************************************)

LEMMA PutType ==
    ASSUME NEW S, NEW f, f \in [DOMAIN f -> S], NEW x, NEW v \in S
    PROVE  Put(f, x, v) \in [DOMAIN Put(f, x, v) -> S]
<1>1. Put(f, x, v) \in [DOMAIN f \cup {x} -> S]
  BY DEF Put
<1> QED
  BY <1>1 DEF Put

LEMMA InboundStates ==
    ASSUME NEW kind \in InboundKind
    PROVE  StateForInbound(kind) \in ApplicationState
BY DEF InboundKind, StateForInbound, ApplicationState

LEMMA SkipReasonType == ASSUME NEW event PROVE SkipReason(event) \in Reason
BY DEF SkipReason, Reason

(* Mishaps are counted by their kind, and stay counted.                    *)
LEMMA MishapFacts ==
    ASSUME TypeOK, NEW kind, Mishap(kind)
    PROVE  /\ mishaps' \in [FaultKinds -> 0 .. MaxMishaps]
           /\ Happened(kind)'
           /\ \A other: Happened(other) => Happened(other)'
BY BoundAssumption DEF TypeOK, Mishap, Happened

(* A step of one delivery leaves the others where they are.                *)
LEMMA RestingType == Resting \in Handling
BY DEF Resting, Handling, Reason

LEMMA StepFacts ==
    ASSUME TypeOK, NEW d \in Deliveries, NEW step \in {"stored", "moved", "done"},
           handling' = [handling EXCEPT ![d].step = step]
    PROVE  /\ handling' \in [Deliveries -> Handling]
           /\ handling'[d].step = step /\ handling'[d].event = handling[d].event
           /\ \A e \in Deliveries: e # d => handling'[e] = handling[e]
BY DEF TypeOK, Handling

LEMMA RestFacts ==
    ASSUME TypeOK, NEW d \in Deliveries, handling' = [handling EXCEPT ![d] = Resting]
    PROVE  /\ handling' \in [Deliveries -> Handling]
           /\ handling'[d].step = "idle"
           /\ \A e \in Deliveries: e # d => handling'[e] = handling[e]
BY RestingType DEF TypeOK, Resting

(***************************************************************************)
(* Type correctness                                                        *)
(***************************************************************************)

LEMMA InitType == Init => TypeInv
<1> SUFFICES ASSUME Init PROVE TypeInv
  OBVIOUS
<1> USE DEF Init, InitInbound
<1>1. DOMAIN wire = {} /\ DOMAIN events = {} /\ Last = 0
  BY FS_EmptySet DEF Last
<1>2. /\ wire \in [DOMAIN wire -> Event] /\ events \in [DOMAIN events -> Row]
      /\ DOMAIN wire = 1 .. Last
  BY <1>1
<1>3. handling \in [Deliveries -> Handling] /\ \A d \in Deliveries: handling[d].step = "idle"
  BY RestingType DEF Resting
<1>4. mishaps \in [FaultKinds -> 0 .. MaxMishaps]
  BY BoundAssumption
<1>5. state \in ApplicationState /\ view \in ApplicationState
  BY DEF ApplicationState
<1>6. moves \in Seq(DOMAIN wire)
  OBVIOUS
<1>7. DOMAIN attempts \subseteq Nat /\ attempts \in [DOMAIN attempts -> Attempt]
  BY DEF Attempt, NoRef
<1>8. issued \subseteq Nat \ {NoRef}
  BY DEF NoRef
<1>9. TypeOK
  BY <1>1, <1>2, <1>3, <1>4, <1>5, <1>8 DEF TypeOK, NoRef, Last
<1> QED
  BY <1>1, <1>2, <1>3, <1>6, <1>7, <1>9 DEF TypeInv, Numbered

(* The university adds one event to those it has sent.                     *)
LEMMA EmitFacts ==
    ASSUME TypeInv, NEW kind, NEW ref, NEW modexRef, Emit(kind, ref, modexRef)
    PROVE  /\ Last' = Last + 1 /\ Last \in Nat
           /\ DOMAIN wire' = DOMAIN wire \cup {Last + 1}
           /\ Last + 1 \notin DOMAIN wire
           /\ \A n \in DOMAIN wire: wire'[n] = wire[n]
           /\ wire'[Last + 1] = [kind |-> kind, ref |-> ref, modexRef |-> modexRef]
<1>1. Last \in Nat /\ DOMAIN wire = 1 .. Last
  BY DEF TypeInv, Numbered
<1>2. DOMAIN wire' = 1 .. Last + 1
  BY <1>1 DEF Emit, Put
<1>3. Cardinality(1 .. Last + 1) = Last + 1
  BY <1>1, FS_Interval
<1>4. Last' = Last + 1
  BY <1>2, <1>3 DEF Last
<1> QED
  BY <1>1, <1>2, <1>4 DEF Emit, Put

LEMMA UniversityType == TypeInv /\ University => TypeInv'
<1> SUFFICES ASSUME TypeInv, NEW kind \in Kinds, NEW ref \in issued,
                    NEW modexRef \in DOMAIN attempts \cup {NoRef}, Emit(kind, ref, modexRef)
             PROVE  TypeInv'
  BY DEF University
<1>1. kind \in InboundKind /\ ref \in Nat /\ modexRef \in Nat
  BY KindAssumption DEF TypeInv, TypeOK, NoRef
<1>2. wire' \in [DOMAIN wire' -> Event]
  BY <1>1, PutType DEF Emit, TypeInv, TypeOK, Event
<1>3. view' \in ApplicationState
  BY <1>1, InboundStates DEF Emit
<1>4. DOMAIN wire' = 1 .. Last' /\ Last' \in Nat /\ DOMAIN wire \subseteq DOMAIN wire'
  <2>1. DOMAIN wire = 1 .. Last
    BY DEF TypeInv, Numbered
  <2>2. Last' = Last + 1 /\ Last \in Nat /\ DOMAIN wire' = DOMAIN wire \cup {Last + 1}
    BY EmitFacts
  <2> QED
    BY <2>1, <2>2
<1>5. moves' \in Seq(DOMAIN wire')
  BY <1>4 DEF Emit, rowVars, TypeInv, Numbered
<1>6. TypeOK'
  BY <1>2, <1>3, <1>4, <1>5
     DEF TypeInv, TypeOK, Emit, appVars, rowVars, Last
<1> QED
  BY <1>4, <1>5, <1>6 DEF TypeInv, Numbered, Emit, appVars, rowVars

LEMMA DeliveryType ==
    ASSUME TypeInv, NEW d \in Deliveries,
           \/ \E n \in DOMAIN wire: Read(d, n)
           \/ Process(d) \/ Die(d)
    PROVE  TypeInv'
<1> USE DEF appVars, wireVars, rowVars
<1>0. /\ TypeOK /\ Numbered /\ \A e \in Deliveries: handling[e] \in Handling
      /\ \A n \in DOMAIN wire: n \in Nat /\ wire[n] \in Event /\ wire[n].kind \in InboundKind
  <2>1. /\ TypeOK /\ Numbered
        /\ wire \in [DOMAIN wire -> Event] /\ handling \in [Deliveries -> Handling]
    BY DEF TypeInv, TypeOK
  <2>2. \A n \in DOMAIN wire: n \in Nat
    BY <2>1 DEF Numbered
  <2> QED
    BY <2>1, <2>2 DEF Event
<1>1. ASSUME NEW n \in DOMAIN wire, Read(d, n) PROVE TypeInv'
  <2>1. [step |-> "read", event |-> n, skip |-> SkipReason(wire[n])] \in Handling
    BY <1>0, SkipReasonType DEF Handling
  <2>2. handling' \in [Deliveries -> Handling]
    BY <1>0, <1>1, <2>1 DEF Read, TypeOK
  <2>3. \A e \in Deliveries: handling'[e].step # "idle" => handling'[e].event \in DOMAIN wire
    BY <1>0, <1>1 DEF Read, Numbered, TypeOK
  <2> QED
    BY <1>1, <2>2, <2>3 DEF TypeInv, TypeOK, Numbered, Read, Last
<1>2. CASE StoreEvent(d)
  <2>1. handling' \in [Deliveries -> Handling] /\ handling'[d].event = handling[d].event
    <3>1. PICK step \in {"stored", "done"}: handling' = [handling EXCEPT ![d].step = step]
      BY <1>2 DEF StoreEvent, DuplicateAnswered
    <3> QED
      BY <1>0, <3>1, StepFacts
  <2>2. \A e \in Deliveries: handling'[e].step # "idle" => handling'[e].event \in DOMAIN wire
    BY <1>0, <1>2, <2>1 DEF StoreEvent, DuplicateAnswered, Numbered, TypeOK
  <2>3. handling[d].event \in DOMAIN wire
    BY <1>0, <1>2 DEF StoreEvent, Numbered
  <2>4. DOMAIN events' \subseteq DOMAIN wire /\ events' \in [DOMAIN events' -> Row]
    <3>1. [kind |-> wire[handling[d].event].kind, applied |-> FALSE,
           skipped |-> handling[d].skip] \in Row
      BY <1>0, <2>3 DEF Row, Handling
    <3> QED
      BY <1>0, <1>2, <2>3, <3>1 DEF StoreEvent, WithEvent, Put, TypeOK
  <2>5. mishaps' \in [FaultKinds -> 0 .. MaxMishaps]
    BY <1>0, <1>2, MishapFacts DEF StoreEvent, TypeOK
  <2> QED
    BY <1>2, <2>1, <2>2, <2>4, <2>5 DEF TypeInv, TypeOK, Numbered, StoreEvent, Last
<1>3. CASE ApplyTransition(d)
  <2>1. handling' \in [Deliveries -> Handling] /\ handling'[d].event = handling[d].event
    <3>1. PICK step \in {"moved", "done"}: handling' = [handling EXCEPT ![d].step = step]
      BY <1>3 DEF ApplyTransition, RefuseEvent
    <3> QED
      BY <1>0, <3>1, StepFacts
  <2>2. \A e \in Deliveries: handling'[e].step # "idle" => handling'[e].event \in DOMAIN wire
    BY <1>0, <1>3, <2>1 DEF ApplyTransition, RefuseEvent, Numbered, TypeOK
  <2>3. handling[d].event \in DOMAIN wire
    BY <1>0, <1>3 DEF ApplyTransition, Numbered
  <2>4. DOMAIN events' = DOMAIN events /\ events' \in [DOMAIN events -> Row]
    <3>1. events \in [DOMAIN events -> Row]
      BY <1>0 DEF TypeOK
    <3>2. UNCHANGED events \/ events' = [events EXCEPT ![handling[d].event].skipped = "refused"]
      BY <1>3 DEF ApplyTransition, RefuseEvent
    <3> QED
      BY <3>1, <3>2 DEF Row, Reason
  <2>5. mishaps' \in [FaultKinds -> 0 .. MaxMishaps]
    BY <1>0, <1>3, MishapFacts DEF ApplyTransition, TypeOK
  <2>6. state' \in ApplicationState /\ externalRef' \in Nat
    <3>1. wire[handling[d].event].ref \in Nat
      BY <1>0, <2>3 DEF Event
    <3> QED
      BY <1>0, <1>3, <2>3, <3>1, InboundStates DEF ApplyTransition, MoveApplication, TypeOK
  <2>7. moves' \in Seq(DOMAIN wire)
    <3>1. UNCHANGED moves \/ moves' = Append(moves, handling[d].event)
      BY <1>3 DEF ApplyTransition, MoveApplication
    <3> QED
      BY <1>0, <2>3, <3>1 DEF Numbered
  <2> QED
    BY <1>3, <2>1, <2>2, <2>4, <2>5, <2>6, <2>7
       DEF TypeInv, TypeOK, Numbered, ApplyTransition, Last
<1>4. CASE MarkApplied(d)
  <2>1. handling' \in [Deliveries -> Handling] /\ handling'[d].event = handling[d].event
    BY <1>0, <1>4, StepFacts DEF MarkApplied
  <2>2. \A e \in Deliveries: handling'[e].step # "idle" => handling'[e].event \in DOMAIN wire
    BY <1>0, <1>4, <2>1 DEF MarkApplied, Numbered, TypeOK
  <2>3. DOMAIN events' = DOMAIN events /\ events' \in [DOMAIN events -> Row]
    BY <1>0, <1>4 DEF MarkApplied, WithApplied, TypeOK, Row
  <2>4. tasks' \subseteq {"student", "modex_ops"}
    BY <1>0, <1>4 DEF MarkApplied, TypeOK
  <2> QED
    BY <1>4, <2>1, <2>2, <2>3, <2>4 DEF TypeInv, TypeOK, Numbered, MarkApplied, Last
<1>5. CASE Answer(d)
  <2>1. handling' \in [Deliveries -> Handling]
    BY <1>0, <1>5, RestFacts DEF Answer
  <2>2. \A e \in Deliveries: handling'[e].step # "idle" => handling'[e].event \in DOMAIN wire
    BY <1>0, <1>5 DEF Answer, Numbered, TypeOK, Resting
  <2>3. answered' \subseteq DOMAIN wire
    BY <1>0, <1>5 DEF Answer, Numbered, TypeOK
  <2> QED
    BY <1>5, <2>1, <2>2, <2>3 DEF TypeInv, TypeOK, Numbered, Answer, Last
<1>6. CASE Die(d)
  <2>1. handling' \in [Deliveries -> Handling]
    BY <1>0, <1>6, RestFacts DEF Die
  <2>2. \A e \in Deliveries: handling'[e].step # "idle" => handling'[e].event \in DOMAIN wire
    BY <1>0, <1>6 DEF Die, Numbered, TypeOK, Resting
  <2>3. mishaps' \in [FaultKinds -> 0 .. MaxMishaps]
    BY <1>0, <1>6, MishapFacts DEF Die
  <2> QED
    BY <1>6, <2>1, <2>2, <2>3 DEF TypeInv, TypeOK, Numbered, Die, Last
<1> QED
  BY <1>1, <1>2, <1>3, <1>4, <1>5, <1>6 DEF Process

LEMMA NextType == TypeInv /\ [Next]_vars => TypeInv'
<1> SUFFICES ASSUME TypeInv, [Next]_vars PROVE TypeInv'
  OBVIOUS
<1>1. CASE UNCHANGED vars
  BY <1>1 DEF vars, appVars, wireVars, rowVars, TypeInv, TypeOK, Numbered, Last
<1> QED
  BY <1>1, UniversityType, DeliveryType DEF Next

LEMMA TypeInvCorrect == Spec => []TypeInv
BY InitType, NextType, PTL DEF Spec

(* Type correctness of the application, its event rows and the deliveries  *)
(* of InboundStatusService.apply.                                          *)
THEOREM TypeCorrect == Spec => []TypeOK
BY TypeInvCorrect, PTL DEF TypeInv

(***************************************************************************)
(* The record of events                                                    *)
(***************************************************************************)

LEMMA InitRecord == Init => RecordInv
BY DEF Init, InitInbound, Resting, RecordInv, HoldsItsRow, OneMoverPerEvent, AppliedAtMostOnce,
       MovesAreRecorded, HandledIsStored, SkippedDidNotMoveIfAudited, SkippedDidNotMove,
       SaysWhyOrHandled, At, Moved

(* What a move adds to the moves.                                          *)
LEMMA AppendFacts ==
    ASSUME TypeInv, NEW n \in DOMAIN wire, moves' = Append(moves, n)
    PROVE  /\ DOMAIN moves' = DOMAIN moves \cup {Len(moves) + 1}
           /\ Len(moves) + 1 \notin DOMAIN moves
           /\ \A i \in DOMAIN moves: moves'[i] = moves[i]
           /\ moves'[Len(moves) + 1] = n
           /\ \A m: Moved(m)' <=> Moved(m) \/ m = n
<1>1. moves \in Seq(DOMAIN wire)
  BY DEF TypeInv, Numbered
<1>2. /\ DOMAIN moves' = DOMAIN moves \cup {Len(moves) + 1}
      /\ Len(moves) + 1 \notin DOMAIN moves
      /\ \A i \in DOMAIN moves: moves'[i] = moves[i]
      /\ moves'[Len(moves) + 1] = n
  BY <1>1
<1> QED
  BY <1>2 DEF Moved

(* A step after which d has no row to answer for, and that leaves the rows *)
(* and the moves alone, preserves what does not speak of d.                *)
LEMMA QuietStep ==
    ASSUME RecordInv, NEW d \in Deliveries,
           \A e \in Deliveries: e # d => handling'[e] = handling[e],
           ~At(d, {"stored", "moved"})', UNCHANGED rowVars,
           \A kind: Happened(kind) => Happened(kind)',
           HandledIsStored', SaysWhyOrHandled'
    PROVE  RecordInv'
<1> USE DEF rowVars
<1>1. \A e \in Deliveries: At(e, {"stored", "moved"})' =>
          /\ e # d /\ handling'[e] = handling[e]
          /\ At(e, {"stored", "moved"})
          /\ At(e, {"moved"})' <=> At(e, {"moved"})
  BY DEF At
<1>2. HoldsItsRow'
  BY <1>1 DEF RecordInv, HoldsItsRow, Moved
<1>3. OneMoverPerEvent'
  BY <1>1 DEF RecordInv, OneMoverPerEvent
<1>4. AppliedAtMostOnce' /\ MovesAreRecorded' /\ SkippedDidNotMoveIfAudited'
  BY DEF RecordInv, AppliedAtMostOnce, MovesAreRecorded, SkippedDidNotMoveIfAudited,
         SkippedDidNotMove
<1> QED
  BY <1>2, <1>3, <1>4 DEF RecordInv

(* The insert of an event: a new row, a copy, or any other error.          *)
LEMMA StoreEventRecord ==
    ASSUME TypeInv, RecordInv, NEW d \in Deliveries, StoreEvent(d)
    PROVE  RecordInv'
<1> DEFINE n == handling[d].event
<1>0. /\ handling \in [Deliveries -> Handling] /\ handling[d].step = "read"
      /\ \A kind: Happened(kind) => Happened(kind)'
      /\ UNCHANGED <<answered, moves>>
  BY MishapFacts DEF StoreEvent, TypeInv, TypeOK, wireVars, Happened
<1>1. ASSUME ~AlreadyStored(n), events' = WithEvent(n, handling[d].skip),
             handling' = [handling EXCEPT ![d].step =
                              IF handling[d].skip = "none" THEN "stored" ELSE "done"],
             UNCHANGED mishaps
      PROVE  RecordInv'
  <2>1. /\ DOMAIN events' = DOMAIN events \cup {n} /\ n \notin DOMAIN events
        /\ \A m \in DOMAIN events: events'[m] = events[m]
        /\ events'[n].applied = FALSE /\ events'[n].skipped = handling[d].skip
    <3> DEFINE row == [kind |-> wire[n].kind, applied |-> FALSE, skipped |-> handling[d].skip]
    <3>1. events' = Put(events, n, row)
      BY <1>1 DEF WithEvent
    <3>2. row.applied = FALSE /\ row.skipped = handling[d].skip
      OBVIOUS
    <3> HIDE DEF row
    <3>3. /\ DOMAIN events' = DOMAIN events \cup {n} /\ events'[n] = row
          /\ \A m \in DOMAIN events: m # n => events'[m] = events[m]
      BY <3>1 DEF Put
    <3> QED
      BY <1>1, <3>2, <3>3 DEF AlreadyStored
  <2>2. /\ \A e \in Deliveries: e # d => handling'[e] = handling[e]
        /\ handling'[d].event = n
        /\ handling'[d].step = IF handling[d].skip = "none" THEN "stored" ELSE "done"
    BY <1>0, <1>1 DEF Handling
  <2>3. ~Moved(n) /\ \A m: Moved(m)' <=> Moved(m)
    BY <1>0, <2>1 DEF RecordInv, MovesAreRecorded, Moved
  <2>4. HoldsItsRow'
    BY <2>1, <2>2, <2>3 DEF RecordInv, HoldsItsRow, At
  <2>5. OneMoverPerEvent'
    BY <2>1, <2>2 DEF RecordInv, OneMoverPerEvent, HoldsItsRow, At
  <2>6. AppliedAtMostOnce' /\ MovesAreRecorded'
    BY <1>0, <2>1 DEF RecordInv, AppliedAtMostOnce, MovesAreRecorded
  <2>7. HandledIsStored'
    BY <1>0, <1>1, <2>1, <2>2 DEF RecordInv, HandledIsStored, Happened, At
  <2>8. SkippedDidNotMoveIfAudited'
    BY <1>0, <1>1, <2>1, <2>3
       DEF RecordInv, SkippedDidNotMoveIfAudited, SkippedDidNotMove, Happened, Moved
  <2>9. SaysWhyOrHandled'
    BY <1>0, <1>1, <2>1, <2>2 DEF RecordInv, SaysWhyOrHandled, Happened, At
  <2> QED
    BY <2>4, <2>5, <2>6, <2>7, <2>8, <2>9 DEF RecordInv
<1>2. ASSUME AlreadyStored(n) \/ Happened("insert_error")', handling' = DuplicateAnswered(d),
             UNCHANGED events
      PROVE  RecordInv'
  <2>1. /\ \A e \in Deliveries: e # d => handling'[e] = handling[e]
        /\ handling'[d].event = n /\ handling'[d].step = "done"
    BY <1>0, <1>2 DEF Handling, DuplicateAnswered
  <2>2. HandledIsStored'
    BY <1>0, <1>2, <2>1 DEF RecordInv, HandledIsStored, AlreadyStored, At
  <2>3. SaysWhyOrHandled'
    BY <1>0, <1>2, <2>1 DEF RecordInv, SaysWhyOrHandled, At
  <2>4. ~At(d, {"stored", "moved"})'
    BY <2>1 DEF At
  <2> QED
    BY <1>0, <1>2, <2>1, <2>2, <2>3, <2>4, QuietStep DEF rowVars
<1>3. Mishap("insert_error") => Happened("insert_error")'
  BY MishapFacts DEF TypeInv
<1> QED
  BY <1>1, <1>2, <1>3 DEF StoreEvent

(* The transition: the application moves, or the row says why not.         *)
LEMMA ApplyTransitionRecord ==
    ASSUME TypeInv, RecordInv, NEW d \in Deliveries, ApplyTransition(d)
    PROVE  RecordInv'
<1> DEFINE n == handling[d].event
<1>0. /\ handling \in [Deliveries -> Handling] /\ handling[d].step = "stored"
      /\ \A kind: Happened(kind) => Happened(kind)'
      /\ UNCHANGED answered
      /\ n \in DOMAIN wire /\ n \in DOMAIN events /\ events[n].skipped = "none" /\ ~Moved(n)
      /\ \A e \in Deliveries: e # d /\ At(e, {"stored", "moved"}) => handling[e].event # n
  <2>1. handling \in [Deliveries -> Handling] /\ handling[d].step = "stored" /\ UNCHANGED answered
    BY DEF ApplyTransition, TypeInv, TypeOK, wireVars
  <2>2. \A kind: Happened(kind) => Happened(kind)'
    BY MishapFacts DEF ApplyTransition, TypeInv, Happened
  <2>3. At(d, {"stored", "moved"}) /\ ~At(d, {"moved"}) /\ n \in DOMAIN wire
    BY <2>1 DEF At, TypeInv, Numbered
  <2> QED
    BY <2>1, <2>2, <2>3 DEF RecordInv, HoldsItsRow, OneMoverPerEvent
<1>1. ASSUME MoveApplication(n), handling' = [handling EXCEPT ![d].step = "moved"],
             UNCHANGED <<events, mishaps>>
      PROVE  RecordInv'
  <2>1. /\ \A e \in Deliveries: e # d => handling'[e] = handling[e]
        /\ handling'[d].event = n /\ handling'[d].step = "moved"
    BY <1>0, <1>1 DEF Handling
  <2>2. moves' = Append(moves, n)
    BY <1>1 DEF MoveApplication
  <2>3. HoldsItsRow'
    BY <1>0, <1>1, <2>1, <2>2, AppendFacts DEF RecordInv, HoldsItsRow, At
  <2>4. OneMoverPerEvent'
    BY <1>0, <2>1 DEF RecordInv, OneMoverPerEvent, At
  <2>5. AppliedAtMostOnce'
    BY <1>0, <2>2, AppendFacts DEF RecordInv, AppliedAtMostOnce, Moved
  <2>6. MovesAreRecorded'
    BY <1>0, <1>1, <2>2, AppendFacts DEF RecordInv, MovesAreRecorded, Moved
  <2>7. HandledIsStored'
    BY <1>0, <1>1, <2>1 DEF RecordInv, HandledIsStored, At
  <2>8. SkippedDidNotMoveIfAudited'
    BY <1>0, <1>1, <2>2, AppendFacts
       DEF RecordInv, SkippedDidNotMoveIfAudited, SkippedDidNotMove
  <2>9. SaysWhyOrHandled'
    BY <1>0, <1>1, <2>1 DEF RecordInv, SaysWhyOrHandled, At
  <2> QED
    BY <2>3, <2>4, <2>5, <2>6, <2>7, <2>8, <2>9 DEF RecordInv
<1>2. ASSUME RefuseEvent(d), \/ moves' = Append(moves, n) /\ Happened("audit_error")'
                             \/ UNCHANGED moves
      PROVE  RecordInv'
  <2>1. /\ \A e \in Deliveries: e # d => handling'[e] = handling[e]
        /\ handling'[d].event = n /\ handling'[d].step = "done"
    BY <1>0, <1>2 DEF Handling, RefuseEvent
  <2>2. /\ DOMAIN events' = DOMAIN events
        /\ \A m \in DOMAIN events: m # n => events'[m] = events[m]
        /\ events'[n].applied = events[n].applied /\ events'[n].skipped = "refused"
    <3>1. events \in [DOMAIN events -> Row] /\ events[n] \in Row
      BY <1>0 DEF TypeInv, TypeOK
    <3> QED
      BY <1>0, <1>2, <3>1 DEF RefuseEvent, Row
  <2>3. /\ \A m: m # n => (Moved(m)' <=> Moved(m))
        /\ \A m: Moved(m) => Moved(m)'
    BY <1>0, <1>2, AppendFacts DEF Moved
  <2>4. HoldsItsRow'
    BY <1>0, <2>1, <2>2, <2>3 DEF RecordInv, HoldsItsRow, At
  <2>5. OneMoverPerEvent'
    BY <2>1 DEF RecordInv, OneMoverPerEvent, At
  <2>6. AppliedAtMostOnce'
    BY <1>0, <1>2, AppendFacts DEF RecordInv, AppliedAtMostOnce, Moved
  <2>7. MovesAreRecorded'
    BY <1>0, <1>2, <2>2, <2>3, AppendFacts DEF RecordInv, MovesAreRecorded, Moved
  <2>8. HandledIsStored'
    BY <1>0, <2>1, <2>2 DEF RecordInv, HandledIsStored, At
  <2>9. SkippedDidNotMoveIfAudited'
    BY <1>0, <1>2, <2>2 DEF RecordInv, SkippedDidNotMoveIfAudited, SkippedDidNotMove, Moved
  <2>10. SaysWhyOrHandled'
    BY <1>0, <2>1, <2>2 DEF RecordInv, SaysWhyOrHandled, At
  <2> QED
    BY <2>4, <2>5, <2>6, <2>7, <2>8, <2>9, <2>10 DEF RecordInv
<1>3. Mishap("audit_error") => Happened("audit_error")'
  BY MishapFacts DEF TypeInv
<1> QED
  BY <1>1, <1>2, <1>3 DEF ApplyTransition, MoveApplication

(* The row is marked as applied.                                           *)
LEMMA MarkAppliedRecord ==
    ASSUME TypeInv, RecordInv, NEW d \in Deliveries, MarkApplied(d)
    PROVE  RecordInv'
<1> DEFINE n == handling[d].event
<1>1. /\ handling[d].step = "moved"
      /\ \A e \in Deliveries: e # d => handling'[e] = handling[e]
      /\ handling'[d].event = n /\ handling'[d].step = "done"
      /\ UNCHANGED <<answered, moves, mishaps>>
  BY DEF MarkApplied, TypeInv, TypeOK, Handling, wireVars
<1>2. n \in DOMAIN events /\ events[n].skipped = "none" /\ Moved(n)
  BY <1>1 DEF RecordInv, HoldsItsRow, At
<1>3. /\ DOMAIN events' = DOMAIN events
      /\ \A m \in DOMAIN events: m # n => events'[m] = events[m]
      /\ events'[n].applied = TRUE /\ events'[n].skipped = "none"
  <2>1. events \in [DOMAIN events -> Row] /\ events[n] \in Row
    BY <1>2 DEF TypeInv, TypeOK
  <2> QED
    BY <1>2, <2>1 DEF MarkApplied, WithApplied, Row
<1>4. HoldsItsRow'
  BY <1>1, <1>3 DEF RecordInv, HoldsItsRow, At, Moved
<1>5. OneMoverPerEvent'
  BY <1>1 DEF RecordInv, OneMoverPerEvent, At
<1>6. AppliedAtMostOnce' /\ MovesAreRecorded'
  BY <1>1, <1>2, <1>3 DEF RecordInv, AppliedAtMostOnce, MovesAreRecorded, Moved
<1>7. HandledIsStored'
  BY <1>1, <1>2, <1>3 DEF RecordInv, HandledIsStored, Happened, At
<1>8. SkippedDidNotMoveIfAudited'
  BY <1>1, <1>2, <1>3 DEF RecordInv, SkippedDidNotMoveIfAudited, SkippedDidNotMove, Happened
<1>9. SaysWhyOrHandled'
  BY <1>1, <1>3 DEF RecordInv, SaysWhyOrHandled, Happened, At
<1> QED
  BY <1>4, <1>5, <1>6, <1>7, <1>8, <1>9 DEF RecordInv

LEMMA NextRecord == TypeInv /\ RecordInv /\ [Next]_vars => RecordInv'
<1> SUFFICES ASSUME TypeInv, RecordInv, [Next]_vars PROVE RecordInv'
  OBVIOUS
<1>1. ASSUME UNCHANGED <<answered, rowVars, handling, mishaps>> PROVE RecordInv'
  BY <1>1 DEF rowVars, RecordInv, HoldsItsRow, OneMoverPerEvent, AppliedAtMostOnce,
              MovesAreRecorded, HandledIsStored, SkippedDidNotMoveIfAudited,
              SkippedDidNotMove, SaysWhyOrHandled, Happened, At, Moved
<1>2. CASE University
  BY <1>1, <1>2 DEF University, Emit
<1>3. ASSUME NEW d \in Deliveries, NEW n \in DOMAIN wire, Read(d, n) PROVE RecordInv'
  <2>1. /\ \A e \in Deliveries: e # d => handling'[e] = handling[e]
        /\ handling[d].step = "idle" /\ handling'[d].step = "read"
        /\ UNCHANGED <<answered, rowVars, mishaps>>
    BY <1>3 DEF Read, TypeInv, TypeOK, wireVars
  <2>2. ~At(d, {"stored", "moved"})'
    BY <2>1 DEF At
  <2>3. HandledIsStored' /\ SaysWhyOrHandled'
    BY <2>1 DEF RecordInv, HandledIsStored, SaysWhyOrHandled, At, Happened, rowVars
  <2>4. \A kind: Happened(kind) => Happened(kind)'
    BY <2>1 DEF Happened
  <2> QED
    BY <2>1, <2>2, <2>3, <2>4, QuietStep
<1>4. ASSUME NEW d \in Deliveries, Answer(d) PROVE RecordInv'
  <2>1. /\ \A e \in Deliveries: e # d => handling'[e] = handling[e]
        /\ handling[d].step = "done" /\ handling'[d].step = "idle"
        /\ answered' = answered \cup {handling[d].event}
        /\ UNCHANGED <<rowVars, mishaps>>
    BY <1>4 DEF Answer, Resting, TypeInv, TypeOK
  <2>2. ~At(d, {"stored", "moved"})'
    BY <2>1 DEF At
  <2>3. HandledIsStored' /\ SaysWhyOrHandled'
    BY <2>1 DEF RecordInv, HandledIsStored, SaysWhyOrHandled, At, Happened, rowVars
  <2>4. \A kind: Happened(kind) => Happened(kind)'
    BY <2>1 DEF Happened
  <2> QED
    BY <2>1, <2>2, <2>3, <2>4, QuietStep
<1>5. ASSUME NEW d \in Deliveries, Die(d) PROVE RecordInv'
  <2>1. /\ \A e \in Deliveries: e # d => handling'[e] = handling[e]
        /\ handling'[d].step = "idle"
        /\ UNCHANGED <<answered, rowVars>>
    BY <1>5 DEF Die, Resting, TypeInv, TypeOK, wireVars
  <2>2. ~At(d, {"stored", "moved"})'
    BY <2>1 DEF At
  <2>3. Happened("crash")' /\ \A kind: Happened(kind) => Happened(kind)'
    BY <1>5, MishapFacts DEF Die, TypeInv
  <2>4. HandledIsStored' /\ SaysWhyOrHandled'
    BY <2>1, <2>3 DEF RecordInv, HandledIsStored, SaysWhyOrHandled, At, rowVars
  <2> QED
    BY <2>1, <2>2, <2>3, <2>4, QuietStep
<1>6. CASE UNCHANGED vars
  BY <1>1, <1>6 DEF vars, wireVars
<1> QED
  BY <1>2, <1>3, <1>4, <1>5, <1>6, StoreEventRecord, ApplyTransitionRecord, MarkAppliedRecord
     DEF Next, Process

LEMMA RecordCorrect == Spec => []RecordInv
BY TypeInvCorrect, InitRecord, NextRecord, PTL DEF Spec

(* Whatever moved the application is on record, whatever is answered is    *)
(* stored unless an insert failed, and what says it was skipped did not    *)
(* move anything unless an audit write failed: with any number of          *)
(* deliveries at once, copies, crashes and any order (apply).              *)
THEOREM EventsOnRecordCorrect == Spec => []EventsOnRecord
<1>1. RecordInv => EventsOnRecord
  BY DEF RecordInv, EventsOnRecord, HandledIsStored, AnsweredIsStoredIfInserted, AnsweredIsStored
<1> QED
  BY <1>1, RecordCorrect, PTL

(* No event moves the application twice, however many copies of it arrive  *)
(* at once (the unique index on the partner's event id).                   *)
THEOREM AppliedAtMostOnceCorrect == Spec => []AppliedAtMostOnce
<1>1. RecordInv => AppliedAtMostOnce
  BY DEF RecordInv
<1> QED
  BY <1>1, RecordCorrect, PTL

(* A stored event that did not apply says why: as long as no delivery dies *)
(* half way, and even when the partner does not keep to any order.         *)
THEOREM UnappliedSaysWhyCorrect == Spec => []UnappliedSaysWhyUnlessCrashed
<1>1. RecordInv => UnappliedSaysWhyUnlessCrashed
  BY DEF UnappliedSaysWhyUnlessCrashed, RecordInv, SaysWhyOrHandled, UnappliedSaysWhy, Quiet, At
<1> QED
  BY <1>1, RecordCorrect, PTL

(***************************************************************************)
(* An ordered partner                                                      *)
(***************************************************************************)

(* Who the partner of an orderly delivery is.                              *)
LEMMA OneDelivery ==
    ASSUME Orderly, NEW d \in Deliveries
    PROVE  \A e \in Deliveries: e = d
BY DEF Orderly

LEMMA InitOrder == Init => OrderInv
<1> SUFFICES ASSUME Init PROVE OrderInv
  OBVIOUS
<1> USE DEF Init, InitInbound
<1>1. DOMAIN wire = {} /\ Last = 0 /\ 0 \in 0 .. Last
  BY FS_EmptySet DEF Last
<1>2. ReportsInOrder
  BY <1>1 DEF ReportsInOrder, Reported
<1>3. \A d \in Deliveries: Settling(d, 0)
  BY DEF Settling, SettledBefore, Reported, At, Resting, NoRef
<1> QED
  BY <1>1, <1>2, <1>3 DEF OrderInv

(* The university's next report is a legal move from where it takes the    *)
(* application to be, and only its first can be a receipt.                 *)
LEMMA UniversityOrder == TypeInv /\ OrderInv /\ University => OrderInv'
<1> SUFFICES ASSUME TypeInv, OrderInv, NEW kind \in Kinds, NEW ref \in issued,
                    NEW modexRef \in DOMAIN attempts \cup {NoRef},
                    kind = "received" <=> modexRef # NoRef, Emit(kind, ref, modexRef)
             PROVE  OrderInv'
  BY DEF University
<1>0. PICK last \in Nat: last = Last
  BY DEF TypeInv, Numbered
<1>1. /\ Last = last /\ Last' = last + 1
      /\ DOMAIN wire = 1 .. last /\ DOMAIN wire' = 1 .. last + 1
      /\ \A n \in DOMAIN wire: wire'[n] = wire[n]
      /\ wire'[last + 1] = [kind |-> kind, ref |-> ref, modexRef |-> modexRef]
  <2>1. Last \in Nat /\ DOMAIN wire = 1 .. Last
    BY DEF TypeInv, Numbered
  <2>2. /\ Last' = Last + 1 /\ DOMAIN wire' = DOMAIN wire \cup {Last + 1}
        /\ \A n \in DOMAIN wire: wire'[n] = wire[n]
        /\ wire'[Last + 1] = [kind |-> kind, ref |-> ref, modexRef |-> modexRef]
    BY EmitFacts
  <2> QED
    BY <1>0, <2>1, <2>2
<1>2. ref = 1 /\ modexRef \in {1, NoRef}
  BY DEF OrderInv
<1>3. /\ \A n \in 0 .. last: Reported(n)' = Reported(n)
      /\ Reported(last + 1)' = StateForInbound(kind)
  <2>1. \A n \in 0 .. last: n = 0 \/ n \in DOMAIN wire
    BY <1>1
  <2>2. last + 1 # 0
    BY <1>1
  <2>3. wire'[last + 1].kind = kind
    BY <1>1
  <2> QED
    BY <1>1, <2>1, <2>2, <2>3 DEF Reported
<1>4. ASSUME Orderly PROVE ReportsInOrder'
  <2>1. view = Reported(last) /\ view' = Reported(last + 1)'
    BY <1>0, <1>3, <1>4 DEF OrderInv, ReportsInOrder, Emit
  <2>2. CanTransition(Reported(last)', Reported(last + 1)')
    <3>1. CanTransition(view, StateForInbound(kind))
      BY DEF Emit
    <3>2. Reported(last)' = view /\ Reported(last + 1)' = StateForInbound(kind)
      BY <1>0, <1>3, <2>1
    <3> QED
      BY <3>1, <3>2
  <2>3. last = 0 => kind = "received"
    BY <1>3, <2>2, KindAssumption
       DEF Reported, CanTransition, Successors, StateForInbound, InboundKind
  <2>4. ASSUME NEW n \in DOMAIN wire
        PROVE  /\ wire'[n].kind \in Kinds
               /\ CanTransition(Reported(n - 1)', Reported(n)')
               /\ wire'[n].ref = 1
               /\ n = 1 => wire'[n].modexRef = 1
    <3>1. n \in 0 .. last /\ n - 1 \in 0 .. last
      BY <1>1, <2>4
    <3> QED
      BY <1>1, <1>3, <1>4, <3>1 DEF OrderInv, ReportsInOrder
  <2>5. /\ wire'[last + 1].kind \in Kinds /\ wire'[last + 1].ref = 1
        /\ last + 1 = 1 => wire'[last + 1].modexRef = 1
    BY <1>1, <1>2, <2>3
  <2>6. ASSUME NEW n \in DOMAIN wire'
        PROVE  /\ wire'[n].kind \in Kinds
               /\ CanTransition(Reported(n - 1)', Reported(n)')
               /\ wire'[n].ref = 1
               /\ n = 1 => wire'[n].modexRef = 1
    <3>1. CASE n \in DOMAIN wire
      BY <2>4, <3>1
    <3>2. CASE n = last + 1
      <4>1. n - 1 = last
        BY <3>2
      <4> QED
        BY <2>2, <2>5, <3>2, <4>1
    <3> QED
      BY <1>1, <3>1, <3>2
  <2> QED
    BY <1>1, <2>1, <2>6 DEF ReportsInOrder
<1>5. ASSUME Orderly, Lossless'
      PROVE  \E n \in 0 .. Last': \A d \in Deliveries: Settling(d, n)'
  <2>1. Lossless /\ UNCHANGED <<state, externalRef, answered, events, handling>>
    BY <1>5 DEF Lossless, Happened, Emit, appVars, rowVars
  <2>2. PICK n \in 0 .. last: \A d \in Deliveries: Settling(d, n)
    BY <1>0, <1>5, <2>1 DEF OrderInv
  <2>3. ASSUME NEW d \in Deliveries PROVE Settling(d, n)'
    <3>1. handling[d].event = n + 1 /\ At(d, {"stored", "moved", "done"}) => n + 1 \in 0 .. last
      BY <1>1 DEF At, TypeInv, Numbered
    <3>2. Settling(d, n)
      BY <2>2
    <3> QED
      BY <1>3, <2>1, <3>1, <3>2 DEF Settling, SettledBefore, At
  <2> QED
    BY <1>1, <2>3
<1> QED
  BY <1>4, <1>5 DEF OrderInv, Orderly, Emit

(* Where the next event leaves the application the university may take it. *)
LEMMA NextIsAllowed ==
    ASSUME TypeInv, Orderly, ReportsInOrder, NEW n \in Nat, n + 1 \in DOMAIN wire
    PROVE  /\ Reported(n + 1) = StateForInbound(wire[n + 1].kind)
           /\ Allowed(Reported(n), Reported(n + 1), "university")
           /\ n = 0 <=> Reported(n + 1) = "submitted"
<1>1. n + 1 # 0 /\ n + 1 - 1 = n
  OBVIOUS
<1>2. Reported(n + 1) = StateForInbound(wire[n + 1].kind)
  BY <1>1 DEF Reported
<1>3. wire[n + 1].kind \in InboundKind \ {"withdrawn"}
  BY KindAssumption DEF ReportsInOrder, Orderly
<1>4. CanTransition(Reported(n), Reported(n + 1))
  BY <1>1 DEF ReportsInOrder
<1>5. "university" \in Authority(Reported(n + 1))
  BY <1>2, <1>3 DEF InboundKind, StateForInbound, Authority
<1>6. Reported(n) # Reported(n + 1)
  BY <1>4 DEF CanTransition, Successors
<1>7. Reported(n + 1) = "submitted" => Reported(n) = "submitted_pending"
  BY <1>4 DEF CanTransition, Successors
<1>8. n # 0 => Reported(n) # "submitted_pending"
  <2>1. ASSUME n # 0 PROVE Reported(n) = StateForInbound(wire[n].kind) /\ wire[n].kind \in InboundKind
    <3>1. n \in DOMAIN wire
      BY <2>1 DEF TypeInv, Numbered
    <3> QED
      BY <2>1, <3>1, KindAssumption DEF Reported, ReportsInOrder
  <2> QED
    BY <2>1 DEF StateForInbound, InboundKind
<1>9. n = 0 => Reported(n + 1) = "submitted"
  <2>1. n = 0 => Reported(n + 1) \in {"submitted", "failed"}
    BY <1>4 DEF Reported, CanTransition, Successors
  <2>2. Reported(n + 1) # "failed"
    BY <1>2, <1>3 DEF InboundKind, StateForInbound
  <2> QED
    BY <2>1, <2>2
<1> QED
  BY <1>2, <1>4, <1>5, <1>6, <1>7, <1>8, <1>9 DEF Allowed

(* The one delivery settles the events in the order they were sent.        *)
LEMMA DeliverySettles ==
    ASSUME TypeInv, Orderly, ReportsInOrder, OrderInv, Lossless',
           NEW d \in Deliveries, NEW n \in 0 .. Last, Settling(d, n),
           \/ \E m \in DOMAIN wire: Read(d, m)
           \/ Process(d) \/ Die(d)
    PROVE  \E next \in 0 .. Last: Settling(d, next)'
<1> DEFINE m == handling[d].event
<1> USE DEF appVars, wireVars, rowVars
<1>0. /\ n \in Nat /\ handling \in [Deliveries -> Handling] /\ UNCHANGED wire
      /\ \A k \in DOMAIN wire: k \in Nat /\ 1 <= k /\ k <= Last
      /\ Last \in Nat
      /\ \A k \in Nat: Reported(k)' = Reported(k)
  <2>1. UNCHANGED wire
    BY DEF Read, Process, StoreEvent, ApplyTransition, MarkApplied, Answer, Die
  <2>2. Last \in Nat /\ DOMAIN wire = 1 .. Last /\ handling \in [Deliveries -> Handling]
    BY DEF TypeInv, TypeOK, Numbered
  <2> QED
    BY <2>1, <2>2 DEF Reported
<1>1. ASSUME NEW k \in DOMAIN wire, Read(d, k) PROVE Settling(d, n)'
  <2>1. /\ handling[d].step = "idle" /\ handling'[d].step = "read" /\ handling'[d].event = k
        /\ handling'[d].skip = SkipReason(wire[k])
        /\ UNCHANGED <<state, externalRef, answered, events>>
    BY <1>0, <1>1 DEF Read
  <2>2. SettledBefore(n)
    BY <2>1 DEF Settling, At
  <2>3. k \in 1 .. n \/ k = n + 1
    <3>1. \A j \in DOMAIN wire: j < k => j \in 1 .. n
      BY <1>1, <2>2 DEF Read, Deliverable, Orderly, SettledBefore
    <3>2. n + 1 < k => n + 1 \in DOMAIN wire
      BY <1>0 DEF TypeInv, Numbered
    <3> QED
      BY <1>0, <3>1, <3>2
  <2>4. ASSUME k = n + 1 PROVE SkipReason(wire[k]) = "none"
    <3>1. /\ Allowed(state, StateForInbound(wire[k].kind), "university")
          /\ wire[k].ref = 1
          /\ k = 1 => wire[k].modexRef = 1
      BY <1>0, <2>2, <2>4, NextIsAllowed DEF SettledBefore, ReportsInOrder
    <3>2. Located(wire[k])
      <4>1. 1 \in DOMAIN attempts /\ attempts[1].state = "awaiting_handoff"
        BY DEF OrderInv
      <4> QED
        BY <1>0, <2>2, <2>4, <3>1, <4>1 DEF SettledBefore, Located
    <3> QED
      BY <3>1, <3>2 DEF SkipReason, Allowed
  <2> QED
    BY <1>0, <2>1, <2>2, <2>3, <2>4 DEF Settling, SettledBefore, At
<1>2. CASE StoreEvent(d)
  <2>1. /\ handling[d].step = "read" /\ handling'[d].event = m
        /\ SettledBefore(n) /\ (m \in 1 .. n \/ (m = n + 1 /\ handling[d].skip = "none"))
        /\ UNCHANGED <<state, externalRef, answered>>
    BY <1>0, <1>2 DEF StoreEvent, DuplicateAnswered, Handling, Settling, At
  <2>2. ~Mishap("insert_error")
    BY MishapFacts DEF Lossless, TypeInv
  <2>3. CASE ~AlreadyStored(m) /\ events' = WithEvent(m, handling[d].skip)
             /\ handling' = [handling EXCEPT ![d].step =
                                 IF handling[d].skip = "none" THEN "stored" ELSE "done"]
    <3>1. m = n + 1 /\ handling[d].skip = "none"
      BY <2>1, <2>3 DEF AlreadyStored, SettledBefore
    <3>2. DOMAIN events' = 1 .. n + 1
      <4>1. DOMAIN events' = DOMAIN events \cup {m}
        BY <2>3 DEF WithEvent, Put
      <4> QED
        BY <1>0, <2>1, <3>1, <4>1 DEF SettledBefore
    <3>3. handling'[d].step = "stored"
      BY <1>0, <2>3, <3>1
    <3> QED
      BY <1>0, <2>1, <3>1, <3>2, <3>3 DEF Settling, SettledBefore, At
  <2>4. CASE AlreadyStored(m) /\ handling' = DuplicateAnswered(d) /\ UNCHANGED events
    <3>1. m \in 1 .. n
      BY <1>0, <2>1, <2>4 DEF AlreadyStored, SettledBefore
    <3>2. handling'[d].step = "done"
      BY <1>0, <2>4 DEF DuplicateAnswered
    <3>3. Settling(d, n)'
      BY <1>0, <2>1, <2>4, <3>1, <3>2 DEF Settling, SettledBefore, At
    <3> QED
      BY <3>3
  <2> QED
    BY <1>2, <2>2, <2>3, <2>4 DEF StoreEvent
<1>3. CASE ApplyTransition(d)
  <2>1. /\ handling[d].step = "stored" /\ m = n + 1 /\ m \in DOMAIN wire
        /\ answered = 1 .. n /\ DOMAIN events = 1 .. n + 1
        /\ state = Reported(n) /\ externalRef = IF n = 0 THEN NoRef ELSE 1
        /\ UNCHANGED answered
    BY <1>3 DEF ApplyTransition, Settling, At, TypeInv, Numbered
  <2>2. /\ Allowed(state, StateForInbound(wire[m].kind), "university")
        /\ StateForInbound(wire[m].kind) = Reported(n + 1)
        /\ n = 0 <=> Reported(n + 1) = "submitted"
        /\ wire[m].ref = 1
    BY <1>0, <2>1, NextIsAllowed DEF ReportsInOrder
  <2>3. /\ state' = Reported(n + 1) /\ externalRef' = 1
        /\ handling'[d].step \in {"moved", "done"} /\ handling'[d].event = m
        /\ DOMAIN events' = 1 .. n + 1
    BY <1>0, <1>3, <2>1, <2>2 DEF ApplyTransition, MoveApplication, RefuseEvent, Handling
  <2> QED
    BY <1>0, <2>1, <2>3 DEF Settling, At
<1>4. CASE MarkApplied(d)
  <2>1. /\ handling[d].step = "moved" /\ m = n + 1
        /\ answered = 1 .. n /\ DOMAIN events = 1 .. n + 1
        /\ state = Reported(n + 1) /\ externalRef = IF n + 1 = 0 THEN NoRef ELSE 1
    BY <1>4 DEF MarkApplied, Settling, At
  <2>2. /\ handling'[d].step = "done" /\ handling'[d].event = m
        /\ DOMAIN events' = DOMAIN events
        /\ UNCHANGED <<answered, state, externalRef>>
    BY <1>0, <1>4 DEF MarkApplied, WithApplied, Handling
  <2> QED
    BY <1>0, <2>1, <2>2 DEF Settling, At
<1>5. CASE Answer(d)
  <2>1. /\ handling[d].step = "done" /\ handling'[d].step = "idle" /\ m \in DOMAIN wire
        /\ answered' = answered \cup {m} /\ UNCHANGED <<events, state, externalRef>>
    BY <1>0, <1>5 DEF Answer, Resting, TypeInv, Numbered
  <2>2. CASE SettledBefore(n) /\ m \in 1 .. n
    BY <1>0, <2>1, <2>2 DEF Settling, SettledBefore, At
  <2>3. CASE /\ m = n + 1 /\ answered = 1 .. n /\ DOMAIN events = 1 .. n + 1
             /\ state = Reported(n + 1) /\ externalRef = IF n + 1 = 0 THEN NoRef ELSE 1
    <3>1. answered' = 1 .. n + 1 /\ n + 1 \in 0 .. Last
      BY <1>0, <2>1, <2>3
    <3>2. Settling(d, n + 1)'
      BY <1>0, <2>1, <2>3, <3>1 DEF Settling, SettledBefore, At
    <3> QED
      BY <3>1, <3>2
  <2> QED
    BY <2>1, <2>2, <2>3 DEF Settling, At
<1>6. CASE Die(d)
  BY <1>6, MishapFacts DEF Die, Lossless, TypeInv
<1> QED
  BY <1>1, <1>2, <1>3, <1>4, <1>5, <1>6 DEF Process

LEMMA NextOrder == TypeInv /\ OrderInv /\ [Next]_vars => OrderInv'
<1> SUFFICES ASSUME TypeInv, OrderInv, [Next]_vars PROVE OrderInv'
  OBVIOUS
<1>1. ASSUME NEW d \in Deliveries,
             \/ \E n \in DOMAIN wire: Read(d, n)
             \/ Process(d) \/ Die(d)
      PROVE  OrderInv'
  <2>1. UNCHANGED wireVars \/ Answer(d)
    BY <1>1 DEF Read, Process, StoreEvent, ApplyTransition, MarkApplied, Die
  <2>2. UNCHANGED <<attempts, issued, wire, view>>
    BY <1>1, <2>1
       DEF wireVars, Read, Process, StoreEvent, ApplyTransition, MarkApplied, Answer, Die
  <2>3. UNCHANGED Last /\ (Orderly => ReportsInOrder')
    BY <2>2 DEF OrderInv, ReportsInOrder, Reported, Last
  <2>4. Lossless' => Lossless
    <3>1. UNCHANGED mishaps \/ \E kind: Mishap(kind)
      BY <1>1 DEF Read, Process, StoreEvent, ApplyTransition, MarkApplied, Answer, Die
    <3> QED
      BY <3>1, MishapFacts DEF Lossless, Happened, TypeInv
  <2>5. ASSUME Orderly, Lossless'
        PROVE  \E n \in 0 .. Last: \A e \in Deliveries: Settling(e, n)'
    <3>1. PICK n \in 0 .. Last: Settling(d, n)
      BY <2>4, <2>5 DEF OrderInv
    <3>2. PICK next \in 0 .. Last: Settling(d, next)'
      BY <1>1, <2>5, <3>1, DeliverySettles DEF OrderInv
    <3>3. \A e \in Deliveries: e = d
      BY <2>5 DEF Orderly
    <3> QED
      BY <3>2, <3>3
  <2> QED
    BY <2>2, <2>3, <2>5 DEF OrderInv, Orderly
<1>2. CASE UNCHANGED vars
  BY <1>2 DEF vars, appVars, wireVars, rowVars, OrderInv, Orderly, ReportsInOrder, Reported, Last,
              Lossless, Happened, Settling, SettledBefore, At
<1> QED
  BY <1>1, <1>2, UniversityOrder DEF Next

LEMMA OrderCorrect == Spec => []OrderInv
BY TypeInvCorrect, InitOrder, NextOrder, PTL DEF Spec

(* The application follows a university that reports in order to one       *)
(* process at a time, and reports no withdrawal: once it has an answer for *)
(* all it sent, the application is where it says, unless a crash or a      *)
(* failing insert lost an event (InboundStatusService.apply).              *)
THEOREM StateFollowsCorrect ==
    Spec => [](Orderly /\ Lossless => StateFollowsUniversity)
<1>1. TypeInv /\ OrderInv => (Orderly /\ Lossless => StateFollowsUniversity)
  <2> SUFFICES ASSUME TypeInv, OrderInv, Orderly, Lossless, AllAnswered
               PROVE  state = view
    BY DEF StateFollowsUniversity
  <2>1. PICK d \in Deliveries: Deliveries = {d}
    BY DEF Orderly
  <2>2. PICK n \in 0 .. Last: Settling(d, n)
    BY DEF OrderInv
  <2>3. SettledBefore(n)
    BY <2>2 DEF AllAnswered, Quiet, Settling, At
  <2>4. Last \in Nat /\ 1 .. n = 1 .. Last
    BY <2>3 DEF AllAnswered, SettledBefore, TypeInv, Numbered
  <2>5. n = Last
    BY <2>4
  <2> QED
    BY <2>3, <2>5 DEF OrderInv, ReportsInOrder, SettledBefore
<1> QED
  BY <1>1, TypeInvCorrect, OrderCorrect, PTL
=============================================================================
