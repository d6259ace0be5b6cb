---------------------------- MODULE InboundStatus ----------------------------
(***************************************************************************)
(* Status events from the university: InboundStatusService.apply and       *)
(* locate, reached by a signed webhook.  The partner delivers at least     *)
(* once: it sends an event again until it is answered, may send a copy of  *)
(* one already answered, and need not keep to the order of occurrence.     *)
(* Each database write of a delivery is a step of its own, so two          *)
(* deliveries interleave and a crash may fall between any two writes.      *)
(***************************************************************************)
EXTENDS Naturals, FiniteSets, Sequences, ApplicationStates

CONSTANTS
    Deliveries,   \* webhook requests that can be in progress at once
    Kinds,        \* what this university reports
    Ordered,      \* whether it waits for an answer before the next event
    FaultKinds,   \* which faults happen: a crash, a failing insert or audit write
    MaxEvents,    \* bound: events the university sends
    MaxMishaps    \* bound: faults of each kind

ASSUME KindAssumption    == Kinds \subseteq InboundKind
ASSUME OrderedAssumption == Ordered \in BOOLEAN
ASSUME FaultAssumption   == FaultKinds \subseteq {"crash", "insert_error", "audit_error"}
ASSUME BoundAssumption   == MaxEvents \in Nat /\ MaxMishaps \in Nat

VARIABLES
    state,        \* application.state
    externalRef,  \* application.externalRef
    attempts,     \* attemptNo -> attempt row; its number stands for the handoffRef
    tasks,        \* owners that have an open task on the application
    issued,       \* references the university has issued for it
    wire,         \* event number -> event the university sent, in order of occurrence
    view,         \* where the university takes the application to be
    answered,     \* events the university got a 2xx for
    events,       \* providerEventId -> stored row of application_status_events
    moves,        \* the events that moved the application, in order (history)
    handling,     \* the deliveries in progress
    mishaps       \* how often each kind of fault happened

wireVars == <<issued, wire, view, answered>>
rowVars  == <<events, moves>>
appVars  == <<state, externalRef, tasks>>
vars == <<appVars, attempts, wireVars, rowVars, handling, mishaps>>

NoRef == 0

(* A webhook names its application by the university's reference, and a    *)
(* first receipt also quotes the token of the handoff or the batch.        *)
Event == [kind: InboundKind, ref: Nat, modexRef: Nat]

Reason == {"none", "unknown_reference", "same_state", "illegal", "refused"}
Row == [kind: InboundKind, applied: BOOLEAN, skipped: Reason]

Handling == [step: {"idle", "read", "stored", "moved", "done"},
             event: Nat, skip: Reason]
Resting == [step |-> "idle", event |-> 0, skip |-> "none"]

TypeOK ==
    /\ state \in ApplicationState
    /\ externalRef \in Nat
    /\ tasks \subseteq {"student", "modex_ops"}
    /\ issued \subseteq Nat \ {NoRef}
    /\ DOMAIN wire = 1 .. Cardinality(DOMAIN wire)
    /\ wire \in [DOMAIN wire -> Event]
    /\ view \in ApplicationState
    /\ answered \subseteq DOMAIN wire
    /\ events \in [DOMAIN events -> Row]
    /\ DOMAIN events \subseteq DOMAIN wire
    /\ \A i \in DOMAIN moves: moves[i] \in DOMAIN wire
    /\ handling \in [Deliveries -> Handling]
    /\ mishaps \in [FaultKinds -> 0 .. MaxMishaps]

InitInbound ==
    /\ wire = [n \in {} |-> 0]
    /\ view = "submitted_pending"
    /\ answered = {}
    /\ events = [n \in {} |-> 0]
    /\ moves = <<>>
    /\ handling = [d \in Deliveries |-> Resting]
    /\ mishaps = [kind \in FaultKinds |-> 0]

(* An application that went out by a handoff, whose student has finished   *)
(* the university's own form: it waits for its first event.                *)
Init ==
    /\ state = "submitted_pending"
    /\ externalRef = NoRef
    /\ tasks = {}
    /\ attempts = [n \in {1} |-> [sub |-> 1, state |-> "awaiting_handoff", ref |-> NoRef]]
    /\ issued = {1}
    /\ InitInbound

Put(f, x, v) == [y \in DOMAIN f \cup {x} |-> IF y = x THEN v ELSE f[y]]
Last == Cardinality(DOMAIN wire)
Mishap(kind) ==
    /\ kind \in FaultKinds
    /\ mishaps[kind] < MaxMishaps
    /\ mishaps' = [mishaps EXCEPT ![kind] = @ + 1]
Happened(kind) == kind \in FaultKinds /\ mishaps[kind] > 0

(***************************************************************************)
(* The university (external)                                               *)
(***************************************************************************)

(* It reports the steps of its own process, each a legal move from where   *)
(* it takes the application to be.                                         *)
Emit(kind, ref, modexRef) ==
    /\ Last < MaxEvents
    /\ ref \in issued
    /\ CanTransition(view, StateForInbound(kind))
    /\ wire' = Put(wire, Last + 1, [kind |-> kind, ref |-> ref, modexRef |-> modexRef])
    /\ view' = StateForInbound(kind)
    /\ UNCHANGED <<appVars, attempts, issued, answered, rowVars, handling, mishaps>>

(* An ordered partner sends an event once all earlier ones are answered.   *)
Deliverable(n) ==
    Ordered => \A m \in DOMAIN wire: m < n => m \in answered

(***************************************************************************)
(* InboundStatusService.apply                                              *)
(***************************************************************************)

(* locate: by the reference on the application, or else by the token of an *)
(* attempt that waits for the partner.                                     *)
LocatedByFirstAttempt(event) ==
    \/ event.ref = externalRef
    \/ event.modexRef = 1 /\ attempts[1].state \in {"awaiting_handoff", "queued"}
Located(event) ==
    \/ event.ref = externalRef
    \/ /\ event.modexRef \in DOMAIN attempts
       /\ attempts[event.modexRef].state \in {"awaiting_handoff", "queued"}

(* Decided on the state as read, before anything is written.               *)
SkipReasonAsKind(event) ==
    IF Located(event) /\ CanTransition(state, StateForInbound(event.kind))
    THEN "none" ELSE event.kind
SkipReason(event) ==
    LET target == StateForInbound(event.kind)
    IN  CASE ~Located(event)                -> "unknown_reference"
          [] state = target                 -> "same_state"
          [] ~CanTransition(state, target)  -> "illegal"
          [] OTHER                          -> "none"

Read(d, n) ==
    /\ handling[d].step = "idle"
    /\ Deliverable(n)
    /\ handling' = [handling EXCEPT ![d] =
           [step |-> "read", event |-> n, skip |-> SkipReason(wire[n])]]
    /\ UNCHANGED <<appVars, attempts, wireVars, rowVars, mishaps>>

(* (connectorId, providerEventId) is unique.                               *)
AlreadyStoredNever(n) == FALSE
AlreadyStored(n) == n \in DOMAIN events

(* Whatever makes the insert fail is answered as a duplicate event.        *)
DuplicateGoesOn(d) == [handling EXCEPT ![d].step = "stored"]
DuplicateRefused(d) == [handling EXCEPT ![d] = Resting]
DuplicateAnswered(d) == [handling EXCEPT ![d].step = "done"]

(* Every valid event is written, the ones that change nothing included.    *)
WithKnownEvent(n, skip) ==
    IF skip = "unknown_reference" THEN events
    ELSE Put(events, n, [kind |-> wire[n].kind, applied |-> FALSE, skipped |-> skip])
WithEvent(n, skip) ==
    Put(events, n, [kind |-> wire[n].kind, applied |-> FALSE, skipped |-> skip])

StoreEvent(d) ==
    LET n == handling[d].event
        skip == handling[d].skip
    IN  /\ handling[d].step = "read"
        /\ \/ /\ ~AlreadyStored(n)
              /\ events' = WithEvent(n, skip)
              /\ handling' = [handling EXCEPT ![d].step =
                                  IF skip = "none" THEN "stored" ELSE "done"]
              /\ UNCHANGED mishaps
           \/ /\ AlreadyStored(n)
              /\ handling' = DuplicateAnswered(d)
              /\ UNCHANGED <<events, mishaps>>
           \/ /\ Mishap("insert_error")
              /\ handling' = DuplicateAnswered(d)
              /\ UNCHANGED events
        /\ UNCHANGED <<appVars, attempts, wireVars, moves>>

(* The transition is asked for on the university's authority; a refusal is *)
(* written on the row and is no error to the partner.  The audit write that*)
(* follows the move is in the same try block: when it fails, the row says  *)
(* the event was refused although the application moved.                   *)
MoveApplication(n) ==
    LET target == StateForInbound(wire[n].kind)
    IN  /\ Allowed(state, target, "university")
        /\ state' = target
        /\ externalRef' = IF target = "submitted" THEN wire[n].ref ELSE externalRef
        /\ moves' = Append(moves, n)

RefuseEvent(d) ==
    /\ events' = [events EXCEPT ![handling[d].event].skipped = "refused"]
    /\ handling' = [handling EXCEPT ![d].step = "done"]

ApplyTransition(d) ==
    LET n == handling[d].event
    IN  /\ handling[d].step = "stored"
        /\ \/ /\ MoveApplication(n)
              /\ handling' = [handling EXCEPT ![d].step = "moved"]
              /\ UNCHANGED <<events, mishaps>>
           \/ /\ Mishap("audit_error")
              /\ MoveApplication(n)
              /\ RefuseEvent(d)
           \/ /\ ~Allowed(state, StateForInbound(wire[n].kind), "university")
              /\ RefuseEvent(d)
              /\ UNCHANGED <<state, externalRef, moves, mishaps>>
        /\ UNCHANGED <<tasks, attempts, wireVars>>

(* The row is marked applied, and a request for more opens a student task. *)
WithoutApplied(n) == events
WithApplied(n) == [events EXCEPT ![n].applied = TRUE]

MarkApplied(d) ==
    LET n == handling[d].event
    IN  /\ handling[d].step = "moved"
        /\ events' = WithApplied(n)
        /\ tasks' = IF wire[n].kind = "more_info_required"
                    THEN tasks \cup {"student"} ELSE tasks
        /\ handling' = [handling EXCEPT ![d].step = "done"]
        /\ UNCHANGED <<state, externalRef, attempts, wireVars, moves, mishaps>>

Answer(d) ==
    /\ handling[d].step = "done"
    /\ answered' = answered \cup {handling[d].event}
    /\ handling' = [handling EXCEPT ![d] = Resting]
    /\ UNCHANGED <<appVars, attempts, issued, wire, view, rowVars, mishaps>>

(* The process dies, or an audit write throws, between two steps: the      *)
(* partner gets no answer.                                                 *)
Die(d) ==
    /\ handling[d].step # "idle"
    /\ Mishap("crash")
    /\ handling' = [handling EXCEPT ![d] = Resting]
    /\ UNCHANGED <<appVars, attempts, wireVars, rowVars>>

(* A receipt quotes the token of the attempt that brought the application. *)
University ==
    \E kind \in Kinds, ref \in issued, modexRef \in DOMAIN attempts \cup {NoRef}:
        /\ kind = "received" <=> modexRef # NoRef
        /\ modexRef # NoRef => attempts[modexRef].sub = ref
        /\ Emit(kind, ref, modexRef)

Process(d) ==
    StoreEvent(d) \/ ApplyTransition(d) \/ MarkApplied(d) \/ Answer(d)

Next ==
    \/ University
    \/ \E d \in Deliveries, n \in DOMAIN wire: Read(d, n)
    \/ \E d \in Deliveries: Process(d) \/ Die(d)

Spec == Init /\ [][Next]_vars

(* A request that has started keeps running, and the partner goes on       *)
(* sending what was not answered.                                          *)
Fairness ==
    /\ \A d \in Deliveries: WF_vars(Process(d))
    /\ \A n \in 1 .. MaxEvents:
           SF_vars(\E d \in Deliveries: n \in DOMAIN wire \ answered /\ Read(d, n))

FairSpec == Spec /\ Fairness

(***************************************************************************)
(* Properties                                                              *)
(***************************************************************************)

(* Whatever moved the application is on record, and no event marked as     *)
(* applied failed to move it.                                              *)
MovesAreRecorded ==
    /\ \A i \in DOMAIN moves: moves[i] \in DOMAIN events
    /\ \A n \in DOMAIN events: events[n].applied => \E i \in DOMAIN moves: moves[i] = n

(* Every valid event is written: the partner has a 2xx only for an event   *)
(* that is stored (the storage rule of InboundStatusService).              *)
AnsweredIsStored == answered \subseteq DOMAIN events

(* What the code keeps of that: crashes and copies lose no event, only an  *)
(* insert that fails for another reason than a duplicate does.             *)
AnsweredIsStoredIfInserted == ~Happened("insert_error") => AnsweredIsStored

Quiet == \A d \in Deliveries: handling[d].step = "idle"
AllAnswered == Quiet /\ answered = DOMAIN wire

(* Once the university has an answer for all it sent, the application is   *)
(* where the university says it is (the runbook: an out-of-order event is  *)
(* normal and harmless).                                                   *)
StateFollowsUniversity == AllAnswered => state = view

(* A stored event that did not apply says why (skippedReason).             *)
UnappliedSaysWhy ==
    Quiet => \A n \in DOMAIN events: events[n].applied \/ events[n].skipped # "none"

(* What the code keeps of that, in any order of arrival: only a delivery   *)
(* that dies half way leaves an event of which nothing is said.            *)
UnappliedSaysWhyUnlessCrashed == ~Happened("crash") => UnappliedSaysWhy

(* An event that says it was skipped did not move the application (the     *)
(* handler's catch around the transition).                                 *)
SkippedDidNotMove ==
    \A i \in DOMAIN moves: moves[i] \in DOMAIN events => events[moves[i]].skipped = "none"

(* What the code keeps of that: only an audit write that fails after the   *)
(* move makes a row say otherwise.                                         *)
SkippedDidNotMoveIfAudited == ~Happened("audit_error") => SkippedDidNotMove

(* What is on record of an event: that it came, what became of it and      *)
(* every move it made, as far as each fault leaves it (apply).             *)
EventsOnRecord == AnsweredIsStoredIfInserted /\ SkippedDidNotMoveIfAudited /\ MovesAreRecorded

(* Every event the university sends is answered in the end.                *)
EveryEventAnswered ==
    \A n \in 1 .. MaxEvents: n \in DOMAIN wire ~> n \in answered
=============================================================================
