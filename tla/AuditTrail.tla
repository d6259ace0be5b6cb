------------------------------ MODULE AuditTrail ------------------------------
(***************************************************************************)
(* The audit trail: AuditService.record and verifyIntegrity.  An event     *)
(* takes its timestamp first; then, in one serialisable transaction, it is *)
(* chained to the event that is last by timestamp and id, and appended.    *)
(* The verifier reads the events back by timestamp and id and expects each *)
(* to be chained to the one before it.                                     *)
(* The hash of an event stands for the whole chain up to it, so an event's *)
(* reference is its place in the order of appending.                       *)
(***************************************************************************)
EXTENDS Naturals, Sequences

CONSTANTS
    Writers,     \* requests and jobs that record events
    Ids,         \* event ids: UUIDs, drawn in no particular order
    MaxTime,     \* bound: milliseconds that pass
    MaxEvents    \* bound: events recorded

ASSUME IdAssumption    == Ids \subseteq Nat
ASSUME BoundAssumption == MaxTime \in Nat /\ MaxEvents \in Nat

VARIABLES
    log,     \* the audit_events rows, in the order of their commits
    now,     \* the wall clock, in milliseconds
    calls    \* writer -> its call of record: has it a timestamp yet?

vars == <<log, now, calls>>

Genesis == 0
Event   == [timestamp: Nat, id: Ids, previous: Nat]
Resting == [step |-> "idle", timestamp |-> 0]

TypeOK ==
    /\ log \in Seq(Event)
    /\ now \in Nat
    /\ calls \in [Writers -> [step: {"idle", "stamped"}, timestamp: Nat]]
    /\ \A i, j \in DOMAIN log: log[i].id = log[j].id => i = j

Init ==
    /\ log = <<>>
    /\ now = 0
    /\ calls = [w \in Writers |-> Resting]

(***************************************************************************)
(* AuditService.record                                                     *)
(***************************************************************************)

(* The order by (timestamp, id) in which the trail is read.                *)
Before(e, f) ==
    \/ e.timestamp < f.timestamp
    \/ e.timestamp = f.timestamp /\ e.id < f.id

(* findFirst, newest first: the event the next one is chained to.          *)
IsTail(i) == \A j \in DOMAIN log: j # i => Before(log[j], log[i])
OldestReference ==
    IF log = <<>> THEN Genesis
    ELSE CHOOSE i \in DOMAIN log: \A j \in DOMAIN log: j # i => Before(log[i], log[j])
TailReference ==
    IF log = <<>> THEN Genesis ELSE CHOOSE i \in DOMAIN log: IsTail(i)

Stamp(w) ==
    /\ calls[w].step = "idle"
    /\ Len(log) < MaxEvents
    /\ calls' = [calls EXCEPT ![w] = [step |-> "stamped", timestamp |-> now]]
    /\ UNCHANGED <<log, now>>

(* The id is the primary key.                                              *)
IdAlwaysFree(id) == TRUE
IdFree(id) == \A i \in DOMAIN log: log[i].id # id

Record(w, id) ==
    /\ calls[w].step = "stamped"
    /\ IdFree(id)
    /\ log' = Append(log, [timestamp |-> calls[w].timestamp, id |-> id,
                           previous |-> TailReference])
    /\ calls' = [calls EXCEPT ![w] = Resting]
    /\ UNCHANGED now

(* Two transactions that overlap may not both commit: one of the callers   *)
(* gets an exception, and nothing tries again.                             *)
SerialisationFailure(w) ==
    /\ calls[w].step = "stamped"
    /\ \E v \in Writers: v # w /\ calls[v].step = "stamped"
    /\ calls' = [calls EXCEPT ![w] = Resting]
    /\ UNCHANGED <<log, now>>

Tick ==
    /\ now < MaxTime
    /\ now' = now + 1
    /\ UNCHANGED <<log, calls>>

Next ==
    \/ \E w \in Writers:
           Stamp(w) \/ SerialisationFailure(w) \/ \E id \in Ids: Record(w, id)
    \/ Tick

Spec == Init /\ [][Next]_vars

(***************************************************************************)
(* verifyChain, over the rows that are left after some were taken out      *)
(***************************************************************************)

(* Walking the rows in order, the reference expected of row i is that of   *)
(* the row before it.                                                      *)
Expected(rows, i) ==
    IF \A j \in rows: ~Before(log[j], log[i]) THEN Genesis
    ELSE CHOOSE j \in rows:
             /\ Before(log[j], log[i])
             /\ \A k \in rows: Before(log[k], log[i]) => k = j \/ Before(log[k], log[j])

HoldsAnyway(rows, i) == log[i].previous \notin rows \/ Before(log[log[i].previous], log[i])
Holds(rows, i) == log[i].previous = Expected(rows, i)
Verifies(rows) == \A i \in rows: Holds(rows, i)

(***************************************************************************)
(* Properties                                                              *)
(***************************************************************************)

(* Events committed in the order of their timestamps and ids.              *)
InOrder == \A i, j \in DOMAIN log: i < j => Before(log[i], log[j])

(* Nobody has touched a trail whose events were committed in order, and it *)
(* verifies: the chain is built against the true tail (AuditService.record)*)
OrderedTrailVerifies == InOrder => Verifies(DOMAIN log)

(* A row removed from the middle of such a trail is detectable: the chain  *)
(* no longer verifies (audit/integrity.ts).                                *)
OrderedRemovalIsDetected ==
    InOrder => \A i \in DOMAIN log: i < Len(log) => ~Verifies(DOMAIN log \ {i})

(* A break of the chain means that somebody has tampered with the trail    *)
(* (AuditService.verifyIntegrity): here nobody ever does.                  *)
UntouchedTrailVerifies == Verifies(DOMAIN log)

(* In order, every event is chained to the one committed before it.        *)
ChainInv == InOrder => \A i \in DOMAIN log: log[i].previous = i - 1
===============================================================================
