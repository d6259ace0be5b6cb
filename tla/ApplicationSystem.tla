--------------------------- MODULE ApplicationSystem ---------------------------
(***************************************************************************)
(* The submission gateway together with inbound status handling: an        *)
(* application that goes out through a connector and is moved on by the    *)
(* events the university sends back.  The two share the application row    *)
(* (state, externalRef), its attempt rows and its tasks; what the          *)
(* university holds in the gateway's model is what its events may refer to *)
(* in the other.                                                           *)
(***************************************************************************)
EXTENDS Submission, Sequences

CONSTANTS Deliveries, Kinds, Ordered, FaultKinds, MaxEvents, MaxMishaps

ASSUME InboundAssumption ==
    /\ Kinds \subseteq InboundKind
    /\ Ordered \in BOOLEAN
    /\ FaultKinds \subseteq {"crash", "insert_error", "audit_error"}
    /\ MaxEvents \in Nat /\ MaxMishaps \in Nat

VARIABLES wire, view, answered, events, moves, handling, mishaps

inboundVars == <<wire, view, answered, events, moves, handling, mishaps>>
systemVars == <<vars, inboundVars>>

Inbound == INSTANCE InboundStatus WITH issued <- DOMAIN held

InitSystem == Init /\ Inbound!InitInbound

(* Where the university takes the application to be once it has it.        *)
ViewAfterTaking == IF held' = held THEN view ELSE "submitted_pending"

GatewayStep ==
    /\ Next
    /\ view' = ViewAfterTaking
    /\ UNCHANGED <<wire, answered, events, moves, handling, mishaps>>

(* Confirmation of a handoff or a queued package (external): the student   *)
(* completes the university's own form, or its staff import the package.   *)
CompleteHandoff(n) ==
    /\ attempts[n].state \in {"awaiting_handoff", "queued"}
    /\ PartnerKey(attempts[n].sub, n) \notin DOMAIN held
    /\ held' = Extend(held, PartnerKey(attempts[n].sub, n),
                      [sub |-> attempts[n].sub, version |-> snapshots[attempts[n].sub]])
    /\ view' = ViewAfterTaking
    /\ UNCHANGED <<appVars, envVars, snapshots, attempts, tasks, queueVars, calls, faults,
                   wire, answered, events, moves, handling, mishaps>>

InboundStep ==
    /\ UNCHANGED <<ack, pendingOn, envVars, snapshots, queueVars, held, calls, faults>>
    /\ Inbound!Next

NextSystem ==
    \/ GatewayStep
    \/ \E n \in DOMAIN attempts: CompleteHandoff(n)
    \/ InboundStep

SystemSpec == InitSystem /\ [][NextSystem]_systemVars

(* The gateway's processes and workers keep running, a started delivery is *)
(* finished, and the university goes on sending what was not answered.     *)
SystemFairness ==
    /\ \A p \in Processes: WF_systemVars(GatewayStep /\ Advance(p))
    /\ \A w \in Workers: WF_systemVars(GatewayStep /\ RunJob(w))
    /\ \A d \in Deliveries: WF_systemVars(InboundStep /\ Inbound!Process(d))
    /\ \A n \in 1 .. MaxEvents:
           SF_systemVars(/\ InboundStep
                         /\ \E d \in Deliveries:
                                n \in DOMAIN wire \ answered /\ Inbound!Read(d, n))
    /\ WF_systemVars(InboundStep /\ Inbound!University)

FairSystemSpec == SystemSpec /\ SystemFairness

(* Whichever way a reference came, the university issued it and there is   *)
(* evidence: an accepted attempt, or a stored receipt event that quotes it *)
(* (SubmissionService.applyOutcome, InboundStatusService.apply).           *)
EvidenceEitherWay ==
    externalRef # NoRef =>
        /\ externalRef \in DOMAIN held
        /\ \/ \E n \in DOMAIN attempts:
                  attempts[n].state = "accepted" /\ attempts[n].ref = externalRef
           \/ \E e \in DOMAIN events:
                  events[e].kind = "received" /\ wire[e].ref = externalRef

(* A receipt delivered again is not taken for the receipt of a later       *)
(* submission: no event moves the application twice (guarantee 2 of        *)
(* InboundStatusService), although a resubmission waits for the same kind  *)
(* of event in the same state.                                             *)
AppliedAtMostOnce == \A i, j \in DOMAIN moves: moves[i] = moves[j] => i = j

(* A reference on evidence, and no event taken for another.                *)
HandoffHasGrounds == EvidenceEitherWay /\ AppliedAtMostOnce

(* An application counts as submitted only once the university has the     *)
(* very submission it was waiting on (submission.service.ts: successful    *)
(* only after the university endpoint confirms receipt).                   *)
ConfirmedIsHeld == state = "submitted" => pendingOn \in DOMAIN held

(* A submission the university has taken is confirmed: once a handoff is   *)
(* complete, the application leaves submitted_pending, unless a crash left *)
(* the receipt stored and not applied (the receipt branch of               *)
(* InboundStatusService.apply).  The model may end before the receipt of   *)
(* this very submission is sent, with MaxEvents other events.              *)
ReceiptSent(s) == \E n \in DOMAIN wire: wire[n].kind = "received" /\ wire[n].ref = s
NoRoomForReceipt(s) == Cardinality(DOMAIN wire) = MaxEvents /\ ~ReceiptSent(s)
Awaits(s) == state = "submitted_pending" /\ pendingOn = s
HandoffConfirms ==
    \A s \in 1 .. MaxSubmissions:
        Awaits(s) /\ s \in DOMAIN held
            ~> (~Awaits(s) \/ Inbound!Happened("crash") \/ NoRoomForReceipt(s))

(* Events included, the gateway still implements SubmissionPromise, and a  *)
(* handoff the university has taken comes to its end.                      *)
HandoffKeepsPromise == KeepsPromise /\ HandoffConfirms
===============================================================================
