--------------------------- MODULE SubmissionPromise ---------------------------
(***************************************************************************)
(* What the submission gateway promises of one application, told without   *)
(* requests, tries, queues or faults: a payload is fixed before anything   *)
(* is sent, the university takes each submission once and exactly as it    *)
(* was fixed, and the application counts as being with the university only *)
(* on a reference to something the university has taken.                   *)
(* Submission.tla is shown to implement it.                                *)
(***************************************************************************)
EXTENDS Naturals

VARIABLES
    phase,      \* where the student is told the application is
    payload,    \* submission -> what was fixed for it
    taken,      \* submission -> what the university has of it
    reference   \* the university's reference, or NoReference

vars == <<phase, payload, taken, reference>>

Phase == {"preparing", "sending", "with_university", "refused", "closed"}
NoReference == 0

Init ==
    /\ phase = "preparing"
    /\ payload = [s \in {} |-> 0]
    /\ taken = [s \in {} |-> 0]
    /\ reference = NoReference

Add(f, x, v) == [y \in DOMAIN f \cup {x} |-> IF y = x THEN v ELSE f[y]]

(* The payload of one more submission is fixed; none is ever fixed anew.   *)
Fix ==
    /\ \E s \in DOMAIN payload' \ DOMAIN payload:
           payload' = Add(payload, s, payload'[s])
    /\ UNCHANGED <<phase, taken, reference>>

(* The student commits: there is something to send.                        *)
Send ==
    /\ phase = "preparing"
    /\ DOMAIN payload # {}
    /\ phase' = "sending"
    /\ UNCHANGED <<payload, taken, reference>>

(* The university takes a submission once, as it was fixed.                *)
Take(s) ==
    /\ s \in DOMAIN payload \ DOMAIN taken
    /\ taken' = Add(taken, s, payload[s])
    /\ UNCHANGED <<phase, payload, reference>>

(* Only a reference to something taken ends the sending well.              *)
Receive(ref) ==
    /\ phase = "sending"
    /\ ref \in DOMAIN taken
    /\ phase' = "with_university"
    /\ reference' = ref
    /\ UNCHANGED <<payload, taken>>

Refuse ==
    /\ phase = "sending"
    /\ phase' = "refused"
    /\ UNCHANGED <<payload, taken, reference>>

(* Back to the student, who may correct and send again.                    *)
Reopen ==
    /\ phase \in {"refused", "with_university"}
    /\ phase' = "preparing"
    /\ UNCHANGED <<payload, taken, reference>>

(* Withdrawn, declined, rejected or expired; never while sending.          *)
Close ==
    /\ phase \in {"preparing", "refused", "with_university"}
    /\ phase' = "closed"
    /\ UNCHANGED <<payload, taken, reference>>

Next ==
    \/ Fix
    \/ Send
    \/ \E s \in DOMAIN payload: Take(s)
    \/ \E ref \in DOMAIN taken: Receive(ref)
    \/ Refuse
    \/ Reopen
    \/ Close

Spec == Init /\ [][Next]_vars

(* The point of the promise: whatever the student is told is with the      *)
(* university is there, under the reference on record.                     *)
ShownIsTaken == phase = "with_university" => reference \in DOMAIN taken
===============================================================================
