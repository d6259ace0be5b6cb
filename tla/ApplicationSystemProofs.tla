------------------------ MODULE ApplicationSystemProofs ------------------------
(***************************************************************************)
(* Proofs about an application, for any number of requests, workers,       *)
(* submissions, tries, deliveries, events and faults.  First the           *)
(* submission gateway by itself: its types, what it guarantees, and that   *)
(* it implements SubmissionPromise.  Then the gateway and inbound status   *)
(* handling together: what the gateway guarantees survives the events, and *)
(* a reference that an event brings has its grounds too.                   *)
(***************************************************************************)
EXTENDS ApplicationSystem, FiniteSetTheorems, SequenceTheorems, TLAPS

(* Adding one entry to a partial function.                                 *)
LEMMA ExtendFacts ==
    ASSUME NEW f, NEW x, NEW v
    PROVE  /\ DOMAIN Extend(f, x, v) = DOMAIN f \cup {x}
           /\ Extend(f, x, v)[x] = v
           /\ \A y \in DOMAIN f: y # x => Extend(f, x, v)[y] = f[y]
BY DEF Extend

LEMMA ExtendType ==
    ASSUME NEW S, NEW x \in Nat, NEW v \in S, NEW f,
           DOMAIN f \subseteq Nat, f \in [DOMAIN f -> S]
    PROVE  /\ DOMAIN Extend(f, x, v) \subseteq Nat
           /\ Extend(f, x, v) \in [DOMAIN Extend(f, x, v) -> S]
           /\ IsFiniteSet(DOMAIN f) => IsFiniteSet(DOMAIN Extend(f, x, v))
<1>1. DOMAIN Extend(f, x, v) = DOMAIN f \cup {x}
  BY ExtendFacts
<1>2. Extend(f, x, v) \in [DOMAIN f \cup {x} -> S]
  BY DEF Extend
<1>3. IsFiniteSet(DOMAIN f) => IsFiniteSet(DOMAIN f \cup {x})
  BY FS_AddElement
<1> QED
  BY <1>1, <1>2, <1>3

(* Moving a call along changes its step and nothing else.                  *)
LEMMA IdleType == Idle \in Call
BY DEF Idle, Call, Step, ApplicationState, OutcomeStatus

LEMMA GotoType ==
    ASSUME TypeOK, NEW p \in Processes, NEW step \in Step, Goto(p, step)
    PROVE  calls' \in [Processes -> Call]
BY DEF TypeOK, Goto, Call

LEMMA FinishType ==
    ASSUME TypeOK, NEW p \in Processes, Finish(p)
    PROVE  calls' \in [Processes -> Call]
BY IdleType DEF TypeOK, Finish

LEMMA JobFailsType ==
    ASSUME TypeOK, NEW job \in Job, NEW waiting \in SUBSET Job, JobFails(job, waiting)
    PROVE  jobs' \subseteq Job /\ deadJobs' \subseteq Job
<1>1. [job EXCEPT !.tries = @ + 1] \in Job
  BY DEF Job
<1> QED
  BY <1>1 DEF TypeOK, JobFails

LEMMA JobOfType ==
    ASSUME TypeOK, NEW p \in Processes
    PROVE  JobOf(p) \in Job
BY DEF TypeOK, JobOf, Job, Call

LEMMA ThrowsType ==
    ASSUME TypeOK, NEW p \in Processes, Throws(p)
    PROVE  TypeOK'
<1>1. calls' \in [Processes -> Call]
  BY FinishType DEF Throws
<1>2. jobs' \subseteq Job /\ deadJobs' \subseteq Job
  <2>1. CASE p \in Workers
    <3>1. JobFails(JobOf(p), jobs)
      BY <2>1 DEF Throws
    <3>2. JobOf(p) \in Job /\ jobs \in SUBSET Job
      BY JobOfType DEF TypeOK
    <3> QED
      BY <3>1, <3>2, JobFailsType
  <2>2. CASE p \notin Workers
    BY <2>2 DEF Throws, TypeOK, queueVars
  <2> QED
    BY <2>1, <2>2
<1> QED
  BY <1>1, <1>2 DEF Throws, TypeOK, appVars, envVars

LEMMA InitType == Init => TypeOK
<1> SUFFICES ASSUME Init PROVE TypeOK
  OBVIOUS
<1>1. /\ DOMAIN snapshots = {} /\ snapshots \in [DOMAIN snapshots -> Nat]
      /\ DOMAIN attempts = {} /\ attempts \in [DOMAIN attempts -> Attempt]
      /\ DOMAIN held = {} /\ held \in [DOMAIN held -> [sub: Nat, version: Nat]]
  BY DEF Init
<1>2. calls \in [Processes -> Call]
  BY IdleType DEF Init
<1>3. IsFiniteSet({})
  BY FS_EmptySet
<1>4. route \in {"none", "off", "on"}
  BY RouteAssumption DEF Init
<1> QED
  BY <1>1, <1>2, <1>3, <1>4 DEF Init, TypeOK, ApplicationState, NoVersion, NoRef

(* The student's and everybody else's steps leave the gateway's rows alone *)
(* and write values of the right type.                                     *)
LEMMA EnvironmentType ==
    ASSUME TypeOK, Environment
    PROVE  TypeOK'
<1> USE DEF appVars, envVars, queueVars
<1>1. CASE RecordConsents
  BY <1>1 DEF RecordConsents, TypeOK
<1>2. CASE Withdraw
  BY <1>2 DEF Withdraw, TypeOK, ApplicationState
<1>3. CASE \E decision \in {"accepted", "declined"}: RespondToOffer(decision)
  BY <1>3 DEF RespondToOffer, TypeOK, ApplicationState
<1>4. CASE CompleteTask
  BY <1>4 DEF CompleteTask, TypeOK
<1>5. CASE \E to \in PortalStates: PortalMove(to)
  BY <1>5, PortalAssumption DEF PortalMove, TypeOK
<1>6. CASE ReviewRequirement
  BY <1>6 DEF ReviewRequirement, TypeOK
<1>7. CASE \E enabled \in BOOLEAN: SetConnectorEnabled(enabled)
  BY <1>7 DEF SetConnectorEnabled, TypeOK
<1>8. CASE Quarantine
  <2>1. faults' \in Nat
    BY <1>8 DEF Quarantine, TypeOK
  <2>2. documentsClean' = FALSE
    BY <1>8, Zenon DEF Quarantine
  <2>3. documentsClean' \in BOOLEAN
    BY <2>2
  <2> QED
    BY <1>8, <2>1, <2>3 DEF Quarantine, TypeOK
<1> QED
  BY <1>1, <1>2, <1>3, <1>4, <1>5, <1>6, <1>7, <1>8 DEF Environment

LEMMA StartType ==
    ASSUME TypeOK, NEW p \in Requests, Start(p)
    PROVE  TypeOK'
<1> USE DEF appVars, envVars, queueVars
<1>0. p \in Processes /\ Idle \in Call
  BY IdleType DEF Processes
<1>1. CASE MarkReadyRead(p)
  <2>1. [Idle EXCEPT !.step = "acknowledging", !.seen = state, !.version = requirements]
            \in Call
    BY <1>0 DEF TypeOK, Call, Step
  <2> QED
    BY <1>0, <1>1, <2>1 DEF MarkReadyRead, TypeOK
<1>2. CASE SubmitCheck(p)
  <2>1. [Idle EXCEPT !.step = "checked"] \in Call
    BY <1>0 DEF Call, Step
  <2> QED
    BY <1>0, <1>2, <2>1 DEF SubmitCheck, TypeOK
<1> QED
  BY <1>1, <1>2 DEF Start

LEMMA RunJobType ==
    ASSUME TypeOK, NEW w \in Workers, RunJob(w)
    PROVE  TypeOK'
<1> USE DEF appVars, envVars, queueVars
<1> PICK job \in jobs: RetryNoop(w, job) \/ RetryRefused(w, job) \/ RetryStart(w, job)
  BY DEF RunJob
<1>0. w \in Processes /\ job \in Job /\ jobs \ {job} \in SUBSET Job
  BY DEF Processes, TypeOK
<1>1. CASE RetryNoop(w, job)
  BY <1>0, <1>1 DEF RetryNoop, TypeOK
<1>2. CASE RetryRefused(w, job)
  <2>1. jobs' \subseteq Job /\ deadJobs' \subseteq Job
    BY <1>0, <1>2, JobFailsType DEF RetryRefused
  <2> QED
    BY <1>0, <1>2, <2>1 DEF RetryRefused, TypeOK
<1>3. CASE RetryStart(w, job)
  <2>1. RetryPayload(job.sub) \in Nat
    BY <1>0, <1>3 DEF RetryStart, RetryPayload, TypeOK, Job
  <2>2. [Idle EXCEPT !.step = "dispatching", !.sub = job.sub, !.att = job.att,
                     !.tries = job.tries, !.version = RetryPayload(job.sub)] \in Call
    BY <1>0, <2>1, IdleType DEF Call, Step, Job
  <2> QED
    BY <1>0, <1>3, <2>2 DEF RetryStart, TypeOK
<1> QED
  BY <1>1, <1>2, <1>3

LEMMA CrashType ==
    ASSUME TypeOK, NEW p \in Processes, Crash(p)
    PROVE  TypeOK'
<1>1. calls' \in [Processes -> Call]
  BY FinishType DEF Crash
<1>2. jobs' \subseteq Job
  BY JobOfType DEF Crash, TypeOK
<1> QED
  BY <1>1, <1>2 DEF Crash, TypeOK, appVars, envVars, queueVars

LEMMA WriteFailsType ==
    ASSUME TypeOK, NEW w \in Workers, WriteFails(w)
    PROVE  TypeOK'
<1>0. w \in Processes
  BY DEF Processes
<1>1. calls' \in [Processes -> Call]
  BY <1>0, FinishType DEF WriteFails
<1>2. JobOf(w) \in Job /\ jobs \in SUBSET Job
  BY <1>0, JobOfType DEF TypeOK
<1>3. jobs' \subseteq Job /\ deadJobs' \subseteq Job
  BY <1>2, JobFailsType DEF WriteFails
<1> QED
  BY <1>1, <1>3 DEF WriteFails, TypeOK, appVars, envVars

LEMMA AdvanceType ==
    ASSUME TypeOK, NEW p \in Processes, Advance(p)
    PROVE  TypeOK'
<1> USE DEF appVars, envVars, queueVars
<1>0. /\ calls \in [Processes -> Call]
      /\ calls[p] \in Call
      /\ Finish(p) => calls' \in [Processes -> Call]
      /\ \A step \in Step: Goto(p, step) => calls' \in [Processes -> Call]
  BY FinishType, GotoType DEF TypeOK
<1>1. CASE MarkReadyWrite(p)
  <2>1. calls[p].version \in Nat
    BY <1>0 DEF Call
  <2> QED
    BY <1>0, <1>1, <2>1 DEF MarkReadyWrite, TypeOK, ApplicationState
<1>2. CASE SubmitCount(p)
  <2>1. /\ Cardinality(DOMAIN snapshots) + 1 \in Nat
        /\ Cardinality(DOMAIN attempts) + 1 \in Nat
    BY FS_CardinalityType DEF TypeOK
  <2>2. calls' \in [Processes -> Call]
    BY <1>0, <1>2, <2>1 DEF SubmitCount, TypeOK, Call, Step
  <2> QED
    BY <1>2, <2>2 DEF SubmitCount, TypeOK
<1>3. CASE SubmitSnapshot(p)
  <2>1. calls[p].sub \in Nat /\ calls[p].version \in Nat /\ "snapshotted" \in Step
    BY <1>0 DEF Call, Step
  <2>2. calls' \in [Processes -> Call]
    BY <1>0, <1>3, <2>1 DEF SubmitSnapshot
  <2>3. /\ DOMAIN snapshots' \subseteq Nat /\ IsFiniteSet(DOMAIN snapshots')
        /\ snapshots' \in [DOMAIN snapshots' -> Nat]
    <3>1. CASE SnapshotFree(calls[p].sub)
      <4>1. snapshots' = Extend(snapshots, calls[p].sub, calls[p].version)
        BY <1>3, <3>1 DEF SubmitSnapshot
      <4> QED
        BY <2>1, <4>1, ExtendType DEF TypeOK
    <3>2. CASE ~SnapshotFree(calls[p].sub)
      BY <1>3, <3>2 DEF SubmitSnapshot, TypeOK
    <3> QED
      BY <3>1, <3>2
  <2> QED
    BY <1>3, <2>2, <2>3 DEF SubmitSnapshot, TypeOK
<1>4. CASE SubmitMove(p)
  <2>1. calls[p].sub \in Nat /\ "dispatching" \in Step
    BY <1>0 DEF Call, Step
  <2>2. calls' \in [Processes -> Call]
    BY <1>0, <1>4, <2>1 DEF SubmitMove
  <2> QED
    BY <1>4, <2>1, <2>2 DEF SubmitMove, TypeOK, ApplicationState
<1>5. CASE DispatchRefused(p)
  BY <1>5, ThrowsType DEF DispatchRefused
<1>6. CASE DispatchOpen(p)
  <2>1. /\ calls[p].att \in Nat /\ "calling" \in Step
        /\ [sub |-> calls[p].sub, state |-> "in_flight", ref |-> NoRef] \in Attempt
    BY <1>0 DEF Call, Step, Attempt, AttemptState, NoRef
  <2>2. calls' \in [Processes -> Call]
    BY <1>0, <1>6, <2>1 DEF DispatchOpen
  <2>3. /\ DOMAIN attempts' \subseteq Nat /\ IsFiniteSet(DOMAIN attempts')
        /\ attempts' \in [DOMAIN attempts' -> Attempt]
    BY <1>6, <2>1, ExtendType DEF DispatchOpen, WithOpenedRow, TypeOK
  <2> QED
    BY <1>6, <2>2, <2>3 DEF DispatchOpen, TypeOK
<1>7. CASE \E outcome \in Outcomes: Exchange(p, outcome)
  <2> PICK outcome \in Outcomes: Exchange(p, outcome)
    BY <1>7
  <2>1. PartnerKey(calls[p].sub, calls[p].att) \in Nat
        /\ [sub |-> calls[p].sub, version |-> calls[p].version] \in [sub: Nat, version: Nat]
    BY <1>0 DEF Call, PartnerKey
  <2>2. /\ DOMAIN PartnerTakes(p) \subseteq Nat
        /\ PartnerTakes(p) \in [DOMAIN PartnerTakes(p) -> [sub: Nat, version: Nat]]
    BY <2>1, ExtendType DEF PartnerTakes, TypeOK
  <2>3. DOMAIN held' \subseteq Nat /\ held' \in [DOMAIN held' -> [sub: Nat, version: Nat]]
    BY <2>2 DEF Exchange, TypeOK
  <2>4. calls' \in [Processes -> Call]
    BY <1>0, OutcomeAssumption DEF Exchange, Call, Step
  <2> QED
    BY <2>3, <2>4 DEF Exchange, TypeOK
<1>8. CASE RecordOutcome(p)
  <2>1. RecordedState(calls[p].outcome, calls[p].att) \in AttemptState
    BY DEF RecordedState, AttemptState
  <2>2. (IF IsReceipt(calls[p].outcome)
         THEN PartnerKey(calls[p].sub, calls[p].att) ELSE NoRef) \in Nat
    BY <1>0 DEF Call, PartnerKey, NoRef
  <2>3. DOMAIN attempts' = DOMAIN attempts /\ attempts' \in [DOMAIN attempts -> Attempt]
    <3>1. \A n \in DOMAIN attempts: attempts[n] \in Attempt
      BY DEF TypeOK
    <3>2. \A row \in Attempt, st \in AttemptState, ref \in Nat:
              [[row EXCEPT !.state = st] EXCEPT !.ref = ref] \in Attempt
      BY DEF Attempt
    <3> QED
      BY <1>8, <2>1, <2>2, <3>1, <3>2 DEF RecordOutcome, TypeOK
  <2>4. calls' \in [Processes -> Call]
    BY <1>0, <1>8 DEF RecordOutcome, Step
  <2> QED
    BY <1>8, <2>3, <2>4 DEF RecordOutcome, TypeOK
<1>9. CASE Confirm(p)
  <2>1. CASE Throws(p)
    BY <2>1, ThrowsType
  <2>2. CASE ~Throws(p)
    <3>1. calls' \in [Processes -> Call]
      BY <1>0, <1>9, <2>2 DEF Confirm, Step
    <3>2. PartnerKey(calls[p].sub, calls[p].att) \in Nat
      BY <1>0 DEF Call, PartnerKey
    <3> QED
      BY <1>9, <2>2, <3>1, <3>2 DEF Confirm, TypeOK, ApplicationState
  <2> QED
    BY <2>1, <2>2
<1>10. CASE Reject(p)
  <2>1. CASE Throws(p)
    BY <2>1, ThrowsType
  <2>2. CASE ~Throws(p)
    <3>1. calls' \in [Processes -> Call]
      BY <1>0, <1>10, <2>2 DEF Reject, Step
    <3> QED
      BY <1>10, <2>2, <3>1 DEF Reject, TypeOK, ApplicationState
  <2> QED
    BY <2>1, <2>2
<1>11. CASE DeadLetter(p)
  <2>1. calls' \in [Processes -> Call]
    BY <1>0, <1>11 DEF DeadLetter, Step
  <2> QED
    BY <1>11, <2>1 DEF DeadLetter, Escalated, TypeOK
<1>12. CASE ScheduleRetry(p)
  <2>1. calls' \in [Processes -> Call]
    BY <1>0, <1>12 DEF ScheduleRetry, Step
  <2>2. [sub |-> calls[p].sub, att |-> calls[p].att + 1, tries |-> 0] \in Job
    BY <1>0 DEF Call, Job
  <2> QED
    BY <1>12, <2>1, <2>2 DEF ScheduleRetry, TypeOK
<1>13. CASE AwaitPartner(p)
  <2>1. calls' \in [Processes -> Call]
    BY <1>0, <1>13 DEF AwaitPartner, Step
  <2> QED
    BY <1>13, <2>1 DEF AwaitPartner, TypeOK
<1>14. CASE Return(p)
  BY <1>0, <1>14 DEF Return, TypeOK
<1> QED
  BY <1>1, <1>2, <1>3, <1>4, <1>5, <1>6, <1>7, <1>8, <1>9, <1>10, <1>11, <1>12,
     <1>13, <1>14 DEF Advance

LEMMA NextType ==
    ASSUME TypeOK, [Next]_vars
    PROVE  TypeOK'
<1>1. CASE \E p \in Requests: Start(p)
  BY <1>1, StartType
<1>2. CASE \E w \in Workers: RunJob(w)
  BY <1>2, RunJobType
<1>3. CASE \E p \in Processes: Advance(p) \/ Crash(p)
  BY <1>3, AdvanceType, CrashType
<1>4. CASE \E w \in Workers: WriteFails(w)
  BY <1>4, WriteFailsType
<1>5. CASE Environment
  BY <1>5, EnvironmentType
<1>6. CASE UNCHANGED vars
  BY <1>6 DEF vars, TypeOK, appVars, envVars, queueVars
<1> QED
  BY <1>1, <1>2, <1>3, <1>4, <1>5, <1>6 DEF Next

(* Every variable keeps its type: rows, jobs and calls stay well formed.   *)
THEOREM TypeCorrect == Spec => []TypeOK
BY InitType, NextType, PTL DEF Spec

(***************************************************************************)
(* The gateway's invariant                                                 *)
(***************************************************************************)

(* A step that sends nothing and records nothing keeps the invariant:      *)
(* snapshots may only grow, and a call that moved is either past caring or *)
(* carries its snapshot.                                                   *)
CarriesOnly(p) ==
    /\ calls'[p].step \in {"snapshotted", "dispatching"}
    /\ calls'[p].sub \in DOMAIN snapshots'
    /\ calls'[p].version = snapshots'[calls'[p].sub]

SendsNothing ==
    /\ UNCHANGED <<attempts, held, externalRef>>
    /\ \A s \in DOMAIN snapshots: s \in DOMAIN snapshots' /\ snapshots'[s] = snapshots[s]
    /\ \A p \in Processes: calls'[p] = calls[p] \/ ~Carrying(p)' \/ CarriesOnly(p)

LEMMA SendsNothingKeepsInv ==
    ASSUME GatewayInv, SendsNothing
    PROVE  GatewayInv'
<1> USE DEF SendsNothing
<1>1. CarriesSnapshot'
  BY DEF GatewayInv, CarriesSnapshot, Carrying, CarriesOnly
<1>2. \A p \in Processes: Sending(p)' => calls'[p] = calls[p] /\ Sending(p)
  BY DEF Sending, Carrying, CarriesOnly
<1>3. \A p \in Processes: Receipt(p)' => calls'[p] = calls[p] /\ Receipt(p)
  BY DEF Receipt, Carrying, CarriesOnly
<1>4. OwnsAttempt' /\ OwnsAlone'
  BY <1>2 DEF GatewayInv, OwnsAttempt, OwnsAlone
<1>5. FiledByKey' /\ NothingSentUnrecorded'
  BY DEF GatewayInv, FiledByKey, NothingSentUnrecorded
<1>6. ReceiptIsHeld' /\ ReceiptIsRecorded'
  BY <1>3 DEF GatewayInv, ReceiptIsHeld, ReceiptIsRecorded, At
<1>7. PartnerHoldsSnapshot'
  BY DEF GatewayInv, PartnerHoldsSnapshot
<1> QED
  BY <1>1, <1>4, <1>5, <1>6, <1>7 DEF GatewayInv

LEMMA InitInv == Init => GatewayInv
<1> SUFFICES ASSUME Init PROVE GatewayInv
  OBVIOUS
<1>1. \A p \in Processes: calls[p].step = "idle"
  BY DEF Init, Idle
<1>2. DOMAIN held = {}
  BY DEF Init
<1> QED
  BY <1>1, <1>2 DEF GatewayInv, CarriesSnapshot, OwnsAttempt, OwnsAlone, FiledByKey,
     ReceiptIsHeld, ReceiptIsRecorded, PartnerHoldsSnapshot, NothingSentUnrecorded,
     Carrying, Sending, Receipt

(* A call that finishes, or moves to a step where it carries nothing.      *)
LEMMA FinishSendsNothing ==
    ASSUME TypeOK, NEW p \in Processes, UNCHANGED <<attempts, held, externalRef, snapshots>>,
           \/ Finish(p)
           \/ Goto(p, "returning")
    PROVE  SendsNothing
<1>1. \A q \in Processes: q # p => calls'[q] = calls[q]
  BY DEF TypeOK, Finish, Goto
<1>2. calls'[p].step \in {"idle", "returning"}
  BY DEF TypeOK, Finish, Goto, Idle, Call
<1>3. ~Carrying(p)'
  BY <1>2 DEF Carrying
<1> QED
  BY <1>1, <1>3 DEF SendsNothing

LEMMA ThrowsSendsNothing ==
    ASSUME TypeOK, NEW p \in Processes, Throws(p)
    PROVE  SendsNothing
BY FinishSendsNothing DEF Throws, appVars

(* The four steps that talk to the university or record what it said.      *)
LEMMA DispatchOpenInv ==
    ASSUME TypeOK, GatewayInv, NEW p \in Processes, DispatchOpen(p)
    PROVE  GatewayInv'
<1>0. /\ At(p, "dispatching") /\ Goto(p, "calling")
      /\ calls[p].att \notin DOMAIN attempts
      /\ attempts' = WithOpenedRow(p)
      /\ UNCHANGED <<held, snapshots, externalRef>>
  BY DEF DispatchOpen, AttemptFree, appVars
<1>1. /\ \A q \in Processes: q # p => calls'[q] = calls[q]
      /\ calls'[p].step = "calling" /\ calls[p].step = "dispatching"
      /\ calls'[p].sub = calls[p].sub /\ calls'[p].att = calls[p].att
      /\ calls'[p].version = calls[p].version
  BY <1>0 DEF TypeOK, Goto, At, Call
<1>2. /\ DOMAIN attempts' = DOMAIN attempts \cup {calls[p].att}
      /\ attempts'[calls[p].att].sub = calls[p].sub
      /\ attempts'[calls[p].att].state = "in_flight"
      /\ \A n \in DOMAIN attempts: attempts'[n] = attempts[n]
  <2> DEFINE row == [sub |-> calls[p].sub, state |-> "in_flight", ref |-> NoRef]
  <2>1. attempts' = Extend(attempts, calls[p].att, row)
    BY <1>0 DEF WithOpenedRow
  <2>2. row.sub = calls[p].sub /\ row.state = "in_flight"
    OBVIOUS
  <2>3. /\ DOMAIN attempts' = DOMAIN attempts \cup {calls[p].att}
        /\ attempts'[calls[p].att] = row
        /\ \A n \in DOMAIN attempts: n # calls[p].att => attempts'[n] = attempts[n]
    BY <2>1, SMT DEF Extend
  <2> QED
    BY <1>0, <2>2, <2>3
<1>3. CarriesSnapshot'
  BY <1>0, <1>1 DEF GatewayInv, CarriesSnapshot, Carrying
<1>4. OwnsAttempt'
  BY <1>1, <1>2 DEF GatewayInv, OwnsAttempt, Sending
<1>5. OwnsAlone'
  BY <1>0, <1>1, <1>2 DEF GatewayInv, OwnsAttempt, OwnsAlone, Sending
<1>6. FiledByKey' /\ PartnerHoldsSnapshot'
  BY <1>0 DEF GatewayInv, FiledByKey, PartnerHoldsSnapshot
<1>7. ReceiptIsHeld' /\ ReceiptIsRecorded'
  BY <1>0, <1>1, <1>2 DEF GatewayInv, ReceiptIsHeld, ReceiptIsRecorded, Receipt, At
<1>8. NothingSentUnrecorded'
  BY <1>0, <1>2 DEF GatewayInv, NothingSentUnrecorded
<1> QED
  BY <1>3, <1>4, <1>5, <1>6, <1>7, <1>8 DEF GatewayInv

(* Whatever the university answers, it files at most this submission anew. *)
LEMMA ExchangeHeld ==
    ASSUME NEW p \in Processes, NEW outcome \in Outcomes, Exchange(p, outcome)
    PROVE  /\ \A k \in DOMAIN held: k \in DOMAIN held' /\ held'[k] = held[k]
           /\ \A k \in DOMAIN held' \ DOMAIN held:
                  /\ k = calls[p].sub
                  /\ held'[k].sub = calls[p].sub
                  /\ held'[k].version = calls[p].version
           /\ outcome = "accepted" => calls[p].sub \in DOMAIN held'
<1> DEFINE sub == calls[p].sub
           application == [sub |-> calls[p].sub, version |-> calls[p].version]
<1>1. (held' = held /\ outcome # "accepted") \/ held' = PartnerTakes(p)
  BY DEF Exchange
<1>2. PartnerTakes(p) = IF sub \in DOMAIN held THEN held
                        ELSE Extend(held, sub, application)
  BY DEF PartnerTakes, PartnerKey
<1>3. CASE held' = held /\ (sub \in DOMAIN held \/ outcome # "accepted")
  BY <1>3
<1>4. CASE sub \notin DOMAIN held /\ held' = Extend(held, sub, application)
  <2>1. /\ DOMAIN held' = DOMAIN held \cup {sub}
        /\ held'[sub] = application
        /\ \A k \in DOMAIN held: k # sub => held'[k] = held[k]
    BY <1>4, SMT DEF Extend
  <2>2. application.sub = calls[p].sub /\ application.version = calls[p].version
    OBVIOUS
  <2> HIDE DEF application
  <2> QED
    BY <1>4, <2>1, <2>2
<1> QED
  BY <1>1, <1>2, <1>3, <1>4

LEMMA ExchangeInv ==
    ASSUME TypeOK, GatewayInv, NEW p \in Processes, NEW outcome \in Outcomes,
           Exchange(p, outcome)
    PROVE  GatewayInv'
<1>0. At(p, "calling") /\ UNCHANGED <<attempts, snapshots, externalRef>>
  BY DEF Exchange, appVars
<1>1. /\ \A q \in Processes: q # p => calls'[q] = calls[q]
      /\ calls'[p].step = "answered" /\ calls[p].step = "calling"
      /\ calls'[p].sub = calls[p].sub /\ calls'[p].att = calls[p].att
      /\ calls'[p].version = calls[p].version
      /\ calls'[p].outcome = outcome
  <2>1. calls' = [calls EXCEPT ![p].step = "answered", ![p].outcome = outcome]
    BY DEF Exchange
  <2> QED
    BY <1>0, <2>1 DEF TypeOK, At, Call
<1>2. /\ calls[p].sub \in DOMAIN snapshots
      /\ calls[p].version = snapshots[calls[p].sub]
      /\ calls[p].att \in DOMAIN attempts
      /\ attempts[calls[p].att].sub = calls[p].sub
  BY <1>1 DEF GatewayInv, CarriesSnapshot, OwnsAttempt, Carrying, Sending
<1>3. /\ \A k \in DOMAIN held: k \in DOMAIN held' /\ held'[k] = held[k]
      /\ \A k \in DOMAIN held' \ DOMAIN held:
             /\ k = calls[p].sub
             /\ held'[k].sub = calls[p].sub
             /\ held'[k].version = calls[p].version
      /\ outcome = "accepted" => calls[p].sub \in DOMAIN held'
  BY ExchangeHeld
<1>4. CarriesSnapshot'
  BY <1>0, <1>1 DEF GatewayInv, CarriesSnapshot, Carrying
<1>5. \A q \in Processes: Sending(q)' =>
          Sending(q) /\ calls'[q].att = calls[q].att /\ calls'[q].sub = calls[q].sub
  BY <1>1 DEF Sending
<1>6. OwnsAttempt' /\ OwnsAlone'
  BY <1>0, <1>5 DEF GatewayInv, OwnsAttempt, OwnsAlone
<1>7. FiledByKey'
  BY <1>3 DEF GatewayInv, FiledByKey
<1>8. PartnerHoldsSnapshot'
  BY <1>0, <1>2, <1>3 DEF GatewayInv, PartnerHoldsSnapshot
<1>9. ReceiptIsHeld'
  BY <1>1, <1>3 DEF GatewayInv, ReceiptIsHeld, Receipt, IsReceipt
<1>10. ReceiptIsRecorded'
  BY <1>0, <1>1 DEF GatewayInv, ReceiptIsRecorded, Receipt, At
<1>11. NothingSentUnrecorded'
  BY <1>0, <1>2, <1>3 DEF GatewayInv, NothingSentUnrecorded
<1> QED
  BY <1>4, <1>6, <1>7, <1>8, <1>9, <1>10, <1>11 DEF GatewayInv

LEMMA RecordOutcomeInv ==
    ASSUME TypeOK, GatewayInv, NEW p \in Processes, RecordOutcome(p)
    PROVE  GatewayInv'
<1> USE DEF RecordOutcome, appVars, envVars, queueVars
<1> DEFINE att == calls[p].att
<1>1. /\ \A q \in Processes: q # p => calls'[q] = calls[q]
      /\ calls'[p].step = "recorded" /\ calls[p].step = "answered"
      /\ calls'[p].sub = calls[p].sub /\ calls'[p].att = att
      /\ calls'[p].version = calls[p].version
      /\ calls'[p].outcome = calls[p].outcome
  BY DEF TypeOK, Goto, At, Call
<1>2. att \in DOMAIN attempts /\ attempts[att].state = "in_flight"
  BY <1>1 DEF GatewayInv, OwnsAttempt, Sending
<1>3. /\ DOMAIN attempts' = DOMAIN attempts
      /\ \A n \in DOMAIN attempts: n # att => attempts'[n] = attempts[n]
      /\ attempts'[att].sub = attempts[att].sub
      /\ attempts'[att].state = RecordedState(calls[p].outcome, att)
      /\ IsReceipt(calls[p].outcome) => attempts'[att].ref = calls[p].sub
  BY <1>2 DEF TypeOK, Attempt, PartnerKey
<1>4. IsReceipt(calls[p].outcome) => attempts'[att].state = "accepted"
  BY <1>3 DEF IsReceipt, RecordedState, Exhausted
<1>5. CarriesSnapshot'
  BY <1>1 DEF GatewayInv, CarriesSnapshot, Carrying
<1>6. OwnsAttempt' /\ OwnsAlone'
  <2>1. \A q \in Processes: Sending(q)' => q # p /\ Sending(q) /\ calls[q].att # att
    BY <1>1 DEF GatewayInv, OwnsAlone, Sending
  <2>2. ASSUME NEW q \in Processes, Sending(q)'
        PROVE  /\ calls'[q] = calls[q]
               /\ attempts'[calls[q].att] = attempts[calls[q].att]
               /\ calls[q].att \in DOMAIN attempts
               /\ attempts[calls[q].att].sub = calls[q].sub
               /\ attempts[calls[q].att].state = "in_flight"
    <3>1. q # p /\ Sending(q) /\ calls[q].att # att
      BY <2>1, <2>2
    <3>2. /\ calls[q].att \in DOMAIN attempts
          /\ attempts[calls[q].att].sub = calls[q].sub
          /\ attempts[calls[q].att].state = "in_flight"
      BY <3>1 DEF GatewayInv, OwnsAttempt
    <3> HIDE DEF RecordOutcome
    <3>3. calls'[q] = calls[q]
      BY <1>1, <3>1
    <3>4. attempts'[calls[q].att] = attempts[calls[q].att]
      BY <1>3, <3>1, <3>2
    <3> QED
      BY <3>2, <3>3, <3>4
  <2> HIDE DEF RecordOutcome
  <2>3. OwnsAttempt'
    BY <1>3, <2>2 DEF OwnsAttempt
  <2>4. OwnsAlone'
    BY <2>1, <2>2 DEF GatewayInv, OwnsAlone
  <2> QED
    BY <2>3, <2>4
<1>7. FiledByKey' /\ PartnerHoldsSnapshot'
  BY DEF GatewayInv, FiledByKey, PartnerHoldsSnapshot
<1>8. ReceiptIsHeld'
  BY <1>1 DEF GatewayInv, ReceiptIsHeld, Receipt
<1>9. ReceiptIsRecorded'
  <2> SUFFICES ASSUME NEW q \in Processes, Receipt(q)', At(q, "recorded")'
               PROVE  /\ calls'[q].att \in DOMAIN attempts'
                      /\ attempts'[calls'[q].att].state = "accepted"
                      /\ attempts'[calls'[q].att].ref = calls'[q].sub
    BY DEF ReceiptIsRecorded
  <2>1. CASE q = p
    BY <1>1, <1>2, <1>3, <1>4, <2>1 DEF Receipt
  <2>2. CASE q # p
    <3>1. /\ calls'[q] = calls[q]
          /\ calls[q].att \in DOMAIN attempts
          /\ attempts[calls[q].att].state = "accepted"
          /\ attempts[calls[q].att].ref = calls[q].sub
      BY <1>1, <2>2 DEF GatewayInv, ReceiptIsRecorded, Receipt, At
    <3> QED
      BY <1>2, <1>3, <3>1
  <2> QED
    BY <2>1, <2>2
<1>10. NothingSentUnrecorded'
  BY <1>3 DEF GatewayInv, NothingSentUnrecorded
<1> QED
  BY <1>5, <1>6, <1>7, <1>8, <1>9, <1>10 DEF GatewayInv

LEMMA ConfirmInv ==
    ASSUME TypeOK, GatewayInv, NEW p \in Processes, Confirm(p)
    PROVE  GatewayInv'
<1>1. CASE Throws(p)
  BY <1>1, ThrowsSendsNothing, SendsNothingKeepsInv
<1>2. CASE ~Throws(p)
  <2>1. /\ UNCHANGED <<snapshots, attempts, held>>
        /\ externalRef' = calls[p].sub
        /\ Goto(p, "returning")
        /\ Receipt(p) /\ At(p, "recorded")
    BY <1>2 DEF Confirm, PartnerKey, Receipt, At
  <2>2. /\ \A q \in Processes: q # p => calls'[q] = calls[q]
        /\ calls'[p].step = "returning"
    BY <2>1 DEF TypeOK, Goto, Call
  <2>3. CarriesSnapshot'
    BY <2>1, <2>2 DEF GatewayInv, CarriesSnapshot, Carrying
  <2>4. OwnsAttempt' /\ OwnsAlone'
    BY <2>1, <2>2 DEF GatewayInv, OwnsAttempt, OwnsAlone, Sending
  <2>5. FiledByKey' /\ PartnerHoldsSnapshot' /\ NothingSentUnrecorded'
    BY <2>1 DEF GatewayInv, FiledByKey, PartnerHoldsSnapshot, NothingSentUnrecorded
  <2>6. ReceiptIsHeld' /\ ReceiptIsRecorded'
    BY <2>1, <2>2 DEF GatewayInv, ReceiptIsHeld, ReceiptIsRecorded, Receipt, At
  <2> QED
    BY <2>3, <2>4, <2>5, <2>6 DEF GatewayInv
<1> QED
  BY <1>1, <1>2

LEMMA EnvironmentSendsNothing ==
    ASSUME Environment
    PROVE  SendsNothing
BY DEF Environment, RecordConsents, Withdraw, RespondToOffer, CompleteTask, PortalMove,
   ReviewRequirement, SetConnectorEnabled, Quarantine, SendsNothing, appVars, envVars

LEMMA StartSendsNothing ==
    ASSUME TypeOK, NEW p \in Requests, Start(p)
    PROVE  SendsNothing
<1>1. p \in Processes
  BY DEF Processes
<1>2. UNCHANGED <<attempts, held, externalRef, snapshots>>
  BY DEF Start, MarkReadyRead, SubmitCheck, appVars
<1>3. /\ \A q \in Processes: q # p => calls'[q] = calls[q]
      /\ calls'[p].step \in {"acknowledging", "checked"}
  <2>1. CASE MarkReadyRead(p)
    BY <1>1, <2>1 DEF MarkReadyRead, TypeOK, Idle
  <2>2. CASE SubmitCheck(p)
    BY <1>1, <2>2 DEF SubmitCheck, TypeOK, Idle
  <2> QED
    BY <2>1, <2>2 DEF Start
<1>4. ~Carrying(p)'
  BY <1>3 DEF Carrying
<1> QED
  BY <1>2, <1>3, <1>4 DEF SendsNothing

LEMMA RunJobSendsNothing ==
    ASSUME TypeOK, NEW w \in Workers, RunJob(w)
    PROVE  SendsNothing
<1> PICK job \in jobs: RetryNoop(w, job) \/ RetryRefused(w, job) \/ RetryStart(w, job)
  BY DEF RunJob
<1>1. CASE RetryNoop(w, job) \/ RetryRefused(w, job)
  BY <1>1 DEF RetryNoop, RetryRefused, SendsNothing, appVars
<1>2. CASE RetryStart(w, job)
  <2>1. UNCHANGED <<attempts, held, externalRef, snapshots>> /\ job.sub \in DOMAIN snapshots
    BY <1>2 DEF RetryStart, appVars
  <2>2. w \in Processes
    BY DEF Processes
  <2>3. /\ \A q \in Processes: q # w => calls'[q] = calls[q]
        /\ calls'[w].step = "dispatching" /\ calls'[w].sub = job.sub
        /\ calls'[w].version = snapshots[job.sub]
    BY <1>2, <2>2 DEF RetryStart, RetryPayload, TypeOK, Idle
  <2>4. CarriesOnly(w)
    BY <2>1, <2>3 DEF CarriesOnly
  <2> QED
    BY <2>1, <2>3, <2>4 DEF SendsNothing
<1> QED
  BY <1>1, <1>2

LEMMA SubmitSendsNothing ==
    ASSUME TypeOK, GatewayInv, NEW p \in Processes,
           SubmitCount(p) \/ SubmitSnapshot(p) \/ SubmitMove(p)
    PROVE  SendsNothing
<1>1. CASE SubmitCount(p)
  <2>1. UNCHANGED <<attempts, held, externalRef, snapshots>>
    BY <1>1 DEF SubmitCount, appVars
  <2>2. CASE documentsClean
    <3>1. /\ \A q \in Processes: q # p => calls'[q] = calls[q]
          /\ calls'[p].step = "counted"
      BY <1>1, <2>2 DEF SubmitCount, TypeOK, Call
    <3>2. ~Carrying(p)'
      BY <3>1 DEF Carrying
    <3> QED
      BY <2>1, <3>1, <3>2 DEF SendsNothing
  <2>3. CASE ~documentsClean
    BY <1>1, <2>1, <2>3, FinishSendsNothing DEF SubmitCount
  <2> QED
    BY <2>2, <2>3
<1>2. CASE SubmitSnapshot(p)
  <2>1. UNCHANGED <<attempts, held, externalRef>>
    BY <1>2 DEF SubmitSnapshot, appVars
  <2>2. CASE SnapshotFree(calls[p].sub)
    <3>1. Goto(p, "snapshotted") /\ calls[p].sub \notin DOMAIN snapshots
          /\ snapshots' = Extend(snapshots, calls[p].sub, calls[p].version)
      BY <1>2, <2>2 DEF SubmitSnapshot, SnapshotFree
    <3>2. /\ \A q \in Processes: q # p => calls'[q] = calls[q]
          /\ calls'[p].step = "snapshotted" /\ calls'[p].sub = calls[p].sub
          /\ calls'[p].version = calls[p].version
      BY <3>1 DEF Goto, TypeOK, Call
    <3>3. /\ calls[p].sub \in DOMAIN snapshots'
          /\ snapshots'[calls[p].sub] = calls[p].version
          /\ \A s \in DOMAIN snapshots: s \in DOMAIN snapshots' /\ snapshots'[s] = snapshots[s]
      BY <3>1 DEF Extend
    <3>4. CarriesOnly(p)
      BY <3>2, <3>3 DEF CarriesOnly
    <3> QED
      BY <2>1, <3>2, <3>3, <3>4 DEF SendsNothing
  <2>3. CASE ~SnapshotFree(calls[p].sub)
    BY <1>2, <2>1, <2>3, FinishSendsNothing DEF SubmitSnapshot
  <2> QED
    BY <2>2, <2>3
<1>3. CASE SubmitMove(p)
  <2>1. UNCHANGED <<attempts, held, externalRef, snapshots>> /\ At(p, "snapshotted")
    BY <1>3 DEF SubmitMove
  <2>2. CASE Goto(p, "dispatching")
    <3>1. /\ \A q \in Processes: q # p => calls'[q] = calls[q]
          /\ calls'[p].step = "dispatching" /\ calls'[p].sub = calls[p].sub
          /\ calls'[p].version = calls[p].version
      BY <2>2 DEF Goto, TypeOK, Call
    <3>2. calls[p].sub \in DOMAIN snapshots /\ calls[p].version = snapshots[calls[p].sub]
      BY <2>1 DEF GatewayInv, CarriesSnapshot, Carrying, At
    <3>3. CarriesOnly(p)
      BY <2>1, <3>1, <3>2 DEF CarriesOnly
    <3> QED
      BY <2>1, <3>1, <3>3 DEF SendsNothing
  <2>3. CASE Finish(p)
    BY <2>1, <2>3, FinishSendsNothing
  <2> QED
    BY <1>3, <2>2, <2>3 DEF SubmitMove
<1> QED
  BY <1>1, <1>2, <1>3

LEMMA AfterwardsSendsNothing ==
    ASSUME TypeOK, NEW p \in Processes,
           \/ MarkReadyWrite(p)
           \/ DispatchRefused(p)
           \/ Reject(p)
           \/ DeadLetter(p)
           \/ ScheduleRetry(p)
           \/ AwaitPartner(p)
           \/ Return(p)
           \/ Crash(p)
    PROVE  SendsNothing
<1>1. CASE Throws(p)
  BY <1>1, ThrowsSendsNothing
<1>2. CASE ~Throws(p)
  <2>1. UNCHANGED <<attempts, held, externalRef, snapshots>>
    BY <1>2 DEF MarkReadyWrite, DispatchRefused, Reject, DeadLetter, ScheduleRetry,
       AwaitPartner, Return, Crash, appVars
  <2>2. Finish(p) \/ Goto(p, "returning")
    BY <1>2 DEF MarkReadyWrite, DispatchRefused, Reject, DeadLetter, ScheduleRetry,
       AwaitPartner, Return, Crash
  <2> QED
    BY <2>1, <2>2, FinishSendsNothing
<1> QED
  BY <1>1, <1>2

LEMMA WriteFailsSendsNothing ==
    ASSUME TypeOK, NEW w \in Workers, WriteFails(w)
    PROVE  SendsNothing
<1>1. w \in Processes /\ Finish(w) /\ UNCHANGED <<attempts, held, externalRef, snapshots>>
  BY DEF WriteFails, Processes, appVars
<1> QED
  BY <1>1, FinishSendsNothing

LEMMA NextInv ==
    ASSUME TypeOK, GatewayInv, [Next]_vars
    PROVE  GatewayInv'
<1>1. CASE SendsNothing
  BY <1>1, SendsNothingKeepsInv
<1>2. CASE \E p \in Requests: Start(p)
  BY <1>1, <1>2, StartSendsNothing
<1>3. CASE \E w \in Workers: RunJob(w)
  BY <1>1, <1>3, RunJobSendsNothing
<1>4. CASE \E p \in Processes: Advance(p) \/ Crash(p)
  <2> PICK p \in Processes: Advance(p) \/ Crash(p)
    BY <1>4
  <2>1. CASE SubmitCount(p) \/ SubmitSnapshot(p) \/ SubmitMove(p)
    BY <1>1, <2>1, SubmitSendsNothing
  <2>2. CASE DispatchOpen(p)
    BY <2>2, DispatchOpenInv
  <2>3. CASE \E outcome \in Outcomes: Exchange(p, outcome)
    BY <2>3, ExchangeInv
  <2>4. CASE RecordOutcome(p)
    BY <2>4, RecordOutcomeInv
  <2>5. CASE Confirm(p)
    BY <2>5, ConfirmInv
  <2> QED
    BY <1>1, <2>1, <2>2, <2>3, <2>4, <2>5, AfterwardsSendsNothing DEF Advance
<1>5. CASE Environment
  BY <1>1, <1>5, EnvironmentSendsNothing
<1>6. CASE UNCHANGED vars
  BY <1>1, <1>6 DEF vars, SendsNothing, appVars
<1>7. CASE \E w \in Workers: WriteFails(w)
  BY <1>1, <1>7, WriteFailsSendsNothing
<1> QED
  BY <1>2, <1>3, <1>4, <1>5, <1>6, <1>7 DEF Next

LEMMA InvCorrect == Spec => []GatewayInv
BY InitInv, NextInv, TypeCorrect, PTL DEF Spec

(* On whichever try it arrives, the university holds the stored snapshot.  *)
THEOREM SnapshotCorrect == Spec => []PartnerHoldsSnapshot
<1>1. GatewayInv => PartnerHoldsSnapshot
  BY DEF GatewayInv
<1> QED
  BY <1>1, InvCorrect, PTL

(* No number of tries, crashes and redeliveries makes two applications of  *)
(* one submission at the university.                                       *)
THEOREM OneApplicationCorrect == Spec => []OneApplicationPerSubmission
<1>1. GatewayInv => OneApplicationPerSubmission
  BY DEF GatewayInv, FiledByKey, OneApplicationPerSubmission
<1> QED
  BY <1>1, InvCorrect, PTL

(* Whatever the university holds, an attempt row says so.                  *)
THEOREM NothingUnrecordedCorrect == Spec => []NothingSentUnrecorded
<1>1. GatewayInv => NothingSentUnrecorded
  BY DEF GatewayInv
<1> QED
  BY <1>1, InvCorrect, PTL

RowsFinal ==
    \A n \in DOMAIN attempts:
        /\ n \in DOMAIN attempts'
        /\ attempts'[n].sub = attempts[n].sub
        /\ attempts[n].state # "in_flight" => attempts'[n] = attempts[n]

LEMMA RowsFinalStep ==
    ASSUME TypeOK, GatewayInv, Next
    PROVE  RowsFinal
<1>1. CASE UNCHANGED attempts
  BY <1>1 DEF RowsFinal
<1>2. CASE SendsNothing
  BY <1>1, <1>2 DEF SendsNothing
<1>3. ASSUME NEW p \in Processes, DispatchOpen(p)
      PROVE  RowsFinal
  BY <1>3 DEF DispatchOpen, AttemptFree, WithOpenedRow, Extend, RowsFinal
<1>4. ASSUME NEW p \in Processes, RecordOutcome(p)
      PROVE  RowsFinal
  <2>1. attempts[calls[p].att].state = "in_flight"
    BY <1>4 DEF RecordOutcome, At, GatewayInv, OwnsAttempt, Sending
  <2>2. /\ DOMAIN attempts' = DOMAIN attempts
        /\ \A n \in DOMAIN attempts: n # calls[p].att => attempts'[n] = attempts[n]
        /\ \A n \in DOMAIN attempts: attempts'[n].sub = attempts[n].sub
    BY <1>4 DEF RecordOutcome, TypeOK, Attempt
  <2> QED
    BY <2>1, <2>2 DEF RowsFinal
<1>5. CASE Environment
  BY <1>2, <1>5, EnvironmentSendsNothing
<1>6. ASSUME NEW p \in Requests, Start(p)
      PROVE  RowsFinal
  BY <1>2, <1>6, StartSendsNothing
<1>7. ASSUME NEW w \in Workers, RunJob(w)
      PROVE  RowsFinal
  BY <1>2, <1>7, RunJobSendsNothing
<1>9. ASSUME NEW w \in Workers, WriteFails(w)
      PROVE  RowsFinal
  BY <1>2, <1>9, WriteFailsSendsNothing
<1>8. ASSUME NEW p \in Processes, Advance(p) \/ Crash(p)
      PROVE  RowsFinal
  <2>1. CASE SubmitCount(p) \/ SubmitSnapshot(p) \/ SubmitMove(p)
    BY <1>2, <2>1, SubmitSendsNothing
  <2>2. CASE Confirm(p)
    BY <1>1, <1>2, <2>2, ThrowsSendsNothing DEF Confirm
  <2>3. CASE \E outcome \in Outcomes: Exchange(p, outcome)
    BY <1>1, <2>3 DEF Exchange
  <2> QED
    BY <1>2, <1>3, <1>4, <1>8, <2>1, <2>2, <2>3, AfterwardsSendsNothing DEF Advance
<1> QED
  BY <1>3, <1>4, <1>5, <1>6, <1>7, <1>8, <1>9 DEF Next

(* An attempt row is rewritten only by the call that opened it, once: no   *)
(* redelivered job or late retry rewrites evidence.                        *)
THEOREM OutcomeFinal == Spec => OutcomeIsFinal
<1>1. TypeOK /\ GatewayInv /\ [Next]_vars => [RowsFinal]_vars
  BY RowsFinalStep
<1>2. Spec => [][RowsFinal]_vars
  BY <1>1, TypeCorrect, InvCorrect, PTL DEF Spec
<1> QED
  BY <1>2 DEF OutcomeIsFinal, RowsFinal

(* Only Confirm writes the reference, and only one with evidence; what the *)
(* university holds it goes on holding.                                    *)
EvidenceOf(ref) ==
    /\ ref \in DOMAIN held
    /\ \E n \in DOMAIN attempts: attempts[n].state = "accepted" /\ attempts[n].ref = ref

ReferenceStep ==
    /\ DOMAIN held \subseteq DOMAIN held'
    /\ externalRef' = externalRef \/ EvidenceOf(externalRef')

LEMMA NextReference ==
    ASSUME TypeOK, GatewayInv, Next
    PROVE  ReferenceStep
<1>1. CASE SendsNothing
  BY <1>1 DEF SendsNothing, ReferenceStep
<1>2. ASSUME NEW p \in Processes, Advance(p) \/ Crash(p)
      PROVE  ReferenceStep
  <2>1. CASE SubmitCount(p) \/ SubmitSnapshot(p) \/ SubmitMove(p)
    BY <1>1, <2>1, SubmitSendsNothing
  <2>2. CASE \E outcome \in Outcomes: Exchange(p, outcome)
    <3>1. PICK outcome \in Outcomes: Exchange(p, outcome)
      BY <2>2
    <3>2. DOMAIN held \subseteq DOMAIN held'
      BY <3>1, ExchangeHeld
    <3> QED
      BY <3>1, <3>2 DEF Exchange, appVars, ReferenceStep
  <2>3. CASE Confirm(p)
    <3>1. CASE Throws(p)
      BY <1>1, <3>1, ThrowsSendsNothing
    <3>2. CASE ~Throws(p)
      <4>1. externalRef' = calls[p].sub /\ UNCHANGED held /\ Receipt(p) /\ At(p, "recorded")
        BY <2>3, <3>2 DEF Confirm, PartnerKey, Receipt, At
      <4>2. EvidenceOf(calls[p].sub)
        BY <4>1 DEF GatewayInv, ReceiptIsHeld, ReceiptIsRecorded, EvidenceOf
      <4> QED
        BY <4>1, <4>2 DEF ReferenceStep
    <3> QED
      BY <3>1, <3>2
  <2>4. CASE DispatchOpen(p) \/ RecordOutcome(p)
    BY <2>4 DEF DispatchOpen, RecordOutcome, appVars, ReferenceStep
  <2> QED
    BY <1>1, <1>2, <2>1, <2>2, <2>3, <2>4, AfterwardsSendsNothing DEF Advance
<1> QED
  BY <1>1, <1>2, StartSendsNothing, RunJobSendsNothing, WriteFailsSendsNothing,
     EnvironmentSendsNothing DEF Next

(* A reference on the application is one the university issued for an      *)
(* application it holds, with an accepted attempt row as evidence.         *)
THEOREM EvidenceCorrect == Spec => []EvidenceForReference
<1>1. Init => EvidenceForReference
  BY DEF Init, EvidenceForReference
<1>2. TypeOK /\ GatewayInv /\ EvidenceForReference /\ [Next]_vars => EvidenceForReference'
  <2> SUFFICES ASSUME TypeOK, GatewayInv, EvidenceForReference, Next
               PROVE  EvidenceForReference'
    BY DEF EvidenceForReference, vars, appVars
  <2>1. RowsFinal /\ ReferenceStep
    BY RowsFinalStep, NextReference
  <2> QED
    BY <2>1 DEF RowsFinal, ReferenceStep, EvidenceOf, EvidenceForReference
<1> QED
  BY <1>1, <1>2, TypeCorrect, InvCorrect, PTL DEF Spec

(***************************************************************************)
(* The attempt budget                                                      *)
(***************************************************************************)

LEMMA TriesMembers ==
    /\ \A n \in DOMAIN attempts: [sub |-> attempts[n].sub, att |-> n] \in Tries
    /\ \A job \in jobs: TryOf(job) \in Tries
    /\ \A p \in Processes: Trying(p) => TryOf(calls[p]) \in Tries
BY DEF Tries

(* A step makes no try but those there were: rows keep their submission,   *)
(* and every job and call that is there afterwards was a try before.       *)
NoNewTry ==
    /\ \A s \in DOMAIN snapshots: s \in DOMAIN snapshots'
    /\ \A n \in DOMAIN attempts': [sub |-> attempts'[n].sub, att |-> n] \in Tries
    /\ \A job \in jobs': TryOf(job) \in Tries
    /\ \A p \in Processes: Trying(p)' => TryOf(calls'[p]) \in Tries
    /\ \A w \in Workers: At(w, "idle")' \/ Trying(w)'

LEMMA NoNewTryKeepsBudget ==
    ASSUME BudgetInv, NoNewTry
    PROVE  BudgetInv'
<1>1. Tries' \subseteq Tries
  BY DEF NoNewTry, Tries, TryOf
<1>2. TriesHaveSnapshot'
  BY <1>1 DEF BudgetInv, TriesHaveSnapshot, NoNewTry
<1>3. TriesInBudget'
  BY <1>1 DEF BudgetInv, TriesInBudget
<1>4. WorkersTry'
  BY DEF NoNewTry, WorkersTry
<1> QED
  BY <1>2, <1>3, <1>4 DEF BudgetInv

(* Most steps move at most one call, which stays on its try or ends it,    *)
(* and leave the rows and the jobs alone or put that call's job back.      *)
LEMMA OneCallMoves ==
    ASSUME TypeOK, BudgetInv, NEW p \in Processes,
           \A n \in DOMAIN attempts': [sub |-> attempts'[n].sub, att |-> n] \in Tries,
           \A s \in DOMAIN snapshots: s \in DOMAIN snapshots',
           \A job \in jobs': TryOf(job) \in Tries,
           \A q \in Processes: q # p => calls'[q] = calls[q],
           At(p, "idle")' \/ (Trying(p)' /\ TryOf(calls'[p]) \in Tries)
               \/ (p \notin Workers /\ ~Trying(p)')
    PROVE  BudgetInv'
<1>1. \A q \in Processes: q # p =>
          /\ Trying(q)' => Trying(q) /\ TryOf(calls'[q]) = TryOf(calls[q])
          /\ Trying(q) => Trying(q)'
          /\ At(q, "idle") => At(q, "idle")'
  BY DEF Trying, Carrying, At, TryOf
<1>2. \A q \in Processes: Trying(q)' => TryOf(calls'[q]) \in Tries
  BY <1>1, TriesMembers DEF Trying, Carrying, At
<1>3. \A w \in Workers: At(w, "idle")' \/ Trying(w)'
  BY <1>1 DEF BudgetInv, WorkersTry, Processes
<1>4. NoNewTry
  BY <1>2, <1>3 DEF NoNewTry
<1> QED
  BY <1>4, NoNewTryKeepsBudget

LEMMA BudgetInit == Init => BudgetInv
<1> SUFFICES ASSUME Init PROVE BudgetInv
  OBVIOUS
<1>1. \A p \in Processes: calls[p].step = "idle"
  BY DEF Init, Idle
<1>2. \A p \in Processes: At(p, "idle") /\ ~Trying(p)
  BY <1>1 DEF At, Trying, Carrying
<1>3. Tries = {}
  BY <1>2 DEF Init, Tries
<1> QED
  BY <1>2, <1>3 DEF BudgetInv, TriesHaveSnapshot, TriesInBudget, WorkersTry, Processes

LEMMA JobFailsTries ==
    ASSUME TypeOK, NEW job \in Job, TryOf(job) \in Tries, NEW waiting \in SUBSET jobs,
           JobFails(job, waiting)
    PROVE  \A j \in jobs': TryOf(j) \in Tries
<1>1. TryOf([job EXCEPT !.tries = @ + 1]) = TryOf(job)
  BY DEF TryOf, Job
<1>2. jobs' \subseteq waiting \cup {[job EXCEPT !.tries = @ + 1]}
  BY DEF JobFails
<1> QED
  BY <1>1, <1>2, TriesMembers

LEMMA ThrowsBudget ==
    ASSUME TypeOK, BudgetInv, NEW p \in Processes, Trying(p), Throws(p)
    PROVE  BudgetInv'
<1>1. /\ Finish(p) /\ UNCHANGED <<attempts, snapshots>>
      /\ p \in Workers => JobFails(JobOf(p), jobs)
      /\ p \notin Workers => jobs' = jobs
  BY DEF Throws, queueVars
<1>2. JobOf(p) \in Job /\ TryOf(JobOf(p)) \in Tries
  <2>1. TryOf(JobOf(p)) = TryOf(calls[p])
    BY DEF TryOf, JobOf
  <2> QED
    BY <2>1, JobOfType, TriesMembers
<1>3. \A job \in jobs': TryOf(job) \in Tries
  BY <1>1, <1>2, JobFailsTries, TriesMembers
<1>4. At(p, "idle")' /\ \A q \in Processes: q # p => calls'[q] = calls[q]
  BY <1>1 DEF Finish, TypeOK, Idle, At
<1>5. \A n \in DOMAIN attempts': [sub |-> attempts'[n].sub, att |-> n] \in Tries
  BY <1>1, TriesMembers
<1> QED
  BY <1>1, <1>3, <1>4, <1>5, OneCallMoves

(* A call that goes on to a later step of the same try.                    *)
LEMMA GotoBudget ==
    ASSUME TypeOK, BudgetInv, NEW p \in Processes, Trying(p),
           UNCHANGED snapshots,
           \A n \in DOMAIN attempts': [sub |-> attempts'[n].sub, att |-> n] \in Tries,
           \A job \in jobs': TryOf(job) \in Tries,
           \/ Finish(p)
           \/ \E step \in {"dispatching", "calling", "answered", "recorded", "returning"},
                 outcome \in OutcomeStatus \cup {"none"}:
                 \/ Goto(p, step)
                 \/ calls' = [calls EXCEPT ![p].step = step, ![p].outcome = outcome]
    PROVE  BudgetInv'
<1>1. \A q \in Processes: q # p => calls'[q] = calls[q]
  BY DEF TypeOK, Finish, Goto
<1>2. CASE Finish(p)
  <2>1. At(p, "idle")'
    BY <1>2 DEF TypeOK, Finish, Idle, At
  <2> QED
    BY <1>1, <2>1, OneCallMoves
<1>3. CASE ~Finish(p)
  <2>1. /\ calls'[p].step \in {"dispatching", "calling", "answered", "recorded", "returning"}
        /\ calls'[p].sub = calls[p].sub /\ calls'[p].att = calls[p].att
    BY <1>3 DEF TypeOK, Goto, Call
  <2>2. Trying(p)' /\ TryOf(calls'[p]) = TryOf(calls[p])
    BY <2>1 DEF Trying, Carrying, At, TryOf
  <2> QED
    BY <1>1, <2>2, TriesMembers, OneCallMoves
<1> QED
  BY <1>2, <1>3

LEMMA StartBudget ==
    ASSUME TypeOK, BudgetInv, NEW p \in Processes \ Workers,
           \/ MarkReadyRead(p)
           \/ SubmitCheck(p)
           \/ MarkReadyWrite(p)
           \/ SubmitCount(p)
    PROVE  BudgetInv'
<1>1. UNCHANGED <<attempts, snapshots, jobs>>
  BY DEF MarkReadyRead, SubmitCheck, MarkReadyWrite, SubmitCount, queueVars
<1>2. /\ \A q \in Processes: q # p => calls'[q] = calls[q]
      /\ calls'[p].step \in {"idle", "acknowledging", "checked", "counted"}
  <2>1. CASE MarkReadyRead(p)
    BY <2>1 DEF MarkReadyRead, TypeOK, Idle
  <2>2. CASE SubmitCheck(p)
    BY <2>2 DEF SubmitCheck, TypeOK, Idle
  <2>3. CASE MarkReadyWrite(p)
    BY <2>3 DEF MarkReadyWrite, TypeOK, Finish, Idle
  <2>4. CASE SubmitCount(p)
    BY <2>4 DEF SubmitCount, TypeOK, Finish, Idle, Call
  <2> QED
    BY <2>1, <2>2, <2>3, <2>4
<1>3. ~Trying(p)'
  BY <1>2 DEF Trying, Carrying, At
<1> QED
  BY <1>1, <1>2, <1>3, TriesMembers, OneCallMoves

(* The first try of a submission: nothing has its number yet.              *)
LEMMA SubmitSnapshotBudget ==
    ASSUME TypeOK, BudgetInv, NEW p \in Processes \ Workers, SubmitSnapshot(p)
    PROVE  BudgetInv'
<1>1. UNCHANGED <<attempts, jobs>>
  BY DEF SubmitSnapshot, queueVars
<1>2. CASE ~SnapshotFree(calls[p].sub)
  <2>1. Finish(p) /\ UNCHANGED snapshots
    BY <1>2 DEF SubmitSnapshot
  <2>2. At(p, "idle")' /\ \A q \in Processes: q # p => calls'[q] = calls[q]
    BY <2>1 DEF TypeOK, Finish, Idle, At
  <2> QED
    BY <1>1, <2>1, <2>2, TriesMembers, OneCallMoves
<1>3. CASE SnapshotFree(calls[p].sub)
  <2> DEFINE try == TryOf(calls[p])
  <2>1. /\ calls[p].sub \notin DOMAIN snapshots
        /\ DOMAIN snapshots' = DOMAIN snapshots \cup {calls[p].sub}
        /\ Goto(p, "snapshotted")
    BY <1>3 DEF SubmitSnapshot, SnapshotFree, Extend
  <2>2. /\ \A q \in Processes: q # p => calls'[q] = calls[q]
        /\ calls'[p].sub = calls[p].sub /\ calls'[p].att = calls[p].att
    BY <2>1 DEF Goto, TypeOK, Call
  <2>3. \A q \in Processes: Trying(q)' => TryOf(calls'[q]) \in Tries \cup {try}
    <3>1. \A q \in Processes: q # p /\ Trying(q)' => TryOf(calls'[q]) \in Tries
      BY <2>2, TriesMembers DEF Trying, Carrying, At
    <3>2. TryOf(calls'[p]) = try
      BY <2>2 DEF TryOf
    <3> QED
      BY <3>1, <3>2
  <2>4. Tries' \subseteq Tries \cup {try}
    BY <1>1, <2>3, TriesMembers DEF Tries, TryOf
  <2>5. try.sub = calls[p].sub
    BY DEF TryOf
  <2>6. TriesHaveSnapshot'
    BY <2>1, <2>4, <2>5 DEF BudgetInv, TriesHaveSnapshot
  <2>7. TriesInBudget'
    <3>1. \A t \in Tries: t.sub # try.sub
      BY <2>1, <2>5 DEF BudgetInv, TriesHaveSnapshot
    <3> HIDE DEF try
    <3>2. \A t, u \in Tries': t.sub = u.sub /\ t.att # u.att => t.att <= MaxAttempts
      BY <2>4, <3>1 DEF BudgetInv, TriesInBudget
    <3> QED
      BY <3>2 DEF TriesInBudget
  <2>8. WorkersTry'
    BY <2>2 DEF BudgetInv, WorkersTry, Processes, At, Trying, Carrying
  <2> QED
    BY <2>6, <2>7, <2>8 DEF BudgetInv
<1> QED
  BY <1>2, <1>3

(* The next try of a submission: below the limit there is room for one.    *)
LEMMA ScheduleRetryBudget ==
    ASSUME TypeOK, BudgetInv, NEW p \in Processes, ScheduleRetry(p)
    PROVE  BudgetInv'
<1> DEFINE job == [sub |-> calls[p].sub, att |-> calls[p].att + 1, tries |-> 0]
           try == TryOf(job)
<1>1. /\ At(p, "recorded") /\ Goto(p, "returning")
      /\ UNCHANGED <<attempts, snapshots>>
      /\ jobs' \subseteq jobs \cup {job}
      /\ ~(calls[p].att >= MaxAttempts)
  BY DEF ScheduleRetry, Exhausted, queueVars
<1>2. /\ \A q \in Processes: q # p => calls'[q] = calls[q]
      /\ calls'[p].sub = calls[p].sub /\ calls'[p].att = calls[p].att
      /\ calls'[p].step = "returning" /\ calls[p].step = "recorded"
  BY <1>1 DEF TypeOK, Goto, Call, At
<1>3. TryOf(calls[p]) \in Tries /\ TryOf(calls'[p]) = TryOf(calls[p])
  BY <1>2, TriesMembers DEF Trying, Carrying, TryOf
<1>4. \A q \in Processes: Trying(q)' => TryOf(calls'[q]) \in Tries
  BY <1>2, <1>3, TriesMembers DEF Trying, Carrying, At
<1>5. \A j \in jobs': TryOf(j) \in Tries \cup {try}
  BY <1>1, TriesMembers
<1>6. Tries' \subseteq Tries \cup {try}
  <2> HIDE DEF try
  <2> QED
    BY <1>1, <1>4, <1>5, TriesMembers DEF Tries
<1>7. /\ try.sub = calls[p].sub /\ try.att = calls[p].att + 1
      /\ TryOf(calls[p]).sub = calls[p].sub /\ TryOf(calls[p]).att = calls[p].att
  BY DEF TryOf
<1>8. calls[p].att \in Nat /\ MaxAttempts \in Nat
  BY NumberAssumption DEF TypeOK, Call
<1>9. try.att <= MaxAttempts /\ calls[p].att <= MaxAttempts
  BY <1>1, <1>7, <1>8
<1> HIDE DEF try
<1>10. TriesHaveSnapshot'
  BY <1>1, <1>3, <1>6, <1>7 DEF BudgetInv, TriesHaveSnapshot
<1>11. TriesInBudget'
  <2>1. \A u \in Tries: u.sub = try.sub => u.att <= MaxAttempts
    BY <1>3, <1>7, <1>9 DEF BudgetInv, TriesInBudget
  <2>2. \A t, u \in Tries': t.sub = u.sub /\ t.att # u.att => t.att <= MaxAttempts
    BY <1>6, <1>9, <2>1 DEF BudgetInv, TriesInBudget
  <2> QED
    BY <2>2 DEF TriesInBudget
<1>12. WorkersTry'
  <2>1. Trying(p)'
    BY <1>2 DEF Trying, At
  <2> QED
    BY <1>2, <2>1 DEF BudgetInv, WorkersTry, Processes, At, Trying, Carrying
<1> QED
  BY <1>10, <1>11, <1>12 DEF BudgetInv

LEMMA TryingStepBudget ==
    ASSUME TypeOK, BudgetInv, NEW p \in Processes, Trying(p),
           \/ SubmitMove(p)
           \/ DispatchOpen(p)
           \/ \E outcome \in Outcomes: Exchange(p, outcome)
           \/ RecordOutcome(p)
           \/ DeadLetter(p)
           \/ AwaitPartner(p)
           \/ Return(p)
    PROVE  BudgetInv'
<1>1. UNCHANGED <<snapshots, jobs>>
  BY DEF SubmitMove, DispatchOpen, Exchange, RecordOutcome, DeadLetter, AwaitPartner,
     Return, queueVars
<1>2. \A job \in jobs': TryOf(job) \in Tries
  BY <1>1, TriesMembers
<1>3. \A n \in DOMAIN attempts': [sub |-> attempts'[n].sub, att |-> n] \in Tries
  <2>1. CASE UNCHANGED attempts
    BY <2>1, TriesMembers
  <2>2. CASE DispatchOpen(p)
    <3>1. /\ DOMAIN attempts' = DOMAIN attempts \cup {calls[p].att}
          /\ attempts'[calls[p].att].sub = calls[p].sub
          /\ \A n \in DOMAIN attempts: n # calls[p].att => attempts'[n] = attempts[n]
      BY <2>2 DEF DispatchOpen, WithOpenedRow, Extend
    <3>2. [sub |-> calls[p].sub, att |-> calls[p].att] \in Tries
      BY TriesMembers DEF TryOf
    <3> QED
      BY <3>1, <3>2, TriesMembers
  <2>3. CASE RecordOutcome(p)
    <3>1. /\ DOMAIN attempts' = DOMAIN attempts
          /\ \A n \in DOMAIN attempts: attempts'[n].sub = attempts[n].sub
      BY <2>3 DEF RecordOutcome, TypeOK, Attempt
    <3> QED
      BY <3>1, TriesMembers
  <2> QED
    BY <2>1, <2>2, <2>3 DEF SubmitMove, Exchange, DeadLetter, AwaitPartner, Return
<1>4. \/ Finish(p)
      \/ \E step \in {"dispatching", "calling", "answered", "recorded", "returning"},
            outcome \in OutcomeStatus \cup {"none"}:
            \/ Goto(p, step)
            \/ calls' = [calls EXCEPT ![p].step = step, ![p].outcome = outcome]
  <2>1. CASE \E outcome \in Outcomes: Exchange(p, outcome)
    BY <2>1, OutcomeAssumption DEF Exchange
  <2>2. CASE ~(\E outcome \in Outcomes: Exchange(p, outcome))
    BY <2>2 DEF SubmitMove, DispatchOpen, RecordOutcome, DeadLetter, AwaitPartner, Return
  <2> QED
    BY <2>1, <2>2
<1> QED
  BY <1>1, <1>2, <1>3, <1>4, GotoBudget

LEMMA AnswerBudget ==
    ASSUME TypeOK, BudgetInv, NEW p \in Processes, Trying(p),
           DispatchRefused(p) \/ Confirm(p) \/ Reject(p)
    PROVE  BudgetInv'
<1>1. CASE Throws(p)
  BY <1>1, ThrowsBudget
<1>2. CASE ~Throws(p)
  <2>1. UNCHANGED <<snapshots, attempts, jobs>> /\ Goto(p, "returning")
    BY <1>2 DEF DispatchRefused, Confirm, Reject, queueVars
  <2>2. \A job \in jobs': TryOf(job) \in Tries
    BY <2>1, TriesMembers
  <2>3. \A n \in DOMAIN attempts': [sub |-> attempts'[n].sub, att |-> n] \in Tries
    BY <2>1, TriesMembers
  <2> QED
    BY <2>1, <2>2, <2>3, GotoBudget
<1> QED
  BY <1>1, <1>2

LEMMA AdvanceBudget ==
    ASSUME TypeOK, BudgetInv, NEW p \in Processes, Advance(p)
    PROVE  BudgetInv'
<1>1. Trying(p) \/ p \notin Workers
  <2>1. ~At(p, "idle")
    BY DEF Advance, MarkReadyWrite, SubmitCount, SubmitSnapshot, SubmitMove,
       DispatchRefused, DispatchOpen, Exchange, RecordOutcome, Confirm, Reject,
       DeadLetter, ScheduleRetry, AwaitPartner, Return, At
  <2> QED
    BY <2>1 DEF BudgetInv, WorkersTry
<1>2. CASE MarkReadyWrite(p) \/ SubmitCount(p)
  <2>1. ~Trying(p)
    BY <1>2 DEF MarkReadyWrite, SubmitCount, Trying, Carrying, At
  <2> QED
    BY <1>1, <1>2, <2>1, StartBudget
<1>3. CASE SubmitSnapshot(p)
  <2>1. ~Trying(p)
    BY <1>3 DEF SubmitSnapshot, Trying, Carrying, At
  <2> QED
    BY <1>1, <1>3, <2>1, SubmitSnapshotBudget
<1>4. CASE ScheduleRetry(p)
  BY <1>4, ScheduleRetryBudget
<1>5. CASE SubmitMove(p) \/ DispatchOpen(p) \/ RecordOutcome(p) \/ DeadLetter(p)
           \/ AwaitPartner(p) \/ Return(p) \/ \E outcome \in Outcomes: Exchange(p, outcome)
  <2>1. Trying(p)
    BY <1>5 DEF SubmitMove, DispatchOpen, Exchange, RecordOutcome, DeadLetter,
       AwaitPartner, Return, Trying, Carrying, At
  <2> QED
    BY <1>5, <2>1, TryingStepBudget
<1>6. CASE DispatchRefused(p) \/ Confirm(p) \/ Reject(p)
  <2>1. Trying(p)
    BY <1>6 DEF DispatchRefused, Confirm, Reject, Trying, Carrying, At
  <2> QED
    BY <1>6, <2>1, AnswerBudget
<1> QED
  BY <1>2, <1>3, <1>4, <1>5, <1>6 DEF Advance

LEMMA RunJobBudget ==
    ASSUME TypeOK, BudgetInv, NEW w \in Workers, RunJob(w)
    PROVE  BudgetInv'
<1> PICK job \in jobs: RetryNoop(w, job) \/ RetryRefused(w, job) \/ RetryStart(w, job)
  BY DEF RunJob
<1>0. w \in Processes /\ job \in Job /\ TryOf(job) \in Tries /\ At(w, "idle")
  BY TriesMembers DEF Processes, TypeOK, RetryNoop, RetryRefused, RetryStart
<1>1. UNCHANGED <<snapshots, attempts>>
  BY DEF RetryNoop, RetryRefused, RetryStart
<1>2. \A n \in DOMAIN attempts': [sub |-> attempts'[n].sub, att |-> n] \in Tries
  BY <1>1, TriesMembers
<1>3. CASE RetryNoop(w, job) \/ RetryRefused(w, job)
  <2>1. UNCHANGED calls /\ At(w, "idle")'
    BY <1>0, <1>3 DEF RetryNoop, RetryRefused, At
  <2>2. \A j \in jobs': TryOf(j) \in Tries
    <3>1. CASE RetryNoop(w, job)
      BY <3>1, TriesMembers DEF RetryNoop
    <3>2. CASE RetryRefused(w, job)
      <4>1. JobFails(job, jobs \ {job}) /\ jobs \ {job} \in SUBSET jobs
        BY <3>2 DEF RetryRefused
      <4> QED
        BY <1>0, <4>1, JobFailsTries
    <3> QED
      BY <1>3, <3>1, <3>2
  <2> QED
    BY <1>0, <1>1, <1>2, <2>1, <2>2, OneCallMoves
<1>4. CASE RetryStart(w, job)
  <2>1. /\ \A q \in Processes: q # w => calls'[q] = calls[q]
        /\ calls'[w].step = "dispatching"
        /\ calls'[w].sub = job.sub /\ calls'[w].att = job.att
        /\ jobs' \subseteq jobs
    BY <1>0, <1>4 DEF RetryStart, TypeOK, Idle
  <2>2. Trying(w)' /\ TryOf(calls'[w]) = TryOf(job)
    BY <2>1 DEF Trying, Carrying, TryOf
  <2>3. \A j \in jobs': TryOf(j) \in Tries
    BY <2>1, TriesMembers
  <2> QED
    BY <1>0, <1>1, <1>2, <2>1, <2>2, <2>3, OneCallMoves
<1> QED
  BY <1>3, <1>4

LEMMA CrashBudget ==
    ASSUME TypeOK, BudgetInv, NEW p \in Processes, Crash(p)
    PROVE  BudgetInv'
<1>1. /\ ~At(p, "idle") /\ Finish(p) /\ UNCHANGED <<snapshots, attempts>>
      /\ jobs' = IF p \in Workers THEN jobs \cup {JobOf(p)} ELSE jobs
  BY DEF Crash
<1>2. p \in Workers => Trying(p)
  BY <1>1 DEF BudgetInv, WorkersTry
<1>3. TryOf(JobOf(p)) = TryOf(calls[p])
  BY DEF TryOf, JobOf
<1>4. \A job \in jobs': TryOf(job) \in Tries
  BY <1>1, <1>2, <1>3, TriesMembers
<1>5. At(p, "idle")' /\ \A q \in Processes: q # p => calls'[q] = calls[q]
  BY <1>1 DEF Finish, TypeOK, Idle, At
<1> QED
  BY <1>1, <1>4, <1>5, TriesMembers, OneCallMoves

LEMMA WriteFailsBudget ==
    ASSUME TypeOK, BudgetInv, NEW w \in Workers, WriteFails(w)
    PROVE  BudgetInv'
<1>1. /\ w \in Processes /\ ~At(w, "idle") /\ Finish(w)
      /\ JobFails(JobOf(w), jobs)
      /\ UNCHANGED <<snapshots, attempts>>
  BY DEF WriteFails, Processes
<1>2. Trying(w)
  BY <1>1 DEF BudgetInv, WorkersTry
<1>3. TryOf(JobOf(w)) = TryOf(calls[w])
  BY DEF TryOf, JobOf
<1>4. JobOf(w) \in Job /\ TryOf(JobOf(w)) \in Tries
  BY <1>1, <1>2, <1>3, JobOfType, TriesMembers
<1>5. \A job \in jobs': TryOf(job) \in Tries
  BY <1>1, <1>4, JobFailsTries
<1>6. At(w, "idle")' /\ \A q \in Processes: q # w => calls'[q] = calls[q]
  BY <1>1 DEF Finish, TypeOK, Idle, At
<1>7. \A n \in DOMAIN attempts': [sub |-> attempts'[n].sub, att |-> n] \in Tries
  BY <1>1, TriesMembers
<1> QED
  BY <1>1, <1>5, <1>6, <1>7, OneCallMoves

LEMMA NothingMovesBudget ==
    ASSUME BudgetInv, UNCHANGED <<snapshots, attempts, jobs, calls>>
    PROVE  BudgetInv'
BY DEF BudgetInv, TriesHaveSnapshot, TriesInBudget, WorkersTry, Tries, TryOf, Trying,
   Carrying, At

LEMMA NextBudget ==
    ASSUME TypeOK, BudgetInv, [Next]_vars
    PROVE  BudgetInv'
<1>1. CASE \E p \in Requests: Start(p)
  <2>1. \A p \in Requests: p \in Processes \ Workers
    BY ProcessAssumption DEF Processes
  <2> QED
    BY <1>1, <2>1, StartBudget DEF Start
<1>2. CASE \E w \in Workers: RunJob(w)
  BY <1>2, RunJobBudget
<1>3. CASE \E p \in Processes: Advance(p) \/ Crash(p)
  BY <1>3, AdvanceBudget, CrashBudget
<1>4. CASE Environment
  <2>1. UNCHANGED <<snapshots, attempts, jobs, calls>>
    BY <1>4 DEF Environment, RecordConsents, Withdraw, RespondToOffer, CompleteTask,
       PortalMove, ReviewRequirement, SetConnectorEnabled, Quarantine, queueVars
  <2> QED
    BY <2>1, NothingMovesBudget
<1>5. CASE UNCHANGED vars
  BY <1>5, NothingMovesBudget DEF vars, queueVars
<1>6. CASE \E w \in Workers: WriteFails(w)
  BY <1>6, WriteFailsBudget
<1> QED
  BY <1>1, <1>2, <1>3, <1>4, <1>5, <1>6 DEF Next

LEMMA BudgetHolds == BudgetInv => AttemptBudget
<1> SUFFICES ASSUME BudgetInv, NEW n \in DOMAIN attempts, NEW m \in DOMAIN attempts,
                    attempts[n].sub = attempts[m].sub, n # m
             PROVE  n <= MaxAttempts
  BY DEF AttemptBudget
<1> DEFINE t == [sub |-> attempts[n].sub, att |-> n]
           u == [sub |-> attempts[m].sub, att |-> m]
<1>1. t \in Tries /\ u \in Tries
  BY TriesMembers
<1>2. t.sub = u.sub /\ t.att # u.att => t.att <= MaxAttempts
  BY <1>1 DEF BudgetInv, TriesInBudget
<1> QED
  BY <1>2

(* A submission is tried within the budget, whatever crashes and however   *)
(* many submissions there are: only a try beyond it stands alone.          *)
THEOREM BudgetCorrect == Spec => []AttemptBudget
BY BudgetHolds, BudgetInit, NextBudget, TypeCorrect, PTL DEF Spec

(***************************************************************************)
(* One try at a time                                                       *)
(***************************************************************************)

UnderWay(p) == calls[p].step \in {"calling", "answered", "recorded"}
Made(p) == UnderWay(p) \/ At(p, "returning")
Unmade(x) == x.att \notin DOMAIN attempts

(* The tries of a submission that are under way or still to be made.       *)
OpenTries ==
    {TryOf(job): job \in {j \in jobs: Unmade(j)}}
        \cup {TryOf(calls[p]): p \in {q \in Processes: Carrying(q) /\ Unmade(calls[q])}}
        \cup {TryOf(calls[p]): p \in {q \in Processes: UnderWay(q)}}

(* There is one of a submission at a time; whoever makes it has its row,   *)
(* and has it alone.                                                       *)
OneOpenTry == \A t, u \in OpenTries: t.sub = u.sub => t.att = u.att
MadeHasRow == \A p \in Processes: Made(p) => ~Unmade(calls[p])
UnderWayAlone ==
    \A p, q \in Processes: UnderWay(p) /\ UnderWay(q) /\ p # q => calls[p].att # calls[q].att

AloneInv == OneOpenTry /\ MadeHasRow /\ UnderWayAlone

LEMMA OpenTriesMembers ==
    /\ \A job \in jobs: Unmade(job) => TryOf(job) \in OpenTries
    /\ \A p \in Processes: Carrying(p) /\ Unmade(calls[p]) => TryOf(calls[p]) \in OpenTries
    /\ \A p \in Processes: UnderWay(p) => TryOf(calls[p]) \in OpenTries
BY DEF OpenTries

LEMMA OpenTriesAreTries == OpenTries \subseteq Tries
BY TriesMembers DEF OpenTries, UnderWay, Trying, Carrying

LEMMA AloneInit == Init => AloneInv
<1> SUFFICES ASSUME Init PROVE AloneInv
  OBVIOUS
<1>1. \A p \in Processes: ~Carrying(p) /\ ~UnderWay(p) /\ ~Made(p)
  BY DEF Init, Idle, Carrying, UnderWay, Made, At
<1>2. OpenTries = {}
  BY <1>1 DEF Init, OpenTries
<1> QED
  BY <1>1, <1>2 DEF AloneInv, OneOpenTry, MadeHasRow, UnderWayAlone

(* A step that moves at most one call, and opens no try.                   *)
LEMMA OneCallMovesAlone ==
    ASSUME AloneInv, NEW p \in Processes,
           DOMAIN attempts \subseteq DOMAIN attempts',
           \A q \in Processes: q # p => calls'[q] = calls[q],
           \A job \in jobs': Unmade(job)' => TryOf(job) \in OpenTries,
           (Carrying(p) /\ Unmade(calls[p]))' => TryOf(calls'[p]) \in OpenTries,
           UnderWay(p)' => /\ TryOf(calls'[p]) \in OpenTries
                           /\ \A q \in Processes: q # p /\ UnderWay(q)
                                                      => calls[q].att # calls'[p].att,
           Made(p)' => ~Unmade(calls[p])'
    PROVE  AloneInv'
<1>1. \A q \in Processes: q # p =>
          /\ UnderWay(q)' <=> UnderWay(q)
          /\ Made(q)' <=> Made(q)
          /\ Carrying(q)' <=> Carrying(q)
          /\ Unmade(calls[q])' => Unmade(calls[q])
  BY DEF UnderWay, Made, Carrying, At, Unmade
<1>2. OpenTries' \subseteq OpenTries
  <2>1. \A q \in Processes: (Carrying(q) /\ Unmade(calls[q]))' => TryOf(calls'[q]) \in OpenTries
    BY <1>1, OpenTriesMembers
  <2>2. \A q \in Processes: UnderWay(q)' => TryOf(calls'[q]) \in OpenTries
    BY <1>1, OpenTriesMembers
  <2> QED
    BY <2>1, <2>2 DEF OpenTries, TryOf
<1>3. OneOpenTry'
  BY <1>2 DEF AloneInv, OneOpenTry
<1>4. MadeHasRow'
  BY <1>1 DEF AloneInv, MadeHasRow
<1>5. UnderWayAlone'
  BY <1>1 DEF AloneInv, UnderWayAlone
<1> QED
  BY <1>3, <1>4, <1>5 DEF AloneInv

(* A job put back after its process failed is the try it was.              *)
LEMMA JobBackAlone ==
    ASSUME TypeOK, AloneInv, NEW p \in Processes, Trying(p), UNCHANGED attempts,
           NEW job, TryOf(job) = TryOf(calls[p]), Unmade(job)
    PROVE  TryOf(job) \in OpenTries
<1>1. job.att = calls[p].att
  <2>1. TryOf(job).att = job.att /\ TryOf(calls[p]).att = calls[p].att
    BY DEF TryOf
  <2> QED
    BY <2>1
<1>2. Unmade(calls[p])
  BY <1>1 DEF Unmade
<1>3. Carrying(p)
  BY <1>2 DEF AloneInv, MadeHasRow, Made, Trying
<1> QED
  BY <1>2, <1>3, OpenTriesMembers

LEMMA JobFailsAlone ==
    ASSUME NEW job \in Job, NEW waiting \in SUBSET jobs, JobFails(job, waiting),
           UNCHANGED attempts, Unmade(job) => TryOf(job) \in OpenTries
    PROVE  \A j \in jobs': Unmade(j)' => TryOf(j) \in OpenTries
<1>1. /\ TryOf([job EXCEPT !.tries = @ + 1]) = TryOf(job)
      /\ [job EXCEPT !.tries = @ + 1].att = job.att
  BY DEF TryOf, Job
<1>2. jobs' \subseteq waiting \cup {[job EXCEPT !.tries = @ + 1]}
  BY DEF JobFails
<1> QED
  BY <1>1, <1>2, OpenTriesMembers DEF Unmade

(* A call that ends, and whose job, if it has one, is put back.            *)
LEMMA EndsAlone ==
    ASSUME TypeOK, AloneInv, NEW p \in Processes, Finish(p), UNCHANGED attempts,
           \A job \in jobs': Unmade(job)' => TryOf(job) \in OpenTries
    PROVE  AloneInv'
<1>1. /\ \A q \in Processes: q # p => calls'[q] = calls[q]
      /\ calls'[p].step = "idle"
  BY DEF Finish, TypeOK, Idle
<1>2. ~Carrying(p)' /\ ~UnderWay(p)' /\ ~Made(p)'
  BY <1>1 DEF Carrying, UnderWay, Made, At
<1> QED
  BY <1>1, <1>2, OneCallMovesAlone

LEMMA ThrowsAlone ==
    ASSUME TypeOK, AloneInv, NEW p \in Processes, Trying(p), Throws(p)
    PROVE  AloneInv'
<1>1. /\ Finish(p) /\ UNCHANGED attempts
      /\ p \in Workers => JobFails(JobOf(p), jobs)
      /\ p \notin Workers => jobs' = jobs
  BY DEF Throws, queueVars
<1>2. JobOf(p) \in Job /\ TryOf(JobOf(p)) = TryOf(calls[p])
  BY JobOfType DEF TryOf, JobOf
<1>3. \A job \in jobs': Unmade(job)' => TryOf(job) \in OpenTries
  <2>1. CASE p \in Workers
    BY <1>1, <1>2, <2>1, JobBackAlone, JobFailsAlone
  <2>2. CASE p \notin Workers
    BY <1>1, <2>2, OpenTriesMembers DEF Unmade
  <2> QED
    BY <2>1, <2>2
<1> QED
  BY <1>1, <1>3, EndsAlone

(* A call that has not taken its snapshot yet has no try.                  *)
LEMMA StartAlone ==
    ASSUME TypeOK, AloneInv, NEW p \in Processes,
           \/ MarkReadyRead(p)
           \/ SubmitCheck(p)
           \/ MarkReadyWrite(p)
           \/ SubmitCount(p)
    PROVE  AloneInv'
<1>1. UNCHANGED <<attempts, jobs>>
  BY DEF MarkReadyRead, SubmitCheck, MarkReadyWrite, SubmitCount, queueVars
<1>2. /\ \A q \in Processes: q # p => calls'[q] = calls[q]
      /\ calls'[p].step \in {"idle", "acknowledging", "checked", "counted"}
  <2>1. CASE MarkReadyRead(p)
    BY <2>1 DEF MarkReadyRead, TypeOK, Idle
  <2>2. CASE SubmitCheck(p)
    BY <2>2 DEF SubmitCheck, TypeOK, Idle
  <2>3. CASE MarkReadyWrite(p)
    BY <2>3 DEF MarkReadyWrite, TypeOK, Finish, Idle
  <2>4. CASE SubmitCount(p)
    BY <2>4 DEF SubmitCount, TypeOK, Finish, Idle, Call
  <2> QED
    BY <2>1, <2>2, <2>3, <2>4
<1>3. ~Carrying(p)' /\ ~UnderWay(p)' /\ ~Made(p)'
  BY <1>2 DEF Carrying, UnderWay, Made, At
<1>4. \A job \in jobs': Unmade(job)' => TryOf(job) \in OpenTries
  BY <1>1, OpenTriesMembers DEF Unmade
<1> QED
  BY <1>1, <1>2, <1>3, <1>4, OneCallMovesAlone

(* The first try of a submission: it is the only one.                      *)
LEMMA SubmitSnapshotAlone ==
    ASSUME TypeOK, BudgetInv, AloneInv, NEW p \in Processes, SubmitSnapshot(p)
    PROVE  AloneInv'
<1>1. UNCHANGED <<attempts, jobs>>
  BY DEF SubmitSnapshot, queueVars
<1>2. CASE ~SnapshotFree(calls[p].sub)
  <2>1. Finish(p)
    BY <1>2 DEF SubmitSnapshot
  <2> QED
    BY <1>1, <2>1, EndsAlone, OpenTriesMembers DEF Unmade
<1>3. CASE SnapshotFree(calls[p].sub)
  <2> DEFINE try == TryOf(calls[p])
  <2>1. calls[p].sub \notin DOMAIN snapshots /\ Goto(p, "snapshotted")
    BY <1>3 DEF SubmitSnapshot, SnapshotFree
  <2>2. /\ \A q \in Processes: q # p => calls'[q] = calls[q]
        /\ calls'[p].sub = calls[p].sub /\ calls'[p].att = calls[p].att
        /\ calls'[p].step = "snapshotted"
    BY <2>1 DEF Goto, TypeOK, Call
  <2>3. /\ TryOf(calls'[p]) = try /\ try.sub = calls[p].sub
        /\ ~UnderWay(p)' /\ ~Made(p)'
    BY <2>2 DEF TryOf, UnderWay, Made, At
  <2>4. \A q \in Processes: q # p =>
            /\ Carrying(q)' <=> Carrying(q)
            /\ UnderWay(q)' <=> UnderWay(q)
            /\ Made(q)' <=> Made(q)
            /\ Unmade(calls[q])' <=> Unmade(calls[q])
    BY <1>1, <2>2 DEF Carrying, UnderWay, Made, At, Unmade
  <2>5. OpenTries' \subseteq OpenTries \cup {try}
    <3> HIDE DEF try
    <3>1. \A q \in Processes: (Carrying(q) /\ Unmade(calls[q]))'
                                  => TryOf(calls'[q]) \in OpenTries \cup {try}
      BY <2>2, <2>3, <2>4, OpenTriesMembers
    <3>2. \A q \in Processes: UnderWay(q)' => TryOf(calls'[q]) \in OpenTries
      BY <2>2, <2>3, <2>4, OpenTriesMembers
    <3>3. \A job \in jobs': Unmade(job)' => TryOf(job) \in OpenTries
      BY <1>1, OpenTriesMembers DEF Unmade
    <3> QED
      BY <3>1, <3>2, <3>3 DEF OpenTries, TryOf
  <2>6. OneOpenTry'
    <3>1. \A t \in OpenTries: t.sub # try.sub
      BY <2>1, <2>3, OpenTriesAreTries DEF BudgetInv, TriesHaveSnapshot
    <3> HIDE DEF try
    <3> QED
      BY <2>5, <3>1 DEF AloneInv, OneOpenTry
  <2>7. MadeHasRow' /\ UnderWayAlone'
    BY <2>2, <2>3, <2>4 DEF AloneInv, MadeHasRow, UnderWayAlone
  <2> QED
    BY <2>6, <2>7 DEF AloneInv
<1> QED
  BY <1>2, <1>3

(* The next try of a submission: the one before it is no longer open.      *)
LEMMA ScheduleRetryAlone ==
    ASSUME TypeOK, AloneInv, NEW p \in Processes, ScheduleRetry(p)
    PROVE  AloneInv'
<1> DEFINE job == [sub |-> calls[p].sub, att |-> calls[p].att + 1, tries |-> 0]
           try == TryOf(job)
<1>1. /\ At(p, "recorded") /\ Goto(p, "returning") /\ UNCHANGED attempts
      /\ jobs' \subseteq jobs \cup {job}
  BY DEF ScheduleRetry, queueVars
<1>2. /\ \A q \in Processes: q # p => calls'[q] = calls[q]
      /\ calls'[p].att = calls[p].att /\ calls'[p].step = "returning"
      /\ calls[p].step = "recorded"
  BY <1>1 DEF TypeOK, Goto, Call, At
<1>3. /\ UnderWay(p) /\ ~Unmade(calls[p]) /\ TryOf(calls[p]) \in OpenTries
      /\ ~Carrying(p)' /\ ~UnderWay(p)'
  <2>1. UnderWay(p) /\ ~Carrying(p)' /\ ~UnderWay(p)'
    BY <1>2 DEF UnderWay, Carrying
  <2> QED
    BY <2>1, OpenTriesMembers DEF AloneInv, MadeHasRow, Made
<1>4. \A q \in Processes: q # p =>
          /\ Carrying(q)' <=> Carrying(q)
          /\ UnderWay(q)' <=> UnderWay(q)
          /\ Made(q)' <=> Made(q)
          /\ Unmade(calls[q])' <=> Unmade(calls[q])
  BY <1>1, <1>2 DEF Carrying, UnderWay, Made, At, Unmade
<1>5. /\ TryOf(calls[p]).sub = calls[p].sub /\ TryOf(calls[p]).att = calls[p].att
      /\ try.sub = calls[p].sub
  BY DEF TryOf
<1> DEFINE Others == {t \in OpenTries: t.sub # calls[p].sub}
<1>6. \A t \in OpenTries: t \in Others \/ t.att = calls[p].att
  BY <1>3, <1>5 DEF AloneInv, OneOpenTry
<1>7. \A x: TryOf(x).sub = x.sub /\ TryOf(x).att = x.att
  BY DEF TryOf
<1>8. \A j \in jobs: Unmade(j)' => TryOf(j) \in Others
  <2> SUFFICES ASSUME NEW j \in jobs, Unmade(j)' PROVE TryOf(j) \in Others
    OBVIOUS
  <2>1. Unmade(j) /\ j.att # calls[p].att
    BY <1>1, <1>3 DEF Unmade
  <2> QED
    BY <1>6, <1>7, <2>1, OpenTriesMembers
<1>9. \A q \in Processes: (Carrying(q) /\ Unmade(calls[q]))' => TryOf(calls'[q]) \in Others
  <2> SUFFICES ASSUME NEW q \in Processes, (Carrying(q) /\ Unmade(calls[q]))'
               PROVE  TryOf(calls'[q]) \in Others
    OBVIOUS
  <2>1. q # p /\ Carrying(q) /\ Unmade(calls[q]) /\ calls'[q] = calls[q]
    BY <1>2, <1>3, <1>4
  <2>2. calls[q].att # calls[p].att
    BY <1>3, <2>1 DEF Unmade
  <2> QED
    BY <1>6, <1>7, <2>1, <2>2, OpenTriesMembers
<1>10. \A q \in Processes: UnderWay(q)' => TryOf(calls'[q]) \in Others
  <2> SUFFICES ASSUME NEW q \in Processes, UnderWay(q)' PROVE TryOf(calls'[q]) \in Others
    OBVIOUS
  <2>1. q # p /\ UnderWay(q) /\ calls'[q] = calls[q]
    BY <1>2, <1>3, <1>4
  <2>2. calls[q].att # calls[p].att
    BY <1>3, <2>1 DEF AloneInv, UnderWayAlone
  <2> QED
    BY <1>6, <1>7, <2>1, <2>2, OpenTriesMembers
<1>11. OpenTries' \subseteq Others \cup {try}
  <2> HIDE DEF try, Others
  <2>1. \A j \in jobs': Unmade(j)' => TryOf(j) \in Others \cup {try}
    BY <1>1, <1>8 DEF try
  <2> QED
    BY <1>9, <1>10, <2>1 DEF OpenTries, TryOf
<1>12. OneOpenTry'
  <2> HIDE DEF try
  <2> QED
    BY <1>5, <1>11 DEF AloneInv, OneOpenTry
<1>13. MadeHasRow'
  <2>1. ~Unmade(calls[p])'
    BY <1>1, <1>2, <1>3 DEF Unmade
  <2> QED
    BY <1>2, <1>4, <2>1 DEF AloneInv, MadeHasRow
<1>14. UnderWayAlone'
  BY <1>2, <1>3, <1>4 DEF AloneInv, UnderWayAlone
<1> QED
  BY <1>12, <1>13, <1>14 DEF AloneInv

(* A row is opened by one process only, whatever else has its number.      *)
LEMMA DispatchOpenAlone ==
    ASSUME TypeOK, AloneInv, NEW p \in Processes, DispatchOpen(p)
    PROVE  AloneInv'
<1>1. /\ At(p, "dispatching") /\ AttemptFree(calls[p].att) /\ Goto(p, "calling")
      /\ DOMAIN attempts' = DOMAIN attempts \cup {calls[p].att} /\ UNCHANGED jobs
  BY DEF DispatchOpen, WithOpenedRow, Extend, queueVars
<1>2. /\ \A q \in Processes: q # p => calls'[q] = calls[q]
      /\ calls'[p].sub = calls[p].sub /\ calls'[p].att = calls[p].att
  BY <1>1 DEF Goto, TypeOK, Call
<1>3. TryOf(calls'[p]) \in OpenTries
  <2>1. Carrying(p) /\ Unmade(calls[p]) /\ TryOf(calls'[p]) = TryOf(calls[p])
    BY <1>1, <1>2 DEF Carrying, At, Unmade, AttemptFree, TryOf
  <2> QED
    BY <2>1, OpenTriesMembers
<1>4. ~Unmade(calls[p])'
  BY <1>1, <1>2 DEF Unmade
<1>5. \A q \in Processes: UnderWay(q) => calls[q].att # calls'[p].att
  BY <1>1, <1>2 DEF AloneInv, MadeHasRow, Made, Unmade, AttemptFree
<1>6. \A job \in jobs': Unmade(job)' => TryOf(job) \in OpenTries
  BY <1>1, OpenTriesMembers DEF Unmade
<1> QED
  BY <1>1, <1>2, <1>3, <1>4, <1>5, <1>6, OneCallMovesAlone

(* A call that has its row, or waits for it, goes on with the same try.    *)
LEMMA GoesOnAlone ==
    ASSUME TypeOK, AloneInv, NEW p \in Processes,
           UNCHANGED jobs, DOMAIN attempts' = DOMAIN attempts,
           \A q \in Processes: q # p => calls'[q] = calls[q],
           TryOf(calls'[p]) = TryOf(calls[p]),
           \/ At(p, "snapshotted") /\ At(p, "dispatching")'
           \/ UnderWay(p) /\ (UnderWay(p)' \/ At(p, "returning")')
    PROVE  AloneInv'
<1>1. calls'[p].att = calls[p].att
  <2>1. TryOf(calls'[p]).att = calls'[p].att /\ TryOf(calls[p]).att = calls[p].att
    BY DEF TryOf
  <2> QED
    BY <2>1
<1>2. \A job \in jobs': Unmade(job)' => TryOf(job) \in OpenTries
  BY OpenTriesMembers DEF Unmade
<1>3. CASE At(p, "snapshotted") /\ At(p, "dispatching")'
  <2>1. Carrying(p) /\ ~UnderWay(p)' /\ ~Made(p)'
    BY <1>3 DEF Carrying, UnderWay, Made, At
  <2>2. (Carrying(p) /\ Unmade(calls[p]))' => TryOf(calls'[p]) \in OpenTries
    BY <1>1, <2>1, OpenTriesMembers DEF Unmade
  <2> QED
    BY <1>2, <2>1, <2>2, OneCallMovesAlone
<1>4. CASE UnderWay(p) /\ (UnderWay(p)' \/ At(p, "returning")')
  <2>1. ~Unmade(calls[p])' /\ TryOf(calls'[p]) \in OpenTries
    BY <1>1, <1>4, OpenTriesMembers DEF AloneInv, MadeHasRow, Made, Unmade
  <2>2. \A q \in Processes: q # p /\ UnderWay(q) => calls[q].att # calls'[p].att
    BY <1>1, <1>4 DEF AloneInv, UnderWayAlone
  <2> QED
    BY <1>2, <2>1, <2>2, OneCallMovesAlone
<1> QED
  BY <1>3, <1>4

LEMMA AdvanceAlone ==
    ASSUME TypeOK, BudgetInv, AloneInv, NEW p \in Processes, Advance(p)
    PROVE  AloneInv'
<1>1. CASE MarkReadyWrite(p) \/ SubmitCount(p)
  BY <1>1, StartAlone
<1>2. CASE SubmitSnapshot(p)
  BY <1>2, SubmitSnapshotAlone
<1>3. CASE SubmitMove(p)
  <2>1. CASE Finish(p)
    <3>1. UNCHANGED <<attempts, jobs>>
      BY <1>3 DEF SubmitMove, queueVars
    <3> QED
      BY <2>1, <3>1, EndsAlone, OpenTriesMembers DEF Unmade
  <2>2. CASE ~Finish(p)
    <3>1. At(p, "snapshotted") /\ Goto(p, "dispatching") /\ UNCHANGED <<attempts, jobs>>
      BY <1>3, <2>2 DEF SubmitMove, queueVars
    <3>2. /\ \A q \in Processes: q # p => calls'[q] = calls[q]
          /\ TryOf(calls'[p]) = TryOf(calls[p]) /\ At(p, "dispatching")'
      BY <3>1 DEF Goto, TypeOK, Call, TryOf, At
    <3> QED
      BY <3>1, <3>2, GoesOnAlone
  <2> QED
    BY <2>1, <2>2
<1>4. CASE DispatchOpen(p)
  BY <1>4, DispatchOpenAlone
<1>5. CASE ScheduleRetry(p)
  BY <1>5, ScheduleRetryAlone
<1>6. CASE DispatchRefused(p) \/ ((Confirm(p) \/ Reject(p)) /\ Throws(p))
  <2>1. Throws(p) /\ Trying(p)
    BY <1>6 DEF DispatchRefused, Confirm, Reject, Trying, Carrying, At
  <2> QED
    BY <2>1, ThrowsAlone
<1>7. CASE Return(p)
  <2>1. Finish(p) /\ UNCHANGED <<attempts, jobs>>
    BY <1>7 DEF Return, queueVars
  <2> QED
    BY <2>1, EndsAlone, OpenTriesMembers DEF Unmade
<1>8. CASE \/ \E outcome \in Outcomes: Exchange(p, outcome)
           \/ RecordOutcome(p) \/ DeadLetter(p) \/ AwaitPartner(p)
           \/ (Confirm(p) \/ Reject(p)) /\ ~Throws(p)
  <2>1. UnderWay(p) /\ UNCHANGED jobs
    BY <1>8 DEF Exchange, RecordOutcome, DeadLetter, AwaitPartner, Confirm, Reject,
                UnderWay, At, queueVars
  <2>2. DOMAIN attempts' = DOMAIN attempts
    BY <1>8 DEF Exchange, RecordOutcome, DeadLetter, AwaitPartner, Confirm, Reject, TypeOK
  <2>3. \E step \in {"answered", "recorded", "returning"},
           outcome \in OutcomeStatus \cup {"none"}:
            \/ Goto(p, step)
            \/ calls' = [calls EXCEPT ![p].step = step, ![p].outcome = outcome]
    BY <1>8, OutcomeAssumption
       DEF Exchange, RecordOutcome, DeadLetter, AwaitPartner, Confirm, Reject
  <2>4. /\ \A q \in Processes: q # p => calls'[q] = calls[q]
        /\ calls'[p].sub = calls[p].sub /\ calls'[p].att = calls[p].att
        /\ calls'[p].step \in {"answered", "recorded", "returning"}
    BY <2>3 DEF Goto, TypeOK, Call
  <2>5. TryOf(calls'[p]) = TryOf(calls[p]) /\ (UnderWay(p)' \/ At(p, "returning")')
    BY <2>4 DEF TryOf, UnderWay, At
  <2> QED
    BY <2>1, <2>2, <2>4, <2>5, GoesOnAlone
<1> QED
  BY <1>1, <1>2, <1>3, <1>4, <1>5, <1>6, <1>7, <1>8 DEF Advance

LEMMA RunJobAlone ==
    ASSUME TypeOK, AloneInv, NEW w \in Workers, RunJob(w)
    PROVE  AloneInv'
<1> PICK job \in jobs: RetryNoop(w, job) \/ RetryRefused(w, job) \/ RetryStart(w, job)
  BY DEF RunJob
<1>0. /\ w \in Processes /\ job \in Job /\ jobs \ {job} \in SUBSET jobs
      /\ UNCHANGED attempts
      /\ Unmade(job) => TryOf(job) \in OpenTries
  BY OpenTriesMembers DEF Processes, TypeOK, RetryNoop, RetryRefused, RetryStart
<1>1. \A j \in jobs': Unmade(j)' => TryOf(j) \in OpenTries
  <2>1. CASE RetryRefused(w, job)
    BY <1>0, <2>1, JobFailsAlone DEF RetryRefused
  <2>2. CASE RetryNoop(w, job) \/ RetryStart(w, job)
    BY <1>0, <2>2, OpenTriesMembers DEF RetryNoop, RetryStart, Unmade
  <2> QED
    BY <2>1, <2>2
<1>2. CASE RetryStart(w, job)
  <2>1. /\ \A q \in Processes: q # w => calls'[q] = calls[q]
        /\ calls'[w].step = "dispatching"
        /\ calls'[w].sub = job.sub /\ calls'[w].att = job.att
    BY <1>0, <1>2 DEF RetryStart, TypeOK, Idle
  <2>2. ~UnderWay(w)' /\ ~Made(w)' /\ TryOf(calls'[w]) = TryOf(job)
    BY <2>1 DEF UnderWay, Made, At, TryOf
  <2>3. Unmade(calls[w])' => Unmade(job)
    BY <1>0, <2>1 DEF Unmade
  <2> QED
    BY <1>0, <1>1, <2>1, <2>2, <2>3, OneCallMovesAlone
<1>3. CASE RetryNoop(w, job) \/ RetryRefused(w, job)
  <2>1. UNCHANGED calls /\ At(w, "idle")
    BY <1>3 DEF RetryNoop, RetryRefused
  <2>2. ~Carrying(w)' /\ ~UnderWay(w)' /\ ~Made(w)'
    BY <2>1 DEF Carrying, UnderWay, Made, At
  <2> QED
    BY <1>0, <1>1, <2>1, <2>2, OneCallMovesAlone
<1> QED
  BY <1>2, <1>3

(* A crash puts back the job of a worker, as does a write that fails.      *)
LEMMA FailsAlone ==
    ASSUME TypeOK, BudgetInv, AloneInv, NEW p \in Processes,
           Crash(p) \/ (p \in Workers /\ WriteFails(p))
    PROVE  AloneInv'
<1>1. /\ ~At(p, "idle") /\ Finish(p) /\ UNCHANGED attempts
      /\ p \in Workers => Trying(p)
  BY DEF Crash, WriteFails, BudgetInv, WorkersTry
<1>2. JobOf(p) \in Job /\ TryOf(JobOf(p)) = TryOf(calls[p])
  BY JobOfType DEF TryOf, JobOf
<1>3. p \in Workers => (Unmade(JobOf(p)) => TryOf(JobOf(p)) \in OpenTries)
  BY <1>1, <1>2, JobBackAlone
<1>4. \A job \in jobs': Unmade(job)' => TryOf(job) \in OpenTries
  <2>1. CASE Crash(p)
    <3>1. jobs' = IF p \in Workers THEN jobs \cup {JobOf(p)} ELSE jobs
      BY <2>1 DEF Crash
    <3> QED
      BY <1>1, <1>3, <3>1, OpenTriesMembers DEF Unmade
  <2>2. CASE p \in Workers /\ WriteFails(p)
    <3>1. JobFails(JobOf(p), jobs)
      BY <2>2 DEF WriteFails
    <3> QED
      BY <1>1, <1>2, <1>3, <2>2, <3>1, JobFailsAlone
  <2> QED
    BY <2>1, <2>2
<1> QED
  BY <1>1, <1>4, EndsAlone

LEMMA NextAlone ==
    ASSUME TypeOK, BudgetInv, AloneInv, [Next]_vars
    PROVE  AloneInv'
<1>1. CASE \E p \in Requests: Start(p)
  BY <1>1, StartAlone DEF Start, Processes
<1>2. CASE \E w \in Workers: RunJob(w)
  BY <1>2, RunJobAlone
<1>3. CASE \E p \in Processes: Advance(p)
  BY <1>3, AdvanceAlone
<1>4. CASE (\E p \in Processes: Crash(p)) \/ \E w \in Workers: WriteFails(w)
  BY <1>4, FailsAlone DEF Processes
<1>5. CASE UNCHANGED <<attempts, jobs, calls>>
  BY <1>5 DEF AloneInv, OneOpenTry, MadeHasRow, UnderWayAlone, OpenTries, TryOf, Unmade,
              UnderWay, Made, Carrying, At
<1>6. CASE Environment
  <2>1. UNCHANGED <<attempts, jobs, calls>>
    BY <1>6 DEF Environment, RecordConsents, Withdraw, RespondToOffer, CompleteTask,
       PortalMove, ReviewRequirement, SetConnectorEnabled, Quarantine, queueVars
  <2> QED
    BY <1>5, <2>1
<1>7. CASE UNCHANGED vars
  BY <1>5, <1>7 DEF vars, queueVars
<1> QED
  BY <1>1, <1>2, <1>3, <1>4, <1>6, <1>7 DEF Next

LEMMA AloneHolds == AloneInv => NoParallelTries
<1> SUFFICES ASSUME AloneInv, NEW p \in Processes, NEW q \in Processes, p # q,
                    calls[p].step \in {"calling", "answered"},
                    calls[q].step \in {"calling", "answered"}
             PROVE  calls[p].sub # calls[q].sub
  BY DEF NoParallelTries
<1>1. UnderWay(p) /\ UnderWay(q)
  BY DEF UnderWay
<1>2. /\ TryOf(calls[p]).sub = calls[p].sub /\ TryOf(calls[p]).att = calls[p].att
      /\ TryOf(calls[q]).sub = calls[q].sub /\ TryOf(calls[q]).att = calls[q].att
  BY DEF TryOf
<1> QED
  BY <1>1, <1>2, OpenTriesMembers DEF AloneInv, OneOpenTry, UnderWayAlone

(* The university is not called for one submission by two processes at     *)
(* once, however many workers there are and however often the queue        *)
(* delivers a job again.                                                   *)
THEOREM NoParallelCorrect == Spec => []NoParallelTries
BY AloneHolds, AloneInit, NextAlone, BudgetInit, NextBudget, TypeCorrect, PTL DEF Spec

(***************************************************************************)
(* The gateway implements SubmissionPromise, as long as no application is  *)
(* confirmed by hand: every step is a step of the promise, or one that the *)
(* promise does not see.                                                   *)
(***************************************************************************)

Taken == [k \in DOMAIN held |-> held[k].version]

(* A step the promise does not see.                                        *)
Unseen ==
    /\ PhaseOf(state') = PhaseOf(state)
    /\ UNCHANGED <<snapshots, held, externalRef>>

LEMMA UnseenStutters ==
    ASSUME Unseen
    PROVE  UNCHANGED Promise!vars
BY DEF Unseen, Promise!vars

(* The moves of the application that the table allows, phase by phase.     *)
LEMMA MovePhases ==
    ASSUME state \in ApplicationState,
           NEW to \in ApplicationState, NEW actor \in TransitionActor,
           Allowed(state, to, actor), state' = to,
           to \notin {"submitted_pending", "submitted", "failed"}
    PROVE  \/ PhaseOf(state') = PhaseOf(state)
           \/ /\ PhaseOf(state) \in {"refused", "with_university"}
              /\ PhaseOf(state') = "preparing"
           \/ /\ PhaseOf(state) \in {"preparing", "refused", "with_university"}
              /\ PhaseOf(state') = "closed"
BY DEF Allowed, CanTransition, Successors, Authority, PhaseOf, ApplicationState

LEMMA MoveKeepsPromise ==
    ASSUME state \in ApplicationState,
           NEW to \in ApplicationState, NEW actor \in TransitionActor,
           Allowed(state, to, actor), state' = to,
           to \notin {"submitted_pending", "submitted", "failed"},
           UNCHANGED <<snapshots, held, externalRef>>
    PROVE  [Promise!Next]_(Promise!vars)
<1>1. UNCHANGED Taken
  BY DEF Taken
<1>2. CASE PhaseOf(state') = PhaseOf(state)
  BY <1>2, UnseenStutters DEF Unseen
<1>3. CASE /\ PhaseOf(state) \in {"refused", "with_university"}
           /\ PhaseOf(state') = "preparing"
  <2>1. Promise!Reopen
    BY <1>1, <1>3 DEF Promise!Reopen, Taken
  <2> QED
    BY <2>1 DEF Promise!Next
<1>4. CASE /\ PhaseOf(state) \in {"preparing", "refused", "with_university"}
           /\ PhaseOf(state') = "closed"
  <2>1. Promise!Close
    BY <1>1, <1>4 DEF Promise!Close, Taken
  <2> QED
    BY <2>1 DEF Promise!Next
<1> QED
  BY <1>2, <1>3, <1>4, MovePhases

LEMMA EnvironmentKeepsPromise ==
    ASSUME TypeOK, "submitted" \notin PortalStates, Environment
    PROVE  [Promise!Next]_(Promise!vars)
<1>0. state \in ApplicationState
  BY DEF TypeOK
<1>1. CASE UNCHANGED state
  <2>1. Unseen
    BY <1>1 DEF Unseen, Environment, RecordConsents, Withdraw, RespondToOffer,
       CompleteTask, PortalMove, ReviewRequirement, SetConnectorEnabled, Quarantine,
       appVars
  <2> QED
    BY <2>1, UnseenStutters
<1>2. ASSUME NEW to, NEW actor \in {"student", "university"},
             Allowed(state, to, actor), state' = to,
             UNCHANGED <<snapshots, held, externalRef>>,
             to \in {"withdrawn", "accepted", "declined"} \/ to \in PortalStates,
             to \notin {"submitted_pending", "failed"}
      PROVE  [Promise!Next]_(Promise!vars)
  <2>1. /\ to \in ApplicationState /\ actor \in TransitionActor
        /\ to \notin {"submitted_pending", "submitted", "failed"}
    BY <1>2, PortalAssumption DEF ApplicationState, TransitionActor
  <2> QED
    BY <1>0, <1>2, <2>1, MoveKeepsPromise
<1>3. CASE Withdraw
  BY <1>2, <1>3 DEF Withdraw
<1>4. CASE \E decision \in {"accepted", "declined"}: RespondToOffer(decision)
  BY <1>2, <1>4 DEF RespondToOffer
<1>5. ASSUME NEW to \in PortalStates, PortalMove(to)
      PROVE  [Promise!Next]_(Promise!vars)
  <2>1. to \notin {"submitted_pending", "failed"}
    BY <1>5 DEF PortalMove, Allowed, Authority
  <2> QED
    BY <1>2, <1>5, <2>1 DEF PortalMove
<1> QED
  BY <1>1, <1>3, <1>4, <1>5 DEF Environment, RecordConsents, CompleteTask,
     ReviewRequirement, SetConnectorEnabled, Quarantine, appVars

LEMMA SnapshotKeepsPromise ==
    ASSUME TypeOK, NEW p \in Processes, SubmitSnapshot(p)
    PROVE  [Promise!Next]_(Promise!vars)
<1>1. UNCHANGED <<state, externalRef, held, Taken>>
  BY DEF SubmitSnapshot, appVars, Taken
<1>2. CASE SnapshotFree(calls[p].sub)
  <2>1. /\ snapshots' = Extend(snapshots, calls[p].sub, calls[p].version)
        /\ calls[p].sub \notin DOMAIN snapshots
    BY <1>2 DEF SubmitSnapshot, SnapshotFree
  <2>2. /\ calls[p].sub \in DOMAIN snapshots'
        /\ snapshots'[calls[p].sub] = calls[p].version
    BY <2>1 DEF Extend
  <2>3. snapshots' = Promise!Add(snapshots, calls[p].sub, snapshots'[calls[p].sub])
    BY <2>1, <2>2 DEF Extend, Promise!Add
  <2>4. Promise!Fix
    BY <1>1, <2>1, <2>2, <2>3 DEF Promise!Fix, Taken
  <2> QED
    BY <2>4 DEF Promise!Next
<1>3. CASE ~SnapshotFree(calls[p].sub)
  <2>1. Unseen
    BY <1>1, <1>3 DEF SubmitSnapshot, Unseen
  <2> QED
    BY <2>1, UnseenStutters
<1> QED
  BY <1>2, <1>3

LEMMA SubmitMoveKeepsPromise ==
    ASSUME TypeOK, GatewayInv, NEW p \in Processes, SubmitMove(p)
    PROVE  [Promise!Next]_(Promise!vars)
<1>1. UNCHANGED <<externalRef, held, snapshots, Taken>> /\ calls[p].step = "snapshotted"
  BY DEF SubmitMove, Taken, At
<1>2. CASE UNCHANGED state
  BY <1>1, <1>2, UnseenStutters DEF Unseen
<1>3. CASE ~UNCHANGED state
  <2>1. /\ \E actor \in {"student", "system"}: Allowed(state, "submitted_pending", actor)
        /\ state' = "submitted_pending"
    BY <1>3 DEF SubmitMove
  <2>2. PhaseOf(state) = "preparing" /\ PhaseOf(state') = "sending"
    BY <2>1 DEF Allowed, CanTransition, Successors, PhaseOf, TypeOK, ApplicationState
  <2>3. DOMAIN snapshots # {}
    BY <1>1 DEF GatewayInv, CarriesSnapshot, Carrying
  <2>4. Promise!Send
    BY <1>1, <2>2, <2>3 DEF Promise!Send, Taken
  <2> QED
    BY <2>4 DEF Promise!Next
<1> QED
  BY <1>2, <1>3

(* The university takes the snapshot of a submission it does not have, or  *)
(* nothing changes for the promise.                                        *)
LEMMA ExchangeKeepsPromise ==
    ASSUME TypeOK, GatewayInv, NEW p \in Processes, NEW outcome \in Outcomes,
           Exchange(p, outcome)
    PROVE  [Promise!Next]_(Promise!vars)
<1>1. UNCHANGED <<state, externalRef, snapshots>> /\ calls[p].step = "calling"
  BY DEF Exchange, appVars, At
<1>2. calls[p].sub \in DOMAIN snapshots /\ calls[p].version = snapshots[calls[p].sub]
  BY <1>1 DEF GatewayInv, CarriesSnapshot, Carrying
<1>3. CASE held' = held
  BY <1>1, <1>3, UnseenStutters DEF Unseen
<1>4. CASE held' # held
  <2>1. /\ calls[p].sub \notin DOMAIN held
        /\ held' = Extend(held, calls[p].sub,
                          [sub |-> calls[p].sub, version |-> calls[p].version])
    BY <1>4 DEF Exchange, PartnerTakes, PartnerKey
  <2>2. /\ DOMAIN held' = DOMAIN held \cup {calls[p].sub}
        /\ held'[calls[p].sub].version = snapshots[calls[p].sub]
        /\ \A k \in DOMAIN held: held'[k] = held[k]
    BY <1>2, <2>1 DEF Extend
  <2>3. [k \in DOMAIN held' |-> held'[k].version] =
            Promise!Add(Taken, calls[p].sub, snapshots[calls[p].sub])
    BY <2>1, <2>2 DEF Promise!Add, Taken
  <2>4. calls[p].sub \in DOMAIN snapshots \ DOMAIN Taken
    BY <1>2, <2>1 DEF Taken
  <2> PICK new \in DOMAIN snapshots: new = calls[p].sub
    BY <1>2
  <2>5. Promise!Take(new)
    BY <1>1, <2>3, <2>4 DEF Promise!Take, Taken
  <2>6. \E s \in DOMAIN snapshots: Promise!Take(s)
    BY <2>5
  <2> QED
    BY <2>6 DEF Promise!Next
<1> QED
  BY <1>3, <1>4

LEMMA AnswerKeepsPromise ==
    ASSUME TypeOK, GatewayInv, NEW p \in Processes, Confirm(p) \/ Reject(p)
    PROVE  [Promise!Next]_(Promise!vars)
<1>1. CASE Throws(p)
  BY <1>1, UnseenStutters DEF Throws, Unseen, appVars
<1>2. CASE Confirm(p) /\ ~Throws(p)
  <2>1. /\ Allowed(state, "submitted", "system") /\ state' = "submitted"
        /\ externalRef' = calls[p].sub
        /\ UNCHANGED <<snapshots, held>>
        /\ At(p, "recorded") /\ IsReceipt(calls[p].outcome)
    BY <1>2 DEF Confirm, PartnerKey
  <2>2. PhaseOf(state) = "sending" /\ PhaseOf(state') = "with_university"
    BY <2>1 DEF Allowed, CanTransition, Successors, PhaseOf, TypeOK, ApplicationState
  <2>3. calls[p].sub \in DOMAIN held
    BY <2>1 DEF GatewayInv, ReceiptIsHeld, Receipt, At
  <2>4. calls[p].sub \in DOMAIN Taken /\ UNCHANGED Taken
    BY <2>1, <2>3 DEF Taken
  <2>5. Promise!Receive(calls[p].sub)
    BY <2>1, <2>2, <2>4 DEF Promise!Receive, Taken
  <2>6. \E ref \in DOMAIN [k \in DOMAIN held |-> held[k].version]: Promise!Receive(ref)
    BY <2>3, <2>5
  <2> QED
    BY <2>6 DEF Promise!Next
<1>3. CASE Reject(p) /\ ~Throws(p)
  <2>1. /\ Allowed(state, "failed", "system") /\ state' = "failed"
        /\ UNCHANGED <<snapshots, held, externalRef>>
    BY <1>3 DEF Reject
  <2>2. PhaseOf(state) = "sending" /\ PhaseOf(state') = "refused"
    BY <2>1 DEF Allowed, CanTransition, Successors, PhaseOf, TypeOK, ApplicationState
  <2>3. UNCHANGED Taken
    BY <2>1 DEF Taken
  <2>4. Promise!Refuse
    BY <2>1, <2>2, <2>3 DEF Promise!Refuse, Taken
  <2> QED
    BY <2>4 DEF Promise!Next
<1> QED
  BY <1>1, <1>2, <1>3

LEMMA MarkReadyKeepsPromise ==
    ASSUME TypeOK, NEW p \in Processes, MarkReadyWrite(p)
    PROVE  [Promise!Next]_(Promise!vars)
<1>1. UNCHANGED <<snapshots, held, externalRef>> /\ state \in ApplicationState
  BY DEF MarkReadyWrite, TypeOK
<1>2. CASE UNCHANGED state
  BY <1>1, <1>2, UnseenStutters DEF Unseen
<1>3. CASE Allowed(state, "ready", "student") /\ state' = "ready"
  BY <1>1, <1>3, MoveKeepsPromise DEF ApplicationState, TransitionActor
<1> QED
  BY <1>2, <1>3 DEF MarkReadyWrite

LEMMA StepKeepsPromise ==
    ASSUME TypeOK, GatewayInv, "submitted" \notin PortalStates, [Next]_vars
    PROVE  [Promise!Next]_(Promise!vars)
<1>1. CASE Unseen
  BY <1>1, UnseenStutters
<1>2. CASE \E p \in Requests: Start(p)
  BY <1>1, <1>2 DEF Start, MarkReadyRead, SubmitCheck, Unseen, appVars
<1>3. CASE \E w \in Workers: RunJob(w) \/ WriteFails(w)
  BY <1>1, <1>3 DEF RunJob, RetryNoop, RetryRefused, RetryStart, WriteFails, Unseen, appVars
<1>4. ASSUME NEW p \in Processes, Advance(p) \/ Crash(p)
      PROVE  [Promise!Next]_(Promise!vars)
  <2>1. CASE \/ SubmitCount(p) \/ DispatchRefused(p) \/ DispatchOpen(p)
             \/ RecordOutcome(p) \/ DeadLetter(p) \/ ScheduleRetry(p)
             \/ AwaitPartner(p) \/ Return(p) \/ Crash(p)
    <3>1. Unseen
      BY <2>1 DEF SubmitCount, DispatchRefused, Throws, DispatchOpen, RecordOutcome,
         DeadLetter, ScheduleRetry, AwaitPartner, Return, Crash, Unseen, appVars
    <3> QED
      BY <1>1, <3>1
  <2>2. CASE \E outcome \in Outcomes: Exchange(p, outcome)
    BY <2>2, ExchangeKeepsPromise
  <2> QED
    BY <1>4, <2>1, <2>2, MarkReadyKeepsPromise, SnapshotKeepsPromise,
       SubmitMoveKeepsPromise, AnswerKeepsPromise DEF Advance
<1>5. CASE Environment
  BY <1>5, EnvironmentKeepsPromise
<1>6. CASE UNCHANGED vars
  BY <1>1, <1>6 DEF vars, appVars, Unseen
<1> QED
  BY <1>2, <1>3, <1>4, <1>5, <1>6 DEF Next

LEMMA InitKeepsPromise == Init => Promise!Init
BY DEF Init, Promise!Init, PhaseOf, NoRef, Promise!NoReference

(* Every behaviour of the gateway in which nobody confirms by hand is one  *)
(* the promise allows: what is shown as being with the university is there *)
(* under its reference, once, exactly as it was fixed.                     *)
THEOREM GatewayKeepsPromise ==
    ASSUME "submitted" \notin PortalStates
    PROVE  Spec => KeepsPromise
BY InitKeepsPromise, StepKeepsPromise, TypeCorrect, InvCorrect, PTL
   DEF Spec, KeepsPromise, Promise!Spec

(* The promise by itself shows only what is taken.                         *)
LEMMA PromiseShowsTaken == Promise!Spec => []Promise!ShownIsTaken
<1>1. Promise!Init => Promise!ShownIsTaken
  BY DEF Promise!Init, Promise!ShownIsTaken
<1>2. ASSUME Promise!ShownIsTaken, [Promise!Next]_(Promise!vars)
      PROVE  Promise!ShownIsTaken'
  <2>1. CASE \E s \in DOMAIN snapshots: Promise!Take(s)
    BY <1>2, <2>1 DEF Promise!ShownIsTaken, Promise!Take, Promise!Add
  <2>2. CASE \E ref \in DOMAIN held: Promise!Receive(ref)
    BY <1>2, <2>2 DEF Promise!ShownIsTaken, Promise!Receive
  <2>3. CASE Promise!Fix
    BY <1>2, <2>3 DEF Promise!ShownIsTaken, Promise!Fix
  <2>4. CASE Promise!Send \/ Promise!Refuse
    BY <1>2, <2>4 DEF Promise!ShownIsTaken, Promise!Send, Promise!Refuse
  <2>5. CASE Promise!Reopen \/ Promise!Close
    BY <1>2, <2>5 DEF Promise!ShownIsTaken, Promise!Reopen, Promise!Close
  <2>6. CASE UNCHANGED Promise!vars
    BY <1>2, <2>6 DEF Promise!ShownIsTaken, Promise!vars
  <2>7. DOMAIN [k \in DOMAIN held |-> held[k].version] = DOMAIN held
    OBVIOUS
  <2> QED
    BY <1>2, <2>1, <2>2, <2>3, <2>4, <2>5, <2>6, <2>7 DEF Promise!Next
<1> QED
  BY <1>1, <1>2, PTL DEF Promise!Spec

(* Hence an application shown as submitted, or further on, is one the      *)
(* university holds under the reference on record.                         *)
THEOREM ShownIsTakenCorrect ==
    ASSUME "submitted" \notin PortalStates
    PROVE  Spec => []ShownIsTaken
BY GatewayKeepsPromise, PromiseShowsTaken, PTL DEF KeepsPromise, ShownIsTaken

(***************************************************************************)
(* The gateway and the events together                                     *)
(***************************************************************************)

(* What holds of the gateway by itself.                                    *)
GatewaySide == TypeOK /\ GatewayInv /\ BudgetInv /\ AloneInv

(* The events the university sent are numbered without a gap and refer to  *)
(* something it holds; what is stored of one is of its kind; a delivery    *)
(* handles one of them, and only what is stored moves the application.     *)
InboundTypes ==
    /\ Inbound!Last \in Nat
    /\ DOMAIN wire = 1 .. Inbound!Last
    /\ wire \in [DOMAIN wire -> Inbound!Event]
    /\ events \in [DOMAIN events -> Inbound!Row]
    /\ moves \in Seq(DOMAIN events)
    /\ handling \in [Deliveries -> Inbound!Handling]
    /\ \A d \in Deliveries: handling[d].step # "idle" => handling[d].event \in DOMAIN wire

ReportsAreGrounded == \A n \in DOMAIN wire: wire[n].ref \in DOMAIN held
RowsMatchReports ==
    \A n \in DOMAIN events: n \in DOMAIN wire /\ events[n].kind = wire[n].kind

(* A delivery past the insert has its event on record; it has moved the    *)
(* application when it says so, nobody moved it for that event before, and *)
(* no second delivery of the event gets there.                             *)
PastInsert(d) == handling[d].step \in {"stored", "moved"}
Moved(n) == \E i \in DOMAIN moves: moves[i] = n
HoldsItsRow ==
    \A d \in Deliveries: PastInsert(d) =>
        /\ handling[d].event \in DOMAIN events
        /\ Moved(handling[d].event) <=> handling[d].step = "moved"
OneMoverPerEvent ==
    \A d, e \in Deliveries:
        PastInsert(d) /\ PastInsert(e) /\ handling[d].event = handling[e].event => d = e

InboundSide ==
    /\ InboundTypes
    /\ ReportsAreGrounded
    /\ RowsMatchReports
    /\ HoldsItsRow
    /\ OneMoverPerEvent

SystemInv == GatewaySide /\ InboundSide /\ HandoffHasGrounds

(***************************************************************************)
(* The gateway's side                                                      *)
(***************************************************************************)

LEMMA GatewaySideNext ==
    ASSUME GatewaySide, Next
    PROVE  GatewaySide'
<1>1. TypeOK' /\ GatewayInv'
  BY NextType, NextInv DEF GatewaySide
<1>2. BudgetInv' /\ AloneInv'
  BY NextBudget, NextAlone DEF GatewaySide
<1> QED
  BY <1>1, <1>2 DEF GatewaySide

(* What the gateway's invariant speaks of, except what is held.            *)
LEMMA GatewayStays ==
    ASSUME GatewaySide, UNCHANGED <<snapshots, attempts, jobs, calls>>
    PROVE  /\ BudgetInv' /\ AloneInv'
           /\ CarriesSnapshot' /\ OwnsAttempt' /\ OwnsAlone' /\ ReceiptIsRecorded'
<1>1. Tries' = Tries /\ OpenTries' = OpenTries
  BY DEF Tries, OpenTries, TryOf, Trying, Carrying, UnderWay, Unmade, At
<1>2. BudgetInv'
  BY <1>1 DEF GatewaySide, BudgetInv, TriesHaveSnapshot, TriesInBudget, WorkersTry, Trying,
     Carrying, At
<1>3. AloneInv'
  BY <1>1 DEF GatewaySide, AloneInv, OneOpenTry, MadeHasRow, UnderWayAlone, Made, UnderWay,
     Unmade, At
<1>4. CarriesSnapshot' /\ OwnsAttempt' /\ OwnsAlone'
  BY DEF GatewaySide, GatewayInv, CarriesSnapshot, OwnsAttempt, OwnsAlone, Carrying, Sending
<1>5. ReceiptIsRecorded'
  BY DEF GatewaySide, GatewayInv, ReceiptIsRecorded, Receipt, At
<1> QED
  BY <1>2, <1>3, <1>4, <1>5

(* A handoff the student completes puts the snapshot of its submission at  *)
(* the university, under its key.                                          *)
LEMMA CompleteHandoffSide ==
    ASSUME GatewaySide, NEW n \in DOMAIN attempts, CompleteHandoff(n)
    PROVE  GatewaySide' /\ DOMAIN held \subseteq DOMAIN held'
<1> DEFINE sub == attempts[n].sub
           application == [sub |-> sub, version |-> snapshots[sub]]
<1>1. /\ UNCHANGED <<appVars, envVars, snapshots, attempts, tasks, queueVars, calls, faults>>
      /\ held' = Extend(held, sub, application)
      /\ sub \notin DOMAIN held
  BY DEF CompleteHandoff, PartnerKey
<1>2. sub \in DOMAIN snapshots /\ sub \in Nat /\ snapshots[sub] \in Nat
  <2>1. [sub |-> sub, att |-> n] \in Tries
    BY DEF Tries
  <2>2. [sub |-> sub, att |-> n].sub \in DOMAIN snapshots
    BY <2>1 DEF GatewaySide, BudgetInv, TriesHaveSnapshot
  <2> QED
    BY <2>2 DEF GatewaySide, TypeOK
<1>3. /\ DOMAIN held' = DOMAIN held \cup {sub}
      /\ held'[sub].sub = sub /\ held'[sub].version = snapshots[sub]
      /\ \A k \in DOMAIN held: held'[k] = held[k]
  BY <1>1 DEF Extend
<1>4. TypeOK'
  <2>1. DOMAIN held' \subseteq Nat
    BY <1>2, <1>3 DEF GatewaySide, TypeOK
  <2>2. held' \in [DOMAIN held' -> [sub: Nat, version: Nat]]
    BY <1>1, <1>2, ExtendType DEF GatewaySide, TypeOK
  <2> QED
    BY <1>1, <2>1, <2>2 DEF GatewaySide, TypeOK, appVars, envVars, queueVars
<1>5. FiledByKey' /\ PartnerHoldsSnapshot' /\ NothingSentUnrecorded'
  BY <1>1, <1>2, <1>3
     DEF GatewaySide, GatewayInv, FiledByKey, PartnerHoldsSnapshot, NothingSentUnrecorded
<1>6. ReceiptIsHeld'
  BY <1>1, <1>3 DEF GatewaySide, GatewayInv, ReceiptIsHeld, Receipt
<1>7. UNCHANGED <<snapshots, attempts, jobs, calls>>
  BY <1>1 DEF queueVars
<1> QED
  BY <1>3, <1>4, <1>5, <1>6, <1>7, GatewayStays DEF GatewaySide, GatewayInv

(* An event moves the application and opens tasks, and touches no more of  *)
(* what the gateway keeps.                                                 *)
LEMMA InboundUnchanged ==
    ASSUME InboundStep
    PROVE  UNCHANGED <<ack, pendingOn, envVars, snapshots, attempts, queueVars, held, calls,
                       faults>>
<1>1. UNCHANGED attempts
  BY DEF InboundStep, Inbound!Next, Inbound!University, Inbound!Emit, Inbound!Read,
     Inbound!Process, Inbound!StoreEvent, Inbound!ApplyTransition, Inbound!MarkApplied,
     Inbound!Answer, Inbound!Die
<1> QED
  BY <1>1 DEF InboundStep

(* Both components consult the one table of states and moves.              *)
LEMMA OneTable ==
    /\ Inbound!InboundKind = InboundKind
    /\ \A kind: Inbound!StateForInbound(kind) = StateForInbound(kind)
    /\ \A from, to, actor: Inbound!Allowed(from, to, actor) <=> Allowed(from, to, actor)
<1>1. Inbound!InboundKind = InboundKind
  BY DEF Inbound!InboundKind, InboundKind
<1>2. ASSUME NEW kind PROVE Inbound!StateForInbound(kind) = StateForInbound(kind)
  BY DEF Inbound!StateForInbound, StateForInbound
<1>3. ASSUME NEW from, NEW to, NEW actor
      PROVE  Inbound!Allowed(from, to, actor) <=> Allowed(from, to, actor)
  BY DEF Inbound!Allowed, Allowed, Inbound!CanTransition, CanTransition,
     Inbound!Successors, Successors, Inbound!Authority, Authority
<1> QED
  BY <1>1, <1>2, <1>3

LEMMA InboundStates ==
    ASSUME NEW kind \in InboundKind
    PROVE  /\ StateForInbound(kind) \in ApplicationState
           /\ StateForInbound(kind) = "submitted" <=> kind = "received"
BY DEF InboundKind, StateForInbound, ApplicationState

LEMMA InboundGatewaySide ==
    ASSUME GatewaySide, InboundSide, InboundStep
    PROVE  GatewaySide'
<1>1. UNCHANGED <<ack, pendingOn, envVars, snapshots, attempts, queueVars, held, calls, faults>>
  BY InboundUnchanged
<1>2. state' \in ApplicationState /\ externalRef' \in Nat
  <2>1. CASE UNCHANGED <<state, externalRef>>
    BY <2>1 DEF GatewaySide, TypeOK
  <2>2. ASSUME NEW d \in Deliveries, Inbound!ApplyTransition(d)
        PROVE  state' \in ApplicationState /\ externalRef' \in Nat
    <3> DEFINE n == handling[d].event
    <3>1. n \in DOMAIN wire /\ wire[n] \in Inbound!Event
      BY <2>2 DEF Inbound!ApplyTransition, InboundSide, InboundTypes
    <3>2. wire[n].kind \in InboundKind /\ wire[n].ref \in Nat
      BY <3>1, OneTable DEF Inbound!Event
    <3>3. CASE Inbound!MoveApplication(n)
      BY <3>2, <3>3, OneTable, InboundStates DEF Inbound!MoveApplication, GatewaySide, TypeOK
    <3>4. CASE ~Inbound!MoveApplication(n)
      BY <2>1, <2>2, <3>4 DEF Inbound!ApplyTransition
    <3> QED
      BY <3>3, <3>4
  <2> QED
    BY <2>1, <2>2 DEF InboundStep, Inbound!Next, Inbound!University, Inbound!Emit,
       Inbound!Read, Inbound!Process, Inbound!StoreEvent, Inbound!MarkApplied,
       Inbound!Answer, Inbound!Die, Inbound!appVars
<1>3. tasks' \subseteq {"student", "modex_ops"}
  <2>1. tasks' \subseteq tasks \cup {"student"}
    BY DEF InboundStep, Inbound!Next, Inbound!University, Inbound!Emit, Inbound!Read,
       Inbound!Process, Inbound!StoreEvent, Inbound!ApplyTransition, Inbound!MarkApplied,
       Inbound!Answer, Inbound!Die, Inbound!appVars
  <2> QED
    BY <2>1 DEF GatewaySide, TypeOK
<1>4. TypeOK'
  BY <1>1, <1>2, <1>3 DEF GatewaySide, TypeOK, envVars, queueVars
<1>5. FiledByKey' /\ PartnerHoldsSnapshot' /\ NothingSentUnrecorded' /\ ReceiptIsHeld'
  BY <1>1 DEF GatewaySide, GatewayInv, FiledByKey, PartnerHoldsSnapshot,
     NothingSentUnrecorded, ReceiptIsHeld, Receipt
<1>6. UNCHANGED <<snapshots, attempts, jobs, calls>>
  BY <1>1 DEF queueVars
<1> QED
  BY <1>4, <1>5, <1>6, GatewayStays DEF GatewaySide, GatewayInv

(***************************************************************************)
(* The events' side                                                        *)
(***************************************************************************)

LEMMA OneCardinality == \A S: Inbound!Cardinality(S) = Cardinality(S)
BY DEF Inbound!Cardinality, Cardinality

LEMMA PutType ==
    ASSUME NEW S, NEW f, f \in [DOMAIN f -> S], NEW x, NEW v \in S
    PROVE  Inbound!Put(f, x, v) \in [DOMAIN Inbound!Put(f, x, v) -> S]
<1>1. Inbound!Put(f, x, v) \in [DOMAIN f \cup {x} -> S]
  BY DEF Inbound!Put
<1> QED
  BY <1>1 DEF Inbound!Put

(* A step that touches no event leaves their side as it is.                *)
LEMMA EventsStay ==
    ASSUME InboundSide, UNCHANGED <<wire, events, moves, handling>>,
           DOMAIN held \subseteq DOMAIN held'
    PROVE  InboundSide'
<1>1. InboundTypes'
  BY DEF InboundSide, InboundTypes, Inbound!Last
<1>2. ReportsAreGrounded' /\ RowsMatchReports'
  BY DEF InboundSide, ReportsAreGrounded, RowsMatchReports
<1>3. HoldsItsRow' /\ OneMoverPerEvent'
  BY DEF InboundSide, HoldsItsRow, OneMoverPerEvent, PastInsert, Moved
<1> QED
  BY <1>1, <1>2, <1>3 DEF InboundSide

(* The university reports a step about something it holds.                 *)
LEMMA UniversitySide ==
    ASSUME GatewaySide, InboundSide, InboundStep, Inbound!University
    PROVE  InboundSide' /\ \A n \in DOMAIN wire: n \in DOMAIN wire' /\ wire'[n] = wire[n]
<1> DEFINE last == Inbound!Last
<1>1. PICK kind \in Kinds, ref \in DOMAIN held, modexRef \in DOMAIN attempts \cup {NoRef}:
          Inbound!Emit(kind, ref, modexRef)
  BY DEF Inbound!University, Inbound!NoRef, NoRef
<1> DEFINE report == [kind |-> kind, ref |-> ref, modexRef |-> modexRef]
<1>2. PICK k \in Nat: k = last /\ DOMAIN wire = 1 .. k
  BY DEF InboundSide, InboundTypes
<1>3. /\ wire' = Inbound!Put(wire, k + 1, report)
      /\ UNCHANGED <<events, moves, handling, held>>
  BY <1>1, <1>2 DEF Inbound!Emit, Inbound!rowVars, InboundStep
<1>4. /\ DOMAIN wire' = 1 .. k + 1
      /\ \A n \in DOMAIN wire: wire'[n] = wire[n]
      /\ wire'[k + 1] = report
  BY <1>2, <1>3 DEF Inbound!Put
<1>5. Inbound!Last' = k + 1
  <2>1. Cardinality(1 .. k + 1) = k + 1
    BY FS_Interval
  <2>2. Inbound!Cardinality(1 .. k + 1) = k + 1
    BY <2>1, OneCardinality
  <2>3. Inbound!Last' = Inbound!Cardinality(DOMAIN wire')
    BY DEF Inbound!Last
  <2> QED
    BY <1>4, <2>2, <2>3
<1>6. report \in Inbound!Event /\ report.ref = ref
  <2>1. kind \in InboundKind
    BY InboundAssumption
  <2> QED
    BY <2>1, OneTable DEF Inbound!Event, GatewaySide, TypeOK, NoRef
<1>7. InboundTypes'
  <2>1. wire' \in [DOMAIN wire' -> Inbound!Event]
    BY <1>3, <1>6, PutType DEF InboundSide, InboundTypes
  <2>2. DOMAIN wire \subseteq DOMAIN wire'
    BY <1>2, <1>4
  <2> QED
    BY <1>2, <1>3, <1>4, <1>5, <2>1, <2>2 DEF InboundSide, InboundTypes
<1>8. ReportsAreGrounded' /\ RowsMatchReports'
  BY <1>2, <1>3, <1>4, <1>6 DEF InboundSide, ReportsAreGrounded, RowsMatchReports
<1>9. HoldsItsRow' /\ OneMoverPerEvent'
  BY <1>3 DEF InboundSide, HoldsItsRow, OneMoverPerEvent, PastInsert, Moved
<1> QED
  BY <1>2, <1>4, <1>7, <1>8, <1>9 DEF InboundSide

(* A step after which d has no row to answer for.                          *)
LEMMA QuietStep ==
    ASSUME InboundSide, NEW d \in Deliveries,
           UNCHANGED <<wire, events, moves, held>>,
           handling' \in [Deliveries -> Inbound!Handling],
           \A e \in Deliveries: e # d => handling'[e] = handling[e],
           ~PastInsert(d)',
           handling'[d].step # "idle" => handling'[d].event \in DOMAIN wire
    PROVE  InboundSide'
<1>1. \A e \in Deliveries: PastInsert(e)' =>
          e # d /\ PastInsert(e) /\ handling'[e] = handling[e]
  BY DEF PastInsert
<1>2. HoldsItsRow' /\ OneMoverPerEvent'
  BY <1>1 DEF InboundSide, HoldsItsRow, OneMoverPerEvent, Moved
<1>3. InboundTypes'
  BY DEF InboundSide, InboundTypes, Inbound!Last
<1>4. ReportsAreGrounded' /\ RowsMatchReports'
  BY DEF InboundSide, ReportsAreGrounded, RowsMatchReports
<1> QED
  BY <1>2, <1>3, <1>4 DEF InboundSide

LEMMA StepFacts ==
    ASSUME InboundTypes, NEW d \in Deliveries, NEW step \in {"stored", "moved", "done"},
           handling' = [handling EXCEPT ![d].step = step]
    PROVE  /\ handling' \in [Deliveries -> Inbound!Handling]
           /\ handling'[d].step = step /\ handling'[d].event = handling[d].event
           /\ \A e \in Deliveries: e # d => handling'[e] = handling[e]
BY DEF InboundTypes, Inbound!Handling

LEMMA RestFacts ==
    ASSUME InboundTypes, NEW d \in Deliveries,
           handling' = [handling EXCEPT ![d] = Inbound!Resting]
    PROVE  /\ handling' \in [Deliveries -> Inbound!Handling]
           /\ handling'[d].step = "idle"
           /\ \A e \in Deliveries: e # d => handling'[e] = handling[e]
<1>1. Inbound!Resting \in Inbound!Handling /\ Inbound!Resting.step = "idle"
  BY DEF Inbound!Resting, Inbound!Handling, Inbound!Reason
<1> QED
  BY <1>1 DEF InboundTypes

LEMMA SkipReasonType == ASSUME NEW event PROVE Inbound!SkipReason(event) \in Inbound!Reason
BY DEF Inbound!SkipReason, Inbound!Reason

(* A delivery begins, answers or dies.                                     *)
LEMMA BeginEndSide ==
    ASSUME InboundSide, InboundStep, NEW d \in Deliveries,
           \/ \E n \in DOMAIN wire: Inbound!Read(d, n)
           \/ Inbound!Answer(d)
           \/ Inbound!Die(d)
    PROVE  InboundSide' /\ UNCHANGED <<state, externalRef, wire, events, moves>>
<1>1. InboundTypes /\ UNCHANGED held
  BY DEF InboundSide, InboundStep
<1>2. UNCHANGED <<state, externalRef, wire, events, moves>>
  BY DEF Inbound!Read, Inbound!Answer, Inbound!Die, Inbound!appVars, Inbound!wireVars,
     Inbound!rowVars
<1>3. ASSUME NEW n \in DOMAIN wire, Inbound!Read(d, n) PROVE InboundSide'
  <2> DEFINE reading == [step |-> "read", event |-> n, skip |-> Inbound!SkipReason(wire[n])]
  <2>1. reading \in Inbound!Handling
    BY <1>1, SkipReasonType DEF InboundTypes, Inbound!Handling
  <2>2. handling' = [handling EXCEPT ![d] = reading]
    BY <1>3 DEF Inbound!Read
  <2>3. /\ handling' \in [Deliveries -> Inbound!Handling]
        /\ handling'[d] = reading
        /\ \A e \in Deliveries: e # d => handling'[e] = handling[e]
    BY <1>1, <2>1, <2>2 DEF InboundTypes
  <2>4. ~PastInsert(d)' /\ handling'[d].event = n
    BY <2>3 DEF PastInsert
  <2> QED
    BY <1>1, <1>2, <2>3, <2>4, QuietStep
<1>4. CASE Inbound!Answer(d) \/ Inbound!Die(d)
  <2>1. /\ handling' \in [Deliveries -> Inbound!Handling]
        /\ handling'[d].step = "idle"
        /\ \A e \in Deliveries: e # d => handling'[e] = handling[e]
    BY <1>1, <1>4, RestFacts DEF Inbound!Answer, Inbound!Die
  <2>2. ~PastInsert(d)'
    BY <2>1 DEF PastInsert
  <2> QED
    BY <1>1, <1>2, <2>1, <2>2, QuietStep
<1> QED
  BY <1>2, <1>3, <1>4

(* The rows of the events a step leaves, as far as the grounds speak of    *)
(* them: none is lost, and each keeps its kind.                            *)
RowsKept ==
    /\ UNCHANGED <<wire, held>>
    /\ \A n \in DOMAIN events: n \in DOMAIN events' /\ events'[n].kind = events[n].kind

(* The insert of an event: a new row, a copy, or any other error.          *)
LEMMA StoreEventSide ==
    ASSUME InboundSide, InboundStep, NEW d \in Deliveries, Inbound!StoreEvent(d)
    PROVE  InboundSide' /\ RowsKept /\ UNCHANGED <<state, externalRef, moves>>
<1> DEFINE n == handling[d].event
           row == [kind |-> wire[n].kind, applied |-> FALSE, skipped |-> handling[d].skip]
<1>1. /\ InboundTypes /\ handling[d].step = "read" /\ n \in DOMAIN wire
      /\ UNCHANGED <<state, externalRef, wire, held, moves>>
  BY DEF InboundSide, InboundTypes, InboundStep, Inbound!StoreEvent, Inbound!appVars,
     Inbound!wireVars
<1>2. ASSUME n \notin DOMAIN events, events' = Inbound!Put(events, n, row),
             NEW step \in {"stored", "done"},
             handling' = [handling EXCEPT ![d].step = step]
      PROVE  InboundSide' /\ RowsKept
  <2>1. /\ DOMAIN events' = DOMAIN events \cup {n} /\ events'[n].kind = wire[n].kind
        /\ \A m \in DOMAIN events: events'[m] = events[m]
    BY <1>2 DEF Inbound!Put
  <2>2. /\ handling' \in [Deliveries -> Inbound!Handling]
        /\ handling'[d].step = step /\ handling'[d].event = n
        /\ \A e \in Deliveries: e # d => handling'[e] = handling[e]
    BY <1>1, <1>2, StepFacts
  <2>3. InboundTypes'
    <3>1. row \in Inbound!Row
      BY <1>1 DEF InboundTypes, Inbound!Row, Inbound!Event, Inbound!Handling
    <3>2. events' \in [DOMAIN events' -> Inbound!Row]
      BY <1>1, <1>2, <3>1, PutType DEF InboundTypes
    <3>3. moves' \in Seq(DOMAIN events')
      BY <1>1, <2>1 DEF InboundTypes
    <3> QED
      BY <1>1, <2>2, <3>2, <3>3 DEF InboundTypes, Inbound!Last
  <2>4. ~Moved(n) /\ \A m: Moved(m)' <=> Moved(m)
    BY <1>1, <1>2 DEF InboundTypes, Moved
  <2>5. HoldsItsRow' /\ OneMoverPerEvent'
    <3>1. \A e \in Deliveries: PastInsert(e) => handling[e].event # n
      BY <1>2 DEF InboundSide, HoldsItsRow
    <3>2. HoldsItsRow'
      BY <2>1, <2>2, <2>4 DEF InboundSide, HoldsItsRow, PastInsert
    <3>3. OneMoverPerEvent'
      BY <2>2, <3>1 DEF InboundSide, OneMoverPerEvent, PastInsert
    <3> QED
      BY <3>2, <3>3
  <2>6. ReportsAreGrounded' /\ RowsMatchReports'
    BY <1>1, <2>1 DEF InboundSide, ReportsAreGrounded, RowsMatchReports
  <2> QED
    BY <1>1, <2>1, <2>3, <2>5, <2>6 DEF InboundSide, RowsKept
<1>3. ASSUME handling' = Inbound!DuplicateAnswered(d), UNCHANGED events
      PROVE  InboundSide' /\ RowsKept
  <2>1. /\ handling' \in [Deliveries -> Inbound!Handling]
        /\ handling'[d].step = "done" /\ handling'[d].event = n
        /\ \A e \in Deliveries: e # d => handling'[e] = handling[e]
    BY <1>1, <1>3, StepFacts DEF Inbound!DuplicateAnswered
  <2>2. ~PastInsert(d)'
    BY <2>1 DEF PastInsert
  <2> QED
    BY <1>1, <1>3, <2>1, <2>2, QuietStep DEF RowsKept
<1>4. \/ /\ n \notin DOMAIN events /\ events' = Inbound!Put(events, n, row)
         /\ \E step \in {"stored", "done"}: handling' = [handling EXCEPT ![d].step = step]
      \/ handling' = Inbound!DuplicateAnswered(d) /\ UNCHANGED events
  BY DEF Inbound!StoreEvent, Inbound!AlreadyStored, Inbound!WithEvent
<1> QED
  BY <1>1, <1>2, <1>3, <1>4

(* What a move adds to the moves.                                          *)
LEMMA AppendFacts ==
    ASSUME InboundTypes, NEW n \in DOMAIN events, moves' = Append(moves, n)
    PROVE  /\ DOMAIN moves' = DOMAIN moves \cup {Len(moves) + 1}
           /\ Len(moves) + 1 \notin DOMAIN moves
           /\ \A i \in DOMAIN moves: moves'[i] = moves[i]
           /\ moves'[Len(moves) + 1] = n
           /\ moves' \in Seq(DOMAIN events)
           /\ \A m: Moved(m)' <=> Moved(m) \/ m = n
<1>1. moves \in Seq(DOMAIN events)
  BY DEF InboundTypes
<1>2. /\ DOMAIN moves' = DOMAIN moves \cup {Len(moves) + 1}
      /\ Len(moves) + 1 \notin DOMAIN moves
      /\ \A i \in DOMAIN moves: moves'[i] = moves[i]
      /\ moves'[Len(moves) + 1] = n
      /\ moves' \in Seq(DOMAIN events)
  BY <1>1
<1> QED
  BY <1>2 DEF Moved

(* A receipt brings a reference to something the university holds, and is  *)
(* itself on record.                                                       *)
BroughtBy(n) ==
    /\ n \in DOMAIN events'
    /\ events'[n].kind = "received"
    /\ externalRef' = wire[n].ref
    /\ wire[n].ref \in DOMAIN held

(* The transition: the application moves, once for the event, or not.      *)
LEMMA ApplyTransitionSide ==
    ASSUME InboundSide, AppliedAtMostOnce, InboundStep, NEW d \in Deliveries,
           Inbound!ApplyTransition(d)
    PROVE  /\ InboundSide' /\ RowsKept /\ AppliedAtMostOnce'
           /\ UNCHANGED externalRef \/ \E n \in DOMAIN events: BroughtBy(n)
<1> DEFINE n == handling[d].event
<1>1. /\ InboundTypes /\ handling[d].step = "stored" /\ n \in DOMAIN wire
      /\ UNCHANGED <<wire, held>>
  BY DEF InboundSide, InboundTypes, InboundStep, Inbound!ApplyTransition, Inbound!wireVars
<1>2. /\ n \in DOMAIN events /\ events[n] \in Inbound!Row /\ ~Moved(n)
      /\ \A e \in Deliveries: e # d /\ PastInsert(e) => handling[e].event # n
  BY <1>1 DEF InboundSide, InboundTypes, HoldsItsRow, OneMoverPerEvent, PastInsert
<1>3. PICK step \in {"moved", "done"}:
          /\ handling' = [handling EXCEPT ![d].step = step]
          /\ step = "moved" => moves' = Append(moves, n)
  BY DEF Inbound!ApplyTransition, Inbound!RefuseEvent, Inbound!MoveApplication
<1>4. /\ handling' \in [Deliveries -> Inbound!Handling]
      /\ handling'[d].step = step /\ handling'[d].event = n
      /\ \A e \in Deliveries: e # d => handling'[e] = handling[e]
  BY <1>1, <1>3, StepFacts
<1>5. /\ DOMAIN events' = DOMAIN events /\ events' \in [DOMAIN events -> Inbound!Row]
      /\ \A m \in DOMAIN events: events'[m].kind = events[m].kind
  <2>1. UNCHANGED events \/ events' = [events EXCEPT ![n].skipped = "refused"]
    BY DEF Inbound!ApplyTransition, Inbound!RefuseEvent
  <2>2. events \in [DOMAIN events -> Inbound!Row]
    BY <1>1 DEF InboundTypes
  <2>3. CASE UNCHANGED events
    BY <2>2, <2>3
  <2>4. CASE events' = [events EXCEPT ![n].skipped = "refused"]
    BY <2>2, <2>4 DEF Inbound!Row, Inbound!Reason
  <2> QED
    BY <2>1, <2>3, <2>4
<1>6. CASE UNCHANGED <<externalRef, moves>> /\ step = "done"
  <2>1. AppliedAtMostOnce' /\ \A m: Moved(m)' <=> Moved(m)
    BY <1>6 DEF AppliedAtMostOnce, Moved
  <2>2. HoldsItsRow' /\ OneMoverPerEvent'
    BY <1>4, <1>5, <1>6, <2>1 DEF InboundSide, HoldsItsRow, OneMoverPerEvent, PastInsert
  <2>3. InboundTypes'
    BY <1>1, <1>4, <1>5, <1>6 DEF InboundTypes, Inbound!Last
  <2>4. ReportsAreGrounded' /\ RowsMatchReports'
    BY <1>1, <1>5 DEF InboundSide, ReportsAreGrounded, RowsMatchReports
  <2> QED
    BY <1>1, <1>5, <1>6, <2>1, <2>2, <2>3, <2>4 DEF InboundSide, RowsKept
<1>7. CASE moves' = Append(moves, n) /\ Inbound!MoveApplication(n)
  <2>1. /\ DOMAIN moves' = DOMAIN moves \cup {Len(moves) + 1}
        /\ Len(moves) + 1 \notin DOMAIN moves
        /\ \A i \in DOMAIN moves: moves'[i] = moves[i]
        /\ moves'[Len(moves) + 1] = n
        /\ moves' \in Seq(DOMAIN events)
        /\ \A m: Moved(m)' <=> Moved(m) \/ m = n
    BY <1>1, <1>2, <1>7, AppendFacts
  <2>2. AppliedAtMostOnce'
    BY <1>2, <2>1 DEF AppliedAtMostOnce, Moved
  <2>3. HoldsItsRow'
    BY <1>2, <1>4, <1>5, <2>1 DEF InboundSide, HoldsItsRow, PastInsert
  <2>4. OneMoverPerEvent'
    BY <1>2, <1>4 DEF InboundSide, OneMoverPerEvent, PastInsert
  <2>5. InboundTypes'
    BY <1>1, <1>4, <1>5, <2>1 DEF InboundTypes, Inbound!Last
  <2>6. ReportsAreGrounded' /\ RowsMatchReports'
    BY <1>1, <1>5 DEF InboundSide, ReportsAreGrounded, RowsMatchReports
  <2>7. externalRef' = externalRef \/ BroughtBy(n)
    <3>1. CASE Inbound!StateForInbound(wire[n].kind) = "submitted"
      <4>1. wire[n].kind \in InboundKind
        BY <1>1, OneTable DEF InboundTypes, Inbound!Event
      <4>2. wire[n].kind = "received"
        BY <3>1, <4>1, OneTable, InboundStates
      <4>3. events'[n].kind = wire[n].kind /\ n \in DOMAIN events'
        BY <1>2, <1>5 DEF InboundSide, RowsMatchReports
      <4>4. wire[n].ref \in DOMAIN held
        BY <1>1 DEF InboundSide, ReportsAreGrounded
      <4>5. externalRef' = wire[n].ref
        BY <1>7, <3>1 DEF Inbound!MoveApplication
      <4> QED
        BY <4>2, <4>3, <4>4, <4>5 DEF BroughtBy
    <3>2. CASE Inbound!StateForInbound(wire[n].kind) # "submitted"
      BY <1>7, <3>2 DEF Inbound!MoveApplication
    <3> QED
      BY <3>1, <3>2
  <2> QED
    BY <1>1, <1>2, <1>5, <2>2, <2>3, <2>4, <2>5, <2>6, <2>7 DEF InboundSide, RowsKept
<1>8. \/ UNCHANGED <<externalRef, moves>> /\ step = "done"
      \/ moves' = Append(moves, n) /\ Inbound!MoveApplication(n)
  <2>1. \/ UNCHANGED <<externalRef, moves>> /\ Inbound!RefuseEvent(d)
        \/ Inbound!MoveApplication(n)
    BY DEF Inbound!ApplyTransition
  <2>2. Inbound!RefuseEvent(d) => handling'[d].step = "done"
    BY <1>1 DEF Inbound!RefuseEvent, InboundTypes, Inbound!Handling
  <2>3. Inbound!MoveApplication(n) => moves' = Append(moves, n)
    BY DEF Inbound!MoveApplication
  <2> QED
    BY <1>4, <2>1, <2>2, <2>3
<1> QED
  BY <1>6, <1>7, <1>8

(* The row is marked as applied.                                           *)
LEMMA MarkAppliedSide ==
    ASSUME InboundSide, InboundStep, NEW d \in Deliveries, Inbound!MarkApplied(d)
    PROVE  InboundSide' /\ RowsKept /\ UNCHANGED <<state, externalRef, moves>>
<1> DEFINE n == handling[d].event
<1>1. /\ InboundTypes /\ n \in DOMAIN wire /\ handling[d].step = "moved"
      /\ UNCHANGED <<state, externalRef, wire, held, moves>>
  BY DEF InboundSide, InboundTypes, InboundStep, Inbound!MarkApplied, Inbound!wireVars
<1>2. n \in DOMAIN events
  BY <1>1 DEF InboundSide, HoldsItsRow, PastInsert
<1>3. /\ handling' \in [Deliveries -> Inbound!Handling]
      /\ handling'[d].step = "done" /\ handling'[d].event = n
      /\ \A e \in Deliveries: e # d => handling'[e] = handling[e]
  BY <1>1, StepFacts DEF Inbound!MarkApplied
<1>4. /\ DOMAIN events' = DOMAIN events /\ events' \in [DOMAIN events -> Inbound!Row]
      /\ \A m \in DOMAIN events: events'[m].kind = events[m].kind
  <2>1. events' = [events EXCEPT ![n].applied = TRUE]
    BY DEF Inbound!MarkApplied, Inbound!WithApplied
  <2> QED
    BY <1>1, <1>2, <2>1 DEF InboundTypes, Inbound!Row
<1>5. HoldsItsRow' /\ OneMoverPerEvent'
  <2>1. \A m: Moved(m)' <=> Moved(m)
    BY <1>1 DEF Moved
  <2> QED
    BY <1>3, <1>4, <2>1 DEF InboundSide, HoldsItsRow, OneMoverPerEvent, PastInsert
<1>6. InboundTypes'
  BY <1>1, <1>3, <1>4 DEF InboundTypes, Inbound!Last
<1>7. ReportsAreGrounded' /\ RowsMatchReports'
  BY <1>1, <1>4 DEF InboundSide, ReportsAreGrounded, RowsMatchReports
<1> QED
  BY <1>1, <1>4, <1>5, <1>6, <1>7 DEF InboundSide, RowsKept

(***************************************************************************)
(* A reference has its grounds                                             *)
(***************************************************************************)

(* Grounds are not lost: what is held stays held, an accepted attempt      *)
(* keeps its row, and a stored event keeps its kind.                       *)
LEMMA GroundsStay ==
    ASSUME TypeOK, InboundSide, EvidenceEitherWay, UNCHANGED externalRef,
           DOMAIN held \subseteq DOMAIN held', RowsFinal,
           UNCHANGED wire,
           \A n \in DOMAIN events: n \in DOMAIN events' /\ events'[n].kind = events[n].kind
    PROVE  EvidenceEitherWay'
BY DEF EvidenceEitherWay, RowsFinal

LEMMA GatewayGrounds ==
    ASSUME GatewaySide, InboundSide, HandoffHasGrounds, GatewayStep
    PROVE  InboundSide' /\ HandoffHasGrounds'
<1>1. Next /\ UNCHANGED <<wire, answered, events, moves, handling, mishaps>>
  BY DEF GatewayStep
<1>2. TypeOK /\ GatewayInv
  BY DEF GatewaySide
<1>3. RowsFinal /\ ReferenceStep
  BY <1>1, <1>2, RowsFinalStep, NextReference
<1>4. InboundSide'
  BY <1>1, <1>3, EventsStay DEF ReferenceStep
<1>5. EvidenceEitherWay'
  <2>1. CASE UNCHANGED externalRef
    BY <1>1, <1>2, <1>3, <2>1, GroundsStay DEF ReferenceStep, HandoffHasGrounds
  <2>2. CASE EvidenceOf(externalRef')
    BY <1>3, <2>2 DEF EvidenceOf, ReferenceStep, RowsFinal, EvidenceEitherWay
  <2> QED
    BY <1>3, <2>1, <2>2 DEF ReferenceStep
<1>6. AppliedAtMostOnce'
  BY <1>1 DEF HandoffHasGrounds, AppliedAtMostOnce
<1> QED
  BY <1>4, <1>5, <1>6 DEF HandoffHasGrounds

LEMMA InboundGrounds ==
    ASSUME GatewaySide, InboundSide, HandoffHasGrounds, InboundStep
    PROVE  InboundSide' /\ HandoffHasGrounds'
<1>1. RowsFinal /\ UNCHANGED held /\ TypeOK /\ EvidenceEitherWay /\ AppliedAtMostOnce
  BY InboundUnchanged DEF RowsFinal, GatewaySide, HandoffHasGrounds
<1>2. ASSUME InboundSide', RowsKept, UNCHANGED <<externalRef, moves>>
      PROVE  InboundSide' /\ HandoffHasGrounds'
  <2>1. EvidenceEitherWay'
    BY <1>1, <1>2, GroundsStay DEF RowsKept
  <2>2. AppliedAtMostOnce'
    BY <1>1, <1>2 DEF AppliedAtMostOnce
  <2> QED
    BY <1>2, <2>1, <2>2 DEF HandoffHasGrounds
<1>3. CASE Inbound!University
  <2>1. InboundSide' /\ \A n \in DOMAIN wire: n \in DOMAIN wire' /\ wire'[n] = wire[n]
    BY <1>3, UniversitySide
  <2>2. UNCHANGED <<externalRef, events, moves>>
    BY <1>3 DEF Inbound!University, Inbound!Emit, Inbound!appVars, Inbound!rowVars
  <2>3. DOMAIN events \subseteq DOMAIN wire
    BY DEF InboundSide, RowsMatchReports
  <2>4. EvidenceEitherWay'
    BY <1>1, <2>1, <2>2, <2>3 DEF EvidenceEitherWay, RowsFinal
  <2>5. AppliedAtMostOnce'
    BY <1>1, <2>2 DEF AppliedAtMostOnce
  <2> QED
    BY <2>1, <2>4, <2>5 DEF HandoffHasGrounds
<1>4. ASSUME NEW d \in Deliveries,
             \/ \E n \in DOMAIN wire: Inbound!Read(d, n)
             \/ Inbound!Answer(d)
             \/ Inbound!Die(d)
      PROVE  InboundSide' /\ HandoffHasGrounds'
  <2>1. InboundSide' /\ UNCHANGED <<externalRef, wire, events, moves>>
    BY <1>4, BeginEndSide
  <2>2. RowsKept
    BY <1>1, <2>1 DEF RowsKept
  <2> QED
    BY <1>2, <2>1, <2>2
<1>5. ASSUME NEW d \in Deliveries, Inbound!StoreEvent(d) \/ Inbound!MarkApplied(d)
      PROVE  InboundSide' /\ HandoffHasGrounds'
  <2>1. InboundSide' /\ RowsKept /\ UNCHANGED <<externalRef, moves>>
    BY <1>5, StoreEventSide, MarkAppliedSide
  <2> QED
    BY <1>2, <2>1
<1>6. ASSUME NEW d \in Deliveries, Inbound!ApplyTransition(d)
      PROVE  InboundSide' /\ HandoffHasGrounds'
  <2>1. /\ InboundSide' /\ RowsKept /\ AppliedAtMostOnce'
        /\ UNCHANGED externalRef \/ \E n \in DOMAIN events: BroughtBy(n)
    BY <1>1, <1>6, ApplyTransitionSide
  <2>2. CASE UNCHANGED externalRef
    <3>1. EvidenceEitherWay'
      BY <1>1, <2>1, <2>2, GroundsStay DEF RowsKept
    <3> QED
      BY <2>1, <3>1 DEF HandoffHasGrounds
  <2>3. ASSUME NEW n \in DOMAIN events, BroughtBy(n) PROVE InboundSide' /\ HandoffHasGrounds'
    <3>1. EvidenceEitherWay'
      BY <2>1, <2>3 DEF BroughtBy, RowsKept, EvidenceEitherWay
    <3> QED
      BY <2>1, <3>1 DEF HandoffHasGrounds
  <2> QED
    BY <2>1, <2>2, <2>3
<1> QED
  BY <1>3, <1>4, <1>5, <1>6 DEF InboundStep, Inbound!Next, Inbound!Process

LEMMA InitSystemInv == InitSystem => SystemInv
<1> SUFFICES ASSUME InitSystem PROVE SystemInv
  OBVIOUS
<1>1. GatewaySide
  BY InitType, InitInv, BudgetInit, AloneInit DEF InitSystem, GatewaySide
<1> USE DEF InitSystem, Inbound!InitInbound
<1>2. InboundTypes
  <2>1. DOMAIN wire = {} /\ DOMAIN events = {} /\ Inbound!Last = 0
    BY FS_EmptySet, OneCardinality DEF Inbound!Last
  <2>2. handling \in [Deliveries -> Inbound!Handling] /\ \A d \in Deliveries: handling[d].step = "idle"
    BY DEF Inbound!Resting, Inbound!Handling, Inbound!Reason
  <2>3. wire \in [DOMAIN wire -> Inbound!Event] /\ events \in [DOMAIN events -> Inbound!Row]
    BY <2>1
  <2>4. moves \in Seq(DOMAIN events)
    OBVIOUS
  <2> QED
    BY <2>1, <2>2, <2>3, <2>4 DEF InboundTypes
<1>3. InboundSide
  BY <1>2 DEF InboundSide, ReportsAreGrounded, RowsMatchReports, HoldsItsRow,
     OneMoverPerEvent, PastInsert, Inbound!Resting
<1>4. HandoffHasGrounds
  BY DEF HandoffHasGrounds, EvidenceEitherWay, AppliedAtMostOnce, Init
<1> QED
  BY <1>1, <1>3, <1>4 DEF SystemInv

LEMMA NextSystemInv ==
    ASSUME SystemInv, [NextSystem]_systemVars
    PROVE  SystemInv'
<1>1. GatewaySide /\ InboundSide /\ HandoffHasGrounds
  BY DEF SystemInv
<1>2. CASE GatewayStep
  BY <1>1, <1>2, GatewaySideNext, GatewayGrounds DEF GatewayStep, SystemInv
<1>3. ASSUME NEW n \in DOMAIN attempts, CompleteHandoff(n) PROVE SystemInv'
  <2>1. GatewaySide' /\ DOMAIN held \subseteq DOMAIN held'
    BY <1>1, <1>3, CompleteHandoffSide
  <2>2. UNCHANGED <<externalRef, attempts, wire, events, moves, handling>>
    BY <1>3 DEF CompleteHandoff, appVars
  <2>3. InboundSide'
    BY <1>1, <2>1, <2>2, EventsStay
  <2>4. HandoffHasGrounds'
    BY <1>1, <2>1, <2>2 DEF HandoffHasGrounds, EvidenceEitherWay, AppliedAtMostOnce
  <2> QED
    BY <2>1, <2>3, <2>4 DEF SystemInv
<1>4. CASE InboundStep
  BY <1>1, <1>4, InboundGatewaySide, InboundGrounds DEF SystemInv
<1>5. CASE UNCHANGED systemVars
  <2>1. UNCHANGED vars /\ UNCHANGED <<wire, events, moves, handling>>
    BY <1>5 DEF systemVars, inboundVars
  <2>2. TypeOK' /\ GatewayInv' /\ BudgetInv' /\ AloneInv'
    BY <1>1, <2>1, NextType, NextInv, NextBudget, NextAlone DEF GatewaySide
  <2>3. UNCHANGED <<externalRef, attempts, held>>
    BY <2>1 DEF vars, appVars
  <2>4. InboundSide'
    BY <1>1, <2>1, <2>3, EventsStay
  <2>5. HandoffHasGrounds'
    BY <1>1, <2>1, <2>3 DEF HandoffHasGrounds, EvidenceEitherWay, AppliedAtMostOnce
  <2> QED
    BY <2>2, <2>4, <2>5 DEF SystemInv, GatewaySide
<1> QED
  BY <1>2, <1>3, <1>4, <1>5 DEF NextSystem

LEMMA SystemInvCorrect == SystemSpec => []SystemInv
BY InitSystemInv, NextSystemInv, PTL DEF SystemSpec

(* With events about: a reference on the application is one the university *)
(* issued, on the evidence of an accepted attempt or a stored receipt, and *)
(* no event moves the application twice (applyOutcome, apply).             *)
THEOREM HandoffHasGroundsCorrect == SystemSpec => []HandoffHasGrounds
<1>1. SystemInv => HandoffHasGrounds
  BY DEF SystemInv
<1> QED
  BY <1>1, SystemInvCorrect, PTL

(* What the gateway guarantees of what is sent survives the events and the *)
(* handoffs students complete themselves: the university holds stored      *)
(* snapshots, one application per submission, each with an attempt row,    *)
(* within the budget and never by two calls at once.                       *)
THEOREM GuaranteesSurvive ==
    SystemSpec => [](/\ PartnerHoldsSnapshot /\ OneApplicationPerSubmission
                     /\ NothingSentUnrecorded /\ AttemptBudget /\ NoParallelTries)
<1>1. SystemInv => /\ PartnerHoldsSnapshot /\ OneApplicationPerSubmission
                   /\ NothingSentUnrecorded /\ AttemptBudget /\ NoParallelTries
  <2> SUFFICES ASSUME SystemInv
               PROVE  /\ PartnerHoldsSnapshot /\ OneApplicationPerSubmission
                      /\ NothingSentUnrecorded /\ AttemptBudget /\ NoParallelTries
    OBVIOUS
  <2>1. PartnerHoldsSnapshot /\ NothingSentUnrecorded
    BY DEF SystemInv, GatewaySide, GatewayInv
  <2>2. OneApplicationPerSubmission
    BY DEF SystemInv, GatewaySide, GatewayInv, FiledByKey, OneApplicationPerSubmission
  <2>3. AttemptBudget
    BY BudgetHolds DEF SystemInv, GatewaySide
  <2>4. NoParallelTries
    BY AloneHolds DEF SystemInv, GatewaySide
  <2> QED
    BY <2>1, <2>2, <2>3, <2>4
<1> QED
  BY <1>1, SystemInvCorrect, PTL

LEMMA SystemRowsFinal ==
    ASSUME SystemInv, NextSystem
    PROVE  RowsFinal
<1>1. CASE GatewayStep
  BY <1>1, RowsFinalStep DEF GatewayStep, SystemInv, GatewaySide
<1>2. CASE UNCHANGED attempts
  BY <1>2 DEF RowsFinal
<1> QED
  BY <1>1, <1>2, InboundUnchanged DEF NextSystem, CompleteHandoff

(* Events included, an attempt row is rewritten only by the call that      *)
(* opened it, once: no event and no late handoff rewrites evidence.        *)
THEOREM SystemOutcomeFinal == SystemSpec => OutcomeIsFinal
<1>1. SystemInv /\ [NextSystem]_systemVars => [RowsFinal]_vars
  BY SystemRowsFinal DEF systemVars
<1>2. SystemSpec => [][RowsFinal]_vars
  BY <1>1, SystemInvCorrect, PTL DEF SystemSpec
<1> QED
  BY <1>2 DEF OutcomeIsFinal, RowsFinal

(***************************************************************************)
(* The whole still implements the promise                                  *)
(***************************************************************************)

(* A completed handoff: the university takes what was fixed.               *)
LEMMA HandoffKeeps ==
    ASSUME GatewaySide, NEW n \in DOMAIN attempts, CompleteHandoff(n)
    PROVE  [Promise!Next]_(Promise!vars)
<1> DEFINE sub == attempts[n].sub
           application == [sub |-> sub, version |-> snapshots[sub]]
<1>1. /\ UNCHANGED <<state, externalRef, snapshots>>
      /\ held' = Extend(held, sub, application)
      /\ sub \notin DOMAIN held
  BY DEF CompleteHandoff, PartnerKey, appVars
<1>2. PICK s \in DOMAIN snapshots: s = sub
  <2>1. [sub |-> sub, att |-> n] \in Tries
    BY DEF Tries
  <2>2. [sub |-> sub, att |-> n].sub \in DOMAIN snapshots
    BY <2>1 DEF GatewaySide, BudgetInv, TriesHaveSnapshot
  <2> QED
    BY <2>2
<1>3. /\ DOMAIN held' = DOMAIN held \cup {s}
      /\ held'[s].version = snapshots[s]
      /\ \A k \in DOMAIN held: held'[k] = held[k]
  BY <1>1, <1>2 DEF Extend
<1>4. [k \in DOMAIN held' |-> held'[k].version] = Promise!Add(Taken, s, snapshots[s])
  BY <1>1, <1>2, <1>3 DEF Promise!Add, Taken
<1>5. s \in DOMAIN snapshots \ DOMAIN Taken
  BY <1>1, <1>2 DEF Taken
<1>6. Promise!Take(s)
  BY <1>1, <1>4, <1>5 DEF Promise!Take, Taken
<1> QED
  BY <1>6 DEF Promise!Next

(* An event that moves the application: a receipt ends the sending with a  *)
(* reference to something taken, and any other is a move of the table.     *)
LEMMA EventKeepsPromise ==
    ASSUME GatewaySide, InboundSide, InboundStep
    PROVE  [Promise!Next]_(Promise!vars)
<1>1. UNCHANGED <<snapshots, held, Taken>> /\ state \in ApplicationState
  BY InboundUnchanged DEF Taken, GatewaySide, TypeOK
<1>2. CASE UNCHANGED <<state, externalRef>>
  BY <1>1, <1>2, UnseenStutters DEF Unseen
<1>3. ASSUME NEW d \in Deliveries, Inbound!ApplyTransition(d), ~UNCHANGED <<state, externalRef>>
      PROVE  [Promise!Next]_(Promise!vars)
  <2> DEFINE n == handling[d].event
             to == StateForInbound(wire[n].kind)
  <2>1. n \in DOMAIN wire /\ wire[n].kind \in InboundKind
    <3>1. n \in DOMAIN wire /\ wire[n] \in Inbound!Event
      BY <1>3 DEF Inbound!ApplyTransition, InboundSide, InboundTypes
    <3> QED
      BY <3>1, OneTable DEF Inbound!Event
  <2>2. /\ Allowed(state, to, "university") /\ state' = to
        /\ externalRef' = IF to = "submitted" THEN wire[n].ref ELSE externalRef
    BY <1>3, OneTable DEF Inbound!ApplyTransition, Inbound!MoveApplication
  <2>3. wire[n].ref \in DOMAIN held
    BY <2>1 DEF InboundSide, ReportsAreGrounded
  <2>4. CASE to = "submitted"
    <3>1. PhaseOf(state) = "sending" /\ PhaseOf(state') = "with_university"
      BY <1>1, <2>2, <2>4 DEF Allowed, CanTransition, Successors, PhaseOf, ApplicationState
    <3>2. PICK ref \in DOMAIN held: ref = wire[n].ref
      BY <2>3
    <3>3. externalRef' = ref /\ ref \in DOMAIN Taken
      BY <2>2, <2>4, <3>2 DEF Taken
    <3>4. Promise!Receive(ref)
      BY <1>1, <3>1, <3>3 DEF Promise!Receive, Taken
    <3>5. \E r \in DOMAIN [k \in DOMAIN held |-> held[k].version]: Promise!Receive(r)
      BY <3>4
    <3> QED
      BY <3>5 DEF Promise!Next
  <2>5. CASE to # "submitted"
    <3>1. to \in ApplicationState /\ to \notin {"submitted_pending", "submitted", "failed"}
      BY <2>1, <2>5 DEF StateForInbound, InboundKind, ApplicationState
    <3> QED
      BY <1>1, <2>2, <2>5, <3>1, MoveKeepsPromise DEF TransitionActor
  <2> QED
    BY <2>4, <2>5
<1> QED
  BY <1>2, <1>3 DEF InboundStep, Inbound!Next, Inbound!University, Inbound!Emit,
     Inbound!Read, Inbound!Process, Inbound!StoreEvent, Inbound!MarkApplied,
     Inbound!Answer, Inbound!Die, Inbound!appVars

LEMMA SystemStepKeepsPromise ==
    ASSUME SystemInv, "submitted" \notin PortalStates, [NextSystem]_systemVars
    PROVE  [Promise!Next]_(Promise!vars)
<1>1. GatewaySide /\ InboundSide /\ TypeOK /\ GatewayInv
  BY DEF SystemInv, GatewaySide
<1>2. CASE [Next]_vars
  BY <1>1, <1>2, StepKeepsPromise
<1>3. CASE \E n \in DOMAIN attempts: CompleteHandoff(n)
  BY <1>1, <1>3, HandoffKeeps
<1>4. CASE InboundStep
  BY <1>1, <1>4, EventKeepsPromise
<1> QED
  BY <1>2, <1>3, <1>4 DEF NextSystem, GatewayStep, systemVars

(* Handoffs and events included, every behaviour in which nobody confirms  *)
(* by hand is one the promise allows: an event moves the application only  *)
(* the way the promise says, with a reference to what is there             *)
(* (InboundStatusService.apply).                                           *)
THEOREM SystemKeepsPromise ==
    ASSUME "submitted" \notin PortalStates
    PROVE  SystemSpec => KeepsPromise
<1>1. InitSystem => Promise!Init
  BY InitKeepsPromise DEF InitSystem
<1> QED
  BY <1>1, SystemStepKeepsPromise, SystemInvCorrect, PTL
     DEF SystemSpec, KeepsPromise, Promise!Spec

(* Hence an application shown as submitted, or further on, is one the      *)
(* university holds, whichever way its reference came.                     *)
THEOREM SystemShownIsTaken ==
    ASSUME "submitted" \notin PortalStates
    PROVE  SystemSpec => []ShownIsTaken
BY SystemKeepsPromise, PromiseShowsTaken, PTL DEF KeepsPromise, ShownIsTaken
===============================================================================
