------------------------------ MODULE Submission ------------------------------
(***************************************************************************)
(* The submission gateway: how one application travels from a student's    *)
(* vault to a university, and what is on record at every moment of it.     *)
(*                                                                         *)
(* Modelled: ApplicationsService.{markReady, recordConsents, submit,       *)
(* withdraw, respondToOffer, completeTask}, ApplicationStateService        *)
(* .transition, SubmissionService.{dispatch, applyOutcome, retry}, the     *)
(* retry worker and its queue, and the university portal's state update.   *)
(* A request of the API or a job of a worker is a process: each of its     *)
(* database writes and its call to the university is one step, so a crash, *)
(* a lost answer or another process may come between any two of them.      *)
(* One application is modelled; no action of the code reads two.           *)
(***************************************************************************)
EXTENDS Naturals, FiniteSets, ApplicationStates

CONSTANTS
    Requests,        \* API requests that can be in progress at once
    Workers,         \* queue workers that run retry jobs
    Outcomes,        \* what the application's connector can answer
    InitialRoutes,   \* how the connector may be configured at the start
    PortalStates,    \* states the university's staff set in their portal
    MaxAttempts,     \* MAX_SUBMISSION_ATTEMPTS
    JobTries,        \* how often the queue runs one job before dead-lettering it
    MaxSubmissions,  \* bound: snapshots a student takes
    MaxVersion,      \* bound: versions of the programme's requirements
    MaxFaults        \* bound: crashes, lost enqueues, switch-offs, quarantines

OutcomeStatus ==
    {"accepted", "handoff_required", "queued", "rejected", "retryable_failure"}

ASSUME ProcessAssumption == Requests \cap Workers = {}
ASSUME OutcomeAssumption == Outcomes \subseteq OutcomeStatus
ASSUME PortalAssumption  == PortalStates \subseteq ApplicationState
ASSUME RouteAssumption   == InitialRoutes \subseteq {"none", "off", "on"}
ASSUME NumberAssumption  ==
    /\ MaxAttempts \in Nat \ {0}
    /\ JobTries \in Nat \ {0}
    /\ MaxSubmissions \in Nat
    /\ MaxVersion \in Nat
    /\ MaxFaults \in Nat

VARIABLES
    state,          \* application.state
    ack,            \* application.acknowledgedRequirements, as a version
    externalRef,    \* application.externalRef
    pendingOn,      \* submissionNo the last move to submitted_pending recorded
    requirements,   \* version of the programme's published requirements
    consented,      \* the three submission consents are on record
    route,          \* connector: "none" configured, switched "off", or "on"
    documentsClean, \* every document of the student may reach a connector
    snapshots,      \* submissionNo -> requirements version in the payload
    attempts,       \* attemptNo -> attempt row
    tasks,          \* owners that have an open task on the application
    jobs,           \* retry jobs waiting in the connector-submission queue
    deadJobs,       \* jobs in that queue's dead-letter queue
    held,           \* partner key -> application the university holds
    calls,          \* the requests and jobs in progress
    faults          \* faults injected so far

appVars   == <<state, ack, externalRef, pendingOn>>
envVars   == <<requirements, consented, route, documentsClean>>
queueVars == <<jobs, deadJobs>>
vars == <<appVars, envVars, snapshots, attempts, tasks, queueVars, held, calls, faults>>

Processes == Requests \cup Workers
NoRef     == 0
NoVersion == 0

Step == {"idle", "acknowledging", "checked", "counted", "snapshotted",
         "dispatching", "calling", "answered", "recorded", "returning"}
AttemptState == {"in_flight", "accepted", "awaiting_handoff", "queued",
                 "rejected", "failed", "dead_lettered"}
Attempt == [sub: Nat, state: AttemptState, ref: Nat]
Job     == [sub: Nat, att: Nat, tries: Nat]

(* A call in progress: where it is, and the values it read on the way.     *)
Call == [step: Step, seen: ApplicationState, sub: Nat, att: Nat, version: Nat,
         tries: Nat, outcome: OutcomeStatus \cup {"none"}]
Idle == [step |-> "idle", seen |-> "draft", sub |-> 0, att |-> 0,
         version |-> 0, tries |-> 0, outcome |-> "none"]

Extend(f, x, v) == [y \in DOMAIN f \cup {x} |-> IF y = x THEN v ELSE f[y]]

TypeOK ==
    /\ state \in ApplicationState
    /\ ack \in Nat
    /\ externalRef \in Nat
    /\ pendingOn \in Nat
    /\ requirements \in Nat
    /\ consented \in BOOLEAN
    /\ route \in {"none", "off", "on"}
    /\ documentsClean \in BOOLEAN
    /\ IsFiniteSet(DOMAIN snapshots) /\ DOMAIN snapshots \subseteq Nat
    /\ snapshots \in [DOMAIN snapshots -> Nat]
    /\ IsFiniteSet(DOMAIN attempts) /\ DOMAIN attempts \subseteq Nat
    /\ attempts \in [DOMAIN attempts -> Attempt]
    /\ tasks \subseteq {"student", "modex_ops"}
    /\ jobs \subseteq Job
    /\ deadJobs \subseteq Job
    /\ DOMAIN held \subseteq Nat
    /\ held \in [DOMAIN held -> [sub: Nat, version: Nat]]
    /\ calls \in [Processes -> Call]
    /\ faults \in Nat

Init ==
    /\ state = "draft"
    /\ ack = NoVersion
    /\ externalRef = NoRef
    /\ pendingOn = 0
    /\ requirements = 1
    /\ consented = FALSE
    /\ route \in InitialRoutes
    /\ documentsClean = TRUE
    /\ snapshots = [n \in {} |-> 0]
    /\ attempts = [n \in {} |-> 0]
    /\ tasks = {}
    /\ jobs = {}
    /\ deadJobs = {}
    /\ held = [k \in {} |-> 0]
    /\ calls = [p \in Processes |-> Idle]
    /\ faults = 0

(***************************************************************************)
(* The rules the gateway applies                                           *)
(***************************************************************************)

(* The key the university dedupes on: one per submission, whatever the try.*)
PartnerKeyPerAttempt(sub, att) == att
PartnerKey(sub, att) == sub

(* Only an accepted answer with the university's reference is a receipt.   *)
IsReceiptUnlessRejected(outcome) == outcome # "rejected"
IsReceipt(outcome) == outcome = "accepted"

(* A retryable failure on the last attempt number gives up.                *)
ExhaustedLate(outcome, att) == outcome = "retryable_failure" /\ att > MaxAttempts
Exhausted(outcome, att) == outcome = "retryable_failure" /\ att >= MaxAttempts

(* attemptStateFor, with the dead letter that overrides it.                *)
RecordedAsAnswered(outcome, att) == outcome
RecordedState(outcome, att) ==
    CASE Exhausted(outcome, att)         -> "dead_lettered"
      [] outcome = "accepted"            -> "accepted"
      [] outcome = "handoff_required"    -> "awaiting_handoff"
      [] outcome = "queued"              -> "queued"
      [] outcome = "rejected"            -> "rejected"
      [] OTHER                           -> "failed"

(* A retry re-sends the stored snapshot, never a payload built again.      *)
RetryPayloadRebuilt(sub) == requirements
RetryPayload(sub) == snapshots[sub]

(* A retry acts only while the submission is still waiting.                *)
RetryWanted == state = "submitted_pending"

(* BullMQ: a job that threw runs again, or is dead-lettered on the last try*)
JobFails(job, waiting) ==
    IF job.tries + 1 < JobTries
    THEN /\ jobs' = waiting \cup {[job EXCEPT !.tries = @ + 1]}
         /\ UNCHANGED deadJobs
    ELSE /\ jobs' = waiting
         /\ deadJobs' = deadJobs \cup {job}

JobOf(p) == [sub |-> calls[p].sub, att |-> calls[p].att, tries |-> calls[p].tries]

At(p, step) == calls[p].step = step
Goto(p, step) == calls' = [calls EXCEPT ![p].step = step]
Finish(p) == calls' = [calls EXCEPT ![p] = Idle]

(* The call ends in an exception: an error page, or a failed job.          *)
Throws(p) ==
    /\ Finish(p)
    /\ IF p \in Workers THEN JobFails(JobOf(p), jobs) ELSE UNCHANGED queueVars
    /\ UNCHANGED <<appVars, envVars, snapshots, attempts, tasks, held, faults>>

(***************************************************************************)
(* The student                                                             *)
(***************************************************************************)

(* ApplicationsService.markReady: the application and the requirements are *)
(* read first, and written in a later step.                                *)
MarkReadyRead(p) ==
    /\ At(p, "idle")
    /\ documentsClean
    /\ calls' = [calls EXCEPT ![p] = [Idle EXCEPT !.step = "acknowledging",
                                                  !.seen = state,
                                                  !.version = requirements]]
    /\ UNCHANGED <<appVars, envVars, snapshots, attempts, tasks, queueVars, held, faults>>

(* An application read as ready is re-acknowledged in place, whatever has  *)
(* become of it since; any other is moved to ready.                        *)
MarkReadyWrite(p) ==
    /\ At(p, "acknowledging")
    /\ IF calls[p].seen = "ready"
       THEN /\ ack' = calls[p].version
            /\ UNCHANGED state
       ELSE IF Allowed(state, "ready", "student")
       THEN /\ state' = "ready"
            /\ ack' = calls[p].version
       ELSE UNCHANGED <<state, ack>>
    /\ Finish(p)
    /\ UNCHANGED <<externalRef, pendingOn, envVars, snapshots, attempts, tasks,
                   queueVars, held, faults>>

RecordConsents ==
    /\ ~consented
    /\ consented' = TRUE
    /\ UNCHANGED <<appVars, requirements, route, documentsClean, snapshots, attempts,
                   tasks, queueVars, held, calls, faults>>

Withdraw ==
    /\ Allowed(state, "withdrawn", "student")
    /\ state' = "withdrawn"
    /\ UNCHANGED <<ack, externalRef, pendingOn, envVars, snapshots, attempts, tasks,
                   queueVars, held, calls, faults>>

RespondToOffer(decision) ==
    /\ Allowed(state, decision, "student")
    /\ state' = decision
    /\ UNCHANGED <<ack, externalRef, pendingOn, envVars, snapshots, attempts, tasks,
                   queueVars, held, calls, faults>>

CompleteTask ==
    /\ "student" \in tasks
    /\ tasks' = tasks \ {"student"}
    /\ UNCHANGED <<appVars, envVars, snapshots, attempts, queueVars, held, calls, faults>>

(***************************************************************************)
(* ApplicationsService.submit                                              *)
(***************************************************************************)

(* What has to hold before anything is built: the drift check compares     *)
(* what the student acknowledged with what is published now.               *)
SubmitGuard ==
    /\ state \in {"ready", "failed"}
    /\ ack = requirements
    /\ consented

SubmitCheck(p) ==
    /\ At(p, "idle")
    /\ Cardinality(DOMAIN snapshots) < MaxSubmissions
    /\ SubmitGuard
    /\ calls' = [calls EXCEPT ![p] = [Idle EXCEPT !.step = "checked"]]
    /\ UNCHANGED <<appVars, envVars, snapshots, attempts, tasks, queueVars, held, faults>>

(* payloads.build reads the requirements again, and the numbers are counts *)
(* of the rows there are.                                                  *)
SubmitCount(p) ==
    /\ At(p, "checked")
    /\ IF documentsClean
       THEN calls' = [calls EXCEPT ![p].step = "counted",
                                   ![p].version = requirements,
                                   ![p].sub = Cardinality(DOMAIN snapshots) + 1,
                                   ![p].att = Cardinality(DOMAIN attempts) + 1]
       ELSE Finish(p)
    /\ UNCHANGED <<appVars, envVars, snapshots, attempts, tasks, queueVars, held, faults>>

(* Snapshots are append-only, and unique by (application, submissionNo).   *)
SnapshotFree(sub) == sub \notin DOMAIN snapshots

SubmitSnapshot(p) ==
    /\ At(p, "counted")
    /\ IF SnapshotFree(calls[p].sub)
       THEN /\ snapshots' = Extend(snapshots, calls[p].sub, calls[p].version)
            /\ Goto(p, "snapshotted")
       ELSE /\ Finish(p)
            /\ UNCHANGED snapshots
    /\ UNCHANGED <<appVars, envVars, attempts, tasks, queueVars, held, faults>>

(* The compare-and-set to submitted_pending, by the student or an operator.*)
SubmitMove(p) ==
    /\ At(p, "snapshotted")
    /\ IF \E actor \in {"student", "system"}: Allowed(state, "submitted_pending", actor)
       THEN /\ state' = "submitted_pending"
            /\ pendingOn' = calls[p].sub
            /\ Goto(p, "dispatching")
       ELSE /\ Finish(p)
            /\ UNCHANGED <<state, pendingOn>>
    /\ UNCHANGED <<ack, externalRef, envVars, snapshots, attempts, tasks, queueVars,
                   held, faults>>

(***************************************************************************)
(* SubmissionService.dispatch and applyOutcome                             *)
(***************************************************************************)

(* Attempt rows are unique by (application, attemptNo).                    *)
AttemptOverwritten(att) == TRUE
AttemptFree(att) == att \notin DOMAIN attempts

(* Refused without a usable route, or when the attempt number is taken.    *)
DispatchRefused(p) ==
    /\ At(p, "dispatching")
    /\ route # "on" \/ ~AttemptFree(calls[p].att)
    /\ Throws(p)

(* The attempt row is written before anything leaves the building.         *)
WithoutOpenedRow(p) == attempts
WithOpenedRow(p) ==
    Extend(attempts, calls[p].att,
           [sub |-> calls[p].sub, state |-> "in_flight", ref |-> NoRef])

DispatchOpen(p) ==
    /\ At(p, "dispatching")
    /\ route = "on"
    /\ AttemptFree(calls[p].att)
    /\ attempts' = WithOpenedRow(p)
    /\ Goto(p, "calling")
    /\ UNCHANGED <<appVars, envVars, snapshots, tasks, queueVars, held, faults>>

(* The university (external).  A key it has already seen returns the       *)
(* application it made then; a retryable failure may or may not have       *)
(* reached it; a route that confirms later leaves nothing there yet.       *)
PartnerTakes(p) ==
    LET key == PartnerKey(calls[p].sub, calls[p].att)
    IN  IF key \in DOMAIN held
        THEN held
        ELSE Extend(held, key, [sub |-> calls[p].sub, version |-> calls[p].version])

Exchange(p, outcome) ==
    /\ At(p, "calling")
    /\ \/ outcome = "accepted" /\ held' = PartnerTakes(p)
       \/ outcome = "retryable_failure" /\ held' \in {held, PartnerTakes(p)}
       \/ /\ outcome = "rejected"
          /\ PartnerKey(calls[p].sub, calls[p].att) \notin DOMAIN held
          /\ UNCHANGED held
       \/ outcome \in {"handoff_required", "queued"} /\ UNCHANGED held
    /\ calls' = [calls EXCEPT ![p].step = "answered", ![p].outcome = outcome]
    /\ UNCHANGED <<appVars, envVars, snapshots, attempts, tasks, queueVars, faults>>

RecordOutcome(p) ==
    /\ At(p, "answered")
    /\ attempts' = [attempts EXCEPT
           ![calls[p].att].state = RecordedState(calls[p].outcome, calls[p].att),
           ![calls[p].att].ref = IF IsReceipt(calls[p].outcome)
                                 THEN PartnerKey(calls[p].sub, calls[p].att)
                                 ELSE NoRef]
    /\ Goto(p, "recorded")
    /\ UNCHANGED <<appVars, envVars, snapshots, tasks, queueVars, held, faults>>

Confirm(p) ==
    /\ At(p, "recorded")
    /\ IsReceipt(calls[p].outcome)
    /\ IF Allowed(state, "submitted", "system")
       THEN /\ state' = "submitted"
            /\ externalRef' = PartnerKey(calls[p].sub, calls[p].att)
            /\ Goto(p, "returning")
            /\ UNCHANGED <<ack, pendingOn, envVars, snapshots, attempts, tasks,
                           queueVars, held, faults>>
       ELSE Throws(p)

Reject(p) ==
    /\ At(p, "recorded")
    /\ calls[p].outcome = "rejected"
    /\ IF Allowed(state, "failed", "system")
       THEN /\ state' = "failed"
            /\ tasks' = tasks \cup {"student"}
            /\ Goto(p, "returning")
            /\ UNCHANGED <<ack, externalRef, pendingOn, envVars, snapshots, attempts,
                           queueVars, held, faults>>
       ELSE Throws(p)

(* After the last attempt a human has to look: the state is left alone.    *)
NotEscalated == tasks
Escalated == tasks \cup {"modex_ops"}

DeadLetter(p) ==
    /\ At(p, "recorded")
    /\ Exhausted(calls[p].outcome, calls[p].att)
    /\ tasks' = Escalated
    /\ Goto(p, "returning")
    /\ UNCHANGED <<appVars, envVars, snapshots, attempts, queueVars, held, faults>>

(* The enqueue of the next try may fail; the failure is only logged.       *)
ScheduleRetry(p) ==
    /\ At(p, "recorded")
    /\ calls[p].outcome = "retryable_failure"
    /\ ~Exhausted(calls[p].outcome, calls[p].att)
    /\ \/ /\ jobs' = jobs \cup {[sub |-> calls[p].sub, att |-> calls[p].att + 1,
                                 tries |-> 0]}
          /\ UNCHANGED <<deadJobs, faults>>
       \/ /\ faults < MaxFaults
          /\ faults' = faults + 1
          /\ UNCHANGED queueVars
    /\ Goto(p, "returning")
    /\ UNCHANGED <<appVars, envVars, snapshots, attempts, tasks, held>>

(* A handoff or a queued package: confirmation comes, if at all, inbound.  *)
AwaitPartner(p) ==
    /\ At(p, "recorded")
    /\ calls[p].outcome \in {"handoff_required", "queued"}
    /\ Goto(p, "returning")
    /\ UNCHANGED <<appVars, envVars, snapshots, attempts, tasks, queueVars, held, faults>>

(* The answer reaches the client, or the queue learns the job is done.     *)
Return(p) ==
    /\ At(p, "returning")
    /\ Finish(p)
    /\ UNCHANGED <<appVars, envVars, snapshots, attempts, tasks, queueVars, held, faults>>

(***************************************************************************)
(* SubmissionService.retry, run by a worker of connector-submission        *)
(***************************************************************************)

RetryNoop(w, job) ==
    /\ At(w, "idle")
    /\ ~RetryWanted \/ job.sub \notin DOMAIN snapshots
    /\ jobs' = jobs \ {job}
    /\ UNCHANGED <<appVars, envVars, snapshots, attempts, tasks, deadJobs, held, calls,
                   faults>>

(* A document may no longer leave the vault: the job fails.                *)
RetryRefused(w, job) ==
    /\ At(w, "idle")
    /\ RetryWanted
    /\ job.sub \in DOMAIN snapshots
    /\ ~documentsClean
    /\ JobFails(job, jobs \ {job})
    /\ UNCHANGED <<appVars, envVars, snapshots, attempts, tasks, held, calls, faults>>

RetryStart(w, job) ==
    /\ At(w, "idle")
    /\ RetryWanted
    /\ job.sub \in DOMAIN snapshots
    /\ documentsClean
    /\ jobs' = jobs \ {job}
    /\ calls' = [calls EXCEPT ![w] = [Idle EXCEPT !.step = "dispatching",
                                                  !.sub = job.sub,
                                                  !.att = job.att,
                                                  !.tries = job.tries,
                                                  !.version = RetryPayload(job.sub)]]
    /\ UNCHANGED <<appVars, envVars, snapshots, attempts, tasks, deadJobs, held, faults>>

(***************************************************************************)
(* Everyone else                                                           *)
(***************************************************************************)

(* UniversityPortalService.updateApplicationState: any state the table     *)
(* allows the university to set, with no reference.                        *)
PortalMove(to) ==
    /\ Allowed(state, to, "university")
    /\ state' = to
    /\ UNCHANGED <<ack, externalRef, pendingOn, envVars, snapshots, attempts, tasks,
                   queueVars, held, calls, faults>>

(* reviewRequirement bumps the version of a published requirement.         *)
ReviewRequirement ==
    /\ requirements < MaxVersion
    /\ requirements' = requirements + 1
    /\ UNCHANGED <<appVars, consented, route, documentsClean, snapshots, attempts, tasks,
                   queueVars, held, calls, faults>>

(* OpsConsoleService.setConnectorEnabled.                                  *)
SetConnectorEnabled(enabled) ==
    /\ route # "none"
    /\ IF enabled
       THEN route = "off" /\ route' = "on" /\ UNCHANGED faults
       ELSE route = "on" /\ route' = "off" /\ faults < MaxFaults /\ faults' = faults + 1
    /\ UNCHANGED <<appVars, requirements, consented, documentsClean, snapshots, attempts,
                   tasks, queueVars, held, calls>>

(* DocumentsService.runScan of a version scanned before finds something.   *)
Quarantine ==
    /\ documentsClean
    /\ faults < MaxFaults
    /\ documentsClean' = FALSE
    /\ faults' = faults + 1
    /\ UNCHANGED <<appVars, requirements, consented, route, snapshots, attempts, tasks,
                   queueVars, held, calls>>

(* The process dies between two steps: the queue delivers a worker's job   *)
(* again, and nothing else remembers a request.                            *)
Crash(p) ==
    /\ ~At(p, "idle")
    /\ faults < MaxFaults
    /\ faults' = faults + 1
    /\ Finish(p)
    /\ jobs' = IF p \in Workers THEN jobs \cup {JobOf(p)} ELSE jobs
    /\ UNCHANGED <<appVars, envVars, snapshots, attempts, tasks, deadJobs, held>>

(* A write of a job throws, the audit write after a move among them: what  *)
(* was written before it stays, and the job counts as failed.  For a       *)
(* request the effect is that of a crash.                                  *)
WriteFails(w) ==
    /\ ~At(w, "idle")
    /\ faults < MaxFaults
    /\ faults' = faults + 1
    /\ Finish(w)
    /\ JobFails(JobOf(w), jobs)
    /\ UNCHANGED <<appVars, envVars, snapshots, attempts, tasks, held>>

(***************************************************************************)
(* The specification                                                       *)
(***************************************************************************)

Start(p) == MarkReadyRead(p) \/ SubmitCheck(p)

Advance(p) ==
    \/ MarkReadyWrite(p)
    \/ SubmitCount(p)
    \/ SubmitSnapshot(p)
    \/ SubmitMove(p)
    \/ DispatchRefused(p)
    \/ DispatchOpen(p)
    \/ \E outcome \in Outcomes: Exchange(p, outcome)
    \/ RecordOutcome(p)
    \/ Confirm(p)
    \/ Reject(p)
    \/ DeadLetter(p)
    \/ ScheduleRetry(p)
    \/ AwaitPartner(p)
    \/ Return(p)

RunJob(w) ==
    \E job \in jobs: RetryNoop(w, job) \/ RetryRefused(w, job) \/ RetryStart(w, job)

Environment ==
    \/ RecordConsents
    \/ Withdraw
    \/ \E decision \in {"accepted", "declined"}: RespondToOffer(decision)
    \/ CompleteTask
    \/ \E to \in PortalStates: PortalMove(to)
    \/ ReviewRequirement
    \/ \E enabled \in BOOLEAN: SetConnectorEnabled(enabled)
    \/ Quarantine

Next ==
    \/ \E p \in Requests: Start(p)
    \/ \E w \in Workers: RunJob(w) \/ WriteFails(w)
    \/ \E p \in Processes: Advance(p) \/ Crash(p)
    \/ Environment

Spec == Init /\ [][Next]_vars

(* Processes that have started keep running, and workers take jobs.        *)
Fairness ==
    /\ \A p \in Processes: WF_vars(Advance(p))
    /\ \A w \in Workers: WF_vars(RunJob(w))

FairSpec == Spec /\ Fairness

(***************************************************************************)
(* Safety                                                                  *)
(***************************************************************************)

(* The receipt rule: a reference on the application is one the university  *)
(* issued for an application it holds, and an accepted attempt row carries *)
(* it as evidence (submission.service.ts, applyOutcome).                   *)
EvidenceForReference ==
    externalRef # NoRef =>
        /\ externalRef \in DOMAIN held
        /\ \E n \in DOMAIN attempts:
               attempts[n].state = "accepted" /\ attempts[n].ref = externalRef

(* What the university holds is reproducible: it is the snapshot of that   *)
(* submission, on whichever try it arrived (SubmissionService.retry).      *)
PartnerHoldsSnapshot ==
    \A k \in DOMAIN held:
        /\ held[k].sub \in DOMAIN snapshots
        /\ held[k].version = snapshots[held[k].sub]

(* However often one submission is tried, the university makes at most one *)
(* application of it (partnerIdempotencyKey).                              *)
OneApplicationPerSubmission ==
    \A k, l \in DOMAIN held: held[k].sub = held[l].sub => k = l

(* Nothing leaves the building unrecorded: whatever the university holds,  *)
(* an attempt row written before the call says so, even after a crash.     *)
NothingSentUnrecorded ==
    \A k \in DOMAIN held: \E n \in DOMAIN attempts: attempts[n].sub = held[k].sub

(* A submission is tried at most MaxAttempts times: its tries are numbered *)
(* within the budget, or it has a single try beyond it.                    *)
AttemptBudget ==
    \A n, m \in DOMAIN attempts:
        attempts[n].sub = attempts[m].sub /\ n # m => n <= MaxAttempts

(* An attempt row is evidence: once its outcome is in, no later step, and  *)
(* no redelivered job, rewrites it.                                        *)
OutcomeIsFinal ==
    [][\A n \in DOMAIN attempts:
          /\ n \in DOMAIN attempts'
          /\ attempts'[n].sub = attempts[n].sub
          /\ attempts[n].state # "in_flight" => attempts'[n] = attempts[n]]_vars

(* The university is never called for one submission by two processes at   *)
(* once, although jobs are delivered again after a crash.                  *)
NoParallelTries ==
    \A p, q \in Processes:
        /\ p # q
        /\ calls[p].step \in {"calling", "answered"}
        /\ calls[q].step \in {"calling", "answered"}
        => calls[p].sub # calls[q].sub

(***************************************************************************)
(* Why the safety properties hold: the inductive invariant                 *)
(***************************************************************************)

Carrying(p) == calls[p].step \in
    {"snapshotted", "dispatching", "calling", "answered", "recorded"}
Sending(p) == calls[p].step \in {"calling", "answered"}
Receipt(p) == calls[p].step \in {"answered", "recorded"} /\ IsReceipt(calls[p].outcome)

(* A call past the snapshot carries exactly what the snapshot holds.       *)
CarriesSnapshot ==
    \A p \in Processes: Carrying(p) =>
        /\ calls[p].sub \in DOMAIN snapshots
        /\ calls[p].version = snapshots[calls[p].sub]

(* Whoever talks to the university owns an open attempt row, alone.        *)
OwnsAttempt ==
    \A p \in Processes: Sending(p) =>
        /\ calls[p].att \in DOMAIN attempts
        /\ attempts[calls[p].att].sub = calls[p].sub
        /\ attempts[calls[p].att].state = "in_flight"
OwnsAlone ==
    \A p, q \in Processes: Sending(p) /\ Sending(q) /\ p # q => calls[p].att # calls[q].att

(* The university files a submission under its key, and a receipt stands   *)
(* for something it holds; once recorded, the attempt row proves it.       *)
FiledByKey == \A k \in DOMAIN held: held[k].sub = k
ReceiptIsHeld == \A p \in Processes: Receipt(p) => calls[p].sub \in DOMAIN held
ReceiptIsRecorded ==
    \A p \in Processes: Receipt(p) /\ At(p, "recorded") =>
        /\ calls[p].att \in DOMAIN attempts
        /\ attempts[calls[p].att].state = "accepted"
        /\ attempts[calls[p].att].ref = calls[p].sub

(* The tries of a submission, made or still to be made.                    *)
Trying(p) == Carrying(p) \/ At(p, "returning")
TryOf(x) == [sub |-> x.sub, att |-> x.att]
Tries ==
    {[sub |-> attempts[n].sub, att |-> n]: n \in DOMAIN attempts}
        \cup {TryOf(job): job \in jobs}
        \cup {TryOf(calls[p]): p \in {q \in Processes: Trying(q)}}

(* All of them stem from a snapshot, and only those within the budget      *)
(* share their submission with another; a busy worker is on one of them.   *)
TriesHaveSnapshot == \A t \in Tries: t.sub \in DOMAIN snapshots
TriesInBudget ==
    \A t, u \in Tries: t.sub = u.sub /\ t.att # u.att => t.att <= MaxAttempts
WorkersTry == \A w \in Workers: At(w, "idle") \/ Trying(w)

GatewayInv ==
    /\ CarriesSnapshot
    /\ OwnsAttempt
    /\ OwnsAlone
    /\ FiledByKey
    /\ ReceiptIsHeld
    /\ ReceiptIsRecorded
    /\ PartnerHoldsSnapshot
    /\ NothingSentUnrecorded

BudgetInv == TriesHaveSnapshot /\ TriesInBudget /\ WorkersTry

(***************************************************************************)
(* Liveness                                                                *)
(***************************************************************************)

HumanAlerted == "modex_ops" \in tasks \/ deadJobs # {}

(* A submission does not wait for ever: it is confirmed or failed, or a    *)
(* human is alerted (the retry worker registered in workers.service.ts).   *)
PendingResolves == state = "submitted_pending" ~> (state # "submitted_pending" \/ HumanAlerted)

(***************************************************************************)
(* What it all amounts to: the gateway implements SubmissionPromise        *)
(***************************************************************************)

PhaseOf(s) ==
    CASE s \in {"draft", "ready"}                                -> "preparing"
      [] s = "submitted_pending"                                 -> "sending"
      [] s \in {"submitted", "under_review", "more_info",
                "offer", "accepted", "enrolled"}                 -> "with_university"
      [] s = "failed"                                            -> "refused"
      [] s \in {"declined", "rejected", "withdrawn", "expired"}  -> "closed"

Promise == INSTANCE SubmissionPromise WITH
    phase     <- PhaseOf(state),
    payload   <- snapshots,
    taken     <- [k \in DOMAIN held |-> held[k].version],
    reference <- externalRef

(* As long as nobody confirms a submission by hand, every behaviour of the *)
(* gateway keeps the promise (submission.service.ts, applyOutcome).        *)
KeepsPromise == Promise!Spec

(* What the promise is for: an application shown as submitted, under       *)
(* review, offered or more is held by the university under the reference   *)
(* on the application (submission.service.ts, the receipt rule).           *)
ShownIsTaken == Promise!ShownIsTaken

(***************************************************************************)
(* What the repository says and the code does not do                       *)
(***************************************************************************)

(* An application shown as submitted carries the university's reference    *)
(* (university-portal.service.ts, updateApplicationState).                 *)
SubmittedHasReference == state = "submitted" => externalRef # NoRef

(* The payload that leaves was built against the requirements the student  *)
(* acknowledged (applications.service.ts, the submission boundary).        *)
SentAsAcknowledged ==
    [][state # "submitted_pending" /\ state' = "submitted_pending"
          => snapshots[pendingOn'] = ack]_vars

(* A retry of a submission the application is no longer waiting on is not  *)
(* a second call (submission.service.ts, retry).                           *)
RetryAfterConfirmIsNoop ==
    [][\A n \in DOMAIN attempts' \ DOMAIN attempts: attempts'[n].sub = pendingOn]_vars

(* Operations hear of a submission after every one of its tries failed     *)
(* (submission.service.ts, the dead letter).                               *)
DeadLetterAfterAllTries ==
    "modex_ops" \in tasks =>
        \E s \in DOMAIN snapshots:
            Cardinality({n \in DOMAIN attempts: attempts[n].sub = s}) >= MaxAttempts

===============================================================================
