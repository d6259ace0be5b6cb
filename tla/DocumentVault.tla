---------------------------- MODULE DocumentVault ----------------------------
(***************************************************************************)
(* One document of the vault and the versions of its file: DocumentsService*)
(* in the API and the scan jobs it leaves to the workers.  Requests and    *)
(* workers run at once; each database access, the enqueue and the scan are *)
(* steps of their own.                                                     *)
(***************************************************************************)
EXTENDS Naturals, Sequences

CONSTANTS
    Requests,      \* API requests of the document's owner
    Scanners,      \* workers of the document-scan queue
    Contents,      \* what a file can contain, by its checksum
    Infected,      \* the contents the scanner finds malware in
    NoBytes,       \* nothing stored, or no checksum
    FaultKinds,    \* which faults happen
    MaxVersions,   \* bound: versions of the document
    MaxTries,      \* tries of a job before its dead-letter queue
    MaxStalls,     \* deaths of its worker a job survives: one, by the queue's default
    MaxFaults      \* bound: faults of each kind

ASSUME ProcessAssumption == Requests \cap Scanners = {}
ASSUME ContentAssumption == Infected \subseteq Contents /\ NoBytes \notin Contents
ASSUME FaultAssumption   == FaultKinds \subseteq {"request_dies", "worker_dies", "write_error"}
ASSUME NumberAssumption  == /\ MaxVersions \in Nat /\ MaxTries \in Nat \ {0}
                            /\ MaxStalls \in Nat /\ MaxFaults \in Nat

VARIABLES
    versions,   \* the document_versions rows, by version number
    current,    \* currentVersionId, as a version number
    deleted,    \* deletedAt is set
    jobs,       \* scan jobs waiting
    deadJobs,   \* scan jobs in the dead-letter queue
    stalledJobs,\* scan jobs the queue gave up, their workers having died
    calls,      \* what each request and worker is doing
    faults      \* how often each kind of fault happened

vars == <<versions, current, deleted, jobs, deadJobs, stalledJobs, calls, faults>>

Processes == Requests \cup Scanners

NoVersion == 0
ScanState == {"pending", "clean", "quarantined", "failed"}
Version   == [stored: Contents \cup {NoBytes}, checksum: Contents \cup {NoBytes},
              complete: BOOLEAN, scan: ScanState,
              url: BOOLEAN,    \* the signed PUT is valid still
              late: BOOLEAN]   \* bytes were put that a scan had not seen (history)
Job       == [version: Nat, by: Requests, tries: Nat, stalls: Nat]
Step      == {"idle", "creating", "finalising", "completed", "current", "reading", "scanned"}
Call      == [step: Step, version: Nat, checksum: Contents \cup {NoBytes},
              by: Processes, tries: Nat, stalls: Nat, verdict: ScanState]
Idle(p)   == [step |-> "idle", version |-> NoVersion, checksum |-> NoBytes,
              by |-> p, tries |-> 0, stalls |-> 0, verdict |-> "pending"]

TypeOK ==
    /\ versions \in Seq(Version)
    /\ current \in Nat
    /\ deleted \in BOOLEAN
    /\ jobs \subseteq Job
    /\ deadJobs \subseteq Job
    /\ stalledJobs \subseteq Job
    /\ calls \in [Processes -> Call]
    /\ \A w \in Scanners: calls[w].step # "idle" => calls[w].by \in Requests
    /\ faults \in [FaultKinds -> Nat]

Init ==
    /\ versions = <<>>
    /\ current = NoVersion
    /\ deleted = FALSE
    /\ jobs = {}
    /\ deadJobs = {}
    /\ stalledJobs = {}
    /\ calls = [p \in Processes |-> Idle(p)]
    /\ faults = [kind \in FaultKinds |-> 0]

At(p, step) == calls[p].step = step
Goto(p, step) == calls' = [calls EXCEPT ![p].step = step]
Finish(p) == calls' = [calls EXCEPT ![p] = Idle(p)]
Fault(kind) ==
    /\ kind \in FaultKinds
    /\ faults[kind] < MaxFaults
    /\ faults' = [faults EXCEPT ![kind] = @ + 1]
Happened(kind) == kind \in FaultKinds /\ faults[kind] > 0

(***************************************************************************)
(* createVersion                                                           *)
(***************************************************************************)

CreateRead(r) ==
    /\ At(r, "idle")
    /\ ~deleted
    /\ Len(versions) < MaxVersions
    /\ calls' = [calls EXCEPT ![r].step = "creating", ![r].version = Len(versions) + 1]
    /\ UNCHANGED <<versions, current, deleted, jobs, deadJobs, stalledJobs, faults>>

(* The row comes with a signed PUT of the key it names.                    *)
NewVersionUnscanned == [stored |-> NoBytes, checksum |-> NoBytes, complete |-> FALSE,
                        scan |-> "unscanned", url |-> TRUE, late |-> FALSE]
NewVersion == [stored |-> NoBytes, checksum |-> NoBytes, complete |-> FALSE, scan |-> "pending",
               url |-> TRUE, late |-> FALSE]

(* Of two requests that counted the same number one violates the unique    *)
(* index on it and fails.                                                  *)
CreateWrite(r) ==
    /\ At(r, "creating")
    /\ versions' = IF calls[r].version = Len(versions) + 1
                   THEN Append(versions, NewVersion) ELSE versions
    /\ Finish(r)
    /\ UNCHANGED <<current, deleted, jobs, deadJobs, stalledJobs, faults>>

(* A scan has fetched the bytes of the version already.                    *)
Fetched(v) ==
    \/ versions[v].scan # "pending"
    \/ \E w \in Scanners: calls[w].step = "scanned" /\ calls[w].version = v

(* The browser puts the bytes straight to storage, and puts them again if  *)
(* that failed.  Nothing but its expiry ends the signed PUT: bytes still   *)
(* arrive while the upload is finalised, while it is scanned and after.    *)
Put(v, content) ==
    /\ versions[v].url
    /\ versions' = [versions EXCEPT
           ![v].stored = content,
           ![v].late = versions[v].late \/ (Fetched(v) /\ content # versions[v].stored)]
    /\ UNCHANGED <<current, deleted, jobs, deadJobs, stalledJobs, calls, faults>>

UrlExpires(v) ==
    /\ versions[v].url
    /\ versions' = [versions EXCEPT ![v].url = FALSE]
    /\ UNCHANGED <<current, deleted, jobs, deadJobs, stalledJobs, calls, faults>>

(***************************************************************************)
(* finalise                                                                *)
(***************************************************************************)

FinaliseRead(r, v, checksum) ==
    /\ At(r, "idle")
    /\ ~deleted
    /\ ~versions[v].complete
    /\ calls' = [calls EXCEPT ![r].step = "finalising", ![r].version = v,
                              ![r].checksum = checksum]
    /\ UNCHANGED <<versions, current, deleted, jobs, deadJobs, stalledJobs, faults>>

FinaliseUpdate(r) ==
    /\ At(r, "finalising")
    /\ versions' = [versions EXCEPT ![calls[r].version].checksum = calls[r].checksum,
                                    ![calls[r].version].complete = TRUE]
    /\ Goto(r, "completed")
    /\ UNCHANGED <<current, deleted, jobs, deadJobs, stalledJobs, faults>>

FinalisePoint(r) ==
    /\ At(r, "completed")
    /\ current' = calls[r].version
    /\ Goto(r, "current")
    /\ UNCHANGED <<versions, deleted, jobs, deadJobs, stalledJobs, faults>>

ScanJobOfCurrent(r) == [version |-> current, by |-> r, tries |-> 0, stalls |-> 0]
ScanJob(r) == [version |-> calls[r].version, by |-> r, tries |-> 0, stalls |-> 0]

FinaliseEnqueue(r) ==
    /\ At(r, "current")
    /\ jobs' = jobs \cup {ScanJob(r)}
    /\ Finish(r)
    /\ UNCHANGED <<versions, current, deleted, deadJobs, stalledJobs, faults>>

(* A request dies, or one of its writes (the audit event's and the enqueue *)
(* among them) throws: what it did so far stays.                           *)
RequestFails(r) ==
    /\ ~At(r, "idle")
    /\ Fault("request_dies")
    /\ Finish(r)
    /\ UNCHANGED <<versions, current, deleted, jobs, deadJobs, stalledJobs>>

Remove ==
    /\ ~deleted
    /\ deleted' = TRUE
    /\ UNCHANGED <<versions, current, jobs, deadJobs, stalledJobs, calls, faults>>

(***************************************************************************)
(* runScan, as a job of the queue                                          *)
(***************************************************************************)

JobOf(w) == [version |-> calls[w].version, by |-> calls[w].by,
             tries |-> calls[w].tries, stalls |-> calls[w].stalls]

(* A version already quarantined is not scanned again.                     *)
ScanAlways(version) == TRUE
ScanWanted(version) == version.scan # "quarantined"

ScanRead(w, job) ==
    /\ At(w, "idle")
    /\ jobs' = jobs \ {job}
    /\ calls' = IF ScanWanted(versions[job.version])
                THEN [calls EXCEPT ![w] = [Idle(w) EXCEPT !.step = "reading",
                                                          !.version = job.version,
                                                          !.by = job.by,
                                                          !.tries = job.tries,
                                                          !.stalls = job.stalls]]
                ELSE calls
    /\ UNCHANGED <<versions, current, deleted, deadJobs, stalledJobs, faults>>

(* What the scanner may answer: it fails to read what is not there, it may *)
(* fail to decide, and no failure ever counts as clean.                    *)
OpenVerdicts(stored) == {IF stored \in Infected THEN "quarantined" ELSE "clean", "failed"}
Verdicts(stored) ==
    {"failed"} \cup (IF stored = NoBytes THEN {}
                     ELSE IF stored \in Infected THEN {"quarantined"} ELSE {"clean"})

Scan(w, verdict) ==
    /\ At(w, "reading")
    /\ calls' = [calls EXCEPT ![w].step = "scanned", ![w].verdict = verdict]
    /\ UNCHANGED <<versions, current, deleted, jobs, deadJobs, stalledJobs, faults>>

VerdictWritten(w) ==
    /\ At(w, "scanned")
    /\ versions' = [versions EXCEPT ![calls[w].version].scan = calls[w].verdict]

ScanWrite(w) ==
    /\ VerdictWritten(w)
    /\ Finish(w)
    /\ UNCHANGED <<current, deleted, jobs, deadJobs, stalledJobs, faults>>

(* The dead-letter queue takes a job with the last try the queue gives it. *)
LastTryMissed(tries) == tries > MaxTries
LastTry(tries) == tries >= MaxTries

(* A job whose handler threw is tried again, and goes to the dead-letter   *)
(* queue with its last try.  The verdict may be written by then, and its   *)
(* audit event not.                                                        *)
JobFails(w) ==
    /\ ~At(w, "idle")
    /\ Fault("write_error")
    /\ LET tried == [JobOf(w) EXCEPT !.tries = @ + 1]
       IN  /\ jobs' = IF tried.tries < MaxTries THEN jobs \cup {tried} ELSE jobs
           /\ deadJobs' = IF LastTry(tried.tries) THEN deadJobs \cup {tried} ELSE deadJobs
    /\ UNCHANGED versions \/ VerdictWritten(w)
    /\ Finish(w)
    /\ UNCHANGED <<current, deleted, stalledJobs>>

(* A job whose worker died is delivered again; one that has stalled too    *)
(* often fails in the queue, without the handler and its dead letter.      *)
WorkerDies(w) ==
    /\ ~At(w, "idle")
    /\ Fault("worker_dies")
    /\ LET stalled == [JobOf(w) EXCEPT !.stalls = @ + 1]
       IN  IF stalled.stalls <= MaxStalls
           THEN jobs' = jobs \cup {stalled} /\ UNCHANGED stalledJobs
           ELSE stalledJobs' = stalledJobs \cup {stalled} /\ UNCHANGED jobs
    /\ UNCHANGED versions \/ VerdictWritten(w)
    /\ Finish(w)
    /\ UNCHANGED <<current, deleted, deadJobs>>

(***************************************************************************)
(* Specification                                                           *)
(***************************************************************************)

GoOn(r) == CreateWrite(r) \/ FinaliseUpdate(r) \/ FinalisePoint(r) \/ FinaliseEnqueue(r)
ScanVerdict(w) ==
    At(w, "reading") /\ \E verdict \in Verdicts(versions[calls[w].version].stored): Scan(w, verdict)
Work(w) == (\E job \in jobs: ScanRead(w, job)) \/ ScanVerdict(w) \/ ScanWrite(w)

Next ==
    \/ \E r \in Requests: CreateRead(r) \/ GoOn(r) \/ RequestFails(r)
    \/ \E r \in Requests, v \in DOMAIN versions, checksum \in Contents:
           FinaliseRead(r, v, checksum)
    \/ \E v \in DOMAIN versions, content \in Contents: Put(v, content)
    \/ \E v \in DOMAIN versions: UrlExpires(v)
    \/ \E w \in Scanners: Work(w) \/ JobFails(w) \/ WorkerDies(w)
    \/ Remove

Spec == Init /\ [][Next]_vars

(* A request that has started goes on, and idle workers take jobs.         *)
Fairness == (\A r \in Requests: WF_vars(GoOn(r))) /\ (\A w \in Scanners: WF_vars(Work(w)))
FairSpec == Spec /\ Fairness

(***************************************************************************)
(* Properties                                                              *)
(***************************************************************************)

(* isConnectorEligible: what resolveForConnector lets go to a university.  *)
Eligible(version) ==
    version.scan = "clean" /\ version.complete /\ version.checksum # NoBytes

(* What a university can be sent is stored and was found free of malware,  *)
(* whatever was put, finalised twice, scanned or lost in which order       *)
(* (DocumentsService.resolveForConnector).                                 *)
EligibleIsClean ==
    \A v \in DOMAIN versions: Eligible(versions[v]) => versions[v].stored \in Contents \ Infected

(* What the code keeps of that: it holds unless other bytes arrived after  *)
(* a scan had fetched those it judged (signUrl, runScan).                  *)
EligibleIsCleanUnlessPutLate ==
    \A v \in DOMAIN versions:
        Eligible(versions[v]) /\ ~versions[v].late => versions[v].stored \in Contents \ Infected

(* A quarantined version stays quarantined, though its scan may be queued  *)
(* twice and jobs are delivered again (DocumentsService.runScan).          *)
QuarantineStays ==
    [][\A v \in DOMAIN versions:
          versions[v].scan = "quarantined" => versions'[v].scan = "quarantined"]_vars

Completed(v) == v \in DOMAIN versions /\ versions[v].complete

(* An uploaded file whose scan is pending is in somebody's hands: in those *)
(* of the request that completes it, of a job, of a worker or of a human,  *)
(* unless a request died or its job stalled too often                      *)
(* (DocumentsService.finalise and runScan).                                *)
InHands(v) ==
    \/ \E r \in Requests: calls[r].step \in {"completed", "current"} /\ calls[r].version = v
    \/ \E job \in jobs \cup deadJobs: job.version = v
    \/ \E w \in Scanners: calls[w].step \in {"reading", "scanned"} /\ calls[w].version = v
StalledOut(v) == \E job \in stalledJobs: job.version = v
NoUploadForgotten ==
    ~Happened("request_dies") =>
        \A v \in DOMAIN versions:
            Completed(v) /\ versions[v].scan = "pending" => InHands(v) \/ StalledOut(v)

(* The scan of an uploaded file comes to an end, or its job to a human     *)
(* (the document-scan worker).                                             *)
Settled(v) == (Completed(v) /\ versions[v].scan # "pending") \/ deadJobs # {}
UploadIsScanned == \A v \in 1 .. MaxVersions: Completed(v) ~> Settled(v)

(* What the code keeps of that: no first death of a worker and no job that *)
(* fails leaves an upload unscanned, only a request that dies completing   *)
(* it, and a job whose workers die on and on (DocumentsService.finalise).  *)
UploadIsScannedIfRequested ==
    \A v \in 1 .. MaxVersions:
        Completed(v) ~> (Settled(v) \/ Happened("request_dies") \/ StalledOut(v))

(* A completed upload is stored with the bytes its checksum says: finalise *)
(* 'matches them against what the client claims' (DocumentsService).       *)
CompleteMeansStored ==
    \A v \in DOMAIN versions: Completed(v) => versions[v].stored = versions[v].checksum

(***************************************************************************)
(* The inductive invariant                                                 *)
(***************************************************************************)

(* Scans are of completed uploads, and their verdicts are about the bytes  *)
(* that are stored, unless others were put since.                          *)
WorkIsOfUploads ==
    /\ \A job \in jobs: Completed(job.version)
    /\ \A w \in Scanners: calls[w].step # "idle" => Completed(calls[w].version)
    /\ \A r \in Requests: calls[r].step \in {"completed", "current"} => Completed(calls[r].version)
    /\ \A r \in Requests: calls[r].step = "finalising" => calls[r].version \in DOMAIN versions
StepsOfKind ==
    /\ \A r \in Requests: calls[r].step \notin {"reading", "scanned"}
    /\ \A w \in Scanners: calls[w].step \in {"idle", "reading", "scanned"}
Judged(verdict, version) ==
    /\ verdict \in ScanState \ {"pending"}
    /\ ~version.late => verdict \in Verdicts(version.stored)
VerdictOfBytes ==
    /\ \A w \in Scanners: calls[w].step = "scanned" =>
           Judged(calls[w].verdict, versions[calls[w].version])
    /\ \A v \in DOMAIN versions: versions[v].scan # "pending" =>
           versions[v].complete /\ Judged(versions[v].scan, versions[v])

(* Nobody works on a version that is quarantined already: it takes a       *)
(* second worker.                                                          *)
WorkIsWanted ==
    \A w \in Scanners: calls[w].step # "idle" =>
        versions[calls[w].version].scan # "quarantined"

VaultInv == StepsOfKind /\ WorkIsOfUploads /\ VerdictOfBytes
===============================================================================
