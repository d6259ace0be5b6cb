-------------------------- MODULE DocumentVaultProofs --------------------------
(***************************************************************************)
(* Proofs about the document vault, for any number of requests, workers,   *)
(* versions, contents and faults.                                          *)
(***************************************************************************)
EXTENDS DocumentVault, SequenceTheorems, TLAPS

(***************************************************************************)
(* Type correctness                                                        *)
(***************************************************************************)

LEMMA IdleType == \A p \in Processes: Idle(p) \in Call
BY DEF Idle, Call, Step, NoVersion, ScanState

LEMMA GotoType ==
    ASSUME TypeOK, NEW p \in Processes, NEW step \in Step, Goto(p, step)
    PROVE  /\ calls' \in [Processes -> Call]
           /\ \A q \in Processes: q # p => calls'[q] = calls[q]
           /\ calls'[p].step = step
           /\ calls'[p].version = calls[p].version
           /\ calls'[p].by = calls[p].by
<1>1. calls' \in [Processes -> Call]
  <2>1. calls[p] \in Call /\ calls \in [Processes -> Call]
    BY DEF TypeOK
  <2>2. [calls[p] EXCEPT !.step = step] \in Call
    BY <2>1 DEF Call
  <2> QED
    BY <2>1, <2>2 DEF Goto
<1>2. /\ \A q \in Processes: q # p => calls'[q] = calls[q]
      /\ calls'[p].step = step
      /\ calls'[p].version = calls[p].version
      /\ calls'[p].by = calls[p].by
  BY DEF TypeOK, Goto, Call
<1> QED
  BY <1>1, <1>2

LEMMA FinishType ==
    ASSUME TypeOK, NEW p \in Processes, Finish(p)
    PROVE  /\ calls' \in [Processes -> Call]
           /\ calls'[p].step = "idle"
           /\ \A q \in Processes: q # p => calls'[q] = calls[q]
BY IdleType DEF TypeOK, Finish, Idle

(* A change of one version.                                                *)
LEMMA ExceptType ==
    ASSUME TypeOK, NEW v \in DOMAIN versions, NEW row \in Version,
           versions' = [versions EXCEPT ![v] = row]
    PROVE  /\ versions' \in Seq(Version)
           /\ DOMAIN versions' = DOMAIN versions
           /\ versions'[v] = row
           /\ \A u \in DOMAIN versions: u # v => versions'[u] = versions[u]
<1>1. versions \in Seq(Version) /\ v \in 1 .. Len(versions)
  BY DEF TypeOK
<1> QED
  BY <1>1, ExceptSeq

(* A job is one of a request.                                              *)
LEMMA JobOfType ==
    ASSUME TypeOK, NEW w \in Scanners, calls[w].step # "idle"
    PROVE  JobOf(w) \in Job /\ JobOf(w).version = calls[w].version
BY DEF TypeOK, JobOf, Job, Call, Processes

(* Faults are counted by their kind, and stay counted.                     *)
LEMMA FaultType ==
    ASSUME TypeOK, NEW kind, Fault(kind)
    PROVE  /\ faults' \in [FaultKinds -> Nat]
           /\ Happened(kind)'
           /\ \A other: Happened(other) => Happened(other)'
BY DEF TypeOK, Fault, Happened

LEMMA InitType == Init => TypeOK
<1> SUFFICES ASSUME Init PROVE TypeOK
  OBVIOUS
<1>1. calls \in [Processes -> Call]
  BY IdleType DEF Init
<1>2. \A w \in Scanners: calls[w].step = "idle"
  BY DEF Init, Idle, Processes
<1>3. versions \in Seq(Version) /\ current \in Nat /\ faults \in [FaultKinds -> Nat]
  BY DEF Init, NoVersion
<1>5. deleted \in BOOLEAN
  BY Zenon DEF Init
<1>4. jobs \subseteq Job /\ deadJobs \subseteq Job /\ stalledJobs \subseteq Job
  BY DEF Init
<1> QED
  BY <1>1, <1>2, <1>3, <1>4, <1>5 DEF TypeOK

(* Unless a step says so, the table of versions and the queues keep their  *)
(* types; so it is the calls that need care.                               *)
LEMMA RequestStepType ==
    ASSUME TypeOK, NEW r \in Requests,
           \/ CreateRead(r) \/ GoOn(r) \/ RequestFails(r)
           \/ \E v \in DOMAIN versions, checksum \in Contents: FinaliseRead(r, v, checksum)
    PROVE  TypeOK'
<1>0. r \in Processes /\ r \notin Scanners /\ Scanners \subseteq Processes
  BY ProcessAssumption DEF Processes
<1>a. \A w \in Scanners: calls'[w] = calls[w] =>
          (calls'[w].step # "idle" => calls'[w].by \in Requests)
  BY DEF TypeOK
<1>1. CASE CreateRead(r)
  <2>1. calls[r] \in Call /\ calls \in [Processes -> Call] /\ Len(versions) + 1 \in Nat
    BY <1>0 DEF TypeOK
  <2>2. [calls[r] EXCEPT !.step = "creating", !.version = Len(versions) + 1] \in Call
    BY <2>1 DEF Call, Step
  <2>3. calls' \in [Processes -> Call] /\ \A q \in Processes: q # r => calls'[q] = calls[q]
    BY <1>1, <2>1, <2>2 DEF CreateRead
  <2> QED
    BY <1>0, <1>a, <1>1, <2>3 DEF CreateRead, TypeOK
<1>2. CASE CreateWrite(r)
  <2>1. NewVersion \in Version
    BY DEF NewVersion, Version, ScanState
  <2>2. versions' \in Seq(Version)
    BY <1>2, <2>1 DEF CreateWrite, TypeOK
  <2> QED
    BY <1>0, <1>a, <1>2, <2>2, FinishType DEF CreateWrite, TypeOK
<1>3. CASE FinaliseUpdate(r)
  <2>1. calls' \in [Processes -> Call] /\ \A q \in Processes: q # r => calls'[q] = calls[q]
    BY <1>0, <1>3, GotoType DEF FinaliseUpdate, Step
  <2>2. versions' \in Seq(Version)
    <3>1. versions \in Seq(Version) /\ calls[r].checksum \in Contents \cup {NoBytes}
      BY <1>0 DEF TypeOK, Call
    <3>2. CASE calls[r].version \in DOMAIN versions
      <4>1. versions[calls[r].version] \in Version
        BY <3>1, <3>2
      <4>2. [versions[calls[r].version] EXCEPT !.checksum = calls[r].checksum,
                                               !.complete = TRUE] \in Version
        BY <3>1, <4>1 DEF Version
      <4>3. versions' = [versions EXCEPT ![calls[r].version] =
                [versions[calls[r].version] EXCEPT !.checksum = calls[r].checksum,
                                                   !.complete = TRUE]]
        BY <1>3, <3>1, <3>2, <4>1 DEF FinaliseUpdate, Version
      <4> QED
        BY <3>2, <4>2, <4>3, ExceptType
    <3>3. CASE calls[r].version \notin DOMAIN versions
      <4>1. versions \in [1 .. Len(versions) -> Version] /\ Len(versions) \in Nat
        BY <3>1
      <4>2. versions' \in [1 .. Len(versions) -> Version]
        BY <1>3, <3>3, <4>1 DEF FinaliseUpdate
      <4> QED
        BY <4>1, <4>2
    <3> QED
      BY <3>2, <3>3
  <2> QED
    BY <1>0, <1>a, <1>3, <2>1, <2>2 DEF FinaliseUpdate, TypeOK
<1>4. CASE FinalisePoint(r)
  <2>1. calls' \in [Processes -> Call] /\ \A q \in Processes: q # r => calls'[q] = calls[q]
    BY <1>0, <1>4, GotoType DEF FinalisePoint, Step
  <2>2. current' \in Nat
    BY <1>0, <1>4 DEF FinalisePoint, TypeOK, Call
  <2> QED
    BY <1>0, <1>a, <1>4, <2>1, <2>2 DEF FinalisePoint, TypeOK
<1>5. CASE FinaliseEnqueue(r)
  <2>1. ScanJob(r) \in Job
    BY <1>0 DEF ScanJob, Job, TypeOK, Call
  <2>2. jobs' \subseteq Job
    BY <1>5, <2>1 DEF FinaliseEnqueue, TypeOK
  <2> QED
    BY <1>0, <1>a, <1>5, <2>2, FinishType DEF FinaliseEnqueue, TypeOK
<1>6. CASE RequestFails(r)
  <2>1. faults' \in [FaultKinds -> Nat]
    BY <1>6, FaultType DEF RequestFails
  <2> QED
    BY <1>0, <1>a, <1>6, <2>1, FinishType DEF RequestFails, TypeOK
<1>7. ASSUME NEW v \in DOMAIN versions, NEW checksum \in Contents, FinaliseRead(r, v, checksum)
      PROVE  TypeOK'
  <2>1. calls[r] \in Call /\ calls \in [Processes -> Call] /\ v \in Nat
    BY <1>0 DEF TypeOK
  <2>2. [calls[r] EXCEPT !.step = "finalising", !.version = v, !.checksum = checksum] \in Call
    BY <2>1 DEF Call, Step
  <2>3. calls' \in [Processes -> Call] /\ \A q \in Processes: q # r => calls'[q] = calls[q]
    BY <1>7, <2>1, <2>2 DEF FinaliseRead
  <2> QED
    BY <1>0, <1>a, <1>7, <2>3 DEF FinaliseRead, TypeOK
<1> QED
  BY <1>1, <1>2, <1>3, <1>4, <1>5, <1>6, <1>7 DEF GoOn

LEMMA ScannerStepType ==
    ASSUME TypeOK, NEW w \in Scanners, Work(w) \/ JobFails(w) \/ WorkerDies(w)
    PROVE  TypeOK'
<1>0. w \in Processes /\ Scanners \subseteq Processes
  BY DEF Processes
<1>a. \A u \in Scanners: calls'[u] = calls[u] \/ calls'[u].step = "idle" =>
          (calls'[u].step # "idle" => calls'[u].by \in Requests)
  BY DEF TypeOK
<1>1. ASSUME NEW job \in jobs, ScanRead(w, job) PROVE TypeOK'
  <2>1. jobs' \subseteq Job
    BY <1>1 DEF ScanRead, TypeOK
  <2>2. CASE calls' = calls
    BY <1>1, <2>1, <2>2 DEF ScanRead, TypeOK
  <2>3. CASE ScanWanted(versions[job.version])
    <3> DEFINE taken == [Idle(w) EXCEPT !.step = "reading", !.version = job.version,
                                        !.by = job.by, !.tries = job.tries,
                                        !.stalls = job.stalls]
    <3>1. job \in Job
      BY DEF TypeOK
    <3>2. taken \in Call /\ taken.by \in Requests
      BY <3>1 DEF Idle, Call, Step, ScanState, Job, Processes
    <3>3. calls' = [calls EXCEPT ![w] = taken]
      BY <1>1, <2>3 DEF ScanRead
    <3> HIDE DEF taken
    <3>4. /\ calls' \in [Processes -> Call] /\ calls'[w] = taken
          /\ \A q \in Processes: q # w => calls'[q] = calls[q]
      BY <1>0, <3>2, <3>3 DEF TypeOK
    <3>5. \A u \in Scanners: calls'[u].step # "idle" => calls'[u].by \in Requests
      BY <1>0, <1>a, <3>2, <3>4
    <3> QED
      BY <1>1, <2>1, <3>4, <3>5 DEF ScanRead, TypeOK
  <2> QED
    BY <1>1, <2>2, <2>3 DEF ScanRead
<1>2. CASE ScanVerdict(w)
  <2>1. PICK verdict \in Verdicts(versions[calls[w].version].stored): Scan(w, verdict)
    BY <1>2 DEF ScanVerdict
  <2>2. verdict \in ScanState
    BY DEF Verdicts, ScanState
  <2>3. calls[w] \in Call /\ calls \in [Processes -> Call] /\ calls[w].step # "idle"
    BY <1>0, <2>1 DEF TypeOK, Scan, At
  <2>4. [calls[w] EXCEPT !.step = "scanned", !.verdict = verdict] \in Call
    BY <2>2, <2>3 DEF Call, Step
  <2>5. /\ calls' \in [Processes -> Call] /\ calls'[w].by = calls[w].by
        /\ \A q \in Processes: q # w => calls'[q] = calls[q]
    BY <1>0, <2>1, <2>3, <2>4 DEF Scan, Call
  <2>6. \A u \in Scanners: calls'[u].step # "idle" => calls'[u].by \in Requests
    BY <1>0, <1>a, <2>3, <2>5 DEF TypeOK
  <2> QED
    BY <2>1, <2>5, <2>6 DEF Scan, TypeOK
<1>b. ASSUME VerdictWritten(w) PROVE versions' \in Seq(Version)
  <2>1. versions \in Seq(Version) /\ calls[w].verdict \in ScanState
    BY <1>0 DEF TypeOK, Call
  <2>2. CASE calls[w].version \in DOMAIN versions
    <3>1. versions[calls[w].version] \in Version
      BY <2>1, <2>2
    <3>2. [versions[calls[w].version] EXCEPT !.scan = calls[w].verdict] \in Version
      BY <2>1, <3>1 DEF Version
    <3>3. versions' = [versions EXCEPT ![calls[w].version] =
              [versions[calls[w].version] EXCEPT !.scan = calls[w].verdict]]
      BY <1>b, <2>1, <2>2, <3>1 DEF VerdictWritten, Version
    <3> QED
      BY <2>2, <3>2, <3>3, ExceptType
  <2>3. CASE calls[w].version \notin DOMAIN versions
    <3>1. versions \in [1 .. Len(versions) -> Version] /\ Len(versions) \in Nat
      BY <2>1
    <3>2. versions' \in [1 .. Len(versions) -> Version]
      BY <1>b, <2>3, <3>1 DEF VerdictWritten
    <3> QED
      BY <3>1, <3>2
  <2> QED
    BY <2>2, <2>3
<1>3. CASE ScanWrite(w)
  BY <1>0, <1>a, <1>b, <1>3, FinishType DEF ScanWrite, TypeOK
<1>4. CASE JobFails(w)
  <2>1. JobOf(w) \in Job
    BY <1>4, JobOfType DEF JobFails, At
  <2>2. [JobOf(w) EXCEPT !.tries = @ + 1] \in Job
    BY <2>1 DEF Job
  <2>3. jobs' \subseteq Job /\ deadJobs' \subseteq Job /\ faults' \in [FaultKinds -> Nat]
    BY <1>4, <2>2, FaultType DEF JobFails, TypeOK
  <2>4. versions' \in Seq(Version)
    BY <1>b, <1>4 DEF JobFails, TypeOK
  <2> QED
    BY <1>0, <1>a, <1>4, <2>3, <2>4, FinishType DEF JobFails, TypeOK
<1>5. CASE WorkerDies(w)
  <2>1. [JobOf(w) EXCEPT !.stalls = @ + 1] \in Job
    <3>1. JobOf(w) \in Job
      BY <1>5, JobOfType DEF WorkerDies, At
    <3> QED
      BY <3>1 DEF Job
  <2>2. jobs' \subseteq Job /\ stalledJobs' \subseteq Job /\ faults' \in [FaultKinds -> Nat]
    BY <1>5, <2>1, FaultType DEF WorkerDies, TypeOK
  <2>3. versions' \in Seq(Version)
    BY <1>b, <1>5 DEF WorkerDies, TypeOK
  <2> QED
    BY <1>0, <1>a, <1>5, <2>2, <2>3, FinishType DEF WorkerDies, TypeOK
<1> QED
  BY <1>1, <1>2, <1>3, <1>4, <1>5 DEF Work

LEMMA PutType ==
    ASSUME TypeOK, NEW v \in DOMAIN versions,
           UrlExpires(v) \/ \E content \in Contents: Put(v, content)
    PROVE  TypeOK'
<1>1. versions \in Seq(Version) /\ versions[v] \in Version
  BY DEF TypeOK
<1>2. ASSUME NEW content \in Contents, Put(v, content) PROVE versions' \in Seq(Version)
  <2> DEFINE l == versions[v].late \/ (Fetched(v) /\ content # versions[v].stored)
  <2>1. l \in BOOLEAN
    BY Zenon
  <2>2. versions' = [versions EXCEPT ![v] = [versions[v] EXCEPT !.stored = content, !.late = l]]
    BY <1>1, <1>2 DEF Put, Version
  <2> HIDE DEF l
  <2>3. [versions[v] EXCEPT !.stored = content, !.late = l] \in Version
    BY <1>1, <2>1 DEF Version
  <2> QED
    BY <2>2, <2>3, ExceptType
<1>3. CASE UrlExpires(v)
  <2>1. [versions[v] EXCEPT !.url = FALSE] \in Version
    BY <1>1 DEF Version
  <2>2. versions' = [versions EXCEPT ![v] = [versions[v] EXCEPT !.url = FALSE]]
    BY <1>1, <1>3 DEF UrlExpires, Version
  <2>3. versions' \in Seq(Version)
    BY <2>1, <2>2, ExceptType
  <2> QED
    BY <1>3, <2>3 DEF UrlExpires, TypeOK
<1> QED
  BY <1>2, <1>3 DEF Put, TypeOK

LEMMA NextType == TypeOK /\ [Next]_vars => TypeOK'
<1> SUFFICES ASSUME TypeOK, [Next]_vars PROVE TypeOK'
  OBVIOUS
<1>1. CASE Remove
  BY <1>1 DEF Remove, TypeOK
<1>2. CASE UNCHANGED vars
  BY <1>2 DEF vars, TypeOK
<1> QED
  BY <1>1, <1>2, RequestStepType, ScannerStepType, PutType DEF Next

(* Type correctness of the vault, of its jobs and of its callers.          *)
THEOREM TypeCorrect == Spec => []TypeOK
BY InitType, NextType, PTL DEF Spec

(***************************************************************************)
(* The vault invariant                                                     *)
(***************************************************************************)

LEMMA InitVault == Init => VaultInv
<1> SUFFICES ASSUME Init PROVE VaultInv
  OBVIOUS
<1>1. \A p \in Processes: calls[p].step = "idle"
  BY DEF Init, Idle
<1>2. DOMAIN versions = {} /\ jobs = {}
  BY DEF Init
<1> QED
  BY <1>1, <1>2 DEF VaultInv, StepsOfKind, WorkIsOfUploads, VerdictOfBytes, Processes

(* What is completed stays completed, with the bytes it has.               *)
SameBytes(v) == /\ versions'[v].stored = versions[v].stored
                /\ versions'[v].late = versions[v].late
Kept == \A v \in DOMAIN versions:
            /\ v \in DOMAIN versions'
            /\ versions[v].complete => versions'[v].complete /\ SameBytes(v)

Later(v) == v \in DOMAIN versions' /\ versions'[v].complete

LEMMA KeptIsCompleted ==
    ASSUME Kept, NEW v, Completed(v)
    PROVE  Later(v) /\ SameBytes(v)
BY DEF Kept, SameBytes, Completed, Later

(* A step of one request or worker that leaves versions and jobs alone.    *)
LEMMA CallVault ==
    ASSUME TypeOK, VaultInv, NEW p \in Processes,
           \A q \in Processes: q # p => calls'[q] = calls[q],
           versions' = versions, jobs' \subseteq jobs,
           StepsOfKind',
           calls'[p].step \in {"completed", "current"} \/ (p \in Scanners /\ calls'[p].step # "idle")
               => Completed(calls'[p].version),
           calls'[p].step = "finalising" => calls'[p].version \in DOMAIN versions,
           calls'[p].step = "scanned" =>
               Judged(calls'[p].verdict, versions[calls'[p].version])
    PROVE  VaultInv'
<1>1. WorkIsOfUploads'
  BY DEF VaultInv, WorkIsOfUploads, Completed, Processes
<1>2. VerdictOfBytes'
  BY DEF VaultInv, VerdictOfBytes, Processes
<1> QED
  BY <1>1, <1>2 DEF VaultInv

(* A step after which one request or worker rests, and that keeps uploads. *)
LEMMA RestVault ==
    ASSUME TypeOK, VaultInv, NEW p \in Processes, Finish(p), Kept,
           \A job \in jobs': job \in jobs \/ Completed(job.version),
           \A v \in DOMAIN versions': versions'[v].scan # "pending" =>
               versions'[v].complete /\ Judged(versions'[v].scan, versions'[v])
    PROVE  VaultInv'
<1>1. calls'[p].step = "idle" /\ \A q \in Processes: q # p => calls'[q] = calls[q]
  BY FinishType
<1>2. StepsOfKind'
  BY <1>1 DEF VaultInv, StepsOfKind, Processes
<1>3. WorkIsOfUploads'
  <2>1. \A v: Completed(v) => Later(v)
    BY KeptIsCompleted
  <2>2. \A job \in jobs': Later(job.version)
    BY <2>1 DEF VaultInv, WorkIsOfUploads
  <2>3. \A w \in Scanners: calls'[w].step # "idle" => Later(calls'[w].version)
    BY <1>1, <2>1 DEF VaultInv, WorkIsOfUploads, Processes
  <2>4. \A r \in Requests: /\ calls'[r].step \in {"completed", "current"} => Later(calls'[r].version)
                           /\ calls'[r].step = "finalising" => calls'[r].version \in DOMAIN versions'
    BY <1>1, <2>1 DEF VaultInv, WorkIsOfUploads, Processes, Kept, SameBytes
  <2> QED
    BY <2>2, <2>3, <2>4 DEF WorkIsOfUploads, Completed, Later
<1>4. VerdictOfBytes'
  <2>1. ASSUME NEW w \in Scanners, calls'[w].step = "scanned"
        PROVE  Judged(calls'[w].verdict, versions'[calls'[w].version])
    <3>1. calls'[w] = calls[w] /\ Completed(calls[w].version)
      BY <1>1, <2>1 DEF VaultInv, WorkIsOfUploads, Processes
    <3> QED
      BY <2>1, <3>1, KeptIsCompleted DEF VaultInv, VerdictOfBytes, Judged, SameBytes
  <2> QED
    BY <2>1 DEF VerdictOfBytes, Judged, Verdicts, ScanState
<1> QED
  BY <1>2, <1>3, <1>4 DEF VaultInv

LEMMA RequestVault ==
    ASSUME TypeOK, VaultInv, NEW r \in Requests,
           \/ CreateRead(r) \/ GoOn(r) \/ RequestFails(r)
           \/ \E v \in DOMAIN versions, checksum \in Contents: FinaliseRead(r, v, checksum)
    PROVE  VaultInv'
<1>0. r \in Processes /\ r \notin Scanners
  BY ProcessAssumption DEF Processes
<1>1. CASE CreateRead(r)
  <2>1. calls'[r].step = "creating" /\ \A q \in Processes: q # r => calls'[q] = calls[q]
    BY <1>0, <1>1 DEF CreateRead, TypeOK, Call
  <2>2. StepsOfKind'
    BY <1>0, <2>1 DEF VaultInv, StepsOfKind, Processes
  <2> QED
    BY <1>0, <1>1, <2>1, <2>2, CallVault DEF CreateRead
<1>2. CASE CreateWrite(r)
  <2>1. CASE versions' = versions
    BY <1>0, <1>2, <2>1, RestVault DEF CreateWrite, Kept, SameBytes, VaultInv, VerdictOfBytes
  <2>2. CASE versions' = Append(versions, NewVersion)
    <3>1. versions \in Seq(Version)
      BY DEF TypeOK
    <3>2. /\ DOMAIN versions' = DOMAIN versions \cup {Len(versions) + 1}
          /\ \A v \in DOMAIN versions: versions'[v] = versions[v]
          /\ versions'[Len(versions) + 1] = NewVersion
      BY <2>2, <3>1
    <3>3. NewVersion.scan = "pending"
      BY DEF NewVersion
    <3>4. Kept
      BY <3>2 DEF Kept, SameBytes
    <3>5. \A v \in DOMAIN versions': versions'[v].scan # "pending" =>
              versions'[v].complete /\ Judged(versions'[v].scan, versions'[v])
      BY <3>2, <3>3 DEF VaultInv, VerdictOfBytes
    <3> QED
      BY <1>0, <1>2, <3>4, <3>5, RestVault DEF CreateWrite
  <2> QED
    BY <1>2, <2>1, <2>2 DEF CreateWrite
<1>3. CASE FinaliseUpdate(r)
  <2> DEFINE v == calls[r].version
  <2>1. /\ calls'[r].step = "completed" /\ calls'[r].version = v
        /\ \A q \in Processes: q # r => calls'[q] = calls[q]
    BY <1>0, <1>3, GotoType DEF FinaliseUpdate, Step
  <2>2. v \in DOMAIN versions /\ versions \in Seq(Version)
    BY <1>3 DEF FinaliseUpdate, At, VaultInv, WorkIsOfUploads, TypeOK
  <2>a. versions[v] \in Version
    BY <2>2
  <2>3. /\ DOMAIN versions' = DOMAIN versions
        /\ versions'[v].complete /\ SameBytes(v)
        /\ versions'[v].scan = versions[v].scan
        /\ \A u \in DOMAIN versions: u # v => versions'[u] = versions[u]
    BY <1>3, <2>2, <2>a DEF FinaliseUpdate, Version, SameBytes
  <2>4. \A u: Completed(u) => Later(u) /\ SameBytes(u)
    BY <2>3 DEF Completed, Later, SameBytes
  <2>5. StepsOfKind'
    BY <1>0, <2>1 DEF VaultInv, StepsOfKind, Processes
  <2>6. WorkIsOfUploads'
    <3>1. \A job \in jobs': Later(job.version)
      BY <1>3, <2>4 DEF FinaliseUpdate, VaultInv, WorkIsOfUploads
    <3>2. \A w \in Scanners: calls'[w].step # "idle" => Later(calls'[w].version)
      BY <1>0, <2>1, <2>4 DEF VaultInv, WorkIsOfUploads, Processes
    <3>3. \A q \in Requests: /\ calls'[q].step \in {"completed", "current"} => Later(calls'[q].version)
                             /\ calls'[q].step = "finalising" => calls'[q].version \in DOMAIN versions'
      <4> SUFFICES ASSUME NEW q \in Requests
                   PROVE  /\ calls'[q].step \in {"completed", "current"} => Later(calls'[q].version)
                          /\ calls'[q].step = "finalising" => calls'[q].version \in DOMAIN versions'
        OBVIOUS
      <4>1. CASE q = r
        BY <2>1, <2>2, <2>3, <4>1 DEF Later
      <4>2. CASE q # r
        BY <2>1, <2>3, <2>4, <4>2 DEF VaultInv, WorkIsOfUploads, Processes
      <4> QED
        BY <4>1, <4>2
    <3> QED
      BY <3>1, <3>2, <3>3 DEF WorkIsOfUploads, Completed, Later
  <2>7. VerdictOfBytes'
    <3>1. ASSUME NEW w \in Scanners, calls'[w].step = "scanned"
          PROVE  Judged(calls'[w].verdict, versions'[calls'[w].version])
      <4>1. calls'[w] = calls[w] /\ Completed(calls[w].version)
        BY <1>0, <2>1, <3>1 DEF VaultInv, WorkIsOfUploads, Processes
      <4> QED
        BY <2>4, <3>1, <4>1 DEF VaultInv, VerdictOfBytes, Judged, SameBytes
    <3>2. \A u \in DOMAIN versions': versions'[u].scan # "pending" =>
              versions'[u].complete /\ Judged(versions'[u].scan, versions'[u])
      BY <2>3 DEF VaultInv, VerdictOfBytes, Judged, SameBytes
    <3> QED
      BY <3>1, <3>2 DEF VerdictOfBytes, Judged, Verdicts, ScanState
  <2> QED
    BY <2>5, <2>6, <2>7 DEF VaultInv
<1>4. CASE FinalisePoint(r)
  <2>1. /\ calls'[r].step = "current" /\ calls'[r].version = calls[r].version
        /\ \A q \in Processes: q # r => calls'[q] = calls[q]
    BY <1>0, <1>4, GotoType DEF FinalisePoint, Step
  <2>2. StepsOfKind' /\ Completed(calls[r].version)
    BY <1>0, <1>4, <2>1 DEF VaultInv, StepsOfKind, WorkIsOfUploads, Processes, FinalisePoint, At
  <2> QED
    BY <1>0, <1>4, <2>1, <2>2, CallVault DEF FinalisePoint
<1>5. CASE FinaliseEnqueue(r)
  <2>1. Completed(ScanJob(r).version)
    BY <1>5 DEF FinaliseEnqueue, At, VaultInv, WorkIsOfUploads, ScanJob
  <2>2. jobs' = jobs \cup {ScanJob(r)} /\ versions' = versions
    BY <1>5 DEF FinaliseEnqueue
  <2>3. Kept
    BY <2>2 DEF Kept, SameBytes
  <2> QED
    BY <1>0, <1>5, <2>1, <2>2, <2>3, RestVault DEF FinaliseEnqueue, VaultInv, VerdictOfBytes
<1>6. CASE RequestFails(r)
  BY <1>0, <1>6, RestVault DEF RequestFails, Kept, SameBytes, VaultInv, VerdictOfBytes
<1>7. ASSUME NEW v \in DOMAIN versions, NEW checksum \in Contents, FinaliseRead(r, v, checksum)
      PROVE  VaultInv'
  <2>1. /\ calls'[r].step = "finalising" /\ calls'[r].version = v
        /\ \A q \in Processes: q # r => calls'[q] = calls[q]
    <3>1. calls[r] \in Call /\ calls \in [Processes -> Call]
      BY <1>0 DEF TypeOK
    <3> QED
      BY <1>0, <1>7, <3>1 DEF FinaliseRead, Call
  <2>2. StepsOfKind'
    BY <1>0, <2>1 DEF VaultInv, StepsOfKind, Processes
  <2> QED
    BY <1>0, <1>7, <2>1, <2>2, CallVault DEF FinaliseRead
<1> QED
  BY <1>1, <1>2, <1>3, <1>4, <1>5, <1>6, <1>7 DEF GoOn

LEMMA ScannerVault ==
    ASSUME TypeOK, VaultInv, NEW w \in Scanners, Work(w) \/ JobFails(w) \/ WorkerDies(w)
    PROVE  VaultInv'
<1>0. w \in Processes /\ w \notin Requests
  BY ProcessAssumption DEF Processes
<1>1. ASSUME NEW job \in jobs, ScanRead(w, job) PROVE VaultInv'
  <2>1. CASE calls' = calls
    BY <1>0, <1>1, <2>1 DEF ScanRead, VaultInv, StepsOfKind, WorkIsOfUploads, VerdictOfBytes, Completed
  <2>2. CASE ScanWanted(versions[job.version])
    <3> DEFINE taken == [Idle(w) EXCEPT !.step = "reading", !.version = job.version,
                                        !.by = job.by, !.tries = job.tries,
                                        !.stalls = job.stalls]
    <3>1. taken.step = "reading" /\ taken.version = job.version
      BY DEF Idle
    <3>2. calls' = [calls EXCEPT ![w] = taken]
      BY <1>1, <2>2 DEF ScanRead
    <3> HIDE DEF taken
    <3>3. /\ calls'[w].step = "reading" /\ calls'[w].version = job.version
          /\ \A q \in Processes: q # w => calls'[q] = calls[q]
      BY <1>0, <3>1, <3>2 DEF TypeOK
    <3>4. StepsOfKind' /\ Completed(job.version)
      BY <1>0, <3>3 DEF VaultInv, StepsOfKind, WorkIsOfUploads, Processes
    <3> QED
      BY <1>0, <1>1, <3>3, <3>4, CallVault DEF ScanRead
  <2> QED
    BY <1>1, <2>1, <2>2 DEF ScanRead
<1>2. CASE ScanVerdict(w)
  <2>1. PICK verdict \in Verdicts(versions[calls[w].version].stored): Scan(w, verdict)
    BY <1>2 DEF ScanVerdict
  <2>2. calls[w] \in Call /\ calls \in [Processes -> Call] /\ calls[w].step = "reading"
    BY <1>0, <2>1 DEF TypeOK, Scan, At
  <2>3. /\ calls'[w].step = "scanned" /\ calls'[w].verdict = verdict
        /\ calls'[w].version = calls[w].version
        /\ \A q \in Processes: q # w => calls'[q] = calls[q]
    BY <1>0, <2>1, <2>2 DEF Scan, Call
  <2>4. StepsOfKind' /\ Completed(calls[w].version)
    BY <1>0, <2>2, <2>3 DEF VaultInv, StepsOfKind, WorkIsOfUploads, Processes
  <2>5. Judged(verdict, versions[calls[w].version])
    BY DEF Judged, Verdicts, ScanState
  <2> QED
    BY <1>0, <2>1, <2>3, <2>4, <2>5, CallVault DEF Scan
<1>b. ASSUME VerdictWritten(w)
      PROVE  Kept /\ \A u \in DOMAIN versions': versions'[u].scan # "pending" =>
                 versions'[u].complete /\ Judged(versions'[u].scan, versions'[u])
  <2> DEFINE v == calls[w].version
  <2>1. /\ Completed(v) /\ v \in DOMAIN versions /\ versions \in Seq(Version)
        /\ Judged(calls[w].verdict, versions[v])
    BY <1>b DEF VerdictWritten, At, VaultInv, WorkIsOfUploads, VerdictOfBytes, TypeOK, Completed
  <2>2. versions[v] \in Version
    BY <2>1
  <2>3. /\ DOMAIN versions' = DOMAIN versions
        /\ versions'[v].complete = versions[v].complete /\ SameBytes(v)
        /\ versions'[v].scan = calls[w].verdict
        /\ \A u \in DOMAIN versions: u # v => versions'[u] = versions[u]
    BY <1>b, <2>1, <2>2 DEF VerdictWritten, Version, SameBytes
  <2>4. Kept
    BY <2>3 DEF Kept, SameBytes
  <2>5. ASSUME NEW u \in DOMAIN versions, versions'[u].scan # "pending"
        PROVE  versions'[u].complete /\ Judged(versions'[u].scan, versions'[u])
    <3>1. CASE u = v
      BY <2>1, <2>3, <3>1 DEF Completed, Judged, SameBytes
    <3>2. CASE u # v
      BY <2>3, <2>5, <3>2 DEF VaultInv, VerdictOfBytes
    <3> QED
      BY <3>1, <3>2
  <2> QED
    BY <2>3, <2>4, <2>5
<1>3. CASE ScanWrite(w)
  BY <1>0, <1>b, <1>3, RestVault DEF ScanWrite
<1>4. ASSUME JobFails(w) \/ WorkerDies(w) PROVE VaultInv'
  <2>1. Completed(calls[w].version) /\ Finish(w) /\ (UNCHANGED versions \/ VerdictWritten(w))
    BY <1>4 DEF JobFails, WorkerDies, At, VaultInv, WorkIsOfUploads
  <2>2. /\ JobOf(w).version = calls[w].version
        /\ [JobOf(w) EXCEPT !.tries = @ + 1].version = calls[w].version
        /\ [JobOf(w) EXCEPT !.stalls = @ + 1].version = calls[w].version
    BY DEF JobOf
  <2>3. \A job \in jobs': job \in jobs \/ Completed(job.version)
    <3>1. CASE JobFails(w)
      BY <2>1, <2>2, <3>1 DEF JobFails
    <3>2. CASE WorkerDies(w)
      BY <2>1, <2>2, <3>2 DEF WorkerDies
    <3> QED
      BY <1>4, <3>1, <3>2
  <2>4. Kept /\ \A u \in DOMAIN versions': versions'[u].scan # "pending" =>
            versions'[u].complete /\ Judged(versions'[u].scan, versions'[u])
    <3>1. CASE UNCHANGED versions
      BY <3>1 DEF Kept, SameBytes, VaultInv, VerdictOfBytes
    <3> QED
      BY <1>b, <2>1, <3>1
  <2> QED
    BY <1>0, <2>1, <2>3, <2>4, RestVault
<1> QED
  BY <1>1, <1>2, <1>3, <1>4 DEF Work

(* A step that changes the storage of a version, or its link, and nothing  *)
(* of what is known of it but that its bytes came late.                    *)
LEMMA StorageVault ==
    ASSUME TypeOK, VaultInv, NEW v \in DOMAIN versions,
           DOMAIN versions' = DOMAIN versions, calls' = calls, jobs' = jobs,
           versions'[v].scan = versions[v].scan, versions'[v].complete = versions[v].complete,
           \A u \in DOMAIN versions: u # v => versions'[u] = versions[u],
           versions'[v].late \/ SameBytes(v) \/ ~Fetched(v)
    PROVE  VaultInv'
<1>1. \A u: Completed(u) => Later(u)
  BY DEF Completed, Later
<1>2. WorkIsOfUploads'
  <2>1. \A job \in jobs': Later(job.version)
    BY <1>1 DEF VaultInv, WorkIsOfUploads
  <2>2. \A w \in Scanners: calls'[w].step # "idle" => Later(calls'[w].version)
    BY <1>1 DEF VaultInv, WorkIsOfUploads
  <2>3. \A r \in Requests: calls'[r].step \in {"completed", "current"} => Later(calls'[r].version)
    BY <1>1 DEF VaultInv, WorkIsOfUploads
  <2>4. \A r \in Requests: calls'[r].step = "finalising" => calls'[r].version \in DOMAIN versions'
    BY DEF VaultInv, WorkIsOfUploads
  <2> QED
    BY <2>1, <2>2, <2>3, <2>4 DEF WorkIsOfUploads, Completed, Later
<1>3. VerdictOfBytes'
  <2>1. ASSUME NEW w \in Scanners, calls'[w].step = "scanned"
        PROVE  Judged(calls'[w].verdict, versions'[calls'[w].version])
    <3>1. /\ calls'[w] = calls[w] /\ calls[w].version \in DOMAIN versions
          /\ Judged(calls[w].verdict, versions[calls[w].version])
      BY <2>1 DEF VaultInv, WorkIsOfUploads, VerdictOfBytes, Completed
    <3>2. CASE calls[w].version = v
      <4>1. Fetched(v)
        BY <2>1, <3>1, <3>2 DEF Fetched
      <4> QED
        BY <3>1, <3>2, <4>1 DEF Judged, SameBytes
    <3>3. CASE calls[w].version # v
      BY <3>1, <3>3
    <3> QED
      BY <3>2, <3>3
  <2>2. ASSUME NEW u \in DOMAIN versions', versions'[u].scan # "pending"
        PROVE  versions'[u].complete /\ Judged(versions'[u].scan, versions'[u])
    <3>1. versions[u].complete /\ Judged(versions[u].scan, versions[u])
      BY <2>2 DEF VaultInv, VerdictOfBytes
    <3>2. CASE u = v
      <4>1. Fetched(v)
        BY <2>2, <3>2 DEF Fetched
      <4> QED
        BY <3>1, <3>2, <4>1 DEF Judged, SameBytes
    <3>3. CASE u # v
      BY <3>1, <3>3
    <3> QED
      BY <3>2, <3>3
  <2> QED
    BY <2>1, <2>2 DEF VerdictOfBytes, Judged, Verdicts, ScanState
<1> QED
  BY <1>2, <1>3 DEF VaultInv, StepsOfKind

LEMMA PutVault ==
    ASSUME TypeOK, VaultInv, NEW v \in DOMAIN versions,
           UrlExpires(v) \/ \E content \in Contents: Put(v, content)
    PROVE  VaultInv'
<1>1. versions \in Seq(Version) /\ versions[v] \in Version
  BY DEF TypeOK
<1>2. ASSUME NEW content \in Contents, Put(v, content) PROVE VaultInv'
  <2>1. /\ DOMAIN versions' = DOMAIN versions /\ calls' = calls /\ jobs' = jobs
        /\ versions'[v].scan = versions[v].scan /\ versions'[v].complete = versions[v].complete
        /\ versions'[v].stored = content
        /\ versions'[v].late = (versions[v].late \/ (Fetched(v) /\ content # versions[v].stored))
        /\ \A u \in DOMAIN versions: u # v => versions'[u] = versions[u]
    BY <1>1, <1>2 DEF Put, Version
  <2>2. versions[v].late \in BOOLEAN
    BY <1>1 DEF Version
  <2>3. versions'[v].late \/ SameBytes(v) \/ ~Fetched(v)
    BY <2>1, <2>2 DEF SameBytes
  <2> QED
    BY <2>1, <2>3, StorageVault
<1>3. CASE UrlExpires(v)
  <2>1. /\ DOMAIN versions' = DOMAIN versions /\ calls' = calls /\ jobs' = jobs
        /\ versions'[v].scan = versions[v].scan /\ versions'[v].complete = versions[v].complete
        /\ SameBytes(v)
        /\ \A u \in DOMAIN versions: u # v => versions'[u] = versions[u]
    BY <1>1, <1>3 DEF UrlExpires, Version, SameBytes
  <2> QED
    BY <2>1, StorageVault
<1> QED
  BY <1>2, <1>3

LEMMA NextVault == TypeOK /\ VaultInv /\ [Next]_vars => VaultInv'
<1> SUFFICES ASSUME TypeOK, VaultInv, [Next]_vars PROVE VaultInv'
  OBVIOUS
<1>1. CASE Remove \/ UNCHANGED vars
  BY <1>1 DEF Remove, vars, VaultInv, StepsOfKind, WorkIsOfUploads, VerdictOfBytes, Completed
<1> QED
  BY <1>1, RequestVault, ScannerVault, PutVault DEF Next

LEMMA VaultAlways == Spec => [](TypeOK /\ VaultInv)
BY InitType, NextType, InitVault, NextVault, PTL DEF Spec

(* What may go to a university is stored and was found clean, for any      *)
(* number of requests, workers and faults, and for bytes that arrive at    *)
(* any time the link lasts, except that a scan which has read the file     *)
(* cannot speak of the bytes that replace it (resolveForConnector).        *)
THEOREM EligibleCorrect == Spec => []EligibleIsCleanUnlessPutLate
<1>1. ASSUME TypeOK, VaultInv PROVE EligibleIsCleanUnlessPutLate
  <2> SUFFICES ASSUME NEW v \in DOMAIN versions, Eligible(versions[v]), ~versions[v].late
               PROVE  versions[v].stored \in Contents \ Infected
    BY DEF EligibleIsCleanUnlessPutLate
  <2>1. versions[v].scan = "clean" /\ versions[v].scan \in Verdicts(versions[v].stored)
    BY <1>1 DEF Eligible, VaultInv, VerdictOfBytes, Judged
  <2>2. versions[v].stored \in Contents \cup {NoBytes}
    <3>1. versions \in Seq(Version)
      BY <1>1 DEF TypeOK
    <3>2. versions[v] \in Version
      BY <3>1
    <3> QED
      BY <3>2 DEF Version
  <2> QED
    BY <2>1, <2>2 DEF Verdicts
<1> QED
  BY <1>1, VaultAlways, PTL

(***************************************************************************)
(* Quarantine, with a single worker                                        *)
(***************************************************************************)

LEMMA NextWanted ==
    ASSUME \A u, w \in Scanners: u = w, TypeOK, VaultInv, WorkIsWanted, [Next]_vars
    PROVE  WorkIsWanted' /\ \A v \in DOMAIN versions:
               versions[v].scan = "quarantined" => versions'[v].scan = "quarantined"
<1> DEFINE Stays == \A v \in DOMAIN versions:
                        versions[v].scan = "quarantined" => versions'[v].scan = "quarantined"
           Same == \A v \in DOMAIN versions: versions'[v].scan = versions[v].scan
<1>1. ASSUME Same, \A w \in Scanners: calls'[w] = calls[w] \/ calls'[w].step = "idle"
      PROVE  WorkIsWanted' /\ Stays
  <2>1. ASSUME NEW w \in Scanners, calls'[w].step # "idle"
        PROVE  versions'[calls'[w].version].scan # "quarantined"
    <3>1. calls'[w] = calls[w] /\ calls[w].version \in DOMAIN versions
      BY <1>1, <2>1 DEF VaultInv, WorkIsOfUploads, Completed
    <3> QED
      BY <1>1, <2>1, <3>1 DEF WorkIsWanted
  <2> QED
    BY <1>1, <2>1 DEF WorkIsWanted
<1>2. ASSUME NEW r \in Requests,
             \/ CreateRead(r) \/ GoOn(r) \/ RequestFails(r)
             \/ \E v \in DOMAIN versions, checksum \in Contents: FinaliseRead(r, v, checksum)
      PROVE  WorkIsWanted' /\ Stays
  <2>1. \A w \in Scanners: w # r
    BY ProcessAssumption
  <2>2. \A w \in Scanners: calls'[w] = calls[w]
    BY <1>2, <2>1 DEF CreateRead, GoOn, CreateWrite, FinaliseUpdate, FinalisePoint,
                      FinaliseEnqueue, RequestFails, FinaliseRead, Goto, Finish, TypeOK, Processes
  <2>3. Same
    <3>1. CASE versions' = versions
      BY <3>1
    <3>2. CASE CreateWrite(r)
      <4>1. versions \in Seq(Version)
        BY DEF TypeOK
      <4>2. CASE versions' = Append(versions, NewVersion)
        BY <4>1, <4>2
      <4> QED
        BY <3>2, <4>2 DEF CreateWrite
    <3>3. CASE FinaliseUpdate(r)
      <4>1. versions \in Seq(Version) /\ calls[r].version \in DOMAIN versions
        BY <3>3 DEF TypeOK, FinaliseUpdate, At, VaultInv, WorkIsOfUploads
      <4>2. versions[calls[r].version] \in Version
        BY <4>1
      <4> QED
        BY <3>3, <4>1, <4>2 DEF FinaliseUpdate, Version
    <3> QED
      BY <1>2, <3>1, <3>2, <3>3 DEF CreateRead, GoOn, FinalisePoint, FinaliseEnqueue,
                                   RequestFails, FinaliseRead
  <2> QED
    BY <1>1, <2>2, <2>3
<1>3. ASSUME NEW v \in DOMAIN versions, UrlExpires(v) \/ \E content \in Contents: Put(v, content)
      PROVE  WorkIsWanted' /\ Stays
  <2>1. versions \in Seq(Version) /\ versions[v] \in Version
    BY DEF TypeOK
  <2>2. Same /\ calls' = calls
    <3>1. CASE UrlExpires(v)
      BY <2>1, <3>1 DEF UrlExpires, Version
    <3>2. ASSUME NEW content \in Contents, Put(v, content) PROVE Same /\ calls' = calls
      BY <2>1, <3>2 DEF Put, Version
    <3> QED
      BY <1>3, <3>1, <3>2
  <2> QED
    BY <1>1, <2>2
<1>4. ASSUME NEW w \in Scanners, Work(w) \/ JobFails(w) \/ WorkerDies(w)
      PROVE  WorkIsWanted' /\ Stays
  <2>0. w \in Processes /\ calls \in [Processes -> Call]
    BY DEF Processes, TypeOK
  <2>1. ASSUME NEW job \in jobs, ScanRead(w, job) PROVE WorkIsWanted' /\ Stays
    <3>1. CASE calls' = calls
      BY <1>1, <2>1, <3>1 DEF ScanRead
    <3>2. CASE ScanWanted(versions[job.version])
      <4>1. calls' = [calls EXCEPT ![w] = [Idle(w) EXCEPT !.step = "reading",
                          !.version = job.version, !.by = job.by, !.tries = job.tries,
                          !.stalls = job.stalls]]
        BY <2>1, <3>2 DEF ScanRead
      <4>2. calls'[w].version = job.version
        BY <2>0, <4>1 DEF Idle
      <4>3. versions' = versions
        BY <2>1 DEF ScanRead
      <4> QED
        BY <3>2, <4>2, <4>3 DEF ScanWanted, WorkIsWanted
    <3> QED
      BY <2>1, <3>1, <3>2 DEF ScanRead
  <2>2. CASE ScanVerdict(w)
    <3>1. PICK verdict: Scan(w, verdict)
      BY <2>2 DEF ScanVerdict
    <3>2. calls[w] \in Call /\ calls[w].step = "reading"
      BY <2>0, <3>1 DEF Scan, At
    <3>3. calls'[w].version = calls[w].version /\ versions' = versions
      BY <2>0, <3>1, <3>2 DEF Scan, Call
    <3> QED
      BY <3>2, <3>3 DEF WorkIsWanted
  <2>b. ASSUME VerdictWritten(w) PROVE Stays
    <3>1. /\ calls[w].version \in DOMAIN versions /\ versions \in Seq(Version)
          /\ versions[calls[w].version].scan # "quarantined"
      BY <2>b DEF VerdictWritten, At, TypeOK, WorkIsWanted, VaultInv, WorkIsOfUploads, Completed
    <3> QED
      BY <2>b, <3>1 DEF VerdictWritten
  <2>3. ASSUME ScanWrite(w) \/ JobFails(w) \/ WorkerDies(w) PROVE WorkIsWanted' /\ Stays
    <3>1. Finish(w) /\ (UNCHANGED versions \/ VerdictWritten(w))
      BY <2>3 DEF ScanWrite, JobFails, WorkerDies
    <3>2. calls'[w].step = "idle"
      BY <2>0, <3>1, FinishType
    <3>3. Stays
      BY <2>b, <3>1
    <3> QED
      BY <3>2, <3>3 DEF WorkIsWanted
  <2> QED
    BY <1>4, <2>1, <2>2, <2>3 DEF Work
<1>5. CASE Remove \/ UNCHANGED vars
  BY <1>1, <1>5 DEF Remove, vars
<1> QED
  BY <1>2, <1>3, <1>4, <1>5 DEF Next

(* With one worker a quarantined version stays quarantined, whatever is    *)
(* finalised twice, delivered again or tried again (runScan).              *)
THEOREM QuarantineCorrect ==
    ASSUME \A u, w \in Scanners: u = w
    PROVE  Spec => QuarantineStays
<1>1. Init => WorkIsWanted
  BY DEF Init, WorkIsWanted, Idle, Processes
<1>2. TypeOK /\ VaultInv /\ WorkIsWanted /\ [Next]_vars
      => /\ WorkIsWanted'
         /\ \A v \in DOMAIN versions:
                versions[v].scan = "quarantined" => versions'[v].scan = "quarantined"
  BY NextWanted
<1> QED
  BY <1>1, <1>2, VaultAlways, PTL DEF Spec, QuarantineStays

(***************************************************************************)
(* No upload is forgotten                                                  *)
(***************************************************************************)

(* A step hands on what it works on, and leaves the rest where it was.     *)
Waiting(v) == Completed(v) /\ versions[v].scan = "pending"

Held(v) == InHands(v) \/ StalledOut(v)

LEMMA NextInHands ==
    ASSUME TypeOK, VaultInv, [Next]_vars, ~Happened("request_dies")',
           \A v \in DOMAIN versions: Waiting(v) => Held(v)
    PROVE  \A v \in DOMAIN versions': Waiting(v)' => Held(v)'
<1> SUFFICES ASSUME NEW v \in DOMAIN versions', Waiting(v)' PROVE Held(v)'
  OBVIOUS
<1>0. versions \in Seq(Version) /\ calls \in [Processes -> Call]
  BY DEF TypeOK
<1>1. ASSUME NEW r \in Requests, \E u \in DOMAIN versions, checksum \in Contents: FinaliseRead(r, u, checksum)
      PROVE  Held(v)'
  <2>1. /\ versions' = versions /\ jobs' = jobs /\ deadJobs' = deadJobs
        /\ stalledJobs' = stalledJobs
        /\ calls[r].step = "idle" /\ \A q \in Processes: q # r => calls'[q] = calls[q]
    BY <1>0, <1>1 DEF FinaliseRead, At
  <2> QED
    BY <2>1 DEF Held, StalledOut, InHands, Waiting, Completed, Processes
<1>2. ASSUME NEW r \in Requests, CreateRead(r) PROVE Held(v)'
  <2>1. /\ versions' = versions /\ jobs' = jobs /\ deadJobs' = deadJobs
        /\ stalledJobs' = stalledJobs
        /\ calls[r].step = "idle" /\ \A q \in Processes: q # r => calls'[q] = calls[q]
    BY <1>0, <1>2 DEF CreateRead, At
  <2> QED
    BY <2>1 DEF Held, StalledOut, InHands, Waiting, Completed, Processes
<1>3. ASSUME NEW r \in Requests, CreateWrite(r) PROVE Held(v)'
  <2>1. /\ jobs' = jobs /\ deadJobs' = deadJobs
        /\ stalledJobs' = stalledJobs /\ calls[r].step = "creating"
        /\ \A q \in Processes: q # r => calls'[q] = calls[q]
    BY <1>0, <1>3, FinishType DEF CreateWrite, At, Processes
  <2>2. CASE versions' = versions
    BY <2>1, <2>2 DEF Held, StalledOut, InHands, Waiting, Completed, Processes
  <2>3. CASE versions' = Append(versions, NewVersion)
    <3>1. v \in DOMAIN versions /\ versions'[v] = versions[v]
      BY <1>0, <2>3 DEF Waiting, Completed, NewVersion
    <3> QED
      BY <2>1, <3>1 DEF Held, StalledOut, InHands, Waiting, Completed, Processes
  <2> QED
    BY <1>3, <2>2, <2>3 DEF CreateWrite
<1>4. ASSUME NEW r \in Requests, FinaliseUpdate(r) PROVE Held(v)'
  <2>1. /\ calls[r].version \in DOMAIN versions /\ jobs' = jobs /\ deadJobs' = deadJobs
        /\ stalledJobs' = stalledJobs
        /\ calls[r].step = "finalising" /\ calls'[r].step = "completed"
        /\ calls'[r].version = calls[r].version
        /\ \A q \in Processes: q # r => calls'[q] = calls[q]
    BY <1>4, GotoType DEF FinaliseUpdate, At, Processes, Step, VaultInv, WorkIsOfUploads
  <2>2. CASE v = calls[r].version
    BY <2>1, <2>2 DEF Held, StalledOut, InHands
  <2>3. CASE v # calls[r].version
    <3>1. v \in DOMAIN versions /\ versions'[v] = versions[v]
      BY <1>0, <1>4, <2>1, <2>3 DEF FinaliseUpdate
    <3> QED
      BY <2>1, <3>1 DEF Held, StalledOut, InHands, Waiting, Completed, Processes
  <2> QED
    BY <2>2, <2>3
<1>5. ASSUME NEW r \in Requests, FinalisePoint(r) PROVE Held(v)'
  <2>1. /\ versions' = versions /\ jobs' = jobs /\ deadJobs' = deadJobs
        /\ stalledJobs' = stalledJobs
        /\ calls'[r].step = "current" /\ calls'[r].version = calls[r].version
        /\ \A q \in Processes: q # r => calls'[q] = calls[q]
    BY <1>5, GotoType DEF FinalisePoint, Processes, Step
  <2> QED
    BY <2>1 DEF Held, StalledOut, InHands, Waiting, Completed, Processes
<1>6. ASSUME NEW r \in Requests, FinaliseEnqueue(r) PROVE Held(v)'
  <2>1. /\ versions' = versions /\ jobs' = jobs \cup {ScanJob(r)} /\ deadJobs' = deadJobs
        /\ stalledJobs' = stalledJobs
        /\ ScanJob(r).version = calls[r].version
        /\ \A q \in Processes: q # r => calls'[q] = calls[q]
    BY <1>6, FinishType DEF FinaliseEnqueue, Processes, ScanJob
  <2> QED
    BY <2>1 DEF Held, StalledOut, InHands, Waiting, Completed, Processes
<1>7. ASSUME NEW r \in Requests, RequestFails(r) PROVE Held(v)'
  BY <1>7, FaultType DEF RequestFails
<1>8. ASSUME NEW u \in DOMAIN versions, UrlExpires(u) \/ \E content \in Contents: Put(u, content)
      PROVE  Held(v)'
  <2>1. versions[u] \in Version
    BY <1>0
  <2>2. /\ jobs' = jobs /\ deadJobs' = deadJobs
        /\ stalledJobs' = stalledJobs /\ calls' = calls
        /\ Waiting(v)
    <3>1. CASE UrlExpires(u)
      BY <1>0, <2>1, <3>1 DEF UrlExpires, Waiting, Completed, Version
    <3>2. ASSUME NEW content \in Contents, Put(u, content)
          PROVE  /\ jobs' = jobs /\ deadJobs' = deadJobs /\ stalledJobs' = stalledJobs
                 /\ calls' = calls /\ Waiting(v)
      BY <1>0, <2>1, <3>2 DEF Put, Waiting, Completed, Version
    <3> QED
      BY <1>8, <3>1, <3>2
  <2> QED
    BY <2>1, <2>2 DEF Held, StalledOut, InHands, Waiting, Completed
<1>9. ASSUME NEW w \in Scanners, NEW job \in jobs, ScanRead(w, job) PROVE Held(v)'
  <2>1. /\ versions' = versions /\ jobs' = jobs \ {job} /\ deadJobs' = deadJobs
        /\ stalledJobs' = stalledJobs
        /\ calls[w].step = "idle" /\ w \in Processes
    BY <1>9 DEF ScanRead, At, Processes
  <2>2. CASE ~ScanWanted(versions[job.version])
    <3>1. calls' = calls /\ job.version # v
      BY <1>9, <2>1, <2>2 DEF ScanRead, ScanWanted, Waiting
    <3> QED
      BY <2>1, <3>1 DEF Held, StalledOut, InHands, Waiting, Completed
  <2>3. CASE ScanWanted(versions[job.version])
    <3>1. calls' = [calls EXCEPT ![w] = [Idle(w) EXCEPT !.step = "reading",
                        !.version = job.version, !.by = job.by, !.tries = job.tries,
                        !.stalls = job.stalls]]
      BY <1>9, <2>3 DEF ScanRead
    <3>2. /\ calls'[w].step = "reading" /\ calls'[w].version = job.version
          /\ \A q \in Processes: q # w => calls'[q] = calls[q]
      BY <1>0, <2>1, <3>1 DEF Idle
    <3> QED
      BY <2>1, <3>2 DEF Held, StalledOut, InHands, Waiting, Completed, Processes
  <2> QED
    BY <2>2, <2>3
<1>10. ASSUME NEW w \in Scanners, ScanVerdict(w) PROVE Held(v)'
  <2>1. PICK verdict: Scan(w, verdict)
    BY <1>10 DEF ScanVerdict
  <2>2. /\ versions' = versions /\ jobs' = jobs /\ deadJobs' = deadJobs
        /\ stalledJobs' = stalledJobs
        /\ calls[w] \in Call /\ w \in Processes
    BY <1>0, <2>1 DEF Scan, Processes
  <2>3. /\ calls'[w].step = "scanned" /\ calls'[w].version = calls[w].version
        /\ \A q \in Processes: q # w => calls'[q] = calls[q]
    BY <1>0, <2>1, <2>2 DEF Scan, Call
  <2>4. calls[w].step = "reading"
    BY <2>1 DEF Scan, At
  <2>5. Held(v)
    BY <2>2 DEF Waiting, Completed
  <2> QED
    BY <2>2, <2>3, <2>4, <2>5 DEF Held, StalledOut, InHands, Processes
<1>b. ASSUME NEW w \in Scanners, VerdictWritten(w)
      PROVE  v # calls[w].version /\ versions'[v] = versions[v] /\ v \in DOMAIN versions
  <2>1. /\ calls[w].version \in DOMAIN versions
        /\ Judged(calls[w].verdict, versions[calls[w].version])
    BY <1>b DEF VerdictWritten, At, VaultInv, WorkIsOfUploads, VerdictOfBytes, Completed
  <2>2. calls[w].verdict # "pending" /\ versions[calls[w].version] \in Version
    BY <1>0, <2>1 DEF Judged
  <2>3. versions'[calls[w].version].scan = calls[w].verdict
    BY <1>0, <1>b, <2>1, <2>2 DEF VerdictWritten, Version
  <2> QED
    BY <1>0, <1>b, <2>1, <2>2, <2>3 DEF VerdictWritten, Waiting
<1>11. ASSUME NEW w \in Scanners, ScanWrite(w) PROVE Held(v)'
  <2>1. /\ jobs' = jobs /\ deadJobs' = deadJobs
        /\ stalledJobs' = stalledJobs /\ \A q \in Processes: q # w => calls'[q] = calls[q]
    BY <1>11, FinishType DEF ScanWrite, Processes
  <2> QED
    BY <1>b, <1>11, <2>1 DEF ScanWrite, Held, StalledOut, InHands, Waiting, Completed, Processes
<1>12. ASSUME NEW w \in Scanners, JobFails(w) \/ WorkerDies(w) PROVE Held(v)'
  <2>1. /\ jobs \subseteq jobs' /\ deadJobs \subseteq deadJobs'
        /\ stalledJobs \subseteq stalledJobs'
        /\ \A q \in Processes: q # w => calls'[q] = calls[q]
    BY <1>12, FinishType DEF JobFails, WorkerDies, Processes
  <2>2. \E job \in jobs' \cup deadJobs' \cup stalledJobs': job.version = calls[w].version
    <3> DEFINE tried == [JobOf(w) EXCEPT !.tries = @ + 1]
               stalled == [JobOf(w) EXCEPT !.stalls = @ + 1]
    <3>1. stalled.version = calls[w].version /\ tried.version = calls[w].version
      BY DEF JobOf
    <3>2. JobOf(w) \in Job
      BY <1>12, JobOfType DEF JobFails, WorkerDies, At
    <3>3. tried.tries < MaxTries \/ LastTry(tried.tries)
      BY <3>2, NumberAssumption DEF LastTry, Job
    <3>4. CASE JobFails(w)
      <4>1. tried \in jobs' \cup deadJobs'
        BY <3>3, <3>4 DEF JobFails
      <4> QED
        BY <3>1, <4>1
    <3>5. CASE WorkerDies(w)
      BY <3>1, <3>5 DEF WorkerDies
    <3> QED
      BY <1>12, <3>4, <3>5
  <2>3. v \in DOMAIN versions /\ versions'[v] = versions[v]
    <3>1. CASE UNCHANGED versions
      BY <3>1
    <3> QED
      BY <1>b, <1>12, <3>1 DEF JobFails, WorkerDies
  <2>4. Held(v)
    BY <2>3 DEF Waiting, Completed
  <2> QED
    BY <2>1, <2>2, <2>4 DEF Held, StalledOut, InHands, Processes, VaultInv, StepsOfKind
<1>13. CASE Remove \/ UNCHANGED vars
  BY <1>13 DEF Remove, vars, Held, StalledOut, InHands, Waiting, Completed
<1> QED
  BY <1>1, <1>2, <1>3, <1>4, <1>5, <1>6, <1>7, <1>8, <1>9, <1>10, <1>11, <1>12, <1>13
     DEF Next, GoOn, Work

LEMMA DeathStays ==
    ASSUME TypeOK, [Next]_vars, Happened("request_dies")
    PROVE  Happened("request_dies")'
<1>1. CASE UNCHANGED faults
  BY <1>1 DEF Happened
<1>2. ASSUME NEW kind, Fault(kind) PROVE Happened("request_dies")'
  BY <1>2, FaultType
<1>3. (\E kind: Fault(kind)) \/ UNCHANGED faults
  BY DEF Next, vars, CreateRead, GoOn, CreateWrite, FinaliseUpdate, FinalisePoint, FinaliseEnqueue,
         RequestFails, FinaliseRead, Put, UrlExpires, Work, ScanRead, ScanVerdict, Scan, ScanWrite, JobFails,
         WorkerDies, Remove
<1> QED
  BY <1>1, <1>2, <1>3

(* A completed upload whose scan is pending is with a request, a job, a    *)
(* worker or a human, as long as no request died completing one, or its    *)
(* job is among those the queue gave up with their workers                 *)
(* (DocumentsService.finalise, runScan and the queue's dead letters).      *)
THEOREM NotForgottenCorrect == Spec => []NoUploadForgotten
<1> DEFINE AllHeld == ~Happened("request_dies") => \A v \in DOMAIN versions: Waiting(v) => Held(v)
<1>1. Init => AllHeld
  BY DEF Init
<1>2. TypeOK /\ VaultInv /\ AllHeld /\ [Next]_vars => AllHeld'
  BY NextInHands, DeathStays
<1>3. AllHeld => NoUploadForgotten
  BY DEF NoUploadForgotten, Waiting, Held
<1> QED
  BY <1>1, <1>2, <1>3, VaultAlways, PTL DEF Spec
===============================================================================
