--------------------------- MODULE IdempotencyProofs ---------------------------
(***************************************************************************)
(* Proofs about idempotency keys, for any number of requests, keys, runs   *)
(* and faults.                                                             *)
(***************************************************************************)
EXTENDS Idempotency, SequenceTheorems, TLAPS

(* Writing one entry of the table of keys.                                 *)
LEMMA PutFacts ==
    ASSUME NEW f, NEW x, NEW v
    PROVE  /\ DOMAIN Put(f, x, v) = DOMAIN f \cup {x}
           /\ Put(f, x, v)[x] = v
           /\ \A y \in DOMAIN f: y # x => Put(f, x, v)[y] = f[y]
BY DEF Put

LEMMA PutType ==
    ASSUME NEW f, DOMAIN f \subseteq Keys, f \in [DOMAIN f -> Record],
           NEW k \in Keys, NEW v \in Record
    PROVE  /\ DOMAIN Put(f, k, v) \subseteq Keys
           /\ Put(f, k, v) \in [DOMAIN Put(f, k, v) -> Record]
<1>1. Put(f, k, v) \in [DOMAIN f \cup {k} -> Record]
  BY DEF Put
<1> QED
  BY <1>1, PutFacts

(* The run a request completes comes after those that are known.           *)
LEMMA AppendFacts ==
    ASSUME NEW ask \in Ask, runs \in Seq(Ask)
    PROVE  /\ Append(runs, ask) \in Seq(Ask)
           /\ DOMAIN Append(runs, ask) = DOMAIN runs \cup {Len(runs) + 1}
           /\ Len(runs) + 1 \notin DOMAIN runs
           /\ \A n \in DOMAIN runs: Append(runs, ask)[n] = runs[n]
           /\ Append(runs, ask)[Len(runs) + 1] = ask
OBVIOUS

(***************************************************************************)
(* Type correctness                                                        *)
(***************************************************************************)

(* The shape of a request and of its key.                                  *)
LEMMA CallFacts ==
    ASSUME TypeOK, NEW r \in Requests
    PROVE  /\ calls[r].step \in Step
           /\ calls[r].ask \in Ask
           /\ KeyOf(r) \in Keys
           /\ calls[r].ask.body \in Bodies
           /\ calls[r].response \in Nat
BY DEF TypeOK, Call, Ask, KeyOf

LEMMA GotoType ==
    ASSUME TypeOK, NEW r \in Requests, NEW step \in Step, Goto(r, step)
    PROVE  calls' \in [Requests -> Call]
BY DEF TypeOK, Goto, Call

(* Faults are counted by their kind, and stay counted.                     *)
LEMMA FaultType ==
    ASSUME TypeOK, NEW kind, Fault(kind)
    PROVE  /\ faults' \in [FaultKinds -> Nat]
           /\ Happened(kind)'
           /\ \A other: Happened(other) => Happened(other)'
BY DEF TypeOK, Fault, Happened

LEMMA InitType == Init => TypeOK
<1> SUFFICES ASSUME Init PROVE TypeOK
  OBVIOUS
<1>1. calls \in [Requests -> Call]
  BY DEF Init, Call, Step, NoResponse
<1>2. DOMAIN records = {} /\ records \in [DOMAIN records -> Record]
  BY DEF Init
<1> QED
  BY <1>1, <1>2 DEF Init, TypeOK

LEMMA NextType == TypeOK /\ [Next]_vars => TypeOK'
<1> SUFFICES ASSUME TypeOK, [Next]_vars PROVE TypeOK'
  OBVIOUS
<1> USE DEF Step
<1>1. ASSUME NEW r \in Requests, NEW ask \in Ask, Arrive(r, ask) PROVE TypeOK'
  <2>1. calls' \in [Requests -> Call]
    BY <1>1 DEF Arrive, TypeOK, Call, NoResponse
  <2> QED
    BY <1>1, <2>1 DEF Arrive, TypeOK
<1>2. ASSUME NEW r \in Requests, Find(r) PROVE TypeOK'
  <2>1. calls' \in [Requests -> Call]
    BY <1>2, GotoType DEF Find
  <2>2. replays' \subseteq [ask: Ask, response: Nat]
    BY <1>2, CallFacts DEF Find, TypeOK, Record
  <2> QED
    BY <1>2, <2>1, <2>2 DEF Find, TypeOK
<1>3. ASSUME NEW r \in Requests, Insert(r) PROVE TypeOK'
  <2>1. calls' \in [Requests -> Call]
    BY <1>3, GotoType DEF Insert
  <2>2. InFlight(r) \in Record
    BY CallFacts DEF InFlight, Record, NoResponse
  <2>3. DOMAIN records' \subseteq Keys /\ records' \in [DOMAIN records' -> Record]
    BY <1>3, <2>2, PutType, CallFacts DEF Insert, TypeOK
  <2> QED
    BY <1>3, <2>1, <2>3 DEF Insert, TypeOK
<1>4. ASSUME NEW r \in Requests, Operate(r) PROVE TypeOK'
  <2>1. CASE Goto(r, "failing") /\ UNCHANGED runs
    <3>1. calls' \in [Requests -> Call]
      BY <2>1, GotoType
    <3> QED
      BY <1>4, <2>1, <3>1 DEF Operate, TypeOK
  <2>2. CASE /\ runs' = Append(runs, calls[r].ask)
             /\ calls' = [calls EXCEPT ![r].step = "operated", ![r].response = Len(runs) + 1]
    <3>1. runs' \in Seq(Ask) /\ Len(runs) + 1 \in Nat
      BY <2>2, CallFacts DEF TypeOK
    <3>2. calls' \in [Requests -> Call]
      BY <2>2, <3>1 DEF TypeOK, Call
    <3> QED
      BY <1>4, <3>1, <3>2 DEF Operate, TypeOK
  <2> QED
    BY <1>4, <2>1, <2>2 DEF Operate
<1>5. ASSUME NEW r \in Requests, Complete(r) PROVE TypeOK'
  <2>1. calls' \in [Requests -> Call]
    BY <1>5, GotoType DEF Complete
  <2>2. Completed(r) \in Record
    BY CallFacts DEF Completed, Record
  <2>3. DOMAIN records' \subseteq Keys /\ records' \in [DOMAIN records' -> Record]
    BY <1>5, <2>2, PutType, CallFacts DEF Complete, TypeOK
  <2>4. faults' \in [FaultKinds -> Nat]
    BY <1>5, FaultType DEF Complete, TypeOK
  <2> QED
    BY <1>5, <2>1, <2>3, <2>4 DEF Complete, TypeOK
<1>6. ASSUME NEW r \in Requests, Release(r) PROVE TypeOK'
  <2>1. calls' \in [Requests -> Call]
    BY <1>6, GotoType DEF Release
  <2>2. DOMAIN records' \subseteq Keys /\ records' \in [DOMAIN records' -> Record]
    BY <1>6 DEF Release, TypeOK, Without
  <2>3. faults' \in [FaultKinds -> Nat]
    BY <1>6, FaultType DEF Release, TypeOK
  <2> QED
    BY <1>6, <2>1, <2>2, <2>3 DEF Release, TypeOK
<1>7. ASSUME NEW r \in Requests, Crash(r) PROVE TypeOK'
  <2>1. calls' \in [Requests -> Call]
    BY <1>7, GotoType DEF Crash
  <2>2. faults' \in [FaultKinds -> Nat]
    BY <1>7, FaultType DEF Crash
  <2> QED
    BY <1>7, <2>1, <2>2 DEF Crash, TypeOK
<1>8. CASE UNCHANGED vars
  BY <1>8 DEF vars, TypeOK
<1> QED
  BY <1>1, <1>2, <1>3, <1>4, <1>5, <1>6, <1>7, <1>8 DEF Next, Advance

(* Type correctness of the idempotency records and of the calls of         *)
(* IdempotencyService.run.                                                 *)
THEOREM TypeCorrect == Spec => []TypeOK
BY InitType, NextType, PTL DEF Spec

(***************************************************************************)
(* The key invariant                                                       *)
(***************************************************************************)

LEMMA InitKey == Init => KeyInv
<1> SUFFICES ASSUME Init PROVE KeyInv
  OBVIOUS
<1>1. \A r \in Requests: calls[r].step = "idle"
  <2>1. PICK ask \in Ask:
            calls = [r \in Requests |-> [step |-> "idle", ask |-> ask, response |-> NoResponse]]
    BY DEF Init
  <2> QED
    BY <2>1
<1>2. DOMAIN records = {} /\ replays = {}
  BY DEF Init
<1> QED
  BY <1>1, <1>2 DEF KeyInv, OneRunPerKey, Working, OwnsRecord, ResponseIsRun, RecordIsRun,
                    ReplayIsOriginal, At

(* What a step that only moves one request along changes.                  *)
LEMMA GotoFacts ==
    ASSUME TypeOK, NEW r \in Requests, NEW step, Goto(r, step)
    PROVE  /\ calls'[r].step = step
           /\ \A s \in Requests: /\ calls'[s].ask = calls[s].ask
                                 /\ calls'[s].response = calls[s].response
           /\ \A s \in Requests: s # r => calls'[s] = calls[s]
BY DEF TypeOK, Goto, Call

(* A step after which r is outside the operation, and that leaves the keys *)
(* and the runs alone, preserves the invariant as far as the replays do.   *)
LEMMA LeaveKeepsKey ==
    ASSUME TypeOK, KeyInv, NEW r \in Requests, NEW step \in {"idle", "arrived", "absent"},
           calls'[r].step = step, \A s \in Requests: s # r => calls'[s] = calls[s],
           UNCHANGED <<records, runs>>, ReplayIsOriginal'
    PROVE  KeyInv'
<1>1. \A s \in Requests: Working(s)' => Working(s) /\ s # r /\ calls'[s] = calls[s]
  BY DEF Working
<1>2. OneRunPerKey'
  BY <1>1 DEF KeyInv, OneRunPerKey, KeyOf
<1>3. OwnsRecord'
  BY <1>1 DEF KeyInv, OwnsRecord, KeyOf, InFlight
<1>4. ResponseIsRun'
  <2> SUFFICES ASSUME NEW s \in Requests, At(s, "operated")'
               PROVE  /\ calls'[s].response \in DOMAIN runs'
                      /\ runs'[calls'[s].response] = calls'[s].ask
    BY DEF ResponseIsRun
  <2>1. calls'[s] = calls[s] /\ At(s, "operated")
    BY DEF At
  <2> QED
    BY <2>1 DEF KeyInv, ResponseIsRun
<1>5. RecordIsRun'
  BY DEF KeyInv, RecordIsRun
<1> QED
  BY <1>2, <1>3, <1>4, <1>5 DEF KeyInv

LEMMA ArriveKeepsKey ==
    ASSUME TypeOK, KeyInv, NEW r \in Requests, NEW ask \in Ask, Arrive(r, ask)
    PROVE  KeyInv'
<1>1. calls'[r].step = "arrived" /\ \A s \in Requests: s # r => calls'[s] = calls[s]
  BY DEF Arrive, TypeOK
<1>2. ReplayIsOriginal'
  BY DEF Arrive, KeyInv, ReplayIsOriginal
<1> QED
  BY <1>1, <1>2, LeaveKeepsKey DEF Arrive

(* A replay is the response of a completed record of the same request.     *)
LEMMA FindKeepsKey ==
    ASSUME TypeOK, KeyInv, NEW r \in Requests, Find(r)
    PROVE  KeyInv'
<1>1. PICK step \in {"idle", "absent"}: Goto(r, step)
  BY DEF Find
<1>2. ReplayIsOriginal'
  <2> SUFFICES ASSUME NEW answer \in replays'
               PROVE  answer.response \in DOMAIN runs /\ runs[answer.response] = answer.ask
    BY DEF Find, ReplayIsOriginal
  <2>1. CASE answer \in replays
    BY <2>1 DEF KeyInv, ReplayIsOriginal
  <2>2. CASE answer \notin replays
    <3> DEFINE record == records[KeyOf(r)]
    <3>1. /\ KeyOf(r) \in DOMAIN records
          /\ record.body = calls[r].ask.body /\ record.state = "completed"
          /\ answer = [ask |-> calls[r].ask, response |-> record.response]
      BY <2>2 DEF Find, SameRequest
    <3>2. /\ record.response \in DOMAIN runs
          /\ runs[record.response] = [key |-> KeyOf(r), body |-> record.body]
      BY <3>1 DEF KeyInv, RecordIsRun
    <3>3. calls[r].ask = [key |-> KeyOf(r), body |-> calls[r].ask.body]
      BY CallFacts DEF Ask, KeyOf
    <3> QED
      BY <3>1, <3>2, <3>3
  <2> QED
    BY <2>1, <2>2
<1> QED
  BY <1>1, <1>2, GotoFacts, LeaveKeepsKey DEF Find

LEMMA CrashKeepsKey ==
    ASSUME TypeOK, KeyInv, NEW r \in Requests, Crash(r)
    PROVE  KeyInv'
<1>1. ReplayIsOriginal'
  BY DEF Crash, KeyInv, ReplayIsOriginal
<1> QED
  BY <1>1, GotoFacts, LeaveKeepsKey DEF Crash

(* Whoever inserts the record of a key finds nobody inside its operation:  *)
(* that request would own a record.                                        *)
LEMMA InsertKeepsKey ==
    ASSUME TypeOK, KeyInv, NEW r \in Requests, Insert(r)
    PROVE  KeyInv'
<1>1. ReplayIsOriginal'
  BY DEF Insert, KeyInv, ReplayIsOriginal
<1>2. CASE ~KeyFree(KeyOf(r))
  BY <1>1, <1>2, GotoFacts, LeaveKeepsKey DEF Insert
<1>3. CASE KeyFree(KeyOf(r))
  <2>1. Goto(r, "running") /\ records' = Put(records, KeyOf(r), InFlight(r)) /\ runs' = runs
    BY <1>3 DEF Insert
  <2>2. /\ records'[KeyOf(r)] = InFlight(r)
        /\ DOMAIN records' = DOMAIN records \cup {KeyOf(r)}
        /\ \A k \in DOMAIN records: k # KeyOf(r) /\ records'[k] = records[k]
    BY <1>3, <2>1 DEF KeyFree, Put
  <2>3. /\ \A s \in Requests: KeyOf(s)' = KeyOf(s) /\ InFlight(s)' = InFlight(s)
        /\ \A s \in Requests: s # r => calls'[s] = calls[s]
        /\ calls'[r].step = "running"
    BY <2>1, GotoFacts DEF KeyOf, InFlight
  <2>4. \A s \in Requests: Working(s)' /\ s # r =>
            Working(s) /\ KeyOf(s) \in DOMAIN records /\ KeyOf(s) # KeyOf(r)
    BY <2>2, <2>3 DEF Working, KeyInv, OwnsRecord
  <2>5. OneRunPerKey'
    BY <2>3, <2>4 DEF KeyInv, OneRunPerKey
  <2>6. OwnsRecord'
    BY <2>2, <2>3, <2>4 DEF KeyInv, OwnsRecord
  <2>7. ResponseIsRun'
    BY <2>1, <2>3 DEF KeyInv, ResponseIsRun, At
  <2>8. RecordIsRun'
    BY <2>1, <2>2 DEF KeyInv, RecordIsRun, InFlight
  <2> QED
    BY <1>1, <2>5, <2>6, <2>7, <2>8 DEF KeyInv
<1> QED
  BY <1>2, <1>3

(* Steps of r inside the operation that leave the records alone.           *)
LEMMA OperateKeepsKey ==
    ASSUME TypeOK, KeyInv, NEW r \in Requests, Operate(r)
    PROVE  KeyInv'
<1>1. /\ \A s \in Requests: calls'[s].ask = calls[s].ask
      /\ \A s \in Requests: s # r => calls'[s] = calls[s]
      /\ calls[r].step = "running"
  <2>1. CASE Goto(r, "failing")
    BY <2>1, GotoFacts DEF Operate, At
  <2>2. CASE calls' = [calls EXCEPT ![r].step = "operated", ![r].response = Len(runs) + 1]
    BY <2>2 DEF Operate, TypeOK, Call, At
  <2> QED
    BY <2>1, <2>2 DEF Operate
<1>2. \A s \in Requests: /\ Working(s)' => Working(s)
                         /\ KeyOf(s)' = KeyOf(s)
                         /\ InFlight(s)' = InFlight(s)
  BY <1>1 DEF Working, KeyOf, InFlight
<1>3. OneRunPerKey' /\ OwnsRecord'
  BY <1>2 DEF Operate, KeyInv, OneRunPerKey, OwnsRecord
<1>4. \A n \in DOMAIN runs: n \in DOMAIN runs' /\ runs'[n] = runs[n]
  BY CallFacts, AppendFacts DEF Operate, TypeOK
<1>5. ResponseIsRun'
  <2> SUFFICES ASSUME NEW s \in Requests, At(s, "operated")'
               PROVE  /\ calls'[s].response \in DOMAIN runs'
                      /\ runs'[calls'[s].response] = calls'[s].ask
    BY DEF ResponseIsRun
  <2>1. CASE s # r
    BY <1>1, <1>4, <2>1 DEF KeyInv, ResponseIsRun, At
  <2>2. CASE s = r
    <3>1. ~Goto(r, "failing")
      BY <2>2, GotoFacts DEF At
    <3>2. /\ runs' = Append(runs, calls[r].ask)
          /\ calls' = [calls EXCEPT ![r].step = "operated", ![r].response = Len(runs) + 1]
      BY <3>1 DEF Operate
    <3>3. calls'[r].response = Len(runs) + 1
      BY <3>2 DEF TypeOK, Call
    <3> QED
      BY <1>1, <2>2, <3>2, <3>3, AppendFacts, CallFacts DEF TypeOK
  <2> QED
    BY <2>1, <2>2
<1>6. RecordIsRun' /\ ReplayIsOriginal'
  BY <1>4 DEF Operate, KeyInv, RecordIsRun, ReplayIsOriginal
<1> QED
  BY <1>3, <1>5, <1>6 DEF KeyInv

LEMMA CompleteKeepsKey ==
    ASSUME TypeOK, KeyInv, NEW r \in Requests, Complete(r)
    PROVE  KeyInv'
<1>0. ReplayIsOriginal'
  BY DEF Complete, KeyInv, ReplayIsOriginal
<1>1. PICK step \in {"idle", "failing"}: Goto(r, step)
  BY DEF Complete
<1>2. /\ \A s \in Requests: KeyOf(s)' = KeyOf(s) /\ InFlight(s)' = InFlight(s)
      /\ \A s \in Requests: s # r => calls'[s] = calls[s]
      /\ calls'[r].step = step
      /\ calls[r].step = "operated"
  BY <1>1, GotoFacts DEF Complete, At, KeyOf, InFlight
<1>3. \A s \in Requests: Working(s)' => Working(s)
  BY <1>2 DEF Working
<1>4. OneRunPerKey'
  BY <1>2, <1>3 DEF KeyInv, OneRunPerKey
<1>5. ResponseIsRun'
  BY <1>2 DEF Complete, KeyInv, ResponseIsRun, At
<1>6. CASE UNCHANGED records
  BY <1>0, <1>2, <1>3, <1>4, <1>5, <1>6 DEF Complete, KeyInv, OwnsRecord, RecordIsRun
<1>7. CASE Goto(r, "idle") /\ records' = Put(records, KeyOf(r), Completed(r))
  <2>1. /\ records'[KeyOf(r)] = Completed(r)
        /\ DOMAIN records' = DOMAIN records \cup {KeyOf(r)}
        /\ \A k \in DOMAIN records: k # KeyOf(r) => records'[k] = records[k]
    BY <1>7 DEF Put
  <2>2. ~Working(r)'
    BY <1>7, GotoFacts DEF Working
  <2>3. \A s \in Requests: Working(s)' => KeyOf(s) # KeyOf(r)
    BY <1>2, <1>3, <2>2 DEF KeyInv, OneRunPerKey, Working
  <2>4. OwnsRecord'
    BY <1>2, <1>3, <2>1, <2>3 DEF KeyInv, OwnsRecord
  <2>5. /\ calls[r].response \in DOMAIN runs
        /\ runs[calls[r].response] = [key |-> KeyOf(r), body |-> calls[r].ask.body]
    BY <1>2, CallFacts DEF KeyInv, ResponseIsRun, At, Ask, KeyOf
  <2>6. RecordIsRun'
    BY <2>1, <2>5 DEF Complete, Completed, KeyInv, RecordIsRun
  <2> QED
    BY <1>0, <1>4, <1>5, <2>4, <2>6 DEF KeyInv
<1> QED
  BY <1>6, <1>7 DEF Complete

(* Only the owner of a key gives it up.                                    *)
LEMMA ReleaseKeepsKey ==
    ASSUME TypeOK, KeyInv, NEW r \in Requests, Release(r)
    PROVE  KeyInv'
<1>0. ReplayIsOriginal'
  BY DEF Release, KeyInv, ReplayIsOriginal
<1>1. /\ \A s \in Requests: KeyOf(s)' = KeyOf(s) /\ InFlight(s)' = InFlight(s)
      /\ \A s \in Requests: s # r => calls'[s] = calls[s]
      /\ calls'[r].step = "idle"
      /\ calls[r].step = "failing"
  BY GotoFacts DEF Release, At, KeyOf, InFlight
<1>2. \A s \in Requests: Working(s)' => Working(s) /\ KeyOf(s) # KeyOf(r)
  BY <1>1 DEF Working, KeyInv, OneRunPerKey
<1>3. \A k \in DOMAIN records': k \in DOMAIN records /\ records'[k] = records[k]
  BY DEF Release, Without
<1>4. \A k \in DOMAIN records: k # KeyOf(r) => k \in DOMAIN records'
  BY DEF Release, Without
<1>5. OneRunPerKey'
  BY <1>1, <1>2 DEF KeyInv, OneRunPerKey
<1>6. OwnsRecord'
  BY <1>1, <1>2, <1>3, <1>4 DEF KeyInv, OwnsRecord
<1>7. ResponseIsRun'
  BY <1>1 DEF Release, KeyInv, ResponseIsRun, At
<1>8. RecordIsRun'
  BY <1>3 DEF Release, KeyInv, RecordIsRun
<1> QED
  BY <1>0, <1>5, <1>6, <1>7, <1>8 DEF KeyInv

LEMMA NextKey == TypeOK /\ KeyInv /\ [Next]_vars => KeyInv'
<1> SUFFICES ASSUME TypeOK, KeyInv, [Next]_vars PROVE KeyInv'
  OBVIOUS
<1>1. CASE UNCHANGED vars
  BY <1>1 DEF vars, KeyInv, OneRunPerKey, Working, OwnsRecord, ResponseIsRun, RecordIsRun,
              ReplayIsOriginal, At, KeyOf, InFlight
<1>2. CASE Next
  BY <1>2, ArriveKeepsKey, FindKeepsKey, InsertKeepsKey, OperateKeepsKey, CompleteKeepsKey,
     ReleaseKeepsKey, CrashKeepsKey DEF Next, Advance
<1> QED
  BY <1>1, <1>2

(* However many requests of a key race, only one is inside the operation:  *)
(* the insert of the key's record decides (IdempotencyService.run).        *)
THEOREM OneRunCorrect == Spec => []OneRunPerKey
<1>1. KeyInv => OneRunPerKey
  BY DEF KeyInv
<1> QED
  BY <1>1, InitType, NextType, InitKey, NextKey, PTL DEF Spec

(* A replayed answer is the one the same request got when it ran.          *)
THEOREM ReplayCorrect == Spec => []ReplayIsOriginal
<1>1. KeyInv => ReplayIsOriginal
  BY DEF KeyInv
<1> QED
  BY <1>1, InitType, NextType, InitKey, NextKey, PTL DEF Spec

(***************************************************************************)
(* A key completes once                                                    *)
(***************************************************************************)

(* Completing an operation is the only step that adds a run; its request   *)
(* owns the key, so the key has no run yet.  A key with a run loses its    *)
(* record only to a request that failed after its operation completed, and *)
(* that takes a failing write of the completed record.                     *)
LEMMA NextOnce ==
    ASSUME ~Happened("complete_error")', TypeOK, KeyInv, CompletedOnce, RunKeepsKey,
           [Next]_vars
    PROVE  CompletedOnce' /\ RunKeepsKey'
<1> DEFINE Failed(r) == calls[r].step \in {"running", "failing"}
           Quiet == /\ runs' = runs
                    /\ \A k \in DOMAIN records: k \in DOMAIN records'
                    /\ \A s \in Requests: Failed(s)' => Failed(s) /\ KeyOf(s)' = KeyOf(s)
<1>0. ASSUME Quiet PROVE CompletedOnce' /\ RunKeepsKey'
  BY <1>0 DEF CompletedOnce, RunKeepsKey
<1>1. ASSUME NEW r \in Requests, NEW ask \in Ask, Arrive(r, ask) PROVE Quiet
  <2>1. calls'[r].step = "arrived" /\ \A s \in Requests: s # r => calls'[s] = calls[s]
    BY <1>1 DEF Arrive, TypeOK
  <2> QED
    BY <1>1, <2>1 DEF Arrive, KeyOf
<1>2. ASSUME NEW r \in Requests, Find(r) \/ Crash(r) PROVE Quiet
  <2>1. PICK step \in {"idle", "absent"}: Goto(r, step)
    BY <1>2 DEF Find, Crash
  <2> QED
    BY <1>2, <2>1, GotoFacts DEF Find, Crash, KeyOf
<1>3. ASSUME NEW r \in Requests, Insert(r) PROVE CompletedOnce' /\ RunKeepsKey'
  <2>1. CASE ~KeyFree(KeyOf(r))
    <3>1. Quiet
      BY <1>3, <2>1, GotoFacts DEF Insert, KeyOf
    <3> QED
      BY <1>0, <3>1
  <2>2. CASE KeyFree(KeyOf(r))
    <3>1. \A k \in DOMAIN records: k # KeyOf(r) /\ k \in DOMAIN records'
      BY <1>3, <2>2 DEF Insert, KeyFree, Put
    <3>2. \A s \in Requests: KeyOf(s)' = KeyOf(s) /\ (Failed(s)' => s = r \/ Failed(s))
      BY <1>3, <2>2, GotoFacts DEF Insert, KeyOf
    <3>3. runs' = runs
      BY <1>3 DEF Insert
    <3> QED
      BY <3>1, <3>2, <3>3 DEF CompletedOnce, RunKeepsKey
  <2> QED
    BY <2>1, <2>2
<1>4. ASSUME NEW r \in Requests, Operate(r) PROVE CompletedOnce' /\ RunKeepsKey'
  <2>1. calls[r].step = "running" /\ records' = records
    BY <1>4 DEF Operate, At
  <2>2. KeyOf(r) \in DOMAIN records /\ \A n \in DOMAIN runs: runs[n].key # KeyOf(r)
    BY <2>1 DEF KeyInv, OwnsRecord, Working, RunKeepsKey
  <2>3. CASE Goto(r, "failing") /\ UNCHANGED runs
    <3>1. \A s \in Requests: KeyOf(s)' = KeyOf(s) /\ (Failed(s)' => Failed(s))
      BY <2>1, <2>3, GotoFacts DEF KeyOf
    <3> QED
      BY <1>0, <2>1, <2>3, <3>1
  <2>4. CASE /\ runs' = Append(runs, calls[r].ask)
             /\ calls' = [calls EXCEPT ![r].step = "operated", ![r].response = Len(runs) + 1]
    <3>1. /\ DOMAIN runs' = DOMAIN runs \cup {Len(runs) + 1}
          /\ Len(runs) + 1 \notin DOMAIN runs
          /\ \A n \in DOMAIN runs: runs'[n] = runs[n]
          /\ runs'[Len(runs) + 1].key = KeyOf(r)
      BY <2>4, AppendFacts, CallFacts DEF TypeOK, KeyOf
    <3>2. CompletedOnce'
      BY <2>2, <3>1 DEF CompletedOnce
    <3>3. /\ \A s \in Requests: KeyOf(s)' = KeyOf(s) /\ (Failed(s)' => Failed(s))
          /\ ~Failed(r)'
      BY <2>4 DEF TypeOK, Call, KeyOf
    <3>4. \A s \in Requests: KeyOf(s) = KeyOf(r) /\ Failed(s) => s = r
      BY <2>1 DEF KeyInv, OneRunPerKey, Working
    <3>5. RunKeepsKey'
      <4> SUFFICES ASSUME NEW n \in DOMAIN runs'
                   PROVE  /\ runs'[n].key \in DOMAIN records'
                          /\ \A s \in Requests: KeyOf(s)' = runs'[n].key => ~Failed(s)'
        BY DEF RunKeepsKey
      <4>1. CASE n \in DOMAIN runs
        BY <2>1, <3>1, <3>3, <4>1 DEF RunKeepsKey
      <4>2. CASE n = Len(runs) + 1
        BY <2>1, <2>2, <3>1, <3>3, <3>4, <4>2
      <4> QED
        BY <3>1, <4>1, <4>2
    <3> QED
      BY <3>2, <3>5
  <2> QED
    BY <1>4, <2>3, <2>4 DEF Operate
<1>5. ASSUME NEW r \in Requests, Complete(r) PROVE Quiet
  <2>1. Goto(r, "idle") /\ records' = Put(records, KeyOf(r), Completed(r)) /\ runs' = runs
    BY <1>5, FaultType DEF Complete
  <2>2. \A k \in DOMAIN records: k \in DOMAIN records'
    BY <2>1 DEF Put
  <2> QED
    BY <2>1, <2>2, GotoFacts DEF KeyOf
<1>6. ASSUME NEW r \in Requests, Release(r) PROVE CompletedOnce' /\ RunKeepsKey'
  <2>1. calls[r].step = "failing" /\ runs' = runs
    BY <1>6 DEF Release, At
  <2>2. \A n \in DOMAIN runs: runs[n].key # KeyOf(r)
    BY <2>1 DEF RunKeepsKey
  <2>3. \A k \in DOMAIN records: k # KeyOf(r) => k \in DOMAIN records'
    BY <1>6 DEF Release, Without
  <2>4. \A s \in Requests: KeyOf(s)' = KeyOf(s) /\ (Failed(s)' => Failed(s))
    BY <1>6, GotoFacts DEF Release, KeyOf
  <2> QED
    BY <2>1, <2>2, <2>3, <2>4 DEF CompletedOnce, RunKeepsKey
<1>7. CASE UNCHANGED vars
  <2>1. Quiet
    BY <1>7 DEF vars, KeyOf
  <2> QED
    BY <1>0, <2>1
<1> QED
  BY <1>0, <1>1, <1>2, <1>3, <1>4, <1>5, <1>6, <1>7 DEF Next, Advance

LEMMA HappenedStays ==
    ASSUME TypeOK, [Next]_vars, Happened("complete_error")
    PROVE  Happened("complete_error")'
<1>1. CASE UNCHANGED faults
  BY <1>1 DEF Happened
<1>2. ASSUME NEW kind, Fault(kind) PROVE Happened("complete_error")'
  BY <1>2, FaultType
<1>3. CASE UNCHANGED vars
  BY <1>1, <1>3 DEF vars
<1>4. ASSUME NEW r \in Requests, Complete(r) \/ Release(r) \/ Crash(r)
      PROVE  Happened("complete_error")'
  BY <1>1, <1>2, <1>4 DEF Complete, Release, Crash
<1>5. ASSUME NEW r \in Requests, (\E ask \in Ask: Arrive(r, ask)) \/ Find(r) \/ Insert(r) \/ Operate(r)
      PROVE  Happened("complete_error")'
  BY <1>1, <1>5 DEF Arrive, Find, Insert, Operate
<1> QED
  BY <1>3, <1>4, <1>5 DEF Next, Advance

(* As long as completed records are written, a key completes its operation *)
(* at most once, whatever crashes or fails to be released                  *)
(* (IdempotencyService.run).                                               *)
THEOREM CompletedOnceCorrect == Spec => []CompletedOnceIfRecorded
<1> DEFINE Once == ~Happened("complete_error") => CompletedOnce /\ RunKeepsKey
<1>1. Init => Once
  BY DEF Init, CompletedOnce, RunKeepsKey
<1>2. TypeOK /\ KeyInv /\ Once /\ [Next]_vars => Once'
  BY NextOnce, HappenedStays
<1>3. Once => CompletedOnceIfRecorded
  BY DEF CompletedOnceIfRecorded
<1> QED
  BY <1>1, <1>2, <1>3, InitType, NextType, InitKey, NextKey, PTL DEF Spec
===============================================================================
