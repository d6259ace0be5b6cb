----------------------------- MODULE Idempotency -----------------------------
(***************************************************************************)
(* Idempotency keys of the API: IdempotencyService.run around an operation *)
(* such as an application's submission.  A client sends a request again    *)
(* under the same key whenever it did not get the answer it wants, so      *)
(* several requests of one key are in progress at once.  Each access to    *)
(* the record of a key, and the operation itself, is a step of its own.    *)
(***************************************************************************)
EXTENDS Naturals, Sequences

CONSTANTS
    Requests,     \* requests that can be in progress at once
    Keys,         \* idempotency keys
    Bodies,       \* what is asked: the scope, and the hash of the request body
    FaultKinds,   \* which faults happen
    MaxRuns,      \* bound: operations that complete
    MaxFaults     \* bound: faults of each kind

ASSUME FaultAssumption  == FaultKinds \subseteq {"crash", "complete_error", "release_error"}
ASSUME NumberAssumption == MaxRuns \in Nat /\ MaxFaults \in Nat

VARIABLES
    records,   \* key -> idempotency record
    calls,     \* the requests in progress
    runs,      \* what the operations that completed were asked, in order (history)
    replays,   \* the replayed answers given (history)
    faults     \* how often each kind of fault happened

vars == <<records, calls, runs, replays, faults>>

NoResponse == 0
Ask    == [key: Keys, body: Bodies]
Record == [body: Bodies, state: {"in_flight", "completed"}, response: Nat]
Step   == {"idle", "arrived", "absent", "running", "operated", "failing"}
Call   == [step: Step, ask: Ask, response: Nat]

TypeOK ==
    /\ DOMAIN records \subseteq Keys
    /\ records \in [DOMAIN records -> Record]
    /\ calls \in [Requests -> Call]
    /\ runs \in Seq(Ask)
    /\ replays \subseteq [ask: Ask, response: Nat]
    /\ faults \in [FaultKinds -> Nat]

Init ==
    /\ records = [k \in {} |-> 0]
    /\ \E ask \in Ask:
           calls = [r \in Requests |-> [step |-> "idle", ask |-> ask, response |-> NoResponse]]
    /\ runs = <<>>
    /\ replays = {}
    /\ faults = [kind \in FaultKinds |-> 0]

At(r, step) == calls[r].step = step
Goto(r, step) == calls' = [calls EXCEPT ![r].step = step]
KeyOf(r) == calls[r].ask.key
Fault(kind) ==
    /\ kind \in FaultKinds
    /\ faults[kind] < MaxFaults
    /\ faults' = [faults EXCEPT ![kind] = @ + 1]
Happened(kind) == kind \in FaultKinds /\ faults[kind] > 0
Put(f, x, v) == [y \in DOMAIN f \cup {x} |-> IF y = x THEN v ELSE f[y]]
Without(f, x) == [y \in DOMAIN f \ {x} |-> f[y]]

(***************************************************************************)
(* IdempotencyService.run                                                  *)
(***************************************************************************)

Arrive(r, ask) ==
    /\ At(r, "idle")
    /\ calls' = [calls EXCEPT ![r] = [step |-> "arrived", ask |-> ask,
                                      response |-> NoResponse]]
    /\ UNCHANGED <<records, runs, replays, faults>>

(* A record of another request is never replayed.                          *)
AnyRequest(record, ask) == TRUE
SameRequest(record, ask) == record.body = ask.body

(* A known key is refused (used for another request, or still in flight),  *)
(* or answered as before; an unknown one may be run.                       *)
Find(r) ==
    /\ At(r, "arrived")
    /\ \/ /\ KeyOf(r) \notin DOMAIN records
          /\ Goto(r, "absent")
          /\ UNCHANGED replays
       \/ /\ KeyOf(r) \in DOMAIN records
          /\ LET record == records[KeyOf(r)]
             IN  replays' = IF SameRequest(record, calls[r].ask) /\ record.state = "completed"
                            THEN replays \cup {[ask |-> calls[r].ask,
                                                response |-> record.response]}
                            ELSE replays
          /\ Goto(r, "idle")
    /\ UNCHANGED <<records, runs, faults>>

(* The key is the primary key: of two requests one loses the insert race.  *)
KeyAlwaysFree(key) == TRUE
KeyFree(key) == key \notin DOMAIN records

InFlight(r) == [body |-> calls[r].ask.body, state |-> "in_flight",
                response |-> NoResponse]

Insert(r) ==
    /\ At(r, "absent")
    /\ IF KeyFree(KeyOf(r))
       THEN /\ records' = Put(records, KeyOf(r), InFlight(r))
            /\ Goto(r, "running")
       ELSE /\ Goto(r, "idle")
            /\ UNCHANGED records
    /\ UNCHANGED <<runs, replays, faults>>

Operate(r) ==
    /\ At(r, "running")
    /\ \/ /\ Len(runs) < MaxRuns
          /\ runs' = Append(runs, calls[r].ask)
          /\ calls' = [calls EXCEPT ![r].step = "operated", ![r].response = Len(runs) + 1]
       \/ /\ Goto(r, "failing")
          /\ UNCHANGED runs
    /\ UNCHANGED <<records, replays, faults>>

(* The response is kept with the key; when that write throws, the key is   *)
(* given up like that of an operation that failed.                         *)
CompletedAsDone(r) == [body |-> calls[r].ask.body, state |-> "done",
                       response |-> calls[r].response]
Completed(r) == [body |-> calls[r].ask.body, state |-> "completed",
                 response |-> calls[r].response]

Complete(r) ==
    /\ At(r, "operated")
    /\ \/ /\ records' = Put(records, KeyOf(r), Completed(r))
          /\ Goto(r, "idle")
          /\ UNCHANGED faults
       \/ /\ Fault("complete_error")
          /\ Goto(r, "failing")
          /\ UNCHANGED records
    /\ UNCHANGED <<runs, replays>>

(* A failed attempt releases the key; a failure to do so is swallowed.     *)
Release(r) ==
    /\ At(r, "failing")
    /\ \/ /\ records' = Without(records, KeyOf(r))
          /\ UNCHANGED faults
       \/ /\ Fault("release_error")
          /\ UNCHANGED records
    /\ Goto(r, "idle")
    /\ UNCHANGED <<runs, replays>>

Crash(r) ==
    /\ ~At(r, "idle")
    /\ Fault("crash")
    /\ Goto(r, "idle")
    /\ UNCHANGED <<records, runs, replays>>

Advance(r) == Find(r) \/ Insert(r) \/ Operate(r) \/ Complete(r) \/ Release(r)

Next ==
    \E r \in Requests: (\E ask \in Ask: Arrive(r, ask)) \/ Advance(r) \/ Crash(r)

Spec == Init /\ [][Next]_vars

(* A request that has started keeps running.                               *)
Fairness == \A r \in Requests: WF_vars(Advance(r))
FairSpec == Spec /\ Fairness

(***************************************************************************)
(* Properties                                                              *)
(***************************************************************************)

Working(r) == calls[r].step \in {"running", "operated", "failing"}

(* However the requests of one key interleave, only one of them is ever    *)
(* inside the operation (the insert race in IdempotencyService.run).       *)
OneRunPerKey ==
    \A r, s \in Requests: Working(r) /\ Working(s) /\ KeyOf(r) = KeyOf(s) => r = s

(* A replayed answer is the response of an operation that completed, asked *)
(* for under the same key with the same body.                              *)
ReplayIsOriginal ==
    \A answer \in replays:
        answer.response \in DOMAIN runs /\ runs[answer.response] = answer.ask

(* A key completes its operation at most once, whoever sends it again and  *)
(* whenever (the contract of IdempotencyService.run).                      *)
CompletedOnce == \A m, n \in DOMAIN runs: runs[m].key = runs[n].key => m = n

(* What the code keeps of that: only a write of the completed record that  *)
(* failed lets a key complete again, no crash and no race does             *)
(* (IdempotencyService.run).                                               *)
CompletedOnceIfRecorded == ~Happened("complete_error") => CompletedOnce

KeyInFlight(k) == k \in DOMAIN records /\ records[k].state = "in_flight"

(* A key does not stay in flight for ever: it is completed, or released    *)
(* for a genuine retry (the catch of IdempotencyService.run).              *)
KeySettles == \A k \in Keys: KeyInFlight(k) ~> ~KeyInFlight(k)

(* What the code keeps of that: only a crash, or a release that failed,    *)
(* leaves a key in flight (the catch of IdempotencyService.run).           *)
KeySettlesUnlessAbandoned ==
    \A k \in Keys:
        KeyInFlight(k) ~> (~KeyInFlight(k) \/ Happened("crash") \/ Happened("release_error"))

(***************************************************************************)
(* The inductive invariant                                                 *)
(***************************************************************************)

(* Whoever is inside the operation owns the in-flight record of its key;   *)
(* it holds a response only once that is a completed run.                  *)
OwnsRecord ==
    \A r \in Requests: Working(r) =>
        /\ KeyOf(r) \in DOMAIN records
        /\ records[KeyOf(r)] = InFlight(r)
ResponseIsRun ==
    \A r \in Requests: At(r, "operated") =>
        /\ calls[r].response \in DOMAIN runs
        /\ runs[calls[r].response] = calls[r].ask
RecordIsRun ==
    \A k \in DOMAIN records: records[k].state = "completed" =>
        /\ records[k].response \in DOMAIN runs
        /\ runs[records[k].response] = [key |-> k, body |-> records[k].body]

(* A key whose operation completed is never given up.                      *)
RunKeepsKey ==
    \A n \in DOMAIN runs:
        /\ runs[n].key \in DOMAIN records
        /\ \A r \in Requests: KeyOf(r) = runs[n].key => calls[r].step \notin {"running", "failing"}

KeyInv == OneRunPerKey /\ OwnsRecord /\ ResponseIsRun /\ RecordIsRun /\ ReplayIsOriginal
===============================================================================
