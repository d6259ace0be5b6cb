--------------------------- MODULE DocumentReview --------------------------
(***************************************************************************)
(* Assessment of one version of a student's document by people             *)
(* (DocumentReviewService): the universities the student applied to and    *)
(* Modex itself each open it and decide on it once.  The gate is the scan  *)
(* state (see DocumentVault), read by each request before it writes; one   *)
(* assessment per version and reviewer is what the unique index keeps,     *)
(* and for Modex its column is null, which no unique index compares.       *)
(***************************************************************************)
EXTENDS Integers, FiniteSets

CONSTANTS
    Callers,        \* requests that can be in progress at once
    Universities,
    Modex,          \* the reviewer whose institution is null
    MaxRows         \* bound: assessments

ReviewerAssumption == Modex \notin Universities /\ MaxRows \in Nat

VARIABLES
    scan,           \* the scan state of the version
    applied,        \* the universities the student has an application with
    rows,           \* the assessments, in the order created
    verdicts,       \* how many decisions were written to each (history)
    calls,
    late            \* rows written after the scan or the row changed (history)

vars == <<scan, applied, rows, verdicts, calls, late>>

Reviewer == Universities \cup {Modex}
ScanState == {"pending", "clean", "quarantined"}
Decision == {"accepted", "more_information", "rejected"}

(* An assessment exists once somebody opened the version.                  *)
Row == [institution: Reviewer, decision: Decision \cup {"none"}]
(* A call: who, the row it found (0: none), what it decides, and the       *)
(* decision it found on the row.                                           *)
Call == [step: {"idle", "open", "decide"}, who: Reviewer, row: 0..MaxRows, decision: Decision,
         found: Decision \cup {"none"}]
NoCall == [step |-> "idle", who |-> Modex, row |-> 0, decision |-> "accepted",
           found |-> "none"]

TypeOK ==
    /\ scan \in ScanState /\ applied \subseteq Universities
    /\ DOMAIN rows \subseteq 1..MaxRows /\ rows \in [DOMAIN rows -> Row]
    /\ verdicts \in [1..MaxRows -> Nat]
    /\ calls \in [Callers -> Call] /\ late \subseteq 1..MaxRows

Init ==
    /\ scan = "pending" /\ applied = {}
    /\ rows = [n \in {} |-> 0] /\ verdicts = [n \in 1..MaxRows |-> 0]
    /\ calls = [c \in Callers |-> NoCall] /\ late = {}

Hold(c, call) == calls' = [calls EXCEPT ![c] = call]
End(c) == Hold(c, NoCall)
RowsOf(i) == {n \in DOMAIN rows: rows[n].institution = i}

(* loadVersion: a university reaches the versions of whoever has an        *)
(* application with it, in whatever state.                                 *)
Reaches(i) == i = Modex \/ i \in applied

(* canAssess is the connector's gate: complete and clean.                  *)
CanAssess == scan = "clean"

OpenRead(c, i) ==
    /\ calls[c].step = "idle" /\ Reaches(i) /\ CanAssess
    /\ \/ RowsOf(i) = {} /\ Hold(c, [NoCall EXCEPT !.step = "open", !.who = i])
       \/ \E n \in RowsOf(i): Hold(c, [NoCall EXCEPT !.step = "open", !.who = i, !.row = n])
    /\ UNCHANGED <<scan, applied, rows, verdicts, late>>

(* The unique index refuses a second row of a university, not of Modex.    *)
NoIndex(i) == TRUE
RowFree(i) == i = Modex \/ RowsOf(i) = {}
Undecided(i) == [institution |-> i, decision |-> "undecided"]
OpenedRow(i) == [institution |-> i, decision |-> "none"]
OpenWrite(c) ==
    LET n == calls[c].row  i == calls[c].who  new == Cardinality(DOMAIN rows) + 1 IN
    /\ calls[c].step = "open"
    /\ IF n # 0 \/ ~RowFree(i) THEN UNCHANGED rows
       ELSE new <= MaxRows /\ rows' = [m \in 1..new |-> IF m = new THEN OpenedRow(i) ELSE rows[m]]
    /\ late' = IF n = 0 /\ RowFree(i) /\ ~CanAssess THEN late \cup {new} ELSE late
    /\ End(c)
    /\ UNCHANGED <<scan, applied, verdicts>>

DecideAgain(n) == TRUE
Decidable(n) == rows[n].decision = "none"

DecideRead(c, i, n, decision) ==
    /\ calls[c].step = "idle" /\ Reaches(i) /\ CanAssess /\ Decidable(n)
    /\ Hold(c, [step |-> "decide", who |-> i, row |-> n, decision |-> decision,
                found |-> rows[n].decision])
    /\ UNCHANGED <<scan, applied, rows, verdicts, late>>

(* The row by its id: what was read is not looked at again.                *)
DecideWrite(c) ==
    LET n == calls[c].row IN
    /\ calls[c].step = "decide"
    /\ rows' = [rows EXCEPT ![n].decision = calls[c].decision]
    /\ verdicts' = [verdicts EXCEPT ![n] = @ + 1]
    /\ late' = IF ~CanAssess \/ rows[n].decision # calls[c].found THEN late \cup {n} ELSE late
    /\ End(c)
    /\ UNCHANGED <<scan, applied>>

(* The student applies; a scan ends, or a rescan finds something.          *)
Apply ==
    \E i \in Universities \ applied:
        /\ applied' = applied \cup {i}
        /\ UNCHANGED <<scan, rows, verdicts, calls, late>>
Scanned ==
    /\ \/ scan = "pending" /\ scan' \in {"clean", "quarantined"}
       \/ scan = "clean" /\ scan' = "quarantined"
    /\ UNCHANGED <<applied, rows, verdicts, calls, late>>

Next ==
    \/ \E c \in Callers:
           \/ OpenWrite(c) \/ DecideWrite(c)
           \/ \E i \in Reviewer: OpenRead(c, i)
           \/ \E i \in Reviewer: \E n \in RowsOf(i), decision \in Decision:
                  DecideRead(c, i, n, decision)
    \/ Apply \/ Scanned

Spec == Init /\ [][Next]_vars

(***************************************************************************)
(* Properties                                                              *)
(***************************************************************************)

(* "The same partner cannot open two": an institution has one assessment   *)
(* of a version, however many of its reviewers open it at once.            *)
OneRowPerUniversity == \A i \in Universities: Cardinality(RowsOf(i)) <= 1

(* "One live assessment per version per requesting institution", and Modex *)
(* can hold one.                                                           *)
OneRowPerReviewer == \A i \in Reviewer: Cardinality(RowsOf(i)) <= 1

(* "This version already carries a decision": a verdict is given once,     *)
(* unless the row or the scan changed after it was read.                   *)
DecidedOnce == \A n \in DOMAIN rows: verdicts[n] <= 1
DecidedOnceUnlessLate == \A n \in DOMAIN rows \ late: verdicts[n] <= 1

(* No assessment is opened on a version that is not clean at the moment    *)
(* ("a gate that runs only when the list is drawn is a gate that was open  *)
(* when it mattered").                                                     *)
OpensWhatIsClean ==
    [][\A n \in DOMAIN rows' \ DOMAIN rows: CanAssess]_rows
=============================================================================
