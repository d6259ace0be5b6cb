-------------------------------- MODULE Erasure --------------------------------
(***************************************************************************)
(* Closing an account (PrivacyService.erase): what is submitted is counted *)
(* and the files are listed, one transaction removes or strips the rows,   *)
(* and the files go afterwards, while requests that began before still run.*)
(***************************************************************************)
EXTENDS Integers, FiniteSets

CONSTANTS
    Callers,        \* requests that can be in progress at once
    Documents,      \* documents the student may upload
    MaxMessages, MaxFaults      \* bounds

ErasureAssumption == {MaxMessages, MaxFaults} \subseteq Nat

VARIABLES
    account,        \* the user's row: "open" or "closed", stripped of identity
    session,        \* the student is signed in
    profile, records,       \* the profile's row; its academic records and tests
    documents, objects,     \* documents: none, held or deleted; whose file is stored
    named,          \* messages that bear the student's id
    application,    \* none, draft or submitted
    calls,
    report, faults, raced   \* what the last erasure said; files that could not be removed
                            \* or calls that died; a request wrote after the transaction

vars == <<account, session, profile, records, documents, objects, named, application, calls,
          report, faults, raced>>
Rows == <<account, session, profile, records, documents, named>>

Writes == {"profile", "records", "document", "message", "submit"}

(* A call in progress: its step, what it writes, and for an erasure what it*)
(* counted and listed.                                                     *)
Call == [step: {"idle", "list", "commit", "objects", "record"} \cup Writes, submitted: BOOLEAN,
         keys: SUBSET Documents]
NoCall == [step |-> "idle", submitted |-> FALSE, keys |-> {}]

TypeOK ==
    /\ account \in {"open", "closed"} /\ session \in BOOLEAN
    /\ profile \in BOOLEAN /\ records \in BOOLEAN /\ (records => profile)
    /\ documents \in [Documents -> {"none", "held", "deleted"}] /\ objects \subseteq Documents
    /\ named \in 0..MaxMessages /\ application \in {"none", "draft", "submitted"}
    /\ calls \in [Callers -> Call]
    /\ report \in [said: BOOLEAN, retained: BOOLEAN]
    /\ faults \in 0..MaxFaults /\ raced \in BOOLEAN

Init ==
    /\ account = "open" /\ session = TRUE
    /\ profile \in BOOLEAN /\ records = profile
    /\ documents = [d \in Documents |-> "none"] /\ objects = {}
    /\ named = 0 /\ application \in {"none", "draft"}
    /\ calls = [c \in Callers |-> NoCall]
    /\ report = [said |-> FALSE, retained |-> FALSE] /\ faults = 0 /\ raced = FALSE

At(c, step) == calls[c].step = step
Hold(c, call) == calls' = [calls EXCEPT ![c] = call]
Goto(c, step) == calls' = [calls EXCEPT ![c].step = step]
End(c) == Hold(c, NoCall)

SignedIn == session /\ account = "open"

(***************************************************************************)
(* Requests that write: let in while the student is signed in, and writing *)
(* later.  Raced: by then the account was closed.                          *)
(***************************************************************************)

Begin(c, write) ==
    /\ At(c, "idle") /\ SignedIn
    /\ write = "submit" => application = "draft"
    /\ Goto(c, write)
    /\ UNCHANGED <<account, session, profile, records, documents, objects, named, application,
                   report, faults, raced>>

Write(c) ==
    /\ calls[c].step \in Writes
    /\ raced' = (raced \/ account = "closed" \/ \E e \in Callers: At(e, "commit") \/ At(e, "list"))
    /\ profile' = (profile \/ calls[c].step \in {"profile", "records"})
    /\ records' = (records \/ calls[c].step = "records")
    /\ \E d \in Documents:
          IF At(c, "document") THEN /\ documents[d] = "none"
                                    /\ documents' = [documents EXCEPT ![d] = "held"]
                                    /\ objects' = objects \cup {d}
          ELSE UNCHANGED <<documents, objects>>
    /\ named' = IF At(c, "message") /\ named < MaxMessages THEN named + 1 ELSE named
    /\ application' = IF At(c, "submit") THEN "submitted" ELSE application
    /\ End(c)
    /\ UNCHANGED <<account, session, report, faults>>

(***************************************************************************)
(* erase                                                                   *)
(***************************************************************************)

WithDrafts == application # "none"
Submitted == application = "submitted"

EraseCount(c) ==
    /\ At(c, "idle") /\ SignedIn
    /\ Hold(c, [NoCall EXCEPT !.step = "list", !.submitted = Submitted])
    /\ UNCHANGED <<objects, application, report, faults, raced>> /\ UNCHANGED Rows

EraseList(c) ==
    /\ At(c, "list")
    /\ Hold(c, [calls[c] EXCEPT !.step = "commit", !.keys = {d \in Documents: documents[d] # "none"}])
    /\ UNCHANGED <<objects, application, report, faults, raced>> /\ UNCHANGED Rows

KeepDocuments == documents
MarkDeleted == [d \in Documents |-> IF documents[d] = "held" THEN "deleted" ELSE documents[d]]

EraseCommit(c) ==
    /\ At(c, "commit")
    /\ account' = "closed" /\ session' = FALSE
    /\ profile' = FALSE /\ records' = FALSE
    /\ documents' = MarkDeleted
    /\ named' = 0
    /\ Goto(c, "objects")
    /\ UNCHANGED <<objects, application, report, faults, raced>>

(* deleteObject of each key: one that fails is logged and passed over.     *)
EarlyToo(c) == calls[c].step \in {"commit", "objects"}
Committed(c) == At(c, "objects")

EraseObject(c) ==
    /\ Committed(c)
    /\ \E d \in calls[c].keys:
        /\ calls' = [calls EXCEPT ![c].keys = @ \ {d}]
        /\ \/ objects' = objects \ {d} /\ faults' = faults
           \/ faults < MaxFaults /\ faults' = faults + 1 /\ objects' = objects
    /\ UNCHANGED <<application, report, raced>> /\ UNCHANGED Rows

EraseRecord(c) ==
    /\ At(c, "objects") /\ calls[c].keys = {}
    /\ report' = [said |-> TRUE, retained |-> calls[c].submitted]
    /\ End(c)
    /\ UNCHANGED <<objects, application, faults, raced>> /\ UNCHANGED Rows

CallDies(c) ==
    /\ ~At(c, "idle") /\ faults < MaxFaults
    /\ faults' = faults + 1
    /\ End(c)
    /\ UNCHANGED <<objects, application, report, raced>> /\ UNCHANGED Rows

Next ==
    \E c \in Callers:
        \/ \E w \in Writes: Begin(c, w)
        \/ Write(c)
        \/ EraseCount(c) \/ EraseList(c) \/ EraseCommit(c) \/ EraseObject(c) \/ EraseRecord(c)
        \/ CallDies(c)

Spec == Init /\ [][Next]_vars

(***************************************************************************)
(* Properties.  Those named Unless... hold until a request let in before   *)
(* writes beside the erasure or after it.                                  *)
(***************************************************************************)

(* "A half-erased account cannot exist" (erase).                           *)
ErasedIsBlank ==
    account = "closed" =>
        /\ ~session /\ ~profile /\ ~records /\ named = 0
        /\ \A d \in Documents: documents[d] # "held"
ErasedIsBlankUnlessRaced == raced \/ ErasedIsBlank

(* "A rolled-back transaction must not leave files already gone": a file   *)
(* is missing only where its document is deleted.                          *)
NoFileGoneForNothing == \A d \in Documents: documents[d] = "held" => d \in objects

(* "The files themselves are deleted" (the data map): once the student is  *)
(* told so, unless a file could not be removed.                            *)
FilesAreGone == report.said => objects = {}
FilesAreGoneUnlessFailed == raced \/ faults > 0 \/ FilesAreGone

(* "Named, not hidden: this is what we kept": what is said to be retained  *)
(* is what is.                                                             *)
RetainedIsNamed == report.said => report.retained = (application = "submitted")
RetainedIsNamedUnlessRaced == raced \/ RetainedIsNamed

(* The data map has academic history retained for whoever submitted.       *)
HistoryIsKept == [][application = "submitted" /\ records => records']_vars
================================================================================
