-------------------------- MODULE ApplicationPayload --------------------------
(***************************************************************************)
(* What goes to the university: the readiness of an application, the       *)
(* consents and the rules behind it, the payload built of the student's    *)
(* profile and documents by queries answered one after another, and the    *)
(* page that says what has become of it.  What the gateway does with a     *)
(* payload is Submission's; one request is served at a time here.          *)
(***************************************************************************)
EXTENDS Integers, Sequences, FiniteSets, SequencesExt

CONSTANTS
    Documents, Records, Requirements,
    Needs,                \* the documents a requirement asks for
    StartedOn,            \* startedAt of each academic record
    MaxVersions, MaxRule, MaxSnapshots, MaxCalls, MaxMoves,    \* bounds
    Mixes                 \* what is exercised together

PayloadAssumption ==
    /\ Needs \in [Requirements -> SUBSET Documents] /\ StartedOn \in [Records -> Nat]
    /\ {MaxVersions, MaxRule, MaxSnapshots, MaxCalls, MaxMoves} \subseteq Nat

VARIABLES
    mix,
    vault,         \* the student's documents and the scans of their versions
    programme,     \* whether it is published, and the versions of what it asks
    consent,       \* live consents for this university, and the versions held
                   \* when they were given
    profile,       \* the academic records, and those a save is yet to write
    application,   \* its row, its last attempt, whether one was accepted, and an
                   \* event; "held" is whether the university holds it (history)
    call,          \* the request that is served
    snapshots,
    page,          \* what the student's page has read
    past,          \* what moved under the request (history)
    counts

vars == <<mix, vault, programme, consent, profile, application, call, snapshots, page, past,
          counts>>
world == <<vault, programme, consent, profile>>

States == INSTANCE ApplicationStates
On(part) == part \in mix

-----------------------------------------------------------------------------
(* Documents.                                                              *)

Scan == {"pending", "clean", "failed", "quarantined"}
Versions(d) == vault[d].versions
Held == {d \in Documents: ~vault[d].deleted /\ Versions(d) # <<>>}
Latest(d) == Last(Versions(d))

(* isConnectorEligible: the upload complete with its checksum.             *)
Eligible(scan) == scan = "clean"
Files == {<<d, Len(Versions(d))>> : d \in Held}
Usable == {d \in Held: Eligible(Latest(d))}
Quarantined == {d \in Held: \E i \in DOMAIN Versions(d): Versions(d)[i] = "quarantined"}

-----------------------------------------------------------------------------
(* Rules and consents.                                                     *)

(* SUBMISSION_CONSENTS and the scope of each.                              *)
Consents == {"university_submission", "document_share", "decision_contact"}
ScopeOf(c) == IF c = "document_share" THEN c ELSE "university_submission"

(* What is asked, with its versions; a version of 0 is not asked.          *)
Asked(rules) == {r \in Requirements: rules[r] > 0}
Needed(rules) == UNION {Needs[r] : r \in Asked(rules)}
NothingShown == [r \in Requirements |-> 0]

DriftChangedOnly(shown, current) ==
    [added |-> Asked(current) \ Asked(shown),
     changed |-> {r \in Asked(current) \cap Asked(shown): current[r] > shown[r]},
     removed |-> Asked(shown) \ Asked(current)]
(* detectRequirementDrift.                                                 *)
Drift(shown, current) ==
    [added |-> Asked(current) \ Asked(shown),
     changed |-> {r \in Asked(current) \cap Asked(shown): current[r] # shown[r]},
     removed |-> Asked(shown) \ Asked(current)]
Drifted(drift) == \E kind \in DOMAIN drift: drift[kind] # {}

-----------------------------------------------------------------------------
(* The profile is sent as a list by startedAt; ties come as they come.     *)
InOrder(list) ==
    \A i, j \in DOMAIN list: i < j => StartedOn[list[i]] <= StartedOn[list[j]]
ListingsUnsorted(records) == SetToSeqs(records)
Listings(records) == {list \in SetToSeqs(records): InOrder(list)}

(* canonicalJson: a digest tells values apart, and lists by their order,   *)
(* but not how an object was written down.                                 *)
Digest(payload) == payload
(* profileVersionOf.                                                       *)
ProfileVersion(list) == Digest([academicRecords |-> list])

-----------------------------------------------------------------------------
(* The page.                                                               *)

DisplayFailedAsConfirmed(state) ==
    CASE state \in {"draft", "ready"} -> "not_submitted"
      [] state = "submitted_pending" -> "sending" [] OTHER -> "confirmed"
(* submissionDisplayState.                                                 *)
DisplayState(state) ==
    CASE state \in {"draft", "ready"} -> "not_submitted"
      [] state = "submitted_pending" -> "sending"
      [] state = "failed" -> "failed"
      [] OTHER -> "confirmed"

HeadlineWithoutRef(state, ref) ==
    IF DisplayState(state) = "sending" THEN "confirmed" ELSE DisplayState(state)
(* submissionHeadline: "received" is "Received by", and "confirmed" is     *)
(* "Submitted, confirmed by".                                              *)
Headline(state, ref) ==
    IF DisplayState(state) # "confirmed" THEN DisplayState(state)
    ELSE IF ref THEN "confirmed" ELSE "received"

-----------------------------------------------------------------------------
Idle == [at |-> "idle"]
Unread == [at |-> "unread"]
Empty == [versions |-> <<>>, deleted |-> FALSE]

TypeOK ==
    /\ mix \in Mixes
    /\ \A d \in Documents: Versions(d) \in Seq(Scan) /\ Len(Versions(d)) <= MaxVersions
    /\ programme \in [live: BOOLEAN, rules: [Requirements -> 0..MaxRule]]
    /\ consent.live \subseteq Consents
    /\ profile.records \subseteq Records /\ profile.saving \subseteq Records
    /\ application.state \in States!ApplicationState
    /\ application.attempt \in {"none", "open", "accepted", "rejected"}
    /\ call.at \in {"idle", "explained", "unblocked", "accepted", "undrifted", "consented",
                    "programme", "profile", "consents", "resolving", "frozen"}
    /\ Len(snapshots) <= MaxSnapshots
    /\ page.at \in {"unread", "row", "shown"}
    /\ past \subseteq {"documents", "rules", "consents", "profile", "state"}
    /\ counts \in [calls: 0..MaxCalls, moves: 0..MaxMoves]

Ready(v) == [versions |-> <<v>>, deleted |-> FALSE]
Init ==
    /\ mix \in Mixes
    /\ vault = [d \in Documents |-> IF On("documents") THEN Empty ELSE Ready("clean")]
    /\ programme = [live |-> TRUE, rules |-> [r \in Requirements |-> 1]]
    /\ consent = [live |-> IF On("consents") THEN {} ELSE Consents, held |-> Files]
    /\ profile = [records |-> Records, saving |-> {}]
    /\ application = [state |-> "draft", shown |-> NothingShown, ref |-> FALSE,
                      attempt |-> "none", receipt |-> FALSE, event |-> "none", held |-> FALSE]
    /\ call = Idle /\ snapshots = <<>> /\ page = Unread /\ past = {}
    /\ counts = [calls |-> 0, moves |-> 0]

(* Something moved since a request last looked.                            *)
Moving(part) ==
    /\ counts.moves < MaxMoves /\ counts' = [counts EXCEPT !.moves = @ + 1]
    /\ past' = past \cup {part}
    /\ UNCHANGED <<mix, application, call, snapshots, page>>

-----------------------------------------------------------------------------
(* What the student, the scanner and the university change meanwhile.      *)

(* The first version or a further one of a document.                       *)
Upload(d) ==
    /\ Len(Versions(d)) < MaxVersions /\ ~vault[d].deleted
    /\ vault' = [vault EXCEPT ![d].versions = Append(@, "pending")]
    /\ Moving("documents") /\ UNCHANGED <<programme, consent, profile>>

(* runScan: replayed, it scans again what is not quarantined.              *)
RunScan(d, i) ==
    /\ Versions(d)[i] # "quarantined"
    /\ \E verdict \in Scan \ {"pending", Versions(d)[i]}:
          vault' = [vault EXCEPT ![d].versions[i] = verdict]
    /\ Moving("documents") /\ UNCHANGED <<programme, consent, profile>>

DeleteDocument(d) ==
    /\ d \in Held /\ vault' = [vault EXCEPT ![d].deleted = TRUE]
    /\ Moving("documents") /\ UNCHANGED <<programme, consent, profile>>

MoveRules ==
    /\ \/ \E r \in Requirements, n \in 0..MaxRule:
             programme.rules[r] # n /\ programme' = [programme EXCEPT !.rules[r] = n]
       \/ programme' = [programme EXCEPT !.live = ~@]
    /\ Moving("rules") /\ UNCHANGED <<vault, consent, profile>>

(* recordConsents takes all of them, or none.                              *)
RecordConsents ==
    /\ consent.live # Consents /\ consent' = [live |-> Consents, held |-> Files]
    /\ Moving("consents") /\ UNCHANGED <<vault, programme, profile>>

RevokeConsent(scope) ==
    /\ \E c \in consent.live: ScopeOf(c) = scope
    /\ consent' = [consent EXCEPT !.live = {c \in @: ScopeOf(c) # scope}]
    /\ Moving("consents") /\ UNCHANGED <<vault, programme, profile>>

(* The profile is saved by deleting the records and writing the new ones.  *)
ClearRecords(records) ==
    /\ profile.saving = {} /\ records # profile.records /\ records # {}
    /\ profile' = [records |-> {}, saving |-> records]
    /\ Moving("profile") /\ UNCHANGED <<vault, programme, consent>>
WriteRecords ==
    /\ profile.saving # {} /\ profile' = [records |-> profile.saving, saving |-> {}]
    /\ past' = past \cup {"profile"}
    /\ UNCHANGED <<mix, vault, programme, consent, application, call, snapshots, page, counts>>

-----------------------------------------------------------------------------
(* Mark the application ready.                                             *)

Goes(next) == call' = next /\ UNCHANGED <<mix, world, page, past, counts>>
Refused == Goes(Idle) /\ UNCHANGED <<application, snapshots>>

(* The eligibility of the student: what a requirement asks and the vault   *)
(* has no usable file for is missing.                                      *)
MissingAltogether ==
    {d \in Needed(programme.rules): d \notin Held \/ \A i \in DOMAIN Versions(d): ~Eligible(Versions(d)[i])}
Missing == Needed(programme.rules) \ Usable

(* owned, and the first of the queries behind readinessBlockers.           *)
MarkReady ==
    /\ call = Idle /\ counts.calls < MaxCalls
    /\ call' = IF programme.live /\ Missing = {} THEN [at |-> "explained"] ELSE Idle
    /\ past' = IF Missing = {} THEN past \ {"documents"} ELSE past
    /\ counts' = [counts EXCEPT !.calls = @ + 1]
    /\ UNCHANGED <<mix, world, application, snapshots, page>>

CountQuarantined ==
    /\ call.at = "explained"
    /\ Goes(IF Quarantined = {} THEN [at |-> "unblocked"] ELSE Idle)
    /\ UNCHANGED <<application, snapshots>>

(* What the student was shown is brought up to date, and for an            *)
(* application that is ready already nothing else.                         *)
Shown ==
    /\ call.at = "unblocked"
    /\ \/ ~programme.live /\ Refused
       \/ /\ programme.live
          /\ application.state = "ready" \/ States!Allowed(application.state, "ready", "student")
          /\ application' = [application EXCEPT !.state = "ready", !.shown = programme.rules]
          /\ Goes(Idle) /\ UNCHANGED snapshots
       \/ /\ programme.live /\ application.state # "ready"
          /\ ~States!Allowed(application.state, "ready", "student") /\ Refused

-----------------------------------------------------------------------------
(* Send it.                                                                *)

Submit ==
    /\ call = Idle /\ counts.calls < MaxCalls
    /\ application.state \in {"ready", "failed"}
    /\ call' = [at |-> "accepted", shown |-> application.shown, from |-> application.state]
    /\ past' = past \cap {"documents"} /\ counts' = [counts EXCEPT !.calls = @ + 1]
    /\ UNCHANGED <<mix, world, application, snapshots, page>>

With(field, value) == [f \in DOMAIN call \cup {field} |-> IF f = field THEN value ELSE call[f]]
Onto(at) == [call EXCEPT !.at = at]

CheckDrift ==
    /\ call.at = "accepted"
    /\ Goes(IF programme.live /\ ~Drifted(Drift(call.shown, programme.rules))
            THEN Onto("undrifted") ELSE Idle)
    /\ UNCHANGED <<application, snapshots>>

SomeGranted(granted) == granted # {}
(* consentState: each of them is granted.                                  *)
AllGranted(granted) == granted = Consents
CheckConsents ==
    /\ call.at = "undrifted"
    /\ Goes(IF AllGranted(consent.live) THEN Onto("consented") ELSE Idle)
    /\ UNCHANGED <<application, snapshots>>

(* PayloadBuilder.build, a query at a time.                                *)
ReadProgramme ==
    /\ call.at = "consented"
    /\ Goes(IF programme.live
            THEN [With("rules", programme.rules) EXCEPT !.at = "programme"] ELSE Idle)
    /\ UNCHANGED <<application, snapshots>>

ReadProfile ==
    /\ call.at = "programme"
    /\ \E list \in Listings(profile.records):
          Goes([With("records", list) EXCEPT !.at = "profile"])
    /\ UNCHANGED <<application, snapshots>>

(* Then the consents, of which any is enough, and the documents: one whose *)
(* latest version is quarantined refuses them all, one that is not usable  *)
(* is left out.                                                            *)
ReadConsents ==
    /\ call.at = "profile"
    /\ Goes(IF consent.live = {} THEN Idle
            ELSE [With("consents", consent) EXCEPT !.at = "consents"])
    /\ UNCHANGED <<application, snapshots>>

FindDocuments ==
    /\ call.at = "consents"
    /\ Goes(IF \E d \in Held: Latest(d) = "quarantined" THEN Idle
            ELSE [at |-> "resolving", shown |-> call.shown, from |-> call.from,
                  rules |-> call.rules, records |-> call.records, consents |-> call.consents,
                  found |-> [d \in Usable |-> Len(Versions(d))], resolved |-> {},
                  clean |-> {}])
    /\ UNCHANGED <<application, snapshots>>

ResolvesUnread(d, i) == TRUE
(* resolveForConnector reads the version again, in whatever document.      *)
Resolves(d, i) == Eligible(Versions(d)[i])

ResolveDocument(d) ==
    /\ call.at = "resolving" /\ d \in DOMAIN call.found \ call.resolved
    /\ Goes(IF Resolves(d, call.found[d])
            THEN [call EXCEPT !.resolved = @ \cup {d},
                              !.clean = IF Eligible(Versions(d)[call.found[d]])
                                        THEN @ \cup {d} ELSE @]
            ELSE Idle)
    /\ UNCHANGED <<application, snapshots>>

(* The snapshot, with what moved since the request or the last mark.       *)
Snapshot ==
    [no |-> Len(snapshots) + 1, rules |-> call.rules, shown |-> call.shown,
     records |-> call.records, version |-> ProfileVersion(call.records),
     consents |-> call.consents, documents |-> call.found, clean |-> call.clean,
     from |-> call.from, moved |-> past, sent |-> FALSE]
Freeze ==
    /\ call.at = "resolving" /\ call.resolved = DOMAIN call.found
    /\ Len(snapshots) < MaxSnapshots
    /\ snapshots' = Append(snapshots, Snapshot)
    /\ Goes([at |-> "frozen"]) /\ UNCHANGED application

MovedSince(what) == snapshots' = [snapshots EXCEPT ![Len(snapshots)].moved = what]
MayBeSentByNobody(state) == States!Allowed(state, "submitted_pending", "university")
MayBeSent(state) == States!Allowed(state, "submitted_pending", "student")
Send ==
    /\ call.at = "frozen"
    /\ \/ /\ MayBeSent(application.state)
          /\ application' = [application EXCEPT !.state = "submitted_pending", !.attempt = "open"]
          /\ snapshots' = [snapshots EXCEPT ![Len(snapshots)].sent = TRUE]
       \/ ~MayBeSent(application.state) /\ UNCHANGED application /\ MovedSince(past)
    /\ Goes(Idle)

(* A request dies between two of its queries.                              *)
Die ==
    /\ call # Idle /\ Goes(Idle) /\ UNCHANGED application
    /\ IF call.at = "frozen" THEN MovedSince(past \cup {"died"}) ELSE UNCHANGED snapshots

-----------------------------------------------------------------------------
(* What becomes of it.  The attempt is answered before the row moves, and  *)
(* an event is stored before it does.                                      *)

Becomes(app) ==
    /\ application' = app /\ UNCHANGED <<mix, world, call, snapshots, page, past, counts>>

AttemptAnswered ==
    /\ application.attempt = "open"
    /\ \E answer \in {"accepted", "rejected"}:
          Becomes([application EXCEPT !.attempt = answer, !.held = @ \/ answer = "accepted",
                                       !.receipt = @ \/ answer = "accepted"])
SettleConfirmed ==
    /\ application.attempt = "accepted"
    /\ States!Allowed(application.state, "submitted", "system")
    /\ Becomes([application EXCEPT !.state = "submitted", !.ref = TRUE])
SettleRejected ==
    /\ application.attempt = "rejected" /\ States!Allowed(application.state, "failed", "system")
    /\ Becomes([application EXCEPT !.state = "failed"])

(* The university reports: that it has the application it holds, with its  *)
(* reference, or what it makes of it.                                      *)
StoreEvent ==
    /\ On("views") /\ application.state = "submitted_pending" /\ application.event = "none"
    /\ Becomes([application EXCEPT !.event = "stored", !.held = TRUE])
ApplyReceived ==
    /\ application.event = "stored"
    /\ States!Allowed(application.state, "submitted", "university")
    /\ Becomes([application EXCEPT !.state = "submitted", !.ref = TRUE, !.event = "applied"])
ApplyEvent ==
    /\ On("views")
    /\ \E to \in {"under_review", "more_info", "offer", "rejected"}:
          /\ States!Allowed(application.state, to, "university")
          /\ Becomes([application EXCEPT !.state = to])

Decide ==
    /\ On("views")
    /\ \E to \in {"withdrawn", "accepted", "declined"}:
          /\ States!Allowed(application.state, to, "student")
          /\ application' = [application EXCEPT !.state = to]
          /\ past' = past \cup {"state"}
          /\ UNCHANGED <<mix, world, call, snapshots, page, counts>>

(* The row of the page is read before its attempts and events.             *)
ReadRow ==
    /\ On("views") /\ page = Unread
    /\ page' = [at |-> "row", headline |-> Headline(application.state, application.ref)]
    /\ UNCHANGED <<mix, world, application, call, snapshots, past, counts>>
ReadRest ==
    /\ page.at = "row"
    /\ page' = [at |-> "shown", headline |-> page.headline,
                snapshots |-> {i \in DOMAIN snapshots: snapshots[i].sent},
                receipt |-> application.receipt \/ application.event # "none"]
    /\ UNCHANGED <<mix, world, application, call, snapshots, past, counts>>
LeavePage ==
    /\ page.at = "shown" /\ page' = Unread
    /\ UNCHANGED <<mix, world, application, call, snapshots, past, counts>>

Meanwhile ==
    \/ On("documents") /\ \E d \in Documents: \/ Upload(d) \/ DeleteDocument(d)
                                             \/ \E i \in DOMAIN Versions(d): RunScan(d, i)
    \/ On("rules") /\ MoveRules
    \/ On("consents") /\ (RecordConsents \/ \E c \in Consents: RevokeConsent(ScopeOf(c)))
    \/ On("profile") /\ (WriteRecords \/ \E S \in SUBSET Records: ClearRecords(S))
Readying == MarkReady \/ CountQuarantined \/ Shown
Sending ==
    \/ Submit \/ CheckDrift \/ CheckConsents \/ ReadProgramme \/ ReadProfile \/ ReadConsents
    \/ FindDocuments \/ Freeze \/ Send \/ \E d \in Documents: ResolveDocument(d)
Answering ==
    AttemptAnswered \/ SettleConfirmed \/ SettleRejected \/ StoreEvent \/ ApplyReceived
    \/ ApplyEvent \/ Decide
Looking == ReadRow \/ ReadRest \/ LeavePage

Next == Meanwhile \/ Readying \/ Sending \/ Die \/ Answering \/ Looking
Spec == Init /\ [][Next]_vars

-----------------------------------------------------------------------------
(* Every version in a snapshot was clean when it was resolved, though it   *)
(* was scanned again after the list of documents was read: the check is    *)
(* made twice.                                                             *)
CleanWhenResolved ==
    \A i \in DOMAIN snapshots: DOMAIN snapshots[i].documents = snapshots[i].clean

(* What the requirements ask for is in the payload, unless the documents   *)
(* changed after readiness was checked, or the rules while it was built:   *)
(* submit does not check readiness again.                                  *)
SentIsCompleteUnlessChanged ==
    \A i \in DOMAIN snapshots:
        \/ snapshots[i].moved \cap {"documents", "rules"} # {}
        \/ Needed(snapshots[i].rules) \subseteq DOMAIN snapshots[i].documents

(* The requirements in the payload are those the student was shown, in     *)
(* those versions, unless they changed while the payload was built.        *)
SentAsShownUnlessMoved ==
    \A i \in DOMAIN snapshots:
        "rules" \in snapshots[i].moved \/ snapshots[i].rules = snapshots[i].shown

(* All three consents stand behind a payload, unless one was withdrawn     *)
(* while it was built.                                                     *)
SentIsConsentedUnlessRevoked ==
    \A i \in DOMAIN snapshots:
        "consents" \in snapshots[i].moved \/ snapshots[i].consents.live = Consents

(* Two snapshots of the same profile share a version, unless two of its    *)
(* records started on one day.                                             *)
SameVersionUnlessTied ==
    \A i, j \in DOMAIN snapshots:
        LET records == Range(snapshots[i].records) IN
        records = Range(snapshots[j].records) =>
            \/ snapshots[i].version = snapshots[j].version
            \/ \E q, t \in records: q # t /\ StartedOn[q] = StartedOn[t]

(* A snapshot that is not sent was made for a failed application, or the   *)
(* application moved or the request died after it was made.                *)
UnsentSaysWhy ==
    \A i \in DOMAIN snapshots:
        \/ snapshots[i].sent \/ snapshots[i].from = "failed"
        \/ snapshots[i].moved \cap {"died", "state"} # {}
        \/ call.at = "frozen" /\ i = Len(snapshots)

(* "Confirmed by" is shown with the receipt or the event that confirms it, *)
(* however the two were read around an answer, and "Received by" only of   *)
(* what the university holds or the student withdrew.                      *)
ConfirmedHasReceipt ==
    page.at = "shown" /\ page.headline = "confirmed" => page.receipt /\ page.snapshots # {}
ReceivedIsHeldUnlessWithdrawn ==
    Headline(application.state, application.ref) \in {"received", "confirmed"} =>
        application.held \/ application.state = "withdrawn"

(* Not so: that what a requirement asks for is in every payload            *)
(* (payload-builder: ready is refused while a required document is not     *)
(* clean); that documents uploaded after the consent are not included (the *)
(* consent's own words); that a clean copy unblocks an application, as the *)
(* blocker's remedy says; that identical profiles share a version          *)
(* (profileVersionOf); that a profile is sent as it was saved; that every  *)
(* snapshot was sent; that what is shown as received was.                  *)
SentIsComplete ==
    \A i \in DOMAIN snapshots:
        Needed(snapshots[i].rules) \subseteq DOMAIN snapshots[i].documents
LaterIsNotSent ==
    \A i \in DOMAIN snapshots: \A d \in DOMAIN snapshots[i].documents:
        <<d, snapshots[i].documents[d]>> \in snapshots[i].consents.held
RemedyUnblocks == \A d \in Held: Eligible(Latest(d)) => d \notin Quarantined
SameProfileSameVersion ==
    \A i, j \in DOMAIN snapshots:
        Range(snapshots[i].records) = Range(snapshots[j].records) =>
            snapshots[i].version = snapshots[j].version
SentAsSaved == \A i \in DOMAIN snapshots: snapshots[i].records # <<>>
EverySnapshotIsSent == call.at # "frozen" => \A i \in DOMAIN snapshots: snapshots[i].sent
ReceivedIsHeld ==
    Headline(application.state, application.ref) \in {"received", "confirmed"} => application.held

(* Nor that a consent is withdrawn by itself (recordConsents).             *)
RevokedAlone == [][Cardinality(consent.live \ consent'.live) <= 1]_vars
=============================================================================
