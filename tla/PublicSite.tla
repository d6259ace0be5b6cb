----------------------------- MODULE PublicSite -----------------------------
(***************************************************************************)
(* The public build of the site (apps/site), which has no server: all a    *)
(* visitor does is one record under one localStorage key.  A tab loads the *)
(* record once, changes its own copy, and stores the whole of it with      *)
(* every change; it never hears what another tab stored.  Within a tab     *)
(* the handlers stop at a modal dialog, at a checksum and at a timer, and  *)
(* go on later with what they had captured.                                *)
(***************************************************************************)
EXTENDS Integers, Sequences, FiniteSets

CONSTANTS
    Tabs,             \* tabs of one browser
    Consents,         \* the consents of a submission
    Programmes,       \* programmes to compare
    Universities,     \* the register and what may be entered on top of it
    Registered,       \* those in the register from the start
    CompareLimit,     \* how many are compared at once (4)
    Mixes,            \* bound: what the visitor does in one behaviour
    MaxDocuments, MaxVersion, MaxDrafts, MaxMessages     \* bounds

SiteAssumption ==
    /\ {CompareLimit, MaxDocuments, MaxVersion, MaxDrafts, MaxMessages} \subseteq Nat \ {0}
    /\ Registered \subseteq Universities

VARIABLES
    disk,          \* the record in localStorage
    tabs,          \* what each tab holds and waits for
    made,          \* identifiers given to drafts and to documents
    received,      \* drafts whose receipt the university confirmed (history)
    past,          \* what may lead a handler astray (history)
    mix

vars == <<disk, tabs, made, received, past, mix>>

Documents == 1..MaxDocuments
Version == [document: Documents, version: 1..MaxVersion]
Stages == 0..4                 \* REGISTER_STAGES, from submitted to contracted
Signed == 4
Verdict == {"accepted", "more_information", "altered"}     \* the last escalates to Trust
Severity == {"none", "low", "high", "critical"}
Subject == {"guide", "message", "report", "document"}
Activity == {"apply", "tick", "tabs", "jump", "answer", "vault", "review", "register",
             "chat", "cases", "sessions", "compare", "reset"}
Hazard == {"shared", "reloaded", "jumped", "doubled", "unticked", "replaced", "reset"}

Sent == [documents: SUBSET Version, consents: SUBSET Consents]
Unsent == [documents |-> {}, consents |-> {}]
Application == [id: 0..MaxDrafts, state: {"none", "draft", "submitted_pending", "submitted"},
                documents: SUBSET Documents, consents: SUBSET Consents,
                snapshot: Sent, referenced: BOOLEAN]
NoApplication == [id |-> 0, state |-> "none", documents |-> {}, consents |-> {},
                  snapshot |-> Unsent, referenced |-> FALSE]
Entry == [listed: BOOLEAN, stage: Stages, state: {"unverified", "pending", "verified", "rejected"},
          evidence: SUBSET Stages]
Message == [by: {"student", "guide"}, severity: Severity]

(* The record.  An absent document has version 0.                          *)
Held == [application: Application, offer: {"offer", "accepted", "declined"},
         documents: [Documents -> 0..MaxVersion], opened: SUBSET Version,
         decided: SUBSET [of: Version, verdict: Verdict],
         register: [Universities -> Entry],
         messages: UNION {[1..n -> Message] : n \in 0..MaxMessages},
         blocked: BOOLEAN, suspended: BOOLEAN,
         cases: SUBSET [about: Subject, state: {"open", "investigating", "resolved"}],
         reward: {"none", "pending", "approved_once", "paid"},
         compare: UNION {[1..n -> Programmes] : n \in 0..CompareLimit}]

(* initialState: an answerable offer, one document and one conversation.   *)
Entered == [listed |-> FALSE, stage |-> 0, state |-> "unverified", evidence |-> {}]
Seeded ==
    [application |-> NoApplication, offer |-> "offer",
     documents |-> [d \in Documents |-> IF d = 1 THEN 1 ELSE 0], opened |-> {}, decided |-> {},
     register |-> [u \in Universities |-> [Entered EXCEPT !.listed = u \in Registered]],
     messages |-> <<>>, blocked |-> FALSE, suspended |-> FALSE, cases |-> {}, reward |-> "none",
     compare |-> <<>>]

(* A modal dialog, and what the handler that waits for it goes on with; a  *)
(* job is a checksum or a timer under way.                                 *)
Dialog == [kind: {"none", "send", "accept", "decline", "advance", "sign", "reject", "block",
                  "report", "resolve", "approve", "escalate"},
           document: 0..MaxDocuments, entry: Universities, about: Subject]
NoDialog == [kind |-> "none", document |-> 0, entry |-> CHOOSE u \in Universities: TRUE,
             about |-> "report"]
Job == [kind: {"hash", "acknowledge", "file", "reply"}, id: 0..MaxDrafts, snapshot: Sent,
        document: 0..MaxDocuments]
NoJob == [kind |-> "reply", id |-> 0, snapshot |-> Unsent, document |-> 0]

(* A tab shows step 1 to 5 of the wizard, or another page (0).             *)
Tab == [open: BOOLEAN, held: Held, step: 0..5, dialog: Dialog, jobs: SUBSET Job]
Closed == [open |-> FALSE, held |-> Seeded, step |-> 0, dialog |-> NoDialog, jobs |-> {}]

TypeOK ==
    /\ disk \in Held /\ tabs \in [Tabs -> Tab]
    /\ made \in [drafts: 0..MaxDrafts, documents: 1..MaxDocuments]
    /\ received \subseteq 1..MaxDrafts /\ past \subseteq Hazard /\ mix \in Mixes

Init ==
    /\ disk = Seeded /\ tabs = [t \in Tabs |-> Closed]
    /\ made = [drafts |-> 0, documents |-> 1]
    /\ received = {} /\ past = {} /\ mix \in Mixes

(***************************************************************************)
(* The store: update changes the copy of the tab and stores all of it.     *)
(***************************************************************************)

InMemoryOnly(held) == disk
Stored(held) == held
Put(t, tab) ==
    /\ tabs' = [tabs EXCEPT ![t] = tab]
    /\ disk' = Stored(tab.held)
Keep(t, tab) == tabs' = [tabs EXCEPT ![t] = tab] /\ UNCHANGED disk

Free(t) == tabs[t].open /\ tabs[t].dialog = NoDialog
On(t, step, activity) == Free(t) /\ tabs[t].step = step /\ activity \in mix
Ask(t, kind) == Keep(t, [tabs[t] EXCEPT !.dialog.kind = kind])
Asked(t, kind) == tabs[t].open /\ tabs[t].dialog.kind = kind
Answered(t) == [tabs[t] EXCEPT !.dialog = NoDialog]

Load(t) ==
    /\ ~tabs[t].open
    /\ \A u \in Tabs: tabs[u].open => "tabs" \in mix
    /\ Keep(t, [Closed EXCEPT !.open = TRUE, !.held = disk])
    /\ past' = past \cup {h \in {"shared"}: \E u \in Tabs: tabs[u].open}
                    \cup {h \in {"reloaded"}: disk.application.state = "submitted_pending"}
    /\ UNCHANGED <<made, received, mix>>

(* Dialogs, checksums and timers go with the page.                         *)
Unload(t) ==
    /\ tabs[t].open /\ "tabs" \in mix
    /\ Keep(t, Closed)
    /\ UNCHANGED <<made, received, past, mix>>

(* What is under way is not called off.                                    *)
ResetLocalState(t) ==
    /\ Free(t) /\ "reset" \in mix
    /\ Put(t, [tabs[t] EXCEPT !.held = Seeded, !.step = 0])
    /\ past' = past \cup {"reset"}
    /\ UNCHANGED <<made, received, mix>>

(* Any dialog may be cancelled, and then nothing happens.                  *)
Cancel(t) ==
    /\ tabs[t].open /\ tabs[t].dialog # NoDialog
    /\ Keep(t, Answered(t))
    /\ UNCHANGED <<made, received, past, mix>>

(***************************************************************************)
(* The wizard                                                              *)
(***************************************************************************)

Draft(t) == tabs[t].held.application
InWizard(t, step) == On(t, step, "apply") /\ Draft(t).state = "draft"

(* ensureDraft, and the step that the address names.                       *)
Wizard(t, step) ==
    IF Draft(t).state = "draft" THEN [tabs[t] EXCEPT !.step = step]
    ELSE [tabs[t] EXCEPT !.step = step,
             !.held.application = [NoApplication EXCEPT !.id = made.drafts + 1, !.state = "draft"]]

Start(t) ==
    /\ On(t, 0, "apply") /\ Draft(t).state \in {"none", "draft"}
    /\ Draft(t).state = "none" => made.drafts < MaxDrafts
    /\ Put(t, Wizard(t, 1))
    /\ made' = IF Draft(t).state = "none" THEN [made EXCEPT !.drafts = @ + 1] ELSE made
    /\ UNCHANGED <<received, past, mix>>

(* Whether the button that leads on is enabled.                            *)
AnyConsent(t) == Draft(t).consents # {}
AllConsents(t) == Draft(t).consents = Consents
MayContinue(t, step) ==
    /\ step = 2 => Draft(t).documents # {}
    /\ step = 3 => AllConsents(t)

Continue(t) ==
    LET step == tabs[t].step IN
    /\ step \in 1..4 /\ InWizard(t, step) /\ MayContinue(t, step)
    /\ Keep(t, [tabs[t] EXCEPT !.step = step + 1])
    /\ UNCHANGED <<made, received, past, mix>>

Back(t) ==
    LET step == tabs[t].step IN
    /\ step \in 2..5 /\ InWizard(t, step)
    /\ \E earlier \in {0, step - 1}: Keep(t, [tabs[t] EXCEPT !.step = earlier])
    /\ UNCHANGED <<made, received, past, mix>>

(* The address names a step, which nothing checks.                         *)
Jump(t) ==
    /\ Free(t) /\ "jump" \in mix /\ Draft(t).state = "draft" /\ tabs[t].step # 5
    /\ Keep(t, [tabs[t] EXCEPT !.step = 5])
    /\ past' = past \cup {"jumped"}
    /\ UNCHANGED <<made, received, mix>>

Patch(held, id, application) ==
    IF held.application.id = id THEN [held EXCEPT !.application = application] ELSE held
Toggle(set, e) == IF e \in set THEN set \ {e} ELSE set \cup {e}

(* Only a draft of which nothing is on its way changes as it was sent.     *)
Hashing(t) == \E j \in tabs[t].jobs: j.kind = "hash" /\ j.id = Draft(t).id
Meanwhile(t) == IF Hashing(t) THEN {"unticked"} ELSE {}

TickDocument(t, d) ==
    /\ InWizard(t, 2) /\ tabs[t].held.documents[d] > 0
    /\ Put(t, [tabs[t] EXCEPT !.held.application.documents = Toggle(@, d)])
    /\ past' = past \cup Meanwhile(t)
    /\ UNCHANGED <<made, received, mix>>

TickConsent(t, c) ==
    /\ InWizard(t, 3)
    /\ Put(t, [tabs[t] EXCEPT !.held.application.consents = Toggle(@, c)])
    /\ UNCHANGED <<made, received, past, mix>>

AskToSend(t) ==
    /\ InWizard(t, 5)
    /\ Ask(t, "send")
    /\ past' = past \cup (IF Hashing(t) THEN {"doubled"} ELSE {})
    /\ UNCHANGED <<made, received, mix>>

(* snapshotFor: of the documents ticked, those there are.                  *)
SnapshotOfAll(held) ==
    [documents |-> {v \in Version: held.documents[v.document] = v.version},
     consents |-> held.application.consents]
SnapshotFor(held) ==
    [documents |-> {v \in Version: /\ v.document \in held.application.documents
                                   /\ held.documents[v.document] = v.version},
     consents |-> held.application.consents]

ConfirmSend(t) ==
    /\ Asked(t, "send")
    /\ Keep(t, [Answered(t) EXCEPT !.jobs = @ \cup {[NoJob EXCEPT
           !.kind = "hash", !.id = Draft(t).id, !.snapshot = SnapshotFor(tabs[t].held)]}])
    /\ UNCHANGED <<made, received, past, mix>>

(* The checksum is there: the draft is found again by its id, if it still  *)
(* is there, and a timer stands for the university in any case.            *)
HandOver(t, job) ==
    LET sending == [Draft(t) EXCEPT !.state = "submitted_pending", !.snapshot = job.snapshot] IN
    /\ tabs[t].open /\ job.kind = "hash"
    /\ Put(t, [tabs[t] EXCEPT
           !.jobs = (@ \ {job}) \cup {[NoJob EXCEPT !.kind = "acknowledge", !.id = job.id]},
           !.held = Patch(@, job.id, sending)])
    /\ UNCHANGED <<made, received, past, mix>>

PatchAny(held, id) == [held EXCEPT !.application.state = "submitted", !.application.referenced = TRUE]
Receipt(held, id) ==
    Patch(held, id, [held.application EXCEPT !.state = "submitted", !.referenced = TRUE])

Acknowledge(t, job) ==
    /\ tabs[t].open /\ job.kind = "acknowledge"
    /\ Put(t, [tabs[t] EXCEPT !.jobs = @ \ {job}, !.step = 0, !.held = Receipt(@, job.id)])
    /\ received' = IF Draft(t).id = job.id THEN received \cup {job.id} ELSE received
    /\ UNCHANGED <<made, past, mix>>

(* The offer of the application seeded.  Only an acceptance looks at the   *)
(* table of transitions.                                                   *)
AskAboutOffer(t, answer) ==
    /\ On(t, 0, "answer") /\ tabs[t].held.offer = "offer"
    /\ Ask(t, answer)
    /\ UNCHANGED <<made, received, past, mix>>

AnswerOffer(t) ==
    /\ \/ /\ Asked(t, "accept") /\ tabs[t].held.offer = "offer"
          /\ Put(t, [Answered(t) EXCEPT !.held.offer = "accepted"])
       \/ Asked(t, "decline") /\ Put(t, [Answered(t) EXCEPT !.held.offer = "declined"])
    /\ UNCHANGED <<made, received, past, mix>>

(***************************************************************************)
(* The vault, and the console that assesses what is in it                  *)
(***************************************************************************)

(* A file is read and its checksum taken, to replace a document or as a    *)
(* new one (0).                                                            *)
ChooseFile(t, d) ==
    /\ On(t, 0, "vault") /\ (d # 0 => tabs[t].held.documents[d] > 0)
    /\ Keep(t, [tabs[t] EXCEPT !.jobs = @ \cup {[NoJob EXCEPT !.kind = "file", !.document = d]}])
    /\ UNCHANGED <<made, received, past, mix>>

Escalating(d) == \E t \in Tabs: Asked(t, "escalate") /\ tabs[t].dialog.document = d

(* A new version, of which nothing is opened or decided; a new document if *)
(* the one to replace is gone by now.                                      *)
RecordUpload(t, job) ==
    LET held == tabs[t].held
        d == IF job.document # 0 /\ held.documents[job.document] > 0 THEN job.document
             ELSE made.documents + 1
        version == [document |-> d, version |-> held.documents[d] + 1]
    IN
    /\ tabs[t].open /\ job.kind = "file" /\ d \in Documents /\ held.documents[d] < MaxVersion
    /\ Put(t, [tabs[t] EXCEPT
           !.jobs = @ \ {job},
           !.held.documents[d] = @ + 1,
           !.held.opened = @ \ {version},
           !.held.decided = {a \in @: a.of # version}])
    /\ made' = IF d = made.documents + 1 THEN [made EXCEPT !.documents = d] ELSE made
    /\ past' = past \cup {h \in {"replaced"}: Escalating(d)}
    /\ UNCHANGED <<received, mix>>

(* The drafts that name the document keep naming it.                       *)
RemoveDocument(t, d) ==
    /\ On(t, 0, "vault") /\ tabs[t].held.documents[d] > 0
    /\ Put(t, [tabs[t] EXCEPT !.held.documents[d] = 0])
    /\ past' = past \cup (IF d \in Draft(t).documents THEN {"unticked"} ELSE {})
    /\ UNCHANGED <<made, received, mix>>

Current(held, d) == [document |-> d, version |-> held.documents[d]]
IsDecided(held, v) == \E a \in held.decided: a.of = v

OpenForReview(t, d) ==
    LET held == tabs[t].held IN
    /\ On(t, 0, "review") /\ held.documents[d] > 0
    /\ Current(held, d) \notin held.opened
    /\ Put(t, [tabs[t] EXCEPT !.held.opened = @ \cup {Current(held, d)}])
    /\ UNCHANGED <<made, received, past, mix>>

OpenCase(cases, about) == cases \cup {[about |-> about, state |-> "open"]}
DecideDocument(held, d, verdict) ==
    [held EXCEPT !.decided = {a \in @: a.of # Current(held, d)}
                                 \cup {[of |-> Current(held, d), verdict |-> verdict]}]

(* The form is there for a document that is open and not decided.          *)
Decide(t, d, verdict) ==
    LET held == tabs[t].held IN
    /\ On(t, 0, "review") /\ held.documents[d] > 0
    /\ Current(held, d) \in held.opened /\ ~IsDecided(held, Current(held, d))
    /\ IF verdict = "altered"
       THEN Keep(t, [tabs[t] EXCEPT !.dialog.kind = "escalate", !.dialog.document = d])
       ELSE Put(t, [tabs[t] EXCEPT !.held = DecideDocument(held, d, verdict)])
    /\ UNCHANGED <<made, received, past, mix>>

(* The document is the live row, whatever its version is by now.           *)
Escalate(t) ==
    LET held == [tabs[t].held EXCEPT !.cases = OpenCase(@, "document")] IN
    /\ Asked(t, "escalate")
    /\ Put(t, [Answered(t) EXCEPT
                  !.held = DecideDocument(held, tabs[t].dialog.document, "altered")])
    /\ UNCHANGED <<made, received, past, mix>>

(***************************************************************************)
(* The register of universities                                            *)
(***************************************************************************)

EnterUniversity(t, u) ==
    /\ On(t, 0, "register") /\ ~tabs[t].held.register[u].listed
    /\ Put(t, [tabs[t] EXCEPT !.held.register[u].listed = TRUE])
    /\ UNCHANGED <<made, received, past, mix>>

AskToMove(t, u, kind) ==
    LET entry == tabs[t].held.register[u] IN
    /\ On(t, 0, "register") /\ entry.listed
    /\ IF kind = "advance" THEN entry.stage # Signed ELSE entry.state # "rejected"
    /\ Keep(t, [tabs[t] EXCEPT !.dialog.kind = kind, !.dialog.entry = u])
    /\ UNCHANGED <<made, received, past, mix>>

OnlyTheLast(evidence, stage) == {stage}
Attach(evidence, stage) == evidence \cup {stage}
Claim(entry, stage) ==
    [entry EXCEPT !.stage = stage, !.state = IF stage = Signed THEN "verified" ELSE "pending",
                  !.evidence = Attach(@, stage)]

(* An empty reference is refused, as if cancelled.  The last stage asks    *)
(* for the second factor too.                                              *)
Advance(t) ==
    LET u == tabs[t].dialog.entry  stage == tabs[t].held.register[u].stage + 1 IN
    /\ \/ /\ Asked(t, "advance") /\ stage = Signed
          /\ Keep(t, [tabs[t] EXCEPT !.dialog.kind = "sign"])
       \/ /\ \/ Asked(t, "advance") /\ stage # Signed
             \/ Asked(t, "sign")
          /\ Put(t, [Answered(t) EXCEPT !.held.register[u] = Claim(@, stage)])
    /\ UNCHANGED <<made, received, past, mix>>

Reject(t) ==
    /\ Asked(t, "reject")
    /\ Put(t, [Answered(t) EXCEPT !.held.register[tabs[t].dialog.entry].state = "rejected"])
    /\ UNCHANGED <<made, received, past, mix>>

(***************************************************************************)
(* Messages, reports and the trust console                                 *)
(***************************************************************************)

OpensCase(severity) == severity \in {"high", "critical"}     \* warn_and_open_case
CaseOf(by, severity) ==
    IF ~OpensCase(severity) THEN {}
    ELSE {[about |-> IF by = "guide" THEN "guide" ELSE "message", state |-> "open"]}
Suspends(by, severity) == by = "guide" /\ severity = "critical"

(* Nothing stops a guide who is suspended, or a thread that is blocked.    *)
Send(t, by, severity) ==
    LET held == tabs[t].held IN
    /\ On(t, 0, "chat") /\ Len(held.messages) < MaxMessages
    /\ Put(t, [tabs[t] EXCEPT
           !.held.messages = Append(@, [by |-> by, severity |-> severity]),
           !.held.cases = @ \cup CaseOf(by, severity),
           !.held.suspended = @ \/ Suspends(by, severity),
           !.jobs = @ \cup {j \in {NoJob}:
                        by = "student" /\ ~held.suspended /\ severity = "none"}])
    /\ UNCHANGED <<made, received, past, mix>>

(* A reply that was due comes, whatever happened since.                    *)
Reply(t, job) ==
    /\ tabs[t].open /\ job.kind = "reply" /\ Len(tabs[t].held.messages) < MaxMessages
    /\ Put(t, [tabs[t] EXCEPT !.jobs = @ \ {job},
                  !.held.messages = Append(@, [by |-> "guide", severity |-> "none"])])
    /\ UNCHANGED <<made, received, past, mix>>

(* What opens a dialog, and what the dialog confirms.                      *)
AskAboutChat(t) ==
    /\ On(t, 0, "chat")
    /\ Ask(t, "block")
    /\ UNCHANGED <<made, received, past, mix>>

Block(t) ==
    /\ Asked(t, "block")
    /\ Put(t, [Answered(t) EXCEPT !.held.blocked = TRUE])
    /\ UNCHANGED <<made, received, past, mix>>

AskToReport(t) ==
    /\ On(t, 0, "cases")
    /\ Ask(t, "report")
    /\ UNCHANGED <<made, received, past, mix>>

Report(t) ==
    /\ Asked(t, "report")
    /\ Put(t, [Answered(t) EXCEPT !.held.cases = OpenCase(@, "report")])
    /\ UNCHANGED <<made, received, past, mix>>

SetCaseState(cases, about, from, next) ==
    (cases \ {[about |-> about, state |-> from]}) \cup {[about |-> about, state |-> next]}

TakeCase(t, about) ==
    /\ On(t, 0, "cases") /\ [about |-> about, state |-> "open"] \in tabs[t].held.cases
    /\ Put(t, [tabs[t] EXCEPT !.held.cases = SetCaseState(@, about, "open", "investigating")])
    /\ UNCHANGED <<made, received, past, mix>>

Unresolved(held, about) ==
    {s \in {"open", "investigating"}: [about |-> about, state |-> s] \in held.cases}
AskToResolve(t, about) ==
    /\ On(t, 0, "cases") /\ Unresolved(tabs[t].held, about) # {}
    /\ Keep(t, [tabs[t] EXCEPT !.dialog.kind = "resolve", !.dialog.about = about])
    /\ UNCHANGED <<made, received, past, mix>>

Resolve(t) ==
    LET about == tabs[t].dialog.about IN
    /\ Asked(t, "resolve")
    /\ \E from \in Unresolved(tabs[t].held, about):
           Put(t, [Answered(t) EXCEPT !.held.cases = SetCaseState(@, about, from, "resolved")])
    /\ UNCHANGED <<made, received, past, mix>>

(***************************************************************************)
(* A session with a guide and its reward; programmes to compare            *)
(***************************************************************************)

Book(t) ==
    /\ On(t, 0, "sessions") /\ tabs[t].held.reward = "none"
    /\ Put(t, [tabs[t] EXCEPT !.held.reward = "pending"])
    /\ UNCHANGED <<made, received, past, mix>>

AskToApprove(t) ==
    /\ On(t, 0, "sessions") /\ tabs[t].held.reward \in {"pending", "approved_once"}
    /\ Ask(t, "approve")
    /\ UNCHANGED <<made, received, past, mix>>

Approve(t) ==
    /\ Asked(t, "approve")
    /\ Put(t, [Answered(t) EXCEPT
                  !.held.reward = IF @ = "approved_once" THEN "paid" ELSE "approved_once"])
    /\ UNCHANGED <<made, received, past, mix>>

WithoutLimit(list, p) == Append(list, p)
LastOnes(list, p) ==
    LET longer == Append(list, p) IN
    SubSeq(longer, IF Len(longer) > CompareLimit THEN Len(longer) - CompareLimit + 1 ELSE 1,
           Len(longer))
Compared(list) == {list[i] : i \in DOMAIN list}
ToggleCompare(t, p) ==
    /\ On(t, 0, "compare")
    /\ Put(t, [tabs[t] EXCEPT !.held.compare =
                  IF p \in Compared(@) THEN SelectSeq(@, LAMBDA q: q # p) ELSE LastOnes(@, p)])
    /\ UNCHANGED <<made, received, past, mix>>

Wizards(t) ==
    \/ Start(t) \/ Continue(t) \/ Back(t) \/ Jump(t) \/ AskToSend(t) \/ ConfirmSend(t)
    \/ \E d \in Documents: TickDocument(t, d)
    \/ \E c \in Consents: TickConsent(t, c)
    \/ \E answer \in {"accept", "decline"}: AskAboutOffer(t, answer)
    \/ AnswerOffer(t)
Vault(t) ==
    \/ \E d \in 0..MaxDocuments: ChooseFile(t, d)
    \/ \E d \in Documents:
           \/ RemoveDocument(t, d) \/ OpenForReview(t, d)
           \/ \E verdict \in Verdict: Decide(t, d, verdict)
    \/ Escalate(t)
Consoles(t) ==
    \/ \E u \in Universities:
           EnterUniversity(t, u) \/ \E kind \in {"advance", "reject"}: AskToMove(t, u, kind)
    \/ Advance(t) \/ Reject(t)
    \/ AskToReport(t) \/ Report(t) \/ Resolve(t)
    \/ \E about \in Subject: TakeCase(t, about) \/ AskToResolve(t, about)
    \/ Book(t) \/ AskToApprove(t) \/ Approve(t)
    \/ \E p \in Programmes: ToggleCompare(t, p)
Chat(t) ==
    \/ \E by \in {"student", "guide"}, severity \in Severity: Send(t, by, severity)
    \/ AskAboutChat(t) \/ Block(t)
JobStep(t) ==
    \E job \in tabs[t].jobs:
        HandOver(t, job) \/ Acknowledge(t, job) \/ RecordUpload(t, job) \/ Reply(t, job)

Next ==
    \E t \in Tabs:
        \/ Load(t) \/ Unload(t) \/ ResetLocalState(t) \/ Cancel(t)
        \/ Wizards(t) \/ Vault(t) \/ Consoles(t) \/ Chat(t) \/ JobStep(t)

Spec == Init /\ [][Next]_vars

(***************************************************************************)
(* Properties of every copy of the record, stored or held by a tab.  Those *)
(* named Unless... have a condition without which they do not hold.        *)
(***************************************************************************)

Copies == {disk} \cup {tabs[t].held : t \in {u \in Tabs: tabs[u].open}}
Sending == {"submitted_pending", "submitted"}

(* "A submission counts only when the university endpoint confirms receipt *)
(* and returns a durable reference": after a reset no late answer makes    *)
(* another draft look submitted (patch finds the application by its id).   *)
SubmittedHasReceipt ==
    \A held \in Copies:
        held.application.state = "submitted" =>
            held.application.referenced /\ held.application.id \in received

(* What the university confirmed is on record in the browser from then on, *)
(* unless it was reset, two tabs overwrite each other or the student sends *)
(* twice (persist, submit).                                                *)
ConfirmedIsKept ==
    \A id \in received: disk.application.id = id /\ disk.application.state = "submitted"
ConfirmedIsKeptUnlessRaced == past \cap {"reset", "shared", "doubled"} = {} => ConfirmedIsKept

(* What is sent is what was ticked, unless a document ticked was removed   *)
(* or the ticks changed while the checksum was taken (snapshotFor).        *)
SentIsTicked ==
    \A held \in Copies:
        held.application.state \in Sending =>
            {v.document : v \in held.application.snapshot.documents} = held.application.documents
SentIsTickedUnlessChanged == "unticked" \notin past => SentIsTicked

(* Nothing is sent without each of the consents, unless the address of the *)
(* page led past them (consentStep, applyView).                            *)
SentIsConsented ==
    \A held \in Copies:
        held.application.state \in Sending => held.application.snapshot.consents = Consents
SentIsConsentedUnlessJumped == "jumped" \notin past => SentIsConsented

(* "Records a decision against the exact version that was opened", unless  *)
(* it was replaced while the reviewer confirmed (decideDocument).          *)
DecidedWasOpened ==
    \A held \in Copies: \A a \in held.decided: a.of \in held.opened
DecidedWasOpenedUnlessReplaced == "replaced" \notin past => DecidedWasOpened

(* A guide is suspended, and a document called altered, only with a trust  *)
(* case that says so, in the browser too (send, the decision form).        *)
AccusedHasCase ==
    \A held \in Copies:
        /\ held.suspended => \E c \in held.cases: c.about = "guide"
        /\ (\E a \in held.decided: a.verdict = "altered") =>
               \E c \in held.cases: c.about = "document"

(* A stage is claimed only with evidence for it and for each stage before, *)
(* and a badge only with the signature (advance).                          *)
EvidencePerStage ==
    \A held \in Copies: \A u \in Universities:
        LET entry == held.register[u] IN
        1..entry.stage \subseteq entry.evidence /\ (entry.state = "verified" => entry.stage = Signed)

(* At most so many programmes are compared, each once (compareToggle).     *)
CompareIsBounded ==
    \A held \in Copies:
        /\ Len(held.compare) <= CompareLimit
        /\ Cardinality(Compared(held.compare)) = Len(held.compare)

(* An application on its way is waited for by the tab that shows it,       *)
(* unless the record was loaded like that (submit, load).                  *)
Awaiting(t) == \E j \in tabs[t].jobs: j.kind = "acknowledge" /\ j.id = Draft(t).id
PendingHere(t) == tabs[t].open /\ Draft(t).state = "submitted_pending"
PendingIsAwaited == \A t \in Tabs: PendingHere(t) => Awaiting(t)
PendingIsAwaitedUnlessReloaded == "reloaded" \notin past => PendingIsAwaited

(* "The snapshot is immutable once submitted", unless the student sent     *)
(* twice (submit, patch).                                                  *)
SnapshotStep ==
    \A t \in Tabs:
        /\ tabs[t].open /\ tabs'[t].open /\ Draft(t).state \in Sending
        /\ Draft(t)'.id = Draft(t).id /\ "doubled" \notin past
        => Draft(t)'.snapshot = Draft(t).snapshot

(* "They can no longer message you" (Block).                               *)
BlockedIsSilent ==
    [][\A t \in Tabs: tabs[t].open /\ tabs'[t].open /\ tabs[t].held.blocked =>
           \A i \in DOMAIN tabs'[t].held.messages \ DOMAIN tabs[t].held.messages:
               tabs'[t].held.messages[i].by # "guide"]_tabs

(* What is awaited is answered, while the page stays open (setTimeout).    *)
Acknowledged(t) == \E job \in tabs[t].jobs: Acknowledge(t, job)
PendingIsAnswered == \A t \in Tabs: PendingHere(t) /\ Awaiting(t) ~> ~PendingHere(t)
=============================================================================
