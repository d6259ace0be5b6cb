------------------------------ MODULE Consoles ------------------------------
(***************************************************************************)
(* The admin consoles: who is shown which of them, the buttons of a row    *)
(* and what the API does when they are pressed, the roles of the staff of  *)
(* a university, its reviews of requirements, the templates of messages    *)
(* and the queue of documents.  A page is rendered once and read long      *)
(* after; a behaviour is one of one area.                                  *)
(***************************************************************************)
EXTENDS Integers, Sequences, FiniteSets

CONSTANTS
    Areas,                     \* bound: the areas looked at
    Operators,                 \* who works in the consoles
    Versions,                  \* the documents, 1, 2, ... by age
    Limit,                     \* rows the queue of documents hands out
    MaxWrites,                 \* bound: reviews and versions of a template
    MaxCalls                   \* bound: buttons pressed that are under way

ConsolesAssumption ==
    /\ Versions \subseteq Nat \ {0} /\ Limit \in Nat \ {0} /\ MaxWrites \in Nat
    /\ MaxCalls \in Nat
    /\ Operators # {}

VARIABLES
    area,
    server,       \* what the API holds
    page,         \* what a page holds
    calls,        \* requests under way
    past          \* what may lead an operator astray (history)

vars == <<area, server, page, calls, past>>

States == INSTANCE ApplicationStates
Note(hazard, holds) == past' = IF holds THEN past \cup {hazard} ELSE past
Replace(c, d) == calls' = (calls \ {c}) \cup {d}

(***************************************************************************)
(* Access: which sections one operator is shown, and which of them load.   *)
(***************************************************************************)

Role == {"university_staff", "university_admin", "trust_agent", "ops", "finance", "superadmin"}
Read == {"application:read", "guide:read", "trust_case:read", "connector:read", "reward:read",
         "transaction:read", "document:read", "evidence:read", "analytics:read"}
Write == {"sanction:write", "connector:manage", "catalogue:sync", "user:impersonate",
          "payout:initiate", "payout:approve"}

RolePermissions(role) ==
    CASE role = "university_staff" -> {"application:read", "analytics:read"}
      [] role = "university_admin" -> {"application:read", "guide:read", "analytics:read"}
      [] role = "trust_agent" ->
            {"guide:read", "trust_case:read", "evidence:read", "sanction:write"}
      [] role = "ops" ->
            {"application:read", "guide:read", "trust_case:read", "analytics:read",
             "connector:read", "connector:manage", "catalogue:sync", "user:impersonate"}
      [] role = "finance" ->
            {"reward:read", "transaction:read", "payout:initiate", "payout:approve"}
      [] role = "superadmin" -> Read \cup Write
PermissionsForRoles(roles) == UNION {RolePermissions(role) : role \in roles}

ConsoleRoles(console) ==
    CASE console = "university" -> {"university_admin", "university_staff", "superadmin"}
      [] console = "trust" -> {"trust_agent", "superadmin"}
      [] console = "operations" -> {"ops", "superadmin"}
      [] console = "finance" -> {"finance", "superadmin"}
Console == {"university", "trust", "operations", "finance"}
ConsolesFor(roles) == {c \in Console: ConsoleRoles(c) \cap roles # {}}

(* The rail shows every operator the sections that belong to no console.   *)
Section == Console \cup {"insights", "documents"}
Visible(session) == ConsolesFor(session) \cup {"insights", "documents"}

(* What a page reads before it is shown, and what its buttons ask for.     *)
LoadNeeds(s) ==
    CASE s = "university" -> {"application:read", "guide:read"}
      [] s = "trust" -> {"trust_case:read"}
      [] s = "operations" ->
            {"connector:read", "application:read", "catalogue:sync", "user:impersonate"}
      [] s = "finance" -> {"reward:read", "transaction:read"}
      [] s = "documents" -> {"document:read", "application:read"}
      [] s = "insights" -> {"analytics:read"}
ButtonNeeds(s) ==
    CASE s = "university" -> {"application:read", "guide:read"}
      [] s = "trust" -> {"sanction:write", "evidence:read"}
      [] s = "operations" -> {"connector:manage", "user:impersonate"}
      [] s = "finance" -> {"payout:approve", "payout:initiate"}
      [] s = "documents" -> {"document:read", "evidence:read"}
      [] s = "insights" -> {}

AccessType ==
    /\ server \subseteq Role /\ calls = {}
    /\ page \in [at: Section \cup {"nowhere"}, session: SUBSET Role, loads: BOOLEAN,
                 refused: BOOLEAN]
AccessInit ==
    /\ \E role \in Role: server = {role}
    /\ page = [at |-> "nowhere", session |-> server, loads |-> TRUE, refused |-> FALSE]
    /\ calls = {}

(* loadConsole: the first refusal decides what is shown.                   *)
OpenSection(s) ==
    /\ s \in Visible(page.session)
    /\ page' = [at |-> s, session |-> server, refused |-> FALSE,
                loads |-> LoadNeeds(s) \subseteq PermissionsForRoles(server)]
    /\ past' = IF s \in Visible(server) THEN {} ELSE {"moved"}
    /\ UNCHANGED <<server, calls>>
UseButton(permission) ==
    /\ page.at # "nowhere" /\ page.loads /\ permission \in ButtonNeeds(page.at)
    /\ page' = [page EXCEPT !.refused = permission \notin PermissionsForRoles(server)]
    /\ UNCHANGED <<server, calls, past>>
ChangeRole ==
    /\ \E role \in Role: server' = {role} /\ server' # server
    /\ past' = {"moved"} /\ UNCHANGED <<page, calls>>

AccessNext ==
    \/ ChangeRole \/ \E s \in Section: OpenSection(s)
    \/ \E p \in Read \cup Write: UseButton(p)

(***************************************************************************)
(* Rows: an application, a connector, the endorsement of a guide or a      *)
(* payout, each shown to several operators with its buttons.               *)
(***************************************************************************)

Kind == {"application", "connector", "endorsement", "payout"}
Value == States!ApplicationState \cup {"on", "off", "pending_approval", "approved", "beyond"}
Button == {"review", "offer", "approve", "reject", "toggle"}
ButtonsOf(kind) ==
    CASE kind = "application" -> {"review", "offer"}
      [] kind = "payout" -> {"approve", "reject"}
      [] OTHER -> {"toggle"}

(* What a row shows; applications beyond review have no buttons and are    *)
(* told apart by nothing.                                                  *)
Seen ==
    IF server.kind = "application" /\ server.value \notin {"submitted", "under_review"}
    THEN "beyond" ELSE server.value

Flipped(value) == IF value = "on" THEN "off" ELSE "on"
Target(b, seen) ==
    CASE b = "review" -> "under_review" [] b = "offer" -> "offer"
      [] b = "approve" -> "approved"    [] b = "reject" -> "rejected"
      [] b = "toggle" -> Flipped(seen)

(* checkDualApproval, of a payout above the threshold.                     *)
DualApproval(o) == o # server.initiator

(* disabledReason: why the page does not let a button be pressed.          *)
AlwaysEnabled(b, seen, o) == server.kind = "payout" => seen = "pending_approval"
Enabled(b, seen, o) ==
    CASE b = "review" -> seen = "submitted"
      [] b = "offer" -> seen = "under_review"
      [] b = "approve" -> seen = "pending_approval" /\ DualApproval(o)
      [] b = "reject" -> seen = "pending_approval"
      [] OTHER -> TRUE

(* What the API accepts.                                                   *)
Accepts(b, value, asks, o) ==
    CASE server.kind = "application" -> States!Allowed(value, asks, "university")
      [] b = "approve" -> value = "pending_approval" /\ DualApproval(o)
      [] b = "reject" -> value = "pending_approval"
      [] OTHER -> TRUE

NeverConfirmed(b, seen) == b = "reject"
NeedsConfirm(b, seen) == b = "reject" \/ (server.kind = "connector" /\ seen = "on")

RowCall == [by: Operators, button: Button, asks: Value, meant: Value, seen: Value, from: Value,
            confirmed: BOOLEAN, stage: {"sent", "read", "done", "refused"}]
RowType ==
    /\ server \in [kind: Kind, value: Value, meant: Value, initiator: Operators]
    /\ page \in [Operators -> [seen: Value, dialog: SUBSET Button]]
    /\ calls \subseteq RowCall
RowInit ==
    /\ \E kind \in Kind, o \in Operators:
           LET value == CASE kind = "application" -> "submitted"
                          [] kind = "payout" -> "pending_approval" [] OTHER -> "on" IN
           /\ server = [kind |-> kind, value |-> value, meant |-> value,
                        initiator |-> o]
           /\ page = [viewer \in Operators |-> [seen |-> value, dialog |-> {}]]
    /\ calls = {}

Busy(o, b) == \E c \in calls: c.by = o /\ c.button = b
Send(o, b, meant, confirmed) ==
    /\ Cardinality(calls) < MaxCalls
    /\ calls' = calls \cup
           {[by |-> o, button |-> b, asks |-> Target(b, page[o].seen), meant |-> meant,
             seen |-> page[o].seen, from |-> page[o].seen, confirmed |-> confirmed,
             stage |-> "sent"]}
    /\ UNCHANGED <<server, page, past>>

Press(o, b) ==
    /\ b \in ButtonsOf(server.kind) /\ ~Busy(o, b) /\ Enabled(b, page[o].seen, o)
    /\ IF NeedsConfirm(b, page[o].seen)
       THEN page' = [page EXCEPT ![o].dialog = @ \cup {b}] /\ UNCHANGED <<server, calls, past>>
       ELSE Send(o, b, Target(b, page[o].seen), FALSE)

(* The dialog is part of the button: it goes when the button no longer     *)
(* asks for one, and comes back if it does again.                          *)
DialogShown(o, b) ==
    b \in page[o].dialog /\ Enabled(b, page[o].seen, o) /\ NeedsConfirm(b, page[o].seen)
Confirm(o, b) ==
    /\ DialogShown(o, b) /\ ~Busy(o, b)
    /\ Send(o, b, IF b = "reject" THEN "rejected" ELSE "off", TRUE)
Cancel(o, b) ==
    /\ DialogShown(o, b)
    /\ page' = [page EXCEPT ![o].dialog = @ \ {b}] /\ UNCHANGED <<server, calls, past>>

(* The handler reads the row, and writes it later.                         *)
ReadRow(c) ==
    /\ c.stage = "sent"
    /\ Replace(c, [c EXCEPT !.from = server.value,
                   !.stage = IF Accepts(c.button, server.value, c.asks, c.by)
                             THEN "read" ELSE "refused"])
    /\ Note("unfair", c.seen = server.value /\ ~Accepts(c.button, server.value, c.asks, c.by))
    /\ UNCHANGED <<server, page>>

(* An application moves by a compare-and-set, everything else by its id.   *)
ById(c) == TRUE
Writable(c) == server.kind = "application" => server.value = c.from
ToggledHere(c) == IF c.button = "toggle" THEN Flipped(server.value) ELSE c.asks
Written(c) == c.asks
WriteRow(c) ==
    /\ c.stage = "read"
    /\ IF Writable(c)
       THEN /\ server' = [server EXCEPT !.value = Written(c), !.meant = c.meant]
            /\ Replace(c, [c EXCEPT !.stage = "done"])
            /\ past' = past \cup {h \in {"illegal"}: server.kind = "application" /\
                                     ~States!Allowed(server.value, c.asks, "university")}
                            \cup {h \in {"unasked"}: server.kind = "connector" /\
                                     c.asks = "off" /\ ~c.confirmed}
       ELSE Replace(c, [c EXCEPT !.stage = "refused"]) /\ UNCHANGED <<server, past>>
    /\ UNCHANGED page

(* Success renders the page anew; a refusal, or a request that is lost, is *)
(* shown beside the button.                                                *)
RowAnswered(c) ==
    /\ c.stage = "done"
    /\ page' = [page EXCEPT ![c.by].seen = Seen,
                            ![c.by].dialog = IF c.confirmed THEN @ \ {c.button} ELSE @]
    /\ calls' = calls \ {c} /\ UNCHANGED <<server, past>>
RowFailed(c) == calls' = calls \ {c} /\ UNCHANGED <<server, page, past>>

(* Another button of the page rendered it anew; the student, the partner   *)
(* or the expiry of an offer moved the application.                        *)
Rerender(o) ==
    /\ page' = [page EXCEPT ![o].seen = Seen] /\ page' # page
    /\ UNCHANGED <<server, calls, past>>
MovedElsewhere ==
    /\ server.kind = "application"
    /\ \E to \in States!ApplicationState, actor \in States!TransitionActor:
           /\ States!Allowed(server.value, to, actor)
           /\ server' = [server EXCEPT !.value = to, !.meant = to]
    /\ UNCHANGED <<page, calls, past>>

RowNext ==
    \/ MovedElsewhere
    \/ \E o \in Operators: \/ Rerender(o)
                           \/ \E b \in Button: Press(o, b) \/ Confirm(o, b) \/ Cancel(o, b)
    \/ \E c \in calls: ReadRow(c) \/ WriteRow(c) \/ RowAnswered(c) \/ RowFailed(c)

(***************************************************************************)
(* Staff: setStaffRole revokes what it finds and grants one role, in one   *)
(* transaction.  A grant of another transaction that commits in between is *)
(* not among what it finds.                                                *)
(***************************************************************************)

Grant == {"university_admin", "university_staff"}
StaffCall == [by: Operators, of: Operators, role: Grant, had: SUBSET Grant,
              stage: {"admitted", "found", "revoking"}]
StaffType ==
    /\ server \in [roles: [Operators -> SUBSET Grant], verified: BOOLEAN] /\ page = 0
    /\ calls \subseteq StaffCall
StaffInit ==
    /\ server = [roles |-> [o \in Operators |-> {"university_admin"}], verified |-> TRUE]
    /\ page = 0 /\ calls = {}

(* canAccessUniversityPortal, looked at in every request.                  *)
PortalOpen == server.verified
ChangesAnyone(o, colleague) == TRUE
MayChange(o, colleague) == o # colleague

Admit(o, colleague, role) ==
    /\ "university_admin" \in server.roles[o] /\ \A c \in calls: c.by # o
    /\ calls' = calls \cup {[by |-> o, of |-> colleague, role |-> role, had |-> {},
                             stage |-> "admitted"]}
    /\ UNCHANGED <<server, page, past>>
FindColleague(c) ==
    /\ c.stage = "admitted"
    /\ IF PortalOpen /\ MayChange(c.by, c.of)
       THEN Replace(c, [c EXCEPT !.stage = "found"])
       ELSE calls' = calls \ {c}
    /\ UNCHANGED <<server, page, past>>
RevokeRoles(c) ==
    /\ c.stage = "found"
    /\ Replace(c, [c EXCEPT !.stage = "revoking", !.had = server.roles[c.of]])
    /\ UNCHANGED <<server, page, past>>
GrantRole(c) ==
    /\ c.stage = "revoking"
    /\ server' = [server EXCEPT !.roles[c.of] = (@ \ c.had) \cup {c.role}]
    /\ calls' = calls \ {c} /\ Note("crossed", calls # {c}) /\ UNCHANGED page
RevokeDomain ==
    /\ server' = [server EXCEPT !.verified = ~@] /\ UNCHANGED <<page, calls, past>>

StaffNext ==
    \/ RevokeDomain
    \/ \E o \in Operators, colleague \in Operators, role \in Grant: Admit(o, colleague, role)
    \/ \E c \in calls: FindColleague(c) \/ RevokeRoles(c) \/ GrantRole(c)

(***************************************************************************)
(* Rules: a requirement is approved, annotated or overridden.              *)
(***************************************************************************)

Rule == {"r0", "r1"}
Summary == {"s0", "s1"}
Decision == {"approved", "annotated", "overridden"}
Review == [decision: Decision, beforeRule: Rule, beforeSummary: Summary,
           afterRule: Rule \cup {"none"}, afterSummary: Summary \cup {"none"}]
RuleType ==
    /\ server.rule \in Rule /\ server.summary \in Summary /\ server.version \in Nat
    /\ \A i \in DOMAIN server.reviews: server.reviews[i] \in Review
    /\ server.given \in [rule: Rule, summary: Summary] /\ page = 0
RuleInit ==
    /\ server = [rule |-> "r0", summary |-> "s0", version |-> 1, reviews |-> <<>>,
                 given |-> [rule |-> "r0", summary |-> "s0"]]
    /\ page = 0 /\ calls = {}

DescribesChange(decision, rule, summary) ==
    decision = "approved" \/ rule # "none" \/ summary # "none"
Default(given, otherwise) == IF given = "none" THEN otherwise ELSE given

(* What a review is to say, from the requirement as it was read.           *)
ReadRequirement(o, decision, rule, summary) ==
    /\ \A c \in calls: c.by # o
    /\ DescribesChange(decision, rule, summary)
    /\ calls' = calls \cup
           {[by |-> o, rule |-> rule, summary |-> summary, version |-> server.version,
             review |-> [decision |-> decision, beforeRule |-> server.rule,
                         beforeSummary |-> server.summary,
                         afterRule |-> IF decision = "overridden"
                                       THEN Default(rule, server.rule) ELSE "none",
                         afterSummary |-> IF decision = "approved" THEN "none"
                                          ELSE Default(summary, server.summary)]]}
    /\ UNCHANGED <<server, page, past>>

VersionRead(c) == c.version + 1
NextVersion(c) == server.version + 1
WriteReview(c) ==
    LET changes == c.review.decision # "approved"
        given == [rule |-> IF c.review.decision = "overridden"
                           THEN Default(c.rule, server.given.rule) ELSE server.given.rule,
                  summary |-> IF changes THEN Default(c.summary, server.given.summary)
                              ELSE server.given.summary] IN
    /\ Len(server.reviews) < MaxWrites
    /\ server' = [rule |-> Default(c.review.afterRule, server.rule),
                  summary |-> Default(c.review.afterSummary, server.summary),
                  version |-> IF changes THEN NextVersion(c) ELSE server.version,
                  reviews |-> Append(server.reviews, c.review), given |-> given]
    /\ Note("overlapped", c.review.beforeRule # server.rule \/ c.review.beforeSummary # server.summary)
    /\ calls' = calls \ {c} /\ UNCHANGED page

RuleNext ==
    \/ \E o \in Operators, d \in Decision, r \in Rule \cup {"none"}, s \in Summary \cup {"none"}:
           ReadRequirement(o, d, r, s)
    \/ \E c \in calls: WriteReview(c)

(***************************************************************************)
(* Templates: an edit retires the row it found and writes the next.        *)
(***************************************************************************)

TemplateType ==
    /\ \A n \in DOMAIN server: server[n] \in [version: Nat, active: BOOLEAN]
    /\ page = 0
    /\ calls \subseteq [by: Operators, current: 0..MaxWrites]
TemplateInit == server = <<>> /\ page = 0 /\ calls = {}

Active == {n \in DOMAIN server: server[n].active}
NewestActive(n) == n \in Active /\ \A m \in Active: server[m].version <= server[n].version
NextTemplate(current) == IF current = 0 THEN 1 ELSE server[current].version + 1

FindTemplate(o) ==
    /\ \A c \in calls: c.by # o
    /\ \E current \in {n \in DOMAIN server: NewestActive(n)} \cup {m \in {0}: Active = {}}:
           calls' = calls \cup {[by |-> o, current |-> current]}
    /\ UNCHANGED <<server, page, past>>

(* The key, the channel, the locale and the version are unique: the loser  *)
(* of two edits rolls back.                                                *)
AnyVersion(version) == TRUE
VersionFree(version) == \A n \in DOMAIN server: server[n].version # version
WriteTemplate(c) ==
    LET version == NextTemplate(c.current) IN
    /\ IF VersionFree(version)
       THEN /\ Len(server) < MaxWrites
            /\ server' = Append([n \in DOMAIN server |->
                             [server[n] EXCEPT !.active = @ /\ n # c.current]],
                             [version |-> version, active |-> TRUE])
       ELSE UNCHANGED server
    /\ calls' = calls \ {c} /\ UNCHANGED <<page, past>>

TemplateNext ==
    \/ \E o \in Operators: FindTemplate(o)
    \/ \E c \in calls: WriteTemplate(c)

(***************************************************************************)
(* Documents: one reviewer's page of the queue, oldest first, and another  *)
(* who decides too.                                                        *)
(***************************************************************************)

Verdict == {"accepted", "more_information", "rejected"}
Paper == [state: {"absent", "pending", "clean", "quarantined"}, opened: BOOLEAN,
          verdict: Verdict \cup {"none"}, reasons: BOOLEAN]
DocumentsType ==
    /\ server \in [Versions -> Paper]
    /\ page \in [rows: [Versions -> Paper], open: SUBSET Versions, choice: [Versions -> Verdict],
                 ticked: SUBSET Versions, error: BOOLEAN]
    /\ calls \subseteq [kind: {"open", "decide"}, of: Versions, verdict: Verdict,
                        reasons: BOOLEAN, seen: Paper, stage: {"sent", "done", "refused"}]
Blank == [state |-> "absent", opened |-> FALSE, verdict |-> "none", reasons |-> FALSE]
DocumentsInit ==
    /\ server = [v \in Versions |-> Blank]
    /\ page = [rows |-> server, open |-> {}, choice |-> [v \in Versions |-> "accepted"],
               ticked |-> {}, error |-> FALSE]
    /\ calls = {}

(* The page asks for all of them, and is given the first Limit.            *)
Uploaded == {v \in Versions: server[v].state # "absent"}
Undecided(v) == server[v].verdict = "none"
Before(v) == {u \in Uploaded: u < v}
Queue == {v \in Uploaded: Cardinality(Before(v)) < Limit}
Rendered == [v \in Versions |-> IF v \in Queue THEN server[v] ELSE Blank]

CanAssess(v) == server[v].state = "clean"
Openable(v) == page.rows[v].state = "clean" /\ page.rows[v].verdict = "none"
Ask(kind, v) ==
    [kind |-> kind, of |-> v, verdict |-> page.choice[v], reasons |-> v \in page.ticked,
     seen |-> page.rows[v], stage |-> "sent"]
Idle(v) == \A c \in calls: c.of # v

(* The form is shown at once, whatever becomes of the request.             *)
OpenRow(v) ==
    /\ Openable(v) /\ v \notin page.open /\ Idle(v)
    /\ page' = [page EXCEPT !.open = @ \cup {v}, !.error = FALSE]
    /\ calls' = calls \cup {Ask("open", v)} /\ UNCHANGED <<server, past>>
Choose(v, verdict) ==
    /\ v \in page.open /\ Openable(v) /\ page.choice[v] # verdict
    /\ page' = [page EXCEPT !.choice[v] = verdict] /\ UNCHANGED <<server, calls, past>>
TickReason(v) ==
    /\ v \in page.open /\ Openable(v) /\ page.choice[v] # "accepted" /\ v \notin page.ticked
    /\ page' = [page EXCEPT !.ticked = @ \cup {v}] /\ UNCHANGED <<server, calls, past>>
NoReasonAsked(v) == TRUE
CanSubmit(v) == page.choice[v] = "accepted" \/ v \in page.ticked
SendDecision(v) ==
    /\ v \in page.open /\ Openable(v) /\ Idle(v) /\ CanSubmit(v)
    /\ page' = [page EXCEPT !.error = FALSE]
    /\ calls' = calls \cup {Ask("decide", v)} /\ UNCHANGED <<server, past>>

Decidable(c) ==
    /\ server[c.of].opened /\ server[c.of].verdict = "none"
    /\ (c.verdict = "accepted" \/ c.reasons)
ServeReview(c) ==
    /\ c.stage = "sent"
    /\ IF CanAssess(c.of) /\ (c.kind = "decide" => Decidable(c))
       THEN /\ server' = [server EXCEPT ![c.of] =
                   IF c.kind = "open" THEN [@ EXCEPT !.opened = TRUE]
                   ELSE [@ EXCEPT !.verdict = c.verdict, !.reasons = c.reasons]]
            /\ Replace(c, [c EXCEPT !.stage = "done"]) /\ UNCHANGED past
       ELSE /\ Replace(c, [c EXCEPT !.stage = "refused"])
            /\ past' = past \cup {h \in {"unopened"}: c.kind = "open"}
                            \cup {h \in {"unfair"}: c.seen = server[c.of] /\ "unopened" \notin past}
            /\ UNCHANGED server
    /\ UNCHANGED page
ReviewAnswered(c) ==
    /\ c.stage # "sent"
    /\ page' = IF c.stage = "done" THEN [page EXCEPT !.rows = Rendered]
               ELSE [page EXCEPT !.error = TRUE]
    /\ calls' = calls \ {c} /\ UNCHANGED <<server, past>>
LoseReview(c) ==
    /\ page' = [page EXCEPT !.error = TRUE] /\ calls' = calls \ {c}
    /\ past' = past \cup {h \in {"unopened"}: c.kind = "open"} /\ UNCHANGED server

(* Uploads come in the order of their age; a scan ends, or a rescan finds  *)
(* something; another reviewer decides.                                    *)
Upload(v) ==
    /\ server[v].state = "absent" /\ \A u \in Versions: u < v => u \in Uploaded
    /\ server' = [server EXCEPT ![v].state = "pending"] /\ UNCHANGED <<page, calls, past>>
Scan(v) ==
    /\ server[v].state \in {"pending", "clean"}
    /\ \E state \in {"clean", "quarantined"} \ {server[v].state}:
           server' = [server EXCEPT ![v].state = state]
    /\ UNCHANGED <<page, calls, past>>
DecidedElsewhere(v) ==
    /\ CanAssess(v) /\ Undecided(v)
    /\ server' = [server EXCEPT ![v].opened = TRUE, ![v].verdict = "accepted"]
    /\ UNCHANGED <<page, calls, past>>
Reload ==
    /\ calls = {}
    /\ page' = [rows |-> Rendered, open |-> {}, choice |-> [v \in Versions |-> "accepted"],
                ticked |-> {}, error |-> FALSE]
    /\ past' = past \ {"unopened"} /\ UNCHANGED <<server, calls>>

DocumentsNext ==
    \/ Reload
    \/ \E v \in Versions: \/ OpenRow(v) \/ TickReason(v) \/ SendDecision(v) \/ Upload(v) \/ Scan(v)
                          \/ DecidedElsewhere(v) \/ \E verdict \in Verdict: Choose(v, verdict)
    \/ \E c \in calls: ServeReview(c) \/ ReviewAnswered(c) \/ LoseReview(c)

-----------------------------------------------------------------------------

Hazard == {"moved", "unfair", "illegal", "unasked", "crossed", "overlapped", "unopened"}

TypeOK ==
    /\ area \in Areas /\ past \subseteq Hazard
    /\ area = "access"    => AccessType
    /\ area = "rows"      => RowType
    /\ area = "staff"     => StaffType
    /\ area = "rules"     => RuleType
    /\ area = "templates" => TemplateType
    /\ area = "documents" => DocumentsType

Init ==
    /\ area \in Areas /\ past = {}
    /\ \/ area = "access"    /\ AccessInit
       \/ area = "rows"      /\ RowInit
       \/ area = "staff"     /\ StaffInit
       \/ area = "rules"     /\ RuleInit
       \/ area = "templates" /\ TemplateInit
       \/ area = "documents" /\ DocumentsInit

Next ==
    /\ UNCHANGED area
    /\ \/ area = "access"    /\ AccessNext
       \/ area = "rows"      /\ RowNext
       \/ area = "staff"     /\ StaffNext
       \/ area = "rules"     /\ RuleNext
       \/ area = "templates" /\ TemplateNext
       \/ area = "documents" /\ DocumentsNext

Spec == Init /\ [][Next]_vars

-----------------------------------------------------------------------------

(* What holds of an area unless one of these has happened in it.           *)
Unless(hazards, holds) == past \cap hazards = {} => holds

(* Access: a section that opened refuses none of its buttons ("a console   *)
(* full of buttons that all fail is worse than no console"), unless the    *)
(* operator's role was changed since the rail was.                         *)
ButtonsAreHeldUnlessMoved ==
    area = "access" => Unless({"moved"}, page.at # "nowhere" /\ page.loads => ~page.refused)

(* Access: every section the rail shows would open.  It does not hold: the *)
(* staff of a university are shown a portal whose guides they may not      *)
(* read, and everybody is shown insights and documents.                    *)
ShownConsoleLoads ==
    area = "access" =>
        \A s \in Visible(server): LoadNeeds(s) \subseteq PermissionsForRoles(server)

(* Rows and documents: a button that is enabled on what the server holds   *)
(* is not refused; "a button is disabled for the reason the endpoint would *)
(* refuse".                                                                *)
RefusedMeansMoved == area \in {"rows", "documents"} => "unfair" \notin past

(* Rows: every move of an application is one the table of transitions      *)
(* allows from where it is at that moment, whoever moved it in between.    *)
MovesAreLegal == area = "rows" => "illegal" \notin past

(* Rows: what is stored is what the last operator whose press was written  *)
(* meant by it, however old the row was that they saw.                     *)
LastWriteIsMeant == area = "rows" => server.value = server.meant

(* Rows: a connector is switched off only by an operator who was asked     *)
(* whether to.                                                             *)
DisablingIsConfirmed == area = "rows" => "unasked" \notin past

(* Rows: what the page will not let be pressed the API refuses.  It does   *)
(* not hold: an offer may follow a submission, its button waits for a      *)
(* review.                                                                 *)
DisabledIsRefused ==
    area = "rows" =>
        \A o \in Operators, b \in ButtonsOf(server.kind):
            ~Enabled(b, server.value, o) => ~Accepts(b, server.value, Target(b, server.value), o)

(* Staff: a university keeps an administrator, since nobody changes their  *)
(* own role; unless two of them change each other at once.                 *)
AdminRemains == area = "staff" => \E o \in Operators: "university_admin" \in server.roles[o]
AdminRemainsUnlessCrossed == Unless({"crossed"}, AdminRemains)

(* Staff: a colleague holds one role, unless two set it at once.           *)
OneRolePerColleague == area = "staff" => \A o \in Operators: Cardinality(server.roles[o]) = 1
OneRolePerColleagueUnlessCrossed == Unless({"crossed"}, OneRolePerColleague)

(* Rules: the version of a requirement counts the reviews that were more   *)
(* than an approval, however they overlapped.                              *)
VersionCountsReviews ==
    area = "rules" =>
        server.version = 1 + Cardinality({i \in DOMAIN server.reviews:
                                              server.reviews[i].decision # "approved"})

(* Rules: each review starts from what the one before it left, so the      *)
(* reviews tell how the requirement came to be what it is; unless two      *)
(* reviewers read it together.                                             *)
After(i, rule, summary) ==
    LET moved == {j \in 1..i: server.reviews[j].decision # "approved"}
        left(field, default) ==
            LET set == {j \in moved: field[j] # "none"} IN
            IF set = {} THEN default ELSE field[CHOOSE j \in set: \A k \in set: k <= j] IN
    /\ rule = left([j \in 1..i |-> server.reviews[j].afterRule], "r0")
    /\ summary = left([j \in 1..i |-> server.reviews[j].afterSummary], "s0")
ReviewsChain ==
    area = "rules" =>
        /\ After(Len(server.reviews), server.rule, server.summary)
        /\ \A i \in DOMAIN server.reviews:
               After(i - 1, server.reviews[i].beforeRule, server.reviews[i].beforeSummary)
ReviewsChainUnlessOverlapped == Unless({"overlapped"}, ReviewsChain)

(* Rules: what was last given for the rule, and for its summary, is in     *)
(* force; unless a reviewer who had read the requirement before wrote      *)
(* after, and put back what they gave nothing for.                         *)
GivenIsInForce ==
    area = "rules" => server.rule = server.given.rule /\ server.summary = server.given.summary
GivenIsInForceUnlessOverlapped == Unless({"overlapped"}, GivenIsInForce)

(* Rules: a new version differs from the one before.  It does not hold: an *)
(* annotation may give nothing but a rule, which it does not apply.        *)
VersionsDiffer ==
    area = "rules" =>
        \A i \in DOMAIN server.reviews:
            LET r == server.reviews[i] IN
            r.decision # "approved" =>
                r.afterRule \notin {"none", r.beforeRule} \/ r.afterSummary # r.beforeSummary

(* Templates: one version is in use, the latest, whoever edits it at once. *)
LatestIsActive ==
    area = "templates" /\ DOMAIN server # {} =>
        /\ Cardinality(Active) = 1
        /\ \A n \in Active, m \in DOMAIN server: server[m].version <= server[n].version

(* Documents: the form of a decision is shown for a document that was      *)
(* opened, or is being; unless the opening was refused or lost.            *)
FormMeansOpenedUnlessFailed ==
    area = "documents" =>
        Unless({"unopened"}, \A v \in page.open:
                   server[v].opened \/ \E c \in calls: c.kind = "open" /\ c.of = v)

(* Documents: what waits for a decision is in the queue.  It does not hold *)
(* once there are more documents than rows: the decided ones, which are    *)
(* older, stay in it.                                                      *)
WaitingIsShown ==
    area = "documents" => {v \in Uploaded: CanAssess(v) /\ Undecided(v)} \subseteq Queue

(* Documents: an accepted document carries no reasons against it.  It does *)
(* not hold: reasons ticked for a rejection are sent with the acceptance.  *)
AcceptanceIsPlain ==
    area = "documents" => \A v \in Versions: server[v].verdict = "accepted" => ~server[v].reasons
=============================================================================
