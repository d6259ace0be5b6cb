---------------------------- MODULE TrustCases -----------------------------
(***************************************************************************)
(* Trust (TrustService, TrustConsoleService, MessagingService.send).  A    *)
(* report or a risk rule opens a case, Trust moves it along, and each move *)
(* is an event of its history.  Opening writes the case and its first      *)
(* event one after the other; a move checks the state it read and writes   *)
(* both in a later transaction.  A message is scanned before it is stored, *)
(* and is stored with its flags and its case.  The console reads queues,   *)
(* and logs every look at evidence before it returns it.                   *)
(***************************************************************************)
EXTENDS Integers, FiniteSets, Sequences, SequencesExt

CONSTANTS
    Areas,          \* what behaviours are about: "cases", "reports", "messages",
                    \* "rate", "files", "console"
    Callers,        \* requests that can be in progress at once
    Threads,        \* the conversations of one guide, each with a student
    Texts,          \* what messages match: sets of matters
    ReportTypes,    \* what users report something as
    Rate, Recipients,                  \* messages, and threads, a guide may write (to) in an hour
    Rows,           \* what waits for verification
    Sla, Limit,     \* when a row is late, and how many rows a queue lists
    MaxCases, MaxEvents, MaxMessages, MaxTime        \* bounds

CasesAssumption ==
    /\ {MaxCases, MaxEvents, Limit} \subseteq Nat \ {0}
    /\ Threads \cup {Rate, Recipients, Sla, MaxMessages, MaxTime} \subseteq Nat
    /\ Threads # {} /\ Texts # {}

VARIABLES
    area,           \* what this behaviour is about
    cases,          \* the cases, in the order they were opened
    events,         \* the history of each case, in the order written
    messages,       \* the messages of the threads, in the order sent
    flags,          \* message_flags: what the scan found
    notices,        \* the system messages of the threads
    file,           \* the scan state of the version that is attached
    desk,           \* what waits, evidence, and what the console showed of it
    calls,
    stale           \* what ran into something else (history)

vars == <<area, cases, events, messages, flags, notices, file, desk, calls, stale>>

TrustCaseState ==
    {"open", "triaging", "evidence_preserved", "actioned", "dismissed", "escalated"}
Terminal == {"actioned", "dismissed"}
OpenState == TrustCaseState \ Terminal

(* The signals in the order of the rules; the severity of each by sender.  *)
Signals == <<"payment_solicitation", "guarantee_claim", "off_platform_solicitation", "impersonation">>
Severities == <<"low", "medium", "high", "critical">>
Severity == ToSet(Severities)
SEVERITY_ORDER(severity) == CHOOSE n \in DOMAIN Severities: Severities[n] = severity
RULES(signal, sender) ==
    CASE signal = "payment_solicitation" -> IF sender = "guide" THEN "critical" ELSE "medium"
      [] signal = "guarantee_claim" -> IF sender = "guide" THEN "high" ELSE "low"
      [] signal = "off_platform_solicitation" -> IF sender = "guide" THEN "medium" ELSE "low"
      [] OTHER -> IF sender = "guide" THEN "critical" ELSE "low"
AppliesTo(signal, sender) ==
    sender = "guide" \/ signal \in {"payment_solicitation", "off_platform_solicitation"}

(* What a text matches is given; scanMessage keeps the rules that apply to *)
(* its sender, in order, and takes the highest severity.                   *)
FirstSeverity(signals, sender) == RULES(signals[1], sender)
HighestSeverity(signals, sender) ==
    LET found == {RULES(s, sender): s \in ToSet(signals)}
    IN  CHOOSE s \in found: \A r \in found: SEVERITY_ORDER(r) <= SEVERITY_ORDER(s)
EveryRule(text, sender) == SelectSeq(Signals, LAMBDA s: s \in text)
ScanMessage(text, sender) == SelectSeq(Signals, LAMBDA s: s \in text /\ AppliesTo(s, sender))
AnyFinding(signals, sender) == signals # <<>>
OpensCase(signals, sender) == signals # <<>> /\ HighestSeverity(signals, sender) # "low"

SIGNAL_CASE_TYPE(signal) ==
    CASE signal = "off_platform_solicitation" -> "off_platform_contact"
      [] OTHER -> signal
ReportSeverity(type) ==
    IF type \in {"payment_solicitation", "impersonation"} THEN "high" ELSE "medium"

Target == [kind: {"guide", "message", "conversation"}, of: Nat]
TheGuide == [kind |-> "guide", of |-> 0]
CaseType == ReportTypes \cup {SIGNAL_CASE_TYPE(s): s \in ToSet(Signals)} \cup {"spam"}
Case == [target: Target, type: CaseType, severity: Severity, state: TrustCaseState,
         closed: BOOLEAN]
(* From "none": the event that opened the case.                            *)
Event == [from: TrustCaseState \cup {"none"}, to: TrustCaseState]
(* over: it was counted together with another that was not yet stored;     *)
(* rescanned: its file was scanned again after it was checked.             *)
Message == [thread: Threads, sender: {"student", "guide"}, text: Texts, attached: BOOLEAN,
            state: {"clean", "flagged"}, fresh: BOOLEAN, over: BOOLEAN, rescanned: BOOLEAN]
Flag == [message: 1..MaxMessages, signal: ToSet(Signals), severity: Severity, case: 0..MaxCases]
Notice == [thread: Threads, kind: {"risk_flagged", "report_submitted"}]
Row == [pending: BOOLEAN, created: 0..MaxTime, since: 0..MaxTime]
Desk == [now: 0..MaxTime, rows: [Rows -> Row], evidence: Nat, seen: Nat, logged: Nat]
Call == [step: {"idle", "opened", "notice", "move", "count", "store", "refused", "view", "logged"},
         case: 0..MaxCases, from: TrustCaseState, to: TrustCaseState,
         target: Target, type: CaseType,
         message: Message, evidence: Nat]
AnyMessage == [thread |-> CHOOSE t \in Threads: TRUE, sender |-> "student",
               text |-> CHOOSE x \in Texts: TRUE, attached |-> FALSE, state |-> "clean",
               fresh |-> TRUE, over |-> FALSE, rescanned |-> FALSE]
NoCall == [step |-> "idle", case |-> 0, from |-> "open", to |-> "open",
           target |-> TheGuide, type |-> "spam", message |-> AnyMessage, evidence |-> 0]

TypeOK ==
    /\ area \in Areas
    /\ cases \in Seq(Case) /\ Len(cases) <= MaxCases
    /\ events \in Seq(Seq(Event)) /\ Len(events) = Len(cases)
    /\ messages \in Seq(Message) /\ Len(messages) <= MaxMessages
    /\ flags \subseteq Flag /\ notices \subseteq Notice
    /\ file \in {"pending", "clean", "quarantined"} /\ desk \in Desk
    /\ calls \in [Callers -> Call]
    /\ stale \subseteq DOMAIN cases

Init ==
    /\ area \in Areas
    /\ cases = <<>> /\ events = <<>> /\ messages = <<>> /\ flags = {} /\ notices = {}
    /\ file = "pending"
    /\ desk = [now |-> 1, rows |-> [r \in Rows |-> [pending |-> FALSE, created |-> 0, since |-> 0]],
               evidence |-> 1, seen |-> 0, logged |-> 0]
    /\ calls = [c \in Callers |-> NoCall] /\ stale = {}

Idle(c, kind) == area = kind /\ calls[c].step = "idle"
Hold(c, call) == calls' = [calls EXCEPT ![c] = call]
End(c) == Hold(c, NoCall)

(***************************************************************************)
(* Reports and cases                                                       *)
(***************************************************************************)

(* A case opened by a report, or for too many messages, is open, and its   *)
(* first event comes after it; one opened for a message starts with its    *)
(* evidence preserved, in the transaction of the message.                  *)
CaseOf(target, type, severity, state) ==
    [target |-> target, type |-> type, severity |-> severity, state |-> state, closed |-> FALSE]

OpenCase(c, target, type, severity) ==
    /\ Len(cases) < MaxCases
    /\ cases' = Append(cases, CaseOf(target, type, severity, "open"))
    /\ events' = Append(events, <<>>)
    /\ Hold(c, [calls[c] EXCEPT !.step = "opened", !.case = Len(cases) + 1, !.target = target])
    /\ UNCHANGED <<area, messages, flags, notices, file, desk, stale>>

Reportable == {TheGuide} \cup [kind: {"message"}, of: DOMAIN messages]
                         \cup [kind: {"conversation"}, of: IF messages = <<>> THEN {} ELSE Threads]

Report(c, target, type) ==
    /\ calls[c].step = "idle" /\ area \in {"cases", "reports"}
    /\ OpenCase(c, target, type, ReportSeverity(type))

(* A report of a message or a thread is acknowledged in the thread.        *)
NeverTold(target) == FALSE
ToldInThread(target) == target.kind \in {"message", "conversation"}
OpenCaseEvent(c) ==
    LET k == calls[c].case IN
    /\ calls[c].step = "opened"
    /\ events' = [events EXCEPT ![k] = Append(@, [from |-> "none", to |-> "open"])]
    /\ IF ToldInThread(calls[c].target) THEN Hold(c, [calls[c] EXCEPT !.step = "notice"]) ELSE End(c)
    /\ UNCHANGED <<area, cases, messages, flags, notices, file, desk, stale>>

ThreadOf(target) == IF target.kind = "message" THEN messages[target.of].thread ELSE target.of
ReportNotice(c) ==
    /\ calls[c].step = "notice"
    /\ notices' = notices \cup {[thread |-> ThreadOf(calls[c].target), kind |-> "report_submitted"]}
    /\ End(c)
    /\ UNCHANGED <<area, cases, events, messages, flags, file, desk, stale>>

(* A process dies after the case; the case counts as stale.                *)
OpenCaseDies(c) ==
    /\ calls[c].step \in {"opened", "notice"}
    /\ stale' = stale \cup {calls[c].case}
    /\ End(c)
    /\ UNCHANGED <<area, cases, events, messages, flags, notices, file, desk>>

AnyTransition(from, to) == from # to
CanTransitionCase(from, to) ==
    to \in CASE from = "open" -> {"triaging", "evidence_preserved", "dismissed", "escalated"}
             [] from = "triaging" -> {"evidence_preserved", "actioned", "dismissed", "escalated"}
             [] from = "evidence_preserved" -> {"actioned", "dismissed", "escalated"}
             [] from = "escalated" -> Terminal
             [] OTHER -> {}

TransitionRead(c, k, to) ==
    /\ Idle(c, "cases") /\ CanTransitionCase(cases[k].state, to)
    /\ Hold(c, [NoCall EXCEPT !.step = "move", !.case = k, !.from = cases[k].state, !.to = to])
    /\ UNCHANGED <<area, cases, events, messages, flags, notices, file, desk, stale>>

(* A state outside the enumeration, for a mutant.                          *)
Reopened(row, to) == [row EXCEPT !.state = "reopened"]
NeverClosed(row, to) == [row EXCEPT !.state = to]
Moved(row, to) == [row EXCEPT !.state = to, !.closed = @ \/ to \in Terminal]
FromOpen(from, to) == [from |-> "open", to |-> to]
MoveEvent(from, to) == [from |-> from, to |-> to]

TransitionWrite(c) ==
    LET k == calls[c].case IN
    /\ calls[c].step = "move" /\ Len(events[k]) < MaxEvents
    /\ cases' = [cases EXCEPT ![k] = Moved(@, calls[c].to)]
    /\ events' = [events EXCEPT ![k] = Append(@, MoveEvent(calls[c].from, calls[c].to))]
    /\ stale' = IF cases[k].state # calls[c].from THEN stale \cup {k} ELSE stale
    /\ End(c)
    /\ UNCHANGED <<area, messages, flags, notices, file, desk>>

(***************************************************************************)
(* Messages (who may send at all is in Guides)                             *)
(***************************************************************************)

(* An attachment must be the sender's own and must have passed its scan;   *)
(* then the messages of a guide are counted.                               *)
Exercised(sender, text, attached) ==    \* what the areas are about
    CASE area = "messages" -> ~attached
      [] area = "rate" -> sender = "guide" /\ text = {} /\ ~attached
      [] area = "files" -> sender = "student" /\ text = {} /\ attached
      [] area = "reports" -> sender = "student" /\ text = {} /\ ~attached
      [] OTHER -> FALSE

AnyFile(attached) == TRUE
Sendable(attached) == attached => file = "clean"
Send(c, thread, sender, text, attached) ==
    /\ calls[c].step = "idle" /\ Len(messages) < MaxMessages
    /\ Exercised(sender, text, attached) /\ Sendable(attached)
    /\ Hold(c, [NoCall EXCEPT
           !.step = IF sender = "guide" THEN "count" ELSE "store",
           !.message = [AnyMessage EXCEPT !.thread = thread, !.sender = sender, !.text = text,
                                          !.attached = attached]])
    /\ UNCHANGED <<area, cases, events, messages, flags, notices, file, desk, stale>>

Recent == {n \in DOMAIN messages: messages[n].fresh /\ messages[n].sender = "guide"}
Written(set) == {messages[n].thread: n \in set}
Unlimited == FALSE
ExceedsMessageRate == Cardinality(Recent) > Rate \/ Cardinality(Written(Recent)) > Recipients

Storing == \E c \in Callers: calls[c].step = "store" /\ calls[c].message.sender = "guide"
Count(c) ==
    /\ calls[c].step = "count" /\ ~ExceedsMessageRate
    /\ Hold(c, [calls[c] EXCEPT !.step = "store", !.message.over = Storing])
    /\ UNCHANGED <<area, cases, events, messages, flags, notices, file, desk, stale>>

(* One too many: a case about the guide, and the send is refused.          *)
RefuseSpam(c) ==
    /\ calls[c].step = "count" /\ ExceedsMessageRate
    /\ OpenCase(c, TheGuide, "spam", "medium")

(* The message, its case and its flags, in one transaction.                *)
CaseFlagged(case, signals) == 0
CitedCase(case, signals) == case
Store(c) ==
    LET m == calls[c].message
        found == ScanMessage(m.text, m.sender)
        opens == OpensCase(found, m.sender)
        n == Len(messages) + 1
    IN
    /\ calls[c].step = "store" /\ n <= MaxMessages
    /\ opens => Len(cases) < MaxCases
    /\ messages' = Append(messages, [m EXCEPT !.state = IF found = <<>> THEN "clean" ELSE "flagged"])
    /\ IF opens
       THEN /\ cases' = Append(cases, CaseOf(TheGuide, SIGNAL_CASE_TYPE(found[1]),
                                             HighestSeverity(found, m.sender), "evidence_preserved"))
            /\ events' = Append(events, <<[from |-> "none", to |-> "evidence_preserved"]>>)
            /\ notices' = notices \cup {[thread |-> m.thread, kind |-> "risk_flagged"]}
       ELSE UNCHANGED <<cases, events, notices>>
    /\ flags' = flags \cup {[message |-> n, signal |-> s, severity |-> RULES(s, m.sender),
                              case |-> CitedCase(IF opens THEN Len(cases) + 1 ELSE 0, found)]:
                             s \in ToSet(found)}
    /\ End(c)
    /\ UNCHANGED <<area, file, desk, stale>>

(* The file is scanned, perhaps again (DocumentVault).                     *)
Later(message) == [message EXCEPT !.rescanned = message.attached]
Rescan ==
    /\ area = "files"
    /\ file' \in {"clean", "quarantined"} \ {file}
    /\ calls' = [c \in Callers |-> [calls[c] EXCEPT !.message = Later(@)]]
    /\ messages' = [n \in DOMAIN messages |-> Later(messages[n])]
    /\ UNCHANGED <<area, cases, events, flags, notices, desk, stale>>

(* An hour after message n, it no longer counts.                           *)
HourPasses(n) ==
    /\ area = "rate" /\ n \in Recent
    /\ messages' = [k \in DOMAIN messages |->
                       IF k <= n THEN [messages[k] EXCEPT !.fresh = FALSE] ELSE messages[k]]
    /\ UNCHANGED <<area, cases, events, flags, notices, file, desk, calls, stale>>

(***************************************************************************)
(* The console                                                             *)
(***************************************************************************)

OnDesk(c) == UNCHANGED <<area, cases, events, messages, flags, notices, file, stale>>

(* A row comes to wait, for the first time or again; it is decided.        *)
Waits(r) ==
    /\ area = "console" /\ ~desk.rows[r].pending
    /\ desk' = [desk EXCEPT !.rows[r] =
           [pending |-> TRUE, since |-> desk.now, created |-> IF @.since = 0 THEN desk.now ELSE @.created]]
    /\ UNCHANGED <<area, cases, events, messages, flags, notices, file, calls, stale>>

Decided(r) ==
    /\ area = "console" /\ desk.rows[r].pending
    /\ desk' = [desk EXCEPT !.rows[r].pending = FALSE]
    /\ UNCHANGED <<area, cases, events, messages, flags, notices, file, calls, stale>>

Tick ==
    /\ area = "console" /\ desk.now < MaxTime
    /\ desk' = [desk EXCEPT !.now = @ + 1]
    /\ UNCHANGED <<area, cases, events, messages, flags, notices, file, calls, stale>>

(* Another piece of evidence comes in, numbered on (two are enough).       *)
AddEvidence ==
    /\ area = "console" /\ desk.evidence < 2
    /\ desk' = [desk EXCEPT !.evidence = @ + 1]
    /\ UNCHANGED <<area, cases, events, messages, flags, notices, file, calls, stale>>

(* Evidence is read, the look is logged, and only then it is returned; if  *)
(* the audit write fails the read fails with it.                           *)
ViewEvidence(c) ==
    /\ Idle(c, "console")
    /\ Hold(c, [NoCall EXCEPT !.step = "view", !.evidence = desk.evidence])
    /\ UNCHANGED desk /\ OnDesk(c)

Forgotten(c) == desk
Logged(c) == [desk EXCEPT !.logged = IF @ < calls[c].evidence THEN calls[c].evidence ELSE @]
LogLook(c) ==
    /\ calls[c].step = "view"
    /\ desk' = Logged(c)
    /\ Hold(c, [calls[c] EXCEPT !.step = "logged"])
    /\ OnDesk(c)

LookFails(c) == calls[c].step = "view" /\ End(c) /\ UNCHANGED desk /\ OnDesk(c)

ShowEvidence(c) ==
    /\ calls[c].step = "logged"
    /\ desk' = [desk EXCEPT !.seen = IF @ < calls[c].evidence THEN calls[c].evidence ELSE @]
    /\ End(c) /\ OnDesk(c)

(* The queue lists the rows created first (it asks for Limit of them), and *)
(* measures how long they wait from there.                                 *)
Waiting == {r \in Rows: desk.rows[r].pending}
Listed == {r \in Waiting:
             Cardinality({q \in Waiting: desk.rows[q].created < desk.rows[r].created}) < Limit}
AgeAtEnd(r) == 0
AgeHours(r) == desk.now - desk.rows[r].created
BreachingSla(r) == r \in Listed /\ AgeHours(r) > Sla

(* The counts of the header.                                               *)
HeaderCounts == {k \in DOMAIN cases: cases[k].state \in {"open", "triaging"}}

Next ==
    \/ \E c \in Callers:
        \/ \E target \in Reportable, type \in ReportTypes: Report(c, target, type)
        \/ OpenCaseEvent(c) \/ ReportNotice(c) \/ OpenCaseDies(c) \/ TransitionWrite(c)
        \/ \E k \in DOMAIN cases, to \in TrustCaseState: TransitionRead(c, k, to)
        \/ \E thread \in Threads, sender \in {"student", "guide"}, text \in Texts,
              attached \in BOOLEAN: Send(c, thread, sender, text, attached)
        \/ Count(c) \/ RefuseSpam(c) \/ Store(c)
        \/ ViewEvidence(c) \/ LogLook(c) \/ LookFails(c) \/ ShowEvidence(c)
    \/ Rescan \/ \E n \in 1..MaxMessages: HourPasses(n)
    \/ \E r \in Rows: Waits(r) \/ Decided(r)
    \/ Tick \/ AddEvidence

Spec == Init /\ [][Next]_vars

(* hasOpenCase: what the reward ledger withholds on.                       *)
HasOpenCase == \E k \in DOMAIN cases: cases[k].target.kind = "guide" /\ cases[k].state \in OpenState

(***************************************************************************)
(* Properties                                                              *)
(***************************************************************************)

(* The history of a case is a chain that starts where it was opened and    *)
(* ends in its state (transition writes both in one transaction), unless   *)
(* two moves overlapped or a move came before the first event.             *)
ChainHolds(k) ==
    LET trail == SelectSeq(events[k], LAMBDA e: e.from # "none") IN
    /\ \A i \in 1..Len(trail) - 1: trail[i + 1].from = trail[i].to
    /\ trail # <<>> => Last(trail).to = cases[k].state
HistoryIsAChain == \A k \in DOMAIN cases: ChainHolds(k)
HistoryIsAChainUnlessStale == \A k \in DOMAIN cases \ stale: ChainHolds(k)

(* "dismissed and actioned are terminal: reopening is a new case", unless  *)
(* two moves overlapped.                                                   *)
TerminalStays ==
    [][\A k \in DOMAIN cases: cases[k].state \in Terminal => cases'[k].state = cases[k].state]_cases
ClosedIsTerminalUnlessStale ==
    \A k \in DOMAIN cases \ stale: cases[k].closed <=> cases[k].state \in Terminal

(* Whatever a message matched of the rules for its sender is evidence: it  *)
(* is stored as flagged with a flag for each finding; a finding above low  *)
(* has a case about the guide, no less severe than any of them, and its    *)
(* thread says so; a low one summons nobody.                               *)
FlagsOf(n) == {f \in flags: f.message = n}
EveryFindingIsEvidence ==
    \A n \in DOMAIN messages:
        LET m == messages[n]
            expected == {s \in m.text: AppliesTo(s, m.sender)}
            grave == \E s \in expected: RULES(s, m.sender) # "low"
        IN
        /\ {f.signal: f \in FlagsOf(n)} = expected
        /\ m.state = "flagged" <=> expected # {}
        /\ \A f \in FlagsOf(n):
               /\ f.case # 0 <=> grave
               /\ grave => /\ cases[f.case].target = TheGuide
                           /\ SEVERITY_ORDER(cases[f.case].severity) >= SEVERITY_ORDER(f.severity)
                           /\ [thread |-> m.thread, kind |-> "risk_flagged"] \in notices

(* A guide writes at most one message, and to one student, more in an hour *)
(* than the limits say: they are compared before the message is stored.    *)
(* Messages that are counted together may add to it.                       *)
WithinRateUnlessOverlapped ==
    \/ \E n \in Recent: messages[n].over
    \/ /\ Cardinality(Recent) <= Rate + 1
       /\ Cardinality(Written(Recent)) <= Recipients + 1
WithinRate == Cardinality(Recent) <= Rate /\ Cardinality(Written(Recent)) <= Recipients

(* No message carries a file that is not clean (the rule of the vault, at  *)
(* assertAttachmentIsSendable), unless the file was scanned once more      *)
(* after that check.                                                       *)
AttachedIsCleanUnlessRescanned ==
    \A n \in DOMAIN messages: messages[n].attached => file = "clean" \/ messages[n].rescanned
AttachedIsClean == \A n \in DOMAIN messages: messages[n].attached => file = "clean"

(* Who reports a message or a thread is told in it (report), unless the    *)
(* process died in between.                                                *)
Handled == {calls[c].case: c \in Callers}
ReportIsAcknowledgedUnlessDied ==
    \A k \in DOMAIN cases \ (stale \cup Handled):
        cases[k].target.kind # "guide" =>
            [thread |-> ThreadOf(cases[k].target), kind |-> "report_submitted"] \in notices

(* "an unlogged look at somebody's incorporation documents is precisely    *)
(* the thing this endpoint exists to make impossible" (evidenceFor).       *)
SeenIsLogged == desk.seen <= desk.logged

(* Whoever has waited longer than the SLA is shown as breaching, while the *)
(* queue has room for all (verificationQueue).                             *)
LateIsShownUnlessCrowded ==
    Cardinality(Waiting) <= Limit =>
        \A r \in Waiting: desk.now - desk.rows[r].since > Sla => BreachingSla(r)

(* Not so: what is shown as breaching has waited that long ("sorted by how *)
(* long the person on the other end has been waiting rather than by when   *)
(* the row was created": it is the creation that is read), and the longest *)
(* waits are listed first; the header counts every case that is open, the  *)
(* automatic ones among them; a case names who wrote the message; it is    *)
(* filed as its gravest finding; and one burst of messages opens one case. *)
BreachingIsLate == \A r \in Rows: BreachingSla(r) => desk.now - desk.rows[r].since > Sla
LongestIsListed ==
    \A r \in Listed, q \in Waiting \ Listed: desk.rows[r].since <= desk.rows[q].since
HeaderCountsOpen == HeaderCounts = {k \in DOMAIN cases: cases[k].state \in OpenState}
CaseIsAboutWhoWrote ==
    \A f \in flags: f.case # 0 => messages[f.message].sender = "guide"
FiledAsTheGravest ==
    \A f \in flags: f.case # 0 /\ f.severity = "critical" =>
        cases[f.case].type \in {"payment_solicitation", "impersonation"}
OneCasePerBurst ==
    Cardinality({k \in DOMAIN cases: cases[k].type = "spam" /\ cases[k].state = "open"}) <= 1
=============================================================================
