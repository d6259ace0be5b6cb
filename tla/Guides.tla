------------------------------- MODULE Guides -------------------------------
(***************************************************************************)
(* One student guide: evidence and verification (GuidesService), the sweep *)
(* that acts on expired evidence (ReverificationService), sanctions        *)
(* (SanctionsService) and the guide's conversations with a student         *)
(* (MessagingService).  A handler reads, then writes; others run between.  *)
(* Bookings, which a suspension cancels too, are in GuideSessions.         *)
(***************************************************************************)
EXTENDS Naturals, FiniteSets, FiniteSetsExt

CONSTANTS
    Callers,        \* requests and jobs that can be in progress at once
    Places,         \* what a guide can study: a programme at an institution
    Mixes,          \* bound: sets of handlers called in one behaviour
    CrashSteps,     \* the steps at which a process may die
    Validity,       \* how long evidence is good for
    Warning, Grace, \* how long before and after its expiry the sweep warns and suspends
    MaxEvidence, MaxThreads, MaxSanctions, MaxTime   \* bounds

GuidesAssumption ==
    /\ {Validity, Warning, Grace, MaxEvidence, MaxThreads, MaxSanctions, MaxTime} \subseteq Nat
    /\ Validity > 0 /\ Places # {}

VARIABLES
    guide,         \* the row of the guide
    evidence,      \* the rows of evidence, in the order they were made
    threads,       \* the conversations, in the order they were opened
    sanctions,     \* the sanctions, in the order they were applied
    flags,         \* threads with a preserved critical message, each with its case
    calls, now, mix,
    acted,         \* threads an automatic suspension was for (history)
    reinstated,    \* the state was last set by lifting a sanction (history)
    died           \* the steps a process died at (history)

vars == <<guide, evidence, threads, sanctions, flags, calls, now, mix, acted, reinstated, died>>

Operation == {"submit", "challenge", "confirm", "verify", "profile", "endorse", "sanction",
              "reverse", "sweep", "open", "send", "close"}
Step == {"idle", "stage_write", "confirm_write", "verify_write", "profile_write",
         "suspend_find", "suspend_commit", "restrict_write", "restrict_tell", "notify_write",
         "reverse_write", "reinstate", "open_write", "send_write", "close_write"}

GuideState == {"pending", "active", "restricted", "suspended"}
SanctionKind == {"warn", "restrict", "suspend"}      \* a ban does what a suspension does
Context == {"general", "program"}                    \* a general one has a null contextId
ThreadStatus == {"open", "closed", "suspended"}
Notice == {"guide_suspended", "guide_restricted"}
Role == {"student", "guide"}

(* Stages 1 to 4: identity, evidence, confirmation, active.  An expiry of  *)
(* 0 is null.                                                              *)
Stage == 1..4
Time == 0..MaxTime
Expiry == 0..MaxTime + Validity
Guide == [state: GuideState, stage: Stage, at: Places, expires: Expiry, warned: BOOLEAN,
          endorsedAt: Places \cup {0}]
(* about: what the guide studied when the row was made (history).          *)
Evidence == [challenged: BOOLEAN, verified: BOOLEAN, until: Expiry, about: Places]
(* raced: opened while a suspension or restriction took effect (history).  *)
Thread == [context: Context, status: ThreadStatus, notices: SUBSET Notice, raced: BOOLEAN]
Sanction == [kind: SanctionKind, live: BOOLEAN]
Call == [step: Step, n: Nat, stage: Stage, value: Expiry, place: Places, context: Context,
         role: Role, critical: BOOLEAN, found: SUBSET (1..MaxThreads)]

SomePlace == CHOOSE p \in Places: TRUE
NoCall == [step |-> "idle", n |-> 0, stage |-> 1, value |-> 0, place |-> SomePlace,
           context |-> "general", role |-> "student", critical |-> FALSE, found |-> {}]

TypeOK ==
    /\ guide \in Guide
    /\ DOMAIN evidence \subseteq 1..MaxEvidence /\ evidence \in [DOMAIN evidence -> Evidence]
    /\ DOMAIN threads \subseteq 1..MaxThreads /\ threads \in [DOMAIN threads -> Thread]
    /\ DOMAIN sanctions \subseteq 1..MaxSanctions /\ sanctions \in [DOMAIN sanctions -> Sanction]
    /\ flags \subseteq DOMAIN threads /\ acted \subseteq DOMAIN threads
    /\ calls \in [Callers -> Call] /\ now \in Time /\ mix \in Mixes
    /\ reinstated \in BOOLEAN /\ died \subseteq CrashSteps

(* register has run at a university with a guide programme.                *)
Init ==
    /\ guide = [state |-> "pending", stage |-> 1, at |-> SomePlace, expires |-> 0,
                warned |-> FALSE, endorsedAt |-> 0]
    /\ evidence = [e \in {} |-> 0] /\ threads = [t \in {} |-> 0] /\ sanctions = [s \in {} |-> 0]
    /\ flags = {} /\ acted = {} /\ reinstated = FALSE /\ died = {}
    /\ calls = [c \in Callers |-> NoCall]
    /\ now = 0 /\ mix \in Mixes

At(c, step) == calls[c].step = step
N(c) == calls[c].n
Begin(c, op) == At(c, "idle") /\ op \in mix
Goto(c, step) == calls' = [calls EXCEPT ![c].step = step]
Hold(c, call) == calls' = [calls EXCEPT ![c] = call]
End(c) == Hold(c, NoCall)
Room(rows, max) == Cardinality(DOMAIN rows) < max
Add(rows, row) == [i \in DOMAIN rows \cup {Cardinality(DOMAIN rows) + 1} |->
                      IF i \in DOMAIN rows THEN rows[i] ELSE row]

(***************************************************************************)
(* Evidence and verification                                               *)
(***************************************************************************)

(* The stage moves forward of the one read before the evidence was stored. *)
Advance(c, to) ==
    IF to > guide.stage
    THEN Hold(c, [NoCall EXCEPT !.step = "stage_write", !.stage = to]) ELSE End(c)

Row(challenged, until) ==
    [challenged |-> challenged, verified |-> FALSE, until |-> until, about |-> guide.at]

SubmitEvidence(c) ==
    /\ Begin(c, "submit") /\ Room(evidence, MaxEvidence)
    /\ evidence' = Add(evidence, Row(FALSE, 0))
    /\ Advance(c, 2)
    /\ UNCHANGED <<guide, threads, sanctions, flags, now, mix, acted, reinstated, died>>

StageWrite(c) ==
    /\ At(c, "stage_write")
    /\ guide' = [guide EXCEPT !.stage = calls[c].stage]
    /\ End(c)
    /\ UNCHANGED <<evidence, threads, sanctions, flags, now, mix, acted, reinstated, died>>

(* A challenge lasts one unit of time; until is its own expiry at first.   *)
IssueEmailChallenge(c) ==
    /\ Begin(c, "challenge") /\ Room(evidence, MaxEvidence)
    /\ evidence' = Add(evidence, Row(TRUE, now + 1))
    /\ UNCHANGED <<guide, threads, sanctions, flags, calls, now, mix, acted, reinstated, died>>

ConfirmRead(c, e) ==
    /\ Begin(c, "confirm")
    /\ evidence[e].challenged /\ ~evidence[e].verified /\ evidence[e].until > now
    /\ Hold(c, [NoCall EXCEPT !.step = "confirm_write", !.n = e])
    /\ UNCHANGED <<guide, evidence, threads, sanctions, flags, now, mix, acted, reinstated, died>>

ConfirmWrite(c) ==
    /\ At(c, "confirm_write")
    /\ evidence' = [evidence EXCEPT ![N(c)].verified = TRUE, ![N(c)].until = now + Validity]
    /\ Advance(c, 3)
    /\ UNCHANGED <<guide, threads, sanctions, flags, now, mix, acted, reinstated, died>>

AnyEvidence == DOMAIN evidence
LiveEvidence == {e \in DOMAIN evidence: evidence[e].verified /\ evidence[e].until > now}

(* Trust activates on the evidence in the database, not on its word.       *)
VerifyRead(c) ==
    /\ Begin(c, "verify") /\ LiveEvidence # {}
    /\ Hold(c, [NoCall EXCEPT !.step = "verify_write",
                              !.value = Max({evidence[e].until : e \in LiveEvidence})])
    /\ UNCHANGED <<guide, evidence, threads, sanctions, flags, now, mix, acted, reinstated, died>>

ForgettingWarning(until) == [guide EXCEPT !.state = "active", !.stage = 4, !.expires = now + Validity]
ExtendedAgain(until) ==
    [guide EXCEPT !.state = "active", !.stage = 4, !.expires = until + Validity, !.warned = FALSE]
Activated(until) ==
    [guide EXCEPT !.state = "active", !.stage = 4, !.expires = until, !.warned = FALSE]

VerifyWrite(c) ==
    /\ At(c, "verify_write")
    /\ guide' = Activated(calls[c].value)
    /\ reinstated' = FALSE
    /\ End(c)
    /\ UNCHANGED <<evidence, threads, sanctions, flags, now, mix, acted, died>>

(* The guide studies something else from now on.                           *)
ProfileRead(c, place) ==
    /\ Begin(c, "profile") /\ place # guide.at
    /\ Hold(c, [NoCall EXCEPT !.step = "profile_write", !.place = place])
    /\ UNCHANGED <<guide, evidence, threads, sanctions, flags, now, mix, acted, reinstated, died>>

ProfileWrite(c) ==
    /\ At(c, "profile_write")
    /\ guide' = [guide EXCEPT !.at = calls[c].place, !.state = "pending", !.stage = 2]
    /\ End(c)
    /\ UNCHANGED <<evidence, threads, sanctions, flags, now, mix, acted, reinstated, died>>

Endorse(c) ==
    /\ Begin(c, "endorse")
    /\ \E endorsed \in BOOLEAN:
           guide' = [guide EXCEPT !.endorsedAt = IF endorsed THEN guide.at ELSE 0]
    /\ UNCHANGED <<evidence, threads, sanctions, flags, calls, now, mix, acted, reinstated, died>>

(***************************************************************************)
(* Suspension and restriction                                              *)
(***************************************************************************)

Open == {t \in DOMAIN threads: threads[t].status = "open"}
Told(ts, notice) ==
    [t \in DOMAIN threads |->
        IF t \in ts THEN [threads[t] EXCEPT !.notices = @ \cup {notice}] ELSE threads[t]]

Unsilenced(state) == guide
Silenced(state) == [guide EXCEPT !.state = state]

(* One transaction, which others see at its end: the threads it tells are  *)
(* the ones it found open, those it suspends the ones open by then.        *)
SuspendFind(c) ==
    /\ At(c, "suspend_find")
    /\ calls' = [calls EXCEPT ![c].step = "suspend_commit", ![c].found = Open]
    /\ UNCHANGED <<guide, evidence, threads, sanctions, flags, now, mix, acted, reinstated, died>>

TellingNobody(c) == threads
ToldFound(c) == Told(calls[c].found, "guide_suspended")

SuspendCommit(c) ==
    /\ At(c, "suspend_commit")
    /\ guide' = Silenced("suspended")
    /\ threads' = [t \in DOMAIN threads |->
                      IF t \in Open THEN [ToldFound(c)[t] EXCEPT !.status = "suspended"]
                      ELSE ToldFound(c)[t]]
    /\ acted' = IF calls[c].critical THEN acted \cup {N(c)} ELSE acted
    /\ reinstated' = FALSE
    /\ End(c)
    /\ UNCHANGED <<evidence, sanctions, flags, now, mix, died>>

(* Not a transaction: the state first, then a message in every thread.     *)
RestrictWrite(c) ==
    /\ At(c, "restrict_write")
    /\ guide' = Silenced("restricted")
    /\ Goto(c, "restrict_tell") /\ reinstated' = FALSE
    /\ UNCHANGED <<evidence, threads, sanctions, flags, now, mix, acted, died>>

TellNobody(c) == At(c, "restrict_tell") /\ End(c) /\ UNCHANGED <<guide, evidence, threads, sanctions, flags, now, mix, acted, reinstated, died>>
RestrictTell(c) ==
    /\ At(c, "restrict_tell")
    /\ threads' = Told(Open, "guide_restricted")
    /\ End(c)
    /\ UNCHANGED <<guide, evidence, sanctions, flags, now, mix, acted, reinstated, died>>

(* guideLifecycleDecision, of the row the sweep has read.                  *)
Decision ==
    IF now >= guide.expires + Grace THEN "suspend_find"
    ELSE IF now >= guide.expires THEN IF guide.state = "restricted" THEN "idle" ELSE "restrict_write"
    ELSE IF guide.state = "active" /\ ~guide.warned THEN "notify_write" ELSE "idle"

Sweep(c) ==
    /\ Begin(c, "sweep")
    /\ guide.state \in {"active", "restricted"}
    /\ guide.expires # 0 /\ guide.expires <= now + Warning
    /\ Decision # "idle"
    /\ Hold(c, [NoCall EXCEPT !.step = Decision])
    /\ UNCHANGED <<guide, evidence, threads, sanctions, flags, now, mix, acted, reinstated, died>>

NotifyWrite(c) ==
    /\ At(c, "notify_write")
    /\ guide' = [guide EXCEPT !.warned = TRUE]
    /\ End(c)
    /\ UNCHANGED <<evidence, threads, sanctions, flags, now, mix, acted, reinstated, died>>

(***************************************************************************)
(* Sanctions: the row first, then its effect                               *)
(***************************************************************************)

Effect(kind) == CASE kind = "warn"     -> "idle"
                  [] kind = "restrict" -> "restrict_write"
                  [] kind = "suspend"  -> "suspend_find"

ApplySanction(c, kind) ==
    /\ Begin(c, "sanction") /\ Room(sanctions, MaxSanctions)
    /\ sanctions' = Add(sanctions, [kind |-> kind, live |-> TRUE])
    /\ Hold(c, [NoCall EXCEPT !.step = Effect(kind)])
    /\ UNCHANGED <<guide, evidence, threads, flags, now, mix, acted, reinstated, died>>

ReverseRead(c, s) ==
    /\ Begin(c, "reverse") /\ sanctions[s].live
    /\ Hold(c, [NoCall EXCEPT !.step = "reverse_write", !.n = s])
    /\ UNCHANGED <<guide, evidence, threads, sanctions, flags, now, mix, acted, reinstated, died>>

ReverseWrite(c) ==
    /\ At(c, "reverse_write")
    /\ sanctions' = [sanctions EXCEPT ![N(c)].live = FALSE]
    /\ IF sanctions[N(c)].kind = "warn" THEN End(c) ELSE Goto(c, "reinstate")
    /\ UNCHANGED <<guide, evidence, threads, flags, now, mix, acted, reinstated, died>>

(* Back to active whatever the state was; the sweep is to look again.      *)
Reinstate(c) ==
    /\ At(c, "reinstate")
    /\ guide' = [guide EXCEPT !.state = "active"]
    /\ reinstated' = TRUE
    /\ End(c)
    /\ UNCHANGED <<evidence, threads, sanctions, flags, now, mix, acted, died>>

(***************************************************************************)
(* Conversations with a student                                            *)
(***************************************************************************)

OpenRead(c, context) ==
    /\ Begin(c, "open") /\ guide.state = "active" /\ Room(threads, MaxThreads)
    /\ \A t \in DOMAIN threads: threads[t].context # context
    /\ Hold(c, [NoCall EXCEPT !.step = "open_write", !.context = context])
    /\ UNCHANGED <<guide, evidence, threads, sanctions, flags, now, mix, acted, reinstated, died>>

(* The unique index counts two null contexts as different.                 *)
NoIndex(context) == FALSE
Taken(context) == context # "general" /\ \E t \in DOMAIN threads: threads[t].context = context

TakingEffect == \E c \in Callers: calls[c].step \in {"suspend_commit", "restrict_tell"}
OpenWrite(c) ==
    LET context == calls[c].context IN
    /\ At(c, "open_write")
    /\ threads' = IF Taken(context) \/ ~Room(threads, MaxThreads) THEN threads
                  ELSE Add(threads, [context |-> context, status |-> "open", notices |-> {},
                                     raced |-> guide.state # "active" \/ TakingEffect])
    /\ End(c)
    /\ UNCHANGED <<guide, evidence, sanctions, flags, now, mix, acted, reinstated, died>>

CanSendMessage(role, t) == threads[t].status = "open" /\ (role = "guide" => guide.state = "active")

SendRead(c, t, role) ==
    /\ Begin(c, "send") /\ CanSendMessage(role, t)
    /\ \E critical \in BOOLEAN:
           Hold(c, [NoCall EXCEPT !.step = "send_write", !.n = t, !.role = role,
                                  !.critical = critical])
    /\ UNCHANGED <<guide, evidence, threads, sanctions, flags, now, mix, acted, reinstated, died>>

(* The message with its flag and its case; then, of a guide, the action.   *)
Unpreserved(c) == flags
Preserved(c) == IF calls[c].critical THEN flags \cup {N(c)} ELSE flags

SendWrite(c) ==
    /\ At(c, "send_write")
    /\ flags' = Preserved(c)
    /\ IF calls[c].critical /\ calls[c].role = "guide" THEN Goto(c, "suspend_find") ELSE End(c)
    /\ UNCHANGED <<guide, evidence, threads, sanctions, now, mix, acted, reinstated, died>>

CloseRead(c, t) ==
    /\ Begin(c, "close") /\ threads[t].status = "open"
    /\ Hold(c, [NoCall EXCEPT !.step = "close_write", !.n = t])
    /\ UNCHANGED <<guide, evidence, threads, sanctions, flags, now, mix, acted, reinstated, died>>

CloseWrite(c) ==
    /\ At(c, "close_write")
    /\ threads' = [threads EXCEPT ![N(c)].status = "closed"]
    /\ End(c)
    /\ UNCHANGED <<guide, evidence, sanctions, flags, now, mix, acted, reinstated, died>>

(***************************************************************************)
(* Time passes, a process dies                                             *)
(***************************************************************************)

(* Time matters only where something may expire (bound).                   *)
Tick ==
    /\ now < MaxTime /\ "sweep" \in mix
    /\ now' = now + 1
    /\ UNCHANGED <<guide, evidence, threads, sanctions, flags, calls, mix, acted, reinstated, died>>

Dies(c) ==
    /\ calls[c].step \in CrashSteps \ died
    /\ died' = died \cup {calls[c].step}
    /\ End(c)
    /\ UNCHANGED <<guide, evidence, threads, sanctions, flags, now, mix, acted, reinstated>>

SilencingStep(c) == SuspendFind(c) \/ SuspendCommit(c) \/ RestrictWrite(c) \/ RestrictTell(c)

Next ==
    \/ \E c \in Callers:
           \/ SubmitEvidence(c) \/ StageWrite(c) \/ IssueEmailChallenge(c)
           \/ ConfirmWrite(c) \/ VerifyRead(c) \/ VerifyWrite(c)
           \/ ProfileWrite(c) \/ Endorse(c)
           \/ SilencingStep(c) \/ Sweep(c) \/ NotifyWrite(c)
           \/ ReverseWrite(c) \/ Reinstate(c)
           \/ OpenWrite(c) \/ SendWrite(c) \/ CloseWrite(c) \/ Dies(c)
           \/ \E e \in DOMAIN evidence: ConfirmRead(c, e)
           \/ \E place \in Places: ProfileRead(c, place)
           \/ \E kind \in SanctionKind: ApplySanction(c, kind)
           \/ \E s \in DOMAIN sanctions: ReverseRead(c, s)
           \/ \E context \in Context: OpenRead(c, context)
           \/ \E t \in DOMAIN threads:
                  CloseRead(c, t) \/ \E role \in Role: SendRead(c, t, role)
    \/ Tick

Spec == Init /\ [][Next]_vars

(* What has started to silence a guide goes on, unless its process dies.   *)
Fairness == \A c \in Callers: WF_vars(SilencingStep(c))
FairSpec == Spec /\ Fairness

(***************************************************************************)
(* Properties                                                              *)
(***************************************************************************)

(* Whatever interleaves, an active guide has evidence that was verified,   *)
(* unless lifting a sanction made the guide active (GuidesService.verify). *)
Backed == \E e \in DOMAIN evidence: evidence[e].verified
ActiveIsBackedUnlessReinstated == guide.state = "active" /\ ~reinstated => Backed

(* The same without the condition: "verification cannot reach `active`     *)
(* without a verified row" (the class comment of GuidesService).           *)
ActiveIsBacked == guide.state = "active" => Backed

(* The expiry the sweep goes by is never later than what some verified     *)
(* evidence gives, so that a sweep is never too late (VerifyWrite mirrors  *)
(* the expiry of the evidence it read).                                    *)
ExpiryMirrorsEvidence ==
    guide.expires # 0 =>
        \E e \in DOMAIN evidence: evidence[e].verified /\ evidence[e].until >= guide.expires

(* The evidence of an active guide is about what the guide studies         *)
(* ("Evidence proves you study there", updateProfile).                     *)
ActiveStudiesThere ==
    guide.state = "active" /\ ~reinstated =>
        \E e \in DOMAIN evidence: evidence[e].verified /\ evidence[e].about = guide.at

(* An endorsement is by the university the guide is at ("the university    *)
(* confirming this guide is one of its students").                         *)
EndorsedWhereStudying == guide.endorsedAt \in {0, guide.at}

(* A thread that a suspension took down says so, unless it was opened      *)
(* while the suspension took effect (GuidesService.suspend).               *)
SuspendedWereToldUnlessRaced ==
    \A t \in DOMAIN threads:
        threads[t].status = "suspended" /\ ~threads[t].raced =>
            "guide_suspended" \in threads[t].notices

(* The same of every thread: "cannot come apart" (its comment).            *)
SuspendedWereTold ==
    \A t \in DOMAIN threads:
        threads[t].status = "suspended" => "guide_suspended" \in threads[t].notices

(* Once a restriction is through, every thread open meanwhile says so,     *)
(* unless the process died in between (GuidesService.restrict).            *)
RestrictedWereToldUnlessDied ==
    guide.state = "restricted" /\ died = {} /\ (\A c \in Callers: ~At(c, "restrict_tell")) =>
        \A t \in Open: threads[t].raced \/ "guide_restricted" \in threads[t].notices

(* No guide is suspended automatically before the message it is for, its   *)
(* snapshot and its case are preserved ("preserve evidence immutably       *)
(* before any moderation action", MessagingService).                       *)
EvidenceBeforeAction == acted \subseteq flags

(* A student has one thread with a guide about one programme, however      *)
(* often the button is pressed (the unique index of conversations).        *)
OneThreadPerProgramme ==
    \A t, u \in DOMAIN threads:
        threads[t].context = threads[u].context /\ threads[t].context = "program" => t = u

(* The same of every thread (the comment of openConversation).             *)
OneThreadPerContext ==
    \A t, u \in DOMAIN threads: threads[t].context = threads[u].context => t = u

(* The clock does not undo a suspension (guideLifecycleDecision).          *)
ClockNeverUndoes ==
    [][\A c \in Callers: RestrictWrite(c) => guide.state # "suspended"]_vars

(* A stage does not fall back but by a change of profile (advanceStage).   *)
StageForwardOnly ==
    [][guide'.stage >= guide.stage \/ guide'.at # guide.at]_vars

(* A suspended guide is in no open thread (the comment of suspend).        *)
SuspendedHasNoOpenThread == guide.state = "suspended" => Open = {}

(* A decision to suspend takes effect, unless its process dies             *)
(* (ReverificationService.sweep, "no human step").                         *)
Silencing(c) == calls[c].step \in {"suspend_find", "restrict_write"}
Silent == guide.state # "active" \/ died # {}
SuspensionTakesEffect == \A c \in Callers: Silencing(c) ~> Silent
=============================================================================
