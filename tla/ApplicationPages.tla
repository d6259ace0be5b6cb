-------------------------- MODULE ApplicationPages --------------------------
(***************************************************************************)
(* The pages on which a student starts an application and sends it         *)
(* (apps/web, start-application.tsx and application-wizard.tsx), with the  *)
(* part of the API they call.  A page shows what the server had when it    *)
(* was rendered; what it asks for is answered later, or never heard of     *)
(* again, and the page may have asked for something else by then.  The     *)
(* delivery to the university is only its outcome here (see Submission).   *)
(***************************************************************************)
EXTENDS Integers, Sequences, FiniteSets, ApplicationStates

CONSTANTS
    Tabs,             \* tabs of one student
    Consents,         \* how many consents a submission needs
    Mixes,            \* bound: what happens in one behaviour
    MaxKeys, MaxVersion, MaxRequests, MaxEpochs     \* bounds

PagesAssumption ==
    {Consents, MaxKeys, MaxVersion, MaxRequests, MaxEpochs} \subseteq Nat \ {0}

VARIABLES
    application,      \* the row, for the one intake
    world,            \* what is current: requirements, blockers, the intake
    keys,             \* idempotency records of the submissions
    submissions,      \* submissions made, in order (history)
    pages, requests,
    counts,           \* keys minted; loads, and presses that came to an end (history)
    past,             \* what may lead a page astray (history)
    mix

vars == <<application, world, keys, submissions, pages, requests, counts, past, mix>>

Keys == 1..MaxKeys
Numbers == 1..MaxRequests
Ticks == 1..Consents
State == ApplicationState \cup {"none"}
Activity == {"start", "prepare", "send", "lose", "elsewhere", "drift", "block", "close"}
Hazard == {"raced", "lost", "kept", "blocked"}

Application == [state: State, acknowledged: 0..MaxVersion, route: BOOLEAN,
                granted: 0..Consents]
NoApplication == [state |-> "none", acknowledged |-> 0, route |-> FALSE, granted |-> 0]
World == [requirements: 1..MaxVersion, blocked: BOOLEAN, open: BOOLEAN]
Submitted == [key: Keys, epoch: 1..MaxEpochs, blocked: BOOLEAN]

Shown == [state: State, blocked: BOOLEAN, route: BOOLEAN]
Page == [at: {"closed", "start", "application"}, shown: Shown, accepted: SUBSET Ticks,
         key: 0..MaxKeys, answered: BOOLEAN, step: 1..4, furthest: 1..4,
         busy: BOOLEAN, error: BOOLEAN, drift: BOOLEAN, refresh: BOOLEAN, epoch: 0..MaxEpochs]
ClosedPage == [at |-> "closed", shown |-> [state |-> "none", blocked |-> FALSE, route |-> FALSE],
               accepted |-> {}, key |-> 0, answered |-> FALSE, step |-> 1, furthest |-> 1,
               busy |-> FALSE, error |-> FALSE, drift |-> FALSE, refresh |-> FALSE, epoch |-> 0]

(* A request, what was answered to it, and whether its page still listens. *)
Request == [tab: Tabs, kind: {"none", "start", "ready", "consents", "submit"},
            key: 0..MaxKeys, accepted: SUBSET Ticks, epoch: 0..MaxEpochs,
            stage: {"none", "sent", "running", "answered"},
            answer: {"none", "ok", "existing", "refused", "drift"}, heard: BOOLEAN]
NoRequest == [tab |-> CHOOSE t \in Tabs: TRUE, kind |-> "none", key |-> 0, accepted |-> {},
              epoch |-> 0, stage |-> "none", answer |-> "none", heard |-> FALSE]

TypeOK ==
    /\ application \in Application /\ world \in World
    /\ keys \in [Keys -> {"unknown", "in_flight", "completed"}]
    /\ submissions \in UNION {[1..n -> Submitted] : n \in 0..MaxKeys}
    /\ pages \in [Tabs -> Page] /\ requests \in [Numbers -> Request]
    /\ counts \in [keys: 0..MaxKeys, epochs: 0..MaxEpochs] /\ past \subseteq Hazard /\ mix \in Mixes

(* A behaviour in which none is started has a draft, or one that is ready. *)
Drafted == [NoApplication EXCEPT !.state = "draft", !.route = TRUE]
Init ==
    /\ mix \in Mixes
    /\ application = IF "start" \in mix THEN NoApplication
                     ELSE IF "prepare" \in mix THEN Drafted
                     ELSE [Drafted EXCEPT !.state = "ready", !.acknowledged = 1, !.granted = Consents]
    /\ world = [requirements |-> 1, blocked |-> FALSE, open |-> TRUE]
    /\ keys = [k \in Keys |-> "unknown"] /\ submissions = <<>>
    /\ pages = [t \in Tabs |-> ClosedPage] /\ requests = [n \in Numbers |-> NoRequest]
    /\ counts = [keys |-> 0, epochs |-> 0] /\ past = {}

(***************************************************************************)
(* Loading and rendering                                                   *)
(***************************************************************************)

(* What the page of an application reads when it is rendered.              *)
Rendered == [state |-> application.state, blocked |-> world.blocked, route |-> application.route]

Deaf(t) == [n \in Numbers |-> IF requests[n].tab = t THEN [requests[n] EXCEPT !.heard = FALSE]
                              ELSE requests[n]]

(* A page as it is after a load: the ticks are the grants it found, the    *)
(* key is not minted yet.                                                  *)
Loaded(at) ==
    [ClosedPage EXCEPT !.at = at, !.shown = Rendered, !.accepted = 1..application.granted,
                       !.epoch = counts.epochs + 1]

Load(t) ==
    /\ counts.epochs < MaxEpochs
    /\ \E at \in {"start", "application"}:
           /\ IF at = "start" THEN "start" \in mix ELSE application.state # "none"
           /\ pages' = [pages EXCEPT ![t] = Loaded(at)]
    /\ requests' = Deaf(t) /\ counts' = [counts EXCEPT !.epochs = @ + 1]
    /\ UNCHANGED <<application, world, keys, submissions, past, mix>>

(* router.refresh: new props, and the state of the page stays.             *)
Refresh(t) ==
    /\ pages[t].refresh
    /\ pages' = [pages EXCEPT ![t].shown = Rendered, ![t].refresh = FALSE]
    /\ UNCHANGED <<application, world, keys, submissions, requests, counts, past, mix>>

(***************************************************************************)
(* What the student presses                                                *)
(***************************************************************************)

Idle == {n \in Numbers: requests[n].stage = "none"}

(* A page asks, and waits for the answer.                                  *)
Ask(t, kind, page) ==
    /\ Idle # {}
    /\ LET n == CHOOSE m \in Idle: \A l \in Idle: m <= l
       IN  requests' = [requests EXCEPT ![n] =
               [NoRequest EXCEPT !.tab = t, !.kind = kind, !.key = page.key,
                                 !.accepted = page.accepted, !.epoch = page.epoch,
                                 !.stage = "sent", !.heard = TRUE]]
    /\ pages' = [pages EXCEPT ![t] = [page EXCEPT !.busy = TRUE, !.error = FALSE]]
    /\ UNCHANGED <<application, world, keys, submissions, mix>>

PressStart(t) ==
    /\ pages[t].at = "start" /\ ~pages[t].busy
    /\ Ask(t, "start", pages[t])
    /\ UNCHANGED <<counts, past>>

(* The button is there for a draft only.                                   *)
MayMarkReady(t) ==
    /\ pages[t].at = "application" /\ pages[t].step = 1
    /\ pages[t].shown.state = "draft" /\ ~pages[t].shown.blocked /\ ~pages[t].busy
PressReady(t) ==
    /\ "prepare" \in mix /\ MayMarkReady(t)
    /\ Ask(t, "ready", pages[t])
    /\ UNCHANGED <<counts, past>>

OnConsents(t) ==
    /\ "prepare" \in mix /\ pages[t].at = "application" /\ pages[t].step = 3 /\ ~pages[t].busy
Tick(t) ==
    /\ OnConsents(t)
    /\ \E c \in Ticks:
           LET ticked == pages[t].accepted
           IN  pages' = [pages EXCEPT ![t].accepted =
                            IF c \in ticked THEN ticked \ {c} ELSE ticked \cup {c}]
    /\ UNCHANGED <<application, world, keys, submissions, requests, counts, past, mix>>
PressSave(t) ==
    /\ OnConsents(t) /\ pages[t].accepted = Ticks
    /\ Ask(t, "consents", pages[t])
    /\ UNCHANGED <<counts, past>>

MaySubmit(page) ==
    /\ ~page.shown.blocked /\ page.accepted = Ticks /\ page.shown.route
    /\ page.shown.state \in {"ready", "failed"}

(* The rail and the buttons of WizardSteps.  Going forward stops at the    *)
(* first step on the way that does not validate.                           *)
Validates(page, step) ==
    /\ step = 1 => ~page.shown.blocked
    /\ step = 3 => page.accepted = Ticks
    /\ step = 4 => MaySubmit(page)
Reached(page, target) ==
    LET stops == {i \in page.step..(target - 1): ~Validates(page, i)}
    IN  IF stops = {} THEN target ELSE CHOOSE i \in stops: \A j \in stops: i <= j
GoTo(t, target) ==
    LET page == pages[t]
        step == Reached(page, target) IN
    /\ page.at = "application" /\ target # page.step /\ target <= page.furthest + 1
    /\ pages' = [pages EXCEPT ![t].step = step,
                     ![t].furthest = IF step = target /\ step > @ THEN step ELSE @]
    /\ UNCHANGED <<application, world, keys, submissions, requests, counts, past, mix>>

(* Sending is not held back while the page is busy.  The key is minted     *)
(* with the first press and kept.                                          *)
FreshKey(page) == counts.keys + 1
KeyFor(page) == IF page.key = 0 THEN counts.keys + 1 ELSE page.key
PressSend(t) ==
    LET page == pages[t]
        key == KeyFor(page) IN
    /\ "send" \in mix /\ page.at = "application" /\ page.step = 4 /\ Validates(page, 4)
    /\ key \in Keys
    /\ Ask(t, "submit", [page EXCEPT !.key = key, !.drift = FALSE])
    /\ counts' = IF key > counts.keys THEN [counts EXCEPT !.keys = key] ELSE counts
    /\ past' = past \cup {h \in {"kept"}: page.answered}

(***************************************************************************)
(* What the server does                                                    *)
(***************************************************************************)

At(n, kind, stage) == requests[n].kind = kind /\ requests[n].stage = stage
Answered(n, answer) ==
    requests' = [requests EXCEPT ![n].stage = "answered", ![n].answer = answer]

(* start: an intake that is closed, an application there is already, or    *)
(* one that is about to be made.                                           *)
CheckStart(n) ==
    /\ At(n, "start", "sent")
    /\ IF ~world.open THEN Answered(n, "refused")
       ELSE IF application.state # "none" THEN Answered(n, "existing")
       ELSE requests' = [requests EXCEPT ![n].stage = "running"]
    /\ UNCHANGED <<application, world, keys, submissions, pages, counts, past, mix>>

(* The second insert of two breaks the unique index, and that is no        *)
(* conflict that names the application.                                    *)
Create(n) ==
    /\ At(n, "start", "running")
    /\ IF application.state = "none"
       THEN /\ Answered(n, "ok")
            /\ \E route \in BOOLEAN:
                   application' = [NoApplication EXCEPT !.state = "draft", !.route = route]
            /\ UNCHANGED past
       ELSE /\ Answered(n, "refused") /\ past' = past \cup {"raced"}
            /\ UNCHANGED application
    /\ UNCHANGED <<world, keys, submissions, pages, counts, mix>>

(* markReady, also to acknowledge again what is required.                  *)
Marked == [application EXCEPT !.state = "ready", !.acknowledged = world.requirements]
MayBeReady ==
    /\ ~world.blocked
    /\ application.state = "ready" \/ Allowed(application.state, "ready", "student")
MarkReady(n) ==
    /\ At(n, "ready", "sent")
    /\ IF MayBeReady THEN application' = Marked /\ Answered(n, "ok")
       ELSE UNCHANGED application /\ Answered(n, "refused")
    /\ UNCHANGED <<world, keys, submissions, pages, counts, past, mix>>

(* recordConsents writes one grant after the other, and may fail between.  *)
RecordConsents(n) ==
    /\ At(n, "consents", "sent")
    /\ \E written \in 0..Consents:
           /\ application' = [application EXCEPT !.granted = IF written > @ THEN written ELSE @]
           /\ Answered(n, IF written = Consents THEN "ok" ELSE "refused")
    /\ UNCHANGED <<world, keys, submissions, pages, counts, past, mix>>

(* IdempotencyService.run: a key that is completed is answered as it was,  *)
(* one in flight is a conflict.                                            *)
LookUp(n) ==
    LET key == requests[n].key IN
    /\ At(n, "submit", "sent")
    /\ CASE keys[key] = "completed" -> Answered(n, "ok") /\ UNCHANGED keys
         [] keys[key] = "in_flight" -> Answered(n, "refused") /\ UNCHANGED keys
         [] OTHER -> /\ keys' = [keys EXCEPT ![key] = "in_flight"]
                     /\ requests' = [requests EXCEPT ![n].stage = "running"]
    /\ UNCHANGED <<application, world, submissions, pages, counts, past, mix>>

(* submit: what it looks at again, a payload that can be built, and a move *)
(* the table allows; a refusal gives the key free.  What the student was   *)
(* shown as missing is not looked at again.                                *)
Refuse(n, answer) ==
    /\ Answered(n, answer) /\ keys' = [keys EXCEPT ![requests[n].key] = "unknown"]
    /\ UNCHANGED <<application, submissions>>
Send(n) ==
    LET key == requests[n].key IN
    /\ Answered(n, "ok") /\ keys' = [keys EXCEPT ![key] = "completed"]
    /\ submissions' = Append(submissions, [key |-> key, epoch |-> requests[n].epoch,
                                            blocked |-> world.blocked])
    /\ \E state \in {"submitted_pending", "submitted", "failed"}:
           application' = [application EXCEPT !.state = state]
Submit(n) ==
    /\ At(n, "submit", "running")
    /\ IF application.state \notin {"ready", "failed"} THEN Refuse(n, "refused")
       ELSE IF application.acknowledged # world.requirements THEN Refuse(n, "drift")
       ELSE IF application.granted < Consents THEN Refuse(n, "refused")
       ELSE \/ Refuse(n, "refused")
            \/ Allowed(application.state, "submitted_pending", "student") /\ Send(n)
    /\ UNCHANGED <<world, pages, counts, past, mix>>

(***************************************************************************)
(* Answers                                                                 *)
(***************************************************************************)

Done(n) == [requests EXCEPT ![n] = NoRequest]

(* What the page makes of an answer; of drift, that the key was for        *)
(* another intent.                                                         *)
After(page, kind, answer) ==
    LET free == [page EXCEPT !.busy = FALSE] IN
    CASE kind = "start" /\ answer \in {"ok", "existing"} -> Loaded("application")
      [] kind = "submit" /\ answer = "drift" ->
             [free EXCEPT !.error = TRUE, !.drift = TRUE, !.key = 0, !.answered = FALSE,
                          !.refresh = TRUE, !.epoch = counts.epochs + 1]
      [] kind = "submit" /\ answer = "refused" ->
             [free EXCEPT !.error = TRUE, !.refresh = TRUE]
      [] kind = "submit" /\ answer = "ok" ->
             [free EXCEPT !.answered = TRUE, !.refresh = TRUE, !.epoch = counts.epochs + 1]
      [] answer = "ok" -> [free EXCEPT !.refresh = TRUE]
      [] OTHER -> [free EXCEPT !.error = TRUE]

Hear(n) ==
    LET r == requests[n]
        page == After(pages[r.tab], r.kind, r.answer) IN
    /\ r.stage = "answered" /\ r.heard
    /\ page.epoch <= MaxEpochs
    /\ pages' = [pages EXCEPT ![r.tab] = page]
    /\ requests' = IF page.at = pages[r.tab].at THEN Done(n)
                   ELSE [Deaf(r.tab) EXCEPT ![n] = NoRequest]
    /\ counts' = IF page.epoch > counts.epochs THEN [counts EXCEPT !.epochs = page.epoch]
                 ELSE counts
    /\ UNCHANGED <<application, world, keys, submissions, past, mix>>

(* Nobody listens; or the network fails, fetch throws, and nothing below   *)
(* it in the handler is done.                                              *)
Drop(n) ==
    /\ requests[n].stage = "answered" /\ ~requests[n].heard
    /\ requests' = Done(n)
    /\ UNCHANGED <<application, world, keys, submissions, pages, counts, past, mix>>
Lose(n) ==
    /\ "lose" \in mix /\ requests[n].stage # "none" /\ requests[n].heard
    /\ requests' = IF requests[n].stage = "sent" THEN Done(n)
                   ELSE [requests EXCEPT ![n].heard = FALSE]
    /\ past' = past \cup {"lost"}
    /\ UNCHANGED <<application, world, keys, submissions, pages, counts, mix>>

(***************************************************************************)
(* What happens elsewhere: the university answers or changes what it asks  *)
(* for, a document is quarantined or a missing detail filled in, an intake *)
(* closes, and the application is marked ready by another client.          *)
(***************************************************************************)

Learn ==
    /\ application.state = "submitted_pending"
    /\ \E state \in {"submitted", "failed"}: application' = [application EXCEPT !.state = state]
    /\ UNCHANGED <<world, keys, submissions, pages, requests, counts, past, mix>>
MarkReadyElsewhere ==
    /\ "elsewhere" \in mix /\ application.state # "draft" /\ MayBeReady
    /\ application' = Marked
    /\ UNCHANGED <<world, keys, submissions, pages, requests, counts, past, mix>>
Change(w) == world' = w /\ UNCHANGED <<application, keys, submissions, pages, requests, counts, mix>>
MoveRequirements ==
    /\ "drift" \in mix /\ world.requirements < MaxVersion
    /\ Change([world EXCEPT !.requirements = @ + 1]) /\ UNCHANGED past
Block ==
    /\ "block" \in mix
    /\ Change([world EXCEPT !.blocked = ~@])
    /\ past' = past \cup {h \in {"blocked"}: \/ \E t \in Tabs: pages[t].at = "application"
                                          \/ \E n \in Numbers: requests[n].kind = "submit"}
Close ==
    /\ "close" \in mix /\ world.open
    /\ Change([world EXCEPT !.open = FALSE]) /\ UNCHANGED past

Next ==
    \/ \E t \in Tabs:
           \/ Load(t) \/ Refresh(t) \/ PressStart(t) \/ PressReady(t) \/ Tick(t) \/ PressSave(t)
           \/ PressSend(t) \/ \E target \in 1..4: GoTo(t, target)
    \/ \E n \in Numbers:
           \/ CheckStart(n) \/ Create(n) \/ MarkReady(n) \/ RecordConsents(n) \/ LookUp(n)
           \/ Submit(n) \/ Hear(n) \/ Drop(n) \/ Lose(n)
    \/ Learn \/ MarkReadyElsewhere \/ MoveRequirements \/ Block \/ Close

Spec == Init /\ [][Next]_vars

(***************************************************************************)
(* Properties                                                              *)
(***************************************************************************)

(* "A network failure followed by a second press cannot become two         *)
(* applications": between two submissions of a page one has come to an end,*)
(* or it was loaded.                                                       *)
RetryIsNotNew ==
    \A i, j \in DOMAIN submissions:
        i # j => submissions[i].epoch # submissions[j].epoch

(* A press that is answered well has sent something, by that press or by   *)
(* one before it whose answer was not heard.  Not so with a key that is    *)
(* kept after an answer: a submission that failed later is replayed, and   *)
(* nothing is sent.                                                        *)
OkIsNew ==
    \A n \in Numbers:
        requests[n].kind = "submit" /\ requests[n].answer = "ok" /\ requests[n].heard =>
            \E i \in DOMAIN submissions: submissions[i].epoch = requests[n].epoch
OkIsNewUnlessKept == "kept" \in past \/ OkIsNew

(* A page is busy while it waits.  A fetch that throws leaves it so.       *)
BusyIsAwaited ==
    \A t \in Tabs: pages[t].busy => \E n \in Numbers: requests[n].tab = t /\ requests[n].heard
BusyIsAwaitedUnlessLost == "lost" \in past \/ BusyIsAwaited

(* A student who cannot start an application has none for the intake: to   *)
(* one there is already, the page leads.  Not so when two requests start   *)
(* one at once, or for an intake that has closed since.                    *)
ErrorMeansNone ==
    \A t \in Tabs:
        pages[t].at = "start" /\ pages[t].error => application.state = "none" \/ ~world.open
ErrorMeansNoneUnlessRaced == "raced" \in past \/ ErrorMeansNone

(* Past the first step nothing is missing, and what was sent had nothing   *)
(* missing, unless that changed after the page was loaded.                 *)
ReachedIsValid == \A t \in Tabs: pages[t].step > 1 => ~pages[t].shown.blocked
SentIsUnblocked == \A i \in DOMAIN submissions: ~submissions[i].blocked
ValidUnlessBlockedSince == "blocked" \in past \/ (ReachedIsValid /\ SentIsUnblocked)

(* Past the third step every consent is ticked; and a page that may send   *)
(* knows of a route.                                                       *)
TickedBeforeSending == \A t \in Tabs: pages[t].step = 4 => pages[t].accepted = Ticks

(* A student who is told to act can: the one way to acknowledge changed    *)
(* requirements is there.  It is there for drafts only, which never drift. *)
ToldToActMayAct == \A t \in Tabs: pages[t].drift /\ pages[t].step = 1 => MayMarkReady(t)

(* A page that offers to send a failed application can have it sent.       *)
OfferedIsPossible ==
    \A t \in Tabs: MaySubmit(pages[t]) /\ pages[t].shown = Rendered =>
        Allowed(application.state, "submitted_pending", "student")
=============================================================================
