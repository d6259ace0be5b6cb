------------------------------ MODULE WebPages ------------------------------
(***************************************************************************)
(* Client components of apps/web that keep a state of their own between    *)
(* what the server answers: the conversations, the uploads of the vault,   *)
(* the profile that saves itself, the filters of the search, the cached    *)
(* price of a programme, the table of the catalogue and the onboarding of  *)
(* a university.  They share nothing: a behaviour is one of one area.  An  *)
(* answer may come late, after a later one, or never.                      *)
(***************************************************************************)
EXTENDS Integers, Sequences, FiniteSets

CONSTANTS
    Areas,                        \* bound: the areas looked at
    Threads, Files, Facets, Rows, Statuses, Domains,
    Window,                       \* seconds a cached answer is served for
    MaxMessages, MaxTexts, MaxDrops, MaxEdits, MaxTime, MaxLoads      \* bounds

PagesAssumption ==
    /\ {Window, MaxMessages, MaxTexts, MaxDrops, MaxEdits, MaxTime, MaxLoads} \subseteq Nat
    /\ Rows \subseteq Nat /\ Threads # {}

VARIABLES
    area,
    server,       \* what the API holds
    page,         \* what the component holds
    requests,     \* under way
    past          \* what may lead the component astray (history)

vars == <<area, server, page, requests, past>>

SeqUpTo(S, k) == UNION {[1..n -> S] : n \in 0..k}
Toggle(S, e) == IF e \in S THEN S \ {e} ELSE S \cup {e}
Note(hazard, holds) == past' = IF holds THEN past \cup {hazard} ELSE past

(***************************************************************************)
(* Conversations: one load for each selection and each poll, a post, and a *)
(* load after it.  Text 0 is what the other side writes.  As a bound, only *)
(* the area "conversations" both selects and sends.                        *)
(***************************************************************************)

Conversing == area \in {"threads", "chat", "conversations"}
Load(c) == [kind |-> "load", of |-> c, seen |-> 0, open |-> TRUE, text |-> 0, stage |-> "sent"]
FirstThread == CHOOSE c \in Threads: TRUE

ChatType ==
    /\ server \in [messages: [Threads -> SeqUpTo(0..MaxTexts, MaxMessages)], closed: SUBSET Threads]
    /\ page \in [selected: Threads, of: Threads, seen: 0..MaxMessages, open: BOOLEAN,
                 typed: 0..MaxTexts, texts: 0..MaxTexts, meant: Threads, sending: BOOLEAN,
                 dropped: BOOLEAN]
    /\ requests \subseteq [kind: {"load", "reload", "post"}, of: Threads, seen: 0..MaxMessages,
                           open: BOOLEAN, text: 0..MaxTexts, stage: {"sent", "done", "refused"}]
ChatInit ==
    /\ server = [messages |-> [c \in Threads |-> <<>>], closed |-> {}]
    /\ page = [selected |-> FirstThread, of |-> FirstThread, seen |-> 0, open |-> TRUE,
               typed |-> 0, texts |-> 0, meant |-> FirstThread, sending |-> FALSE,
               dropped |-> FALSE]
    /\ requests = {}

Select(c) ==
    /\ area # "chat" /\ c # page.selected /\ Cardinality(requests) < MaxLoads
    /\ page' = [page EXCEPT !.selected = c] /\ requests' = requests \cup {Load(c)}
    /\ UNCHANGED <<server, past>>
Poll ==
    /\ Load(page.selected) \notin requests /\ Cardinality(requests) < MaxLoads
    /\ requests' = requests \cup {Load(page.selected)}
    /\ UNCHANGED <<server, page, past>>

WrittenIn(c) == {server.messages[c][i] : i \in DOMAIN server.messages[c]}
Written == UNION {WrittenIn(c) : c \in Threads} \ {0}

Room == Cardinality({m \in Threads \X (1..MaxMessages): m[2] \in DOMAIN server.messages[m[1]]})
            < MaxMessages

(* The composer is cleared of whatever it holds by then.                   *)
Cleared == [page EXCEPT !.typed = 0, !.meant = FirstThread, !.sending = FALSE,
                        !.dropped = @ \/ (page.typed # 0 /\ page.typed \notin Written)]

ReadThread(r) ==
    /\ r.kind \in {"load", "reload"} /\ r.stage = "sent"
    /\ requests' = (requests \ {r}) \cup {[r EXCEPT !.stage = "done",
           !.seen = Len(server.messages[r.of]), !.open = r.of \notin server.closed]}
    /\ UNCHANGED <<server, page, past>>
ShowThread(r) ==
    /\ r.kind \in {"load", "reload"} /\ r.stage = "done"
    /\ page' = [(IF r.kind = "reload" THEN Cleared ELSE page) EXCEPT
                   !.of = r.of, !.seen = r.seen, !.open = r.open]
    /\ requests' = requests \ {r}
    /\ past' = past \cup {h \in {"late"}: r.of # page.selected}
                    \cup {h \in {"overtaken"}: r.of = page.of /\ r.seen < page.seen}
                    \cup {h \in {"retyped"}: r.kind = "reload" /\ page.typed # r.text}
    /\ UNCHANGED server

Type ==
    /\ area # "threads" /\ page.open /\ page.texts < MaxTexts
    /\ page' = [page EXCEPT !.typed = page.texts + 1, !.texts = @ + 1, !.meant = page.of]
    /\ UNCHANGED <<server, requests, past>>
SendText ==
    /\ page.open /\ page.typed # 0 /\ ~page.sending
    /\ page' = [page EXCEPT !.sending = TRUE]
    /\ requests' = requests \cup {[Load(page.of) EXCEPT !.kind = "post", !.text = page.typed]}
    /\ UNCHANGED <<server, past>>
Post(r) ==
    /\ r.kind = "post" /\ r.stage = "sent"
    /\ IF r.of \in server.closed
       THEN requests' = (requests \ {r}) \cup {[r EXCEPT !.stage = "refused"]} /\ UNCHANGED server
       ELSE /\ Room
            /\ server' = [server EXCEPT !.messages[r.of] = Append(@, r.text)]
            /\ requests' = (requests \ {r}) \cup {[r EXCEPT !.stage = "done"]}
    /\ UNCHANGED <<page, past>>
PostAnswered(r) ==
    /\ r.kind = "post" /\ r.stage \in {"done", "refused"}
    /\ IF r.stage = "done"
       THEN /\ requests' = (requests \ {r}) \cup
                   {[Load(r.of) EXCEPT !.kind = "reload", !.text = r.text]}
            /\ UNCHANGED <<page, past>>
       ELSE requests' = requests \ {r} /\ page' = Cleared /\ past' = past \cup {"refused"}
    /\ UNCHANGED server

(* fetch throws: what was typed stays, sent or not.                        *)
LoseThread(r) ==
    /\ requests' = requests \ {r}
    /\ page' = IF r.kind = "load" THEN page ELSE [page EXCEPT !.sending = FALSE]
    /\ past' = past \cup {"lost"} /\ UNCHANGED server

OtherWrites(c) ==
    /\ c \notin server.closed /\ Room
    /\ server' = [server EXCEPT !.messages[c] = Append(@, 0)]
    /\ UNCHANGED <<page, requests, past>>
CloseThread(c) ==
    /\ c \notin server.closed
    /\ server' = [server EXCEPT !.closed = @ \cup {c}]
    /\ UNCHANGED <<page, requests, past>>

ChatNext ==
    \/ Poll \/ Type \/ SendText
    \/ \E c \in Threads: Select(c) \/ OtherWrites(c) \/ CloseThread(c)
    \/ \E r \in requests: ReadThread(r) \/ ShowThread(r) \/ Post(r) \/ PostAnswered(r) \/ LoseThread(r)

(***************************************************************************)
(* The vault: the files of one drop one after the other, drops beside each *)
(* other.  A file goes by its name and size.                               *)
(***************************************************************************)

VaultType ==
    /\ server \in [1..(2 * MaxDrops) -> [file: Files, state: {"none", "started", "stored", "finalised"}]]
    /\ page \in [entries: [Files -> {"none", "uploading", "done", "failed"}], drops: 0..MaxDrops,
                 rows: 0..(2 * MaxDrops)]
    /\ requests \subseteq [drop: 1..MaxDrops, files: SeqUpTo(Files, 2), row: 0..(2 * MaxDrops),
                           stage: {"next", "start", "put", "finalise"}]
VaultInit ==
    /\ server = [n \in 1..(2 * MaxDrops) |-> [file |-> CHOOSE f \in Files: TRUE, state |-> "none"]]
    /\ page = [entries |-> [f \in Files |-> "none"], drops |-> 0, rows |-> 0]
    /\ requests = {}

Busy(f) == \E j \in requests: \E i \in DOMAIN j.files: j.files[i] = f
DropFiles ==
    /\ page.drops < MaxDrops
    /\ \E files \in SeqUpTo(Files, 2) \ {<<>>}:
           /\ requests' = requests \cup
                  {[drop |-> page.drops + 1, files |-> files, row |-> 0, stage |-> "next"]}
           /\ Note("doubled", \/ \E i \in DOMAIN files: Busy(files[i])
                              \/ Len(files) = 2 /\ files[1] = files[2])
    /\ page' = [page EXCEPT !.drops = @ + 1] /\ UNCHANGED server

Moved(j, stage) == requests' = (requests \ {j}) \cup {[j EXCEPT !.stage = stage]}
NextOf(j) ==
    requests' = (requests \ {j}) \cup
        {k \in {[j EXCEPT !.files = Tail(@), !.row = 0, !.stage = "next"]}: k.files # <<>>}

BeginFile(j) ==
    /\ j.stage = "next"
    /\ page' = [page EXCEPT !.entries[Head(j.files)] = "uploading"] /\ Moved(j, "start")
    /\ UNCHANGED <<server, past>>
StartUpload(j) ==
    LET row == page.rows + 1 IN
    /\ j.stage = "start"
    /\ server' = [server EXCEPT ![row] = [file |-> Head(j.files), state |-> "started"]]
    /\ page' = [page EXCEPT !.rows = row]
    /\ requests' = (requests \ {j}) \cup {[j EXCEPT !.row = row, !.stage = "put"]}
    /\ UNCHANGED past
PutFile(j) ==
    /\ j.stage = "put"
    /\ server' = [server EXCEPT ![j.row].state = "stored"] /\ Moved(j, "finalise")
    /\ UNCHANGED <<page, past>>

(* An entry that was taken off the list, or has failed, stays as it is.    *)
Finished(f) == [page EXCEPT !.entries[f] = IF @ = "uploading" THEN "done" ELSE @]
Finalise(j) ==
    /\ j.stage = "finalise"
    /\ server' = [server EXCEPT ![j.row].state = "finalised"]
    /\ page' = Finished(Head(j.files)) /\ NextOf(j)
    /\ UNCHANGED past
FailFile(j) ==
    LET f == Head(j.files) IN
    /\ j.stage # "next"
    /\ page' = [page EXCEPT !.entries[f] = IF @ = "none" THEN @ ELSE "failed"] /\ NextOf(j)
    /\ UNCHANGED <<server, past>>
RemoveEntry(f) ==
    /\ page.entries[f] # "none"
    /\ page' = [page EXCEPT !.entries[f] = "none"]
    /\ UNCHANGED <<server, requests, past>>

VaultNext ==
    \/ DropFiles \/ \E f \in Files: RemoveEntry(f)
    \/ \E j \in requests: BeginFile(j) \/ StartUpload(j) \/ PutFile(j) \/ Finalise(j) \/ FailFile(j)

(***************************************************************************)
(* The profile saves itself, whole, when nothing was typed for a while.    *)
(* Edits are numbered, and a form is the number of its last one.           *)
(***************************************************************************)

ProfileType ==
    /\ server \in 0..MaxEdits
    /\ page \in [form: 0..MaxEdits, timer: 0..MaxEdits, open: BOOLEAN,
                 state: {"idle", "saving", "saved", "error"}]
    /\ requests \subseteq [form: 1..MaxEdits, stage: {"sent", "done"}]
ProfileInit ==
    /\ server = 0 /\ requests = {}
    /\ page = [form |-> 0, timer |-> 0, open |-> TRUE, state |-> "idle"]

Edit ==
    /\ page.open /\ page.form < MaxEdits
    /\ page' = [page EXCEPT !.form = @ + 1, !.timer = page.form + 1]
    /\ UNCHANGED <<server, requests, past>>
Save ==
    /\ page.timer # 0
    /\ requests' = requests \cup {[form |-> page.timer, stage |-> "sent"]}
    /\ page' = [page EXCEPT !.timer = 0, !.state = "saving"]
    /\ Note("overlapped", requests # {}) /\ UNCHANGED server
Store(r) ==
    /\ r.stage = "sent"
    /\ server' = r.form /\ requests' = (requests \ {r}) \cup {[r EXCEPT !.stage = "done"]}
    /\ UNCHANGED <<page, past>>
Heard(r) ==
    /\ r.stage = "done" /\ requests' = requests \ {r}
    /\ page' = [page EXCEPT !.state = IF page.open THEN "saved" ELSE @]
    /\ UNCHANGED <<server, past>>
NotSaved(r) ==
    /\ requests' = requests \ {r}
    /\ page' = [page EXCEPT !.state = IF page.open THEN "error" ELSE @]
    /\ past' = past \cup {"lost"} /\ UNCHANGED server
Leave ==
    /\ page.open
    /\ page' = [page EXCEPT !.open = FALSE, !.timer = 0]
    /\ Note("left", page.timer # 0) /\ UNCHANGED <<server, requests>>

ProfileNext ==
    Edit \/ Save \/ Leave \/ \E r \in requests: Store(r) \/ Heard(r) \/ NotSaved(r)

(***************************************************************************)
(* The filters of a search are its address: each change goes to the        *)
(* address as the page knows it, which is the last that has arrived.       *)
(***************************************************************************)

FiltersType ==
    /\ server = 0 /\ page \in [query: SUBSET Facets, wanted: SUBSET Facets]
    /\ requests \subseteq SUBSET Facets
FiltersInit == server = 0 /\ page = [query |-> {}, wanted |-> {}] /\ requests = {}

ChangeFilter(f) ==
    /\ page' = [page EXCEPT !.wanted = Toggle(@, f)]
    /\ requests' = {Toggle(page.query, f)}
    /\ Note("hasty", requests # {}) /\ UNCHANGED server
Arrive ==
    /\ requests # {}
    /\ page' = [page EXCEPT !.query = CHOOSE q \in requests: TRUE] /\ requests' = {}
    /\ UNCHANGED <<server, past>>

FiltersNext == Arrive \/ \E f \in Facets: ChangeFilter(f)

(***************************************************************************)
(* apiGet: an answer is served from the cache for its window; the first    *)
(* read after it is served the old answer once more, and has it renewed.   *)
(***************************************************************************)

CacheType ==
    /\ server \in [price: 0..MaxEdits, since: [0..MaxEdits -> 0..MaxTime], now: 0..MaxTime]
    /\ page \in [cached: -1..MaxEdits, at: 0..MaxTime, shown: -1..MaxEdits, shownAt: 0..MaxTime]
    /\ requests = {}
CacheInit ==
    /\ server = [price |-> 0, since |-> [p \in 0..MaxEdits |-> 0], now |-> 0]
    /\ page = [cached |-> -1, at |-> 0, shown |-> -1, shownAt |-> 0] /\ requests = {}

Current == [page EXCEPT !.cached = server.price, !.at = server.now, !.shownAt = server.now]
Expired == server.now - page.at > Window
ReadPrice ==
    /\ page' = IF page.cached = -1 THEN [Current EXCEPT !.shown = server.price]
               ELSE IF Expired THEN [Current EXCEPT !.shown = page.cached]
               ELSE [page EXCEPT !.shown = page.cached, !.shownAt = server.now]
    /\ Note("idle", page.cached # -1 /\ Expired) /\ UNCHANGED <<server, requests>>
ChangePrice ==
    /\ server.price < MaxEdits
    /\ server' = [server EXCEPT !.price = @ + 1, !.since[server.price + 1] = server.now]
    /\ UNCHANGED <<page, requests, past>>
TimePasses ==
    /\ server.now < MaxTime
    /\ server' = [server EXCEPT !.now = @ + 1] /\ UNCHANGED <<page, requests, past>>

CacheNext == ReadPrice \/ ChangePrice \/ TimePasses

(***************************************************************************)
(* The table of the catalogue: the filters, the page and then, within the  *)
(* page, the search; a selection, and what is done to it.                  *)
(***************************************************************************)

TableType ==
    /\ server \in [Rows -> Statuses] /\ requests = {}
    /\ page \in [filter: Statuses \cup {"all"}, index: 0..Cardinality(Rows), needle: Rows \cup {0},
                 selected: SUBSET Rows, missed: BOOLEAN]
TableInit ==
    /\ server \in [Rows -> Statuses] /\ requests = {}
    /\ page = [filter |-> "all", index |-> 0, needle |-> 0, selected |-> {}, missed |-> FALSE]

Filtered == {r \in Rows: page.filter \in {"all", server[r]}}
Rank(r) == Cardinality({q \in Filtered: q < r})
Paged == {r \in Filtered: Rank(r) = page.index}                   \* one row to a page
Listed == {r \in Paged: page.needle \in {0, r}}

SetFilter(f) ==
    /\ f # page.filter /\ page' = [page EXCEPT !.filter = f]
    /\ past' = past \cup {h \in {"narrowed"}: page.index > 0} \cup {h \in {"turned"}: page.selected # {}}
    /\ UNCHANGED <<server, requests>>
Turn ==
    /\ \E index \in {page.index - 1, page.index + 1}:
           /\ index \in 0..(Cardinality(Filtered) - 1)
           /\ page' = [page EXCEPT !.index = index]
    /\ Note("turned", page.selected # {}) /\ UNCHANGED <<server, requests>>
SearchRows(needle) ==
    /\ needle # page.needle /\ page' = [page EXCEPT !.needle = needle]
    /\ past' = past \cup {h \in {"narrowed"}: needle # 0} \cup {h \in {"turned"}: page.selected # {}}
    /\ UNCHANGED <<server, requests>>
SelectRow(r) ==
    /\ r \in Listed /\ page' = [page EXCEPT !.selected = Toggle(@, r)]
    /\ UNCHANGED <<server, requests, past>>
RunBulkAction ==
    /\ Listed \cap page.selected # {}
    /\ page' = [page EXCEPT !.selected = {}, !.missed = @ \/ ~(page.selected \subseteq Listed)]
    /\ UNCHANGED <<server, requests, past>>

TableNext ==
    \/ Turn \/ RunBulkAction \/ \E f \in Statuses \cup {"all"}: SetFilter(f)
    \/ \E r \in Rows: SelectRow(r) \/ SearchRows(r)
    \/ SearchRows(0)

(***************************************************************************)
(* The onboarding of a university: names, domains, a signatory on one of   *)
(* them, documents and the review.  What is typed is typed on its step.    *)
(***************************************************************************)

OnboardingType ==
    /\ server = 0 /\ requests = {}
    /\ page \in [named: BOOLEAN, domains: SUBSET Domains, signatory: Domains \cup {"nowhere"},
                 step: 1..5, furthest: 1..5, submitted: BOOLEAN]
OnboardingInit ==
    /\ server = 0 /\ requests = {}
    /\ page = [named |-> FALSE, domains |-> {}, signatory |-> "nowhere", step |-> 1, furthest |-> 1,
               submitted |-> FALSE]

Validates(step) ==
    /\ step = 1 => page.named
    /\ step = 2 => page.domains # {}
    /\ step = 3 => page.signatory \in page.domains
FillIn ==
    /\ ~page.submitted
    /\ \/ page.step = 1 /\ page' = [page EXCEPT !.named = ~@]
       \/ page.step = 2 /\ \E d \in Domains: page' = [page EXCEPT !.domains = Toggle(@, d)]
       \/ page.step = 3 /\ \E d \in Domains: page' = [page EXCEPT !.signatory = d]
    /\ UNCHANGED <<server, requests, past>>

(* goTo: forward over every step that validates, or to the first that does *)
(* not; back without a question.                                           *)
NoStops(target) == {}
Stops(target) == {i \in page.step..(target - 1): ~Validates(i)}
GoTo(target) ==
    LET step == IF Stops(target) = {} THEN target
                ELSE CHOOSE i \in Stops(target): \A j \in Stops(target): i <= j IN
    /\ ~page.submitted /\ target # page.step /\ target <= page.furthest + 1
    /\ page' = [page EXCEPT !.step = step,
                    !.furthest = IF step = target /\ step > @ THEN step ELSE @]
    /\ UNCHANGED <<server, requests, past>>
Complete ==
    /\ page.step = 5 /\ ~page.submitted
    /\ page' = [page EXCEPT !.submitted = TRUE]
    /\ UNCHANGED <<server, requests, past>>

OnboardingNext == FillIn \/ Complete \/ \E target \in 1..5: GoTo(target)

(***************************************************************************)

Hazard == {"late", "overtaken", "retyped", "refused", "lost", "doubled", "overlapped", "left",
           "hasty", "idle", "narrowed", "turned"}

TypeOK ==
    /\ area \in Areas /\ past \subseteq Hazard
    /\ Conversing => ChatType
    /\ area = "vault" => VaultType
    /\ area = "profile" => ProfileType
    /\ area = "filters" => FiltersType
    /\ area = "cache" => CacheType
    /\ area = "table" => TableType
    /\ area = "onboarding" => OnboardingType

Init ==
    /\ area \in Areas /\ past = {}
    /\ \/ Conversing /\ ChatInit
       \/ area = "vault" /\ VaultInit
       \/ area = "profile" /\ ProfileInit
       \/ area = "filters" /\ FiltersInit
       \/ area = "cache" /\ CacheInit
       \/ area = "table" /\ TableInit
       \/ area = "onboarding" /\ OnboardingInit

Next ==
    /\ UNCHANGED area
    /\ \/ Conversing /\ ChatNext
       \/ area = "vault" /\ VaultNext
       \/ area = "profile" /\ ProfileNext
       \/ area = "filters" /\ FiltersNext
       \/ area = "cache" /\ CacheNext
       \/ area = "table" /\ TableNext
       \/ area = "onboarding" /\ OnboardingNext

Spec == Init /\ [][Next]_vars
Unless(hazards, holds) == past \cap hazards # {} \/ holds

(***************************************************************************)
(* Properties                                                              *)
(***************************************************************************)

(* Once nothing is under way, the conversation shown is the one selected.  *)
(* A late answer for another one replaces it until the next poll.          *)
ShownIsSelected == Conversing => (requests = {} => page.of = page.selected)
ShownIsSelectedUnlessLate == Unless({"late", "lost"}, ShownIsSelected)

(* A message is written once, unless its answer was lost and it was sent   *)
(* again, for the post has no key.                                         *)
MessageOnce ==
    Conversing =>
        \A text \in Written:
            Cardinality({m \in Threads \X (1..MaxMessages):
                            /\ m[2] \in DOMAIN server.messages[m[1]]
                            /\ server.messages[m[1]][m[2]] = text}) = 1
MessageOnceUnlessLost == Unless({"lost"}, MessageOnce)

(* What was typed leaves the composer when it is written.  It also leaves  *)
(* it when it was refused, and when it was typed while another was sent.   *)
UnsentIsKept == Conversing => ~page.dropped
UnsentIsKeptUnlessRefused == Unless({"refused", "retyped"}, UnsentIsKept)

(* A message goes to the conversation it was typed under.  The composer    *)
(* keeps its text when another conversation is shown.                      *)
SentWhereMeant ==
    Conversing => (page.open /\ page.typed # 0 /\ ~page.sending => page.of = page.meant)

(* An upload shown as done is finalised, and no other of that name and     *)
(* size is under way.                                                      *)
DoneIsFinalised ==
    area = "vault" =>
        \A f \in Files: page.entries[f] = "done" =>
            /\ \E n \in DOMAIN server: server[n] = [file |-> f, state |-> "finalised"]
            /\ \A j \in requests: j.stage # "next" => Head(j.files) # f
DoneIsFinalisedUnlessDoubled == Unless({"doubled"}, DoneIsFinalised)

(* "Saved", with nothing left to save, means that what is in the form is   *)
(* what is stored.  Two saves under way may arrive in the other order.     *)
SavedIsStored ==
    area = "profile" =>
        (page.open /\ page.state = "saved" /\ page.timer = 0 /\ requests = {} => server = page.form)
SavedIsStoredUnlessOverlapped == Unless({"overlapped"}, SavedIsStored)

(* "Saved" at any time; it stays there while the next edit waits.          *)
SavedIsShown == area = "profile" => (page.open /\ page.state = "saved" => server = page.form)

(* "Autosave keeps it": what was typed is stored after the page was left.  *)
(* Leaving the page calls the timer off.                                   *)
EditsAreKept == area = "profile" => (~page.open /\ requests = {} => server = page.form)
EditsAreKeptUnlessLeft == Unless({"left", "overlapped", "lost"}, EditsAreKept)

(* Every filter that was set is in the address, unless one was changed     *)
(* before the one before it had arrived.                                   *)
FiltersAddUp == area = "filters" => (requests = {} => page.query = page.wanted)
FiltersAddUpUnlessHasty == Unless({"hasty"}, FiltersAddUp)

(* "The old price stays servable for exactly this long": what is shown was *)
(* current a window ago at most.  Not so after an idle time.               *)
ShownIsRecent ==
    area = "cache" =>
        (page.shown # -1 /\ page.shown < server.price =>
            page.shownAt - server.since[page.shown + 1] <= Window)
ShownIsRecentUnlessIdle == Unless({"idle"}, ShownIsRecent)

(* "Nothing matches these filters" means that nothing does.  A filter does *)
(* not go back to the first page, and the search looks at one page only.   *)
EmptyMeansNone ==
    area = "table" => (Listed = {} => {r \in Filtered: page.needle \in {0, r}} = {})
EmptyMeansNoneUnlessNarrowed == Unless({"narrowed"}, EmptyMeansNone)

(* What is done to a selection is done to all of it, unless another page   *)
(* was shown since: then the rest is forgotten.                            *)
SelectedIsActedOn == area = "table" => ~page.missed
SelectedIsActedOnUnlessTurned == Unless({"turned"}, SelectedIsActedOn)

(* "A step is only reachable once every step before it validates", also    *)
(* when an earlier one is changed afterwards; so what is submitted has a   *)
(* signatory on one of its domains.                                        *)
ReachedIsComplete ==
    area = "onboarding" => \A i \in 1..(page.step - 1): Validates(i)
=============================================================================
