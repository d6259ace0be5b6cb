# ModexApply in TLA+

TLA+ specifications of the parts of ModexApply that carry its correctness, TLC
configurations that check them on small instances, and TLAPS proofs of what
matters most for every instance. The code modelled is `src/apps/api/src` (NestJS,
Postgres through Prisma, BullMQ), the domain rules it shares with the clients in
`src/packages/contracts/src/domain`, the pages of `src/apps/web` that keep state
between a press and its answer, and the public build in `src/apps/site`.
`PROJECT.json` maps every definition to the lines it models and lists runs,
mutants, findings, hazards and theorems.

Contents: 1 inventory, 2 modules, 3 runs, 4 conditions and divergences, 5 fairness,
6 proofs, 7 what is left out, 8 plan.

## 1. Inventory

| Component | State it keeps | Operations | Status |
|---|---|---|---|
| Application life cycle (`applications/`, contracts `applications.ts`) | `applications` row: state, acknowledged requirements, external reference; consents; tasks; timeline | mark ready, consent, submit, withdraw, respond to an offer, complete a task; one `transition` for every move | partly |
| Submission gateway (`submission.service.ts`, `payload-builder.service.ts`) | `submission_attempts`, immutable snapshots, retry jobs | dispatch, applyOutcome, retry, reissue of document handles | modelled |
| Inbound status (`connectors/inbound-status.service.ts`) | `application_status_events`, unique on the partner's event id | locate, store, transition, mark applied, answer | modelled |
| Connectors and adapters | connector rows: kind, enabled | submit through HTTP API, handoff, file exchange, operator | partly |
| Retry queue and workers | BullMQ jobs, dead-letter queues | enqueue, run, retry, dead-letter | partly |
| Status polling | last poll per connector | sweep, claim, poll | modelled |
| Idempotency keys (`common/idempotency`) | `idempotency_records` | run an operation under a key | modelled |
| Audit trail (`audit/`) | `audit_events`, hash-chained | record, verifyIntegrity | modelled |
| Documents and scanning (`documents/`, `storage/`) | `documents`, `document_versions`, objects | createVersion, finalise, runScan, remove | modelled |
| Document review | assessments of a version | open, decide, link to the bytes | modelled |
| Offers (`offers/`, contracts `offers.ts`) | versions, attachments, notices | edit, verify, publish, check, expire, attach, move; the price after offers | modelled |
| Guides (`guides/`) | profile, evidence, threads, sanctions | verify, endorse, suspend, restrict, reverify by the clock, message | modelled |
| Sessions and rewards | slots, bookings, rewards, payouts, refunds | book, cancel, complete, dispute; initiate, approve, reject, pay, refund | modelled |
| Messaging, trust and Q&A | messages, flags, cases and their events, answers | send, screen, report, move a case, moderate, consent | partly |
| Institutions and verification | stage, partnership, DNS challenges | evidence, advance, check, revoke | modelled |
| Catalogue, ingestion, freshness | effective-dated versions, import runs, index jobs | edit, publish, import, sweep, rebuild | modelled |
| Eligibility and students | profile sections, assessments, overrides | save, assess, override | modelled |
| Search | index, cursor | rank, page, facets, diagnosis | partly |
| Insights | none of its own: it reads the rows of the others | funnels, trend, queues, directory, connector health | modelled |
| Privacy | the account and all that names it | export, erase | modelled |
| Rate limits, support visits | counters; grants, sessions, events | count; start, end, sweep | modelled |
| Authentication | sessions, refresh tokens, second factor | log in, rotate, enrol, challenge, step up, suspend, sign out | partly |
| University portal, operations console | roles, requirement reviews, templates | set a state by hand, review, assign, switch a connector | partly |
| Web application (`apps/web`) | what a page has read and asked for | the wizard, chat, vault, profile, filters, table, onboarding | partly |
| Public site (`apps/site`) | one record in `localStorage`, a copy per tab | everything a visitor can press, and the timers | modelled |
| Health, configuration, observability; shared UI; build and infrastructure | none, or that of a widget | - | not modelled |

**How they interact.** A request of the API or a job of a worker is a sequence
of separate database statements; there are few transactions, so everything
below happens *between* two statements of something else. The application row
is shared by the student's requests, the retry workers, the inbound handler, the
sweeps and the university's staff in the portal. A submission leaves through a
connector under a key of its own and comes back in three ways: the synchronous
answer, a signed webhook, or a poll. Scans, retries, reindexing and the sweeps
run as BullMQ jobs, delivered at least once and up to five times, four at a
time per queue. Nearly every operation ends with an audit event, whose write
can throw after everything else is committed. Most consoles check a row they
read and write in a later transaction without looking again.

**What is hard here.** (1) A call to the university whose answer is lost: was
the application made? (2) a retry racing the request that scheduled it, or a
later submission; (3) events late, twice, reordered, or before the reference
they quote is stored; (4) a crash or a throwing write between two statements;
(5) checks made on a row read earlier: two moderators, two approvers, two editors;
(6) what nobody drives any more: a submission, a key in flight, an unscanned
upload; (7) pages that show and send what was true when they were rendered.

**What makes them correct.** Application: never shown as submitted without the
university's receipt. Gateway: what was sent is the snapshot, once, on record
before it leaves, within its budget, and never left alone. Inbound: every event
stored, none applied twice, the state follows the university. Keys: one run,
true replays, settled in the end. Audit: an untouched trail verifies, a removed
row shows. Vault: only clean, complete bytes go out, and everything is scanned.
Decisions: two people where two are asked for, one outcome, which stays. Listings:
what is shown rests on what stands behind it, and is ranked and priced by merit.
Sweeps: what a sweep found reaches its end. The hazards behind each, at their lines, are
in `PROJECT.json`.

## 2. Modules

One application, one offer, one guide, one institution, one programme, one account:
no action of the code decides on two of them, so each module models one, with
all the requests, jobs and people that are at it. A *caller* (request, worker,
sweep) has a program counter with the locals that survive a statement; a step is
one statement of the handler, so others run in between.

| Module | Models |
|---|---|
| `ApplicationStates` | the transition and authority tables, and what an inbound kind asks for |
| `Submission` | one application through the gateway: requests, retry workers, queue, university, portal |
| `SubmissionPromise` | abstract: what the gateway promises, with no requests, tries or faults |
| `InboundStatus` | deliveries of the university's events and their effect on the application |
| `ApplicationSystem` | `Submission` and `InboundStatus` on one application row |
| `ApplicationPayload` | readiness, consents, rules and the payload built of them, and the page that says what became of it |
| `ApplicationPages` | the pages on which a student starts an application and sends it |
| `StatusPolling` | the sweep that polls connectors without webhooks |
| `Idempotency` | the record of a key, around an operation |
| `AuditTrail` | recording and verification of the chain |
| `DocumentVault`, `DocumentReview` | the versions of a document and their scans; their assessment by people |
| `OfferLifecycle`, `PriceBreakdown` | an offer from draft to award; the price after offers, one turn of its loops a step |
| `Guides`, `GuideSessions` | a guide's verification, sanctions and threads; the calendar and what is earned |
| `Payouts` | payouts by two people, refunds of a payment |
| `PublicAnswers`, `TrustCases` | moderation and consent; cases, screening, rates, reports, the console of trust |
| `Institutions` | five stages, DNS challenges, the partnership |
| `Catalogue`, `Imports` | versions, publication, freshness and the index; preview, review, commit |
| `EligibilityRules`, `StudentProfiles` | the rules as operators; profiles saved, assessed and overridden |
| `SearchRanking`, `Insights` | ranking under a cursor; figures and the directory |
| `Erasure`, `RateLimits`, `SupportVisits`, `SignIn` | closing an account; counters; visits of operators; sessions and second factors |
| `Consoles`, `WebPages`, `PublicSite` | what pages let people press and what they have read when it is pressed |
| `MCSubmission` | small instances of the gateway: sets, symmetries |
| `Parts`, `MCServiceDesk`, `MCMarketplace`, `MCSweeps` | what a run of many modules side by side shares, and three such runs (section 3) |
| `ApplicationSystemProofs`, `InboundStatusProofs`, `IdempotencyProofs`, `AuditTrailProofs`, `DocumentVaultProofs` | theorems about the application, keys, trail and vault (section 6) |
| `DecisionsProofs`, `MarketplaceProofs`, `PartsProofs` | theorems about the parts of the harnesses, and what the harnesses promise of them |

### The application: Submission, InboundStatus, ApplicationSystem
`calls[p]` is the program counter of a process, a request or a worker.
`SubmitCheck, SubmitCount, SubmitSnapshot, SubmitMove` are
the statements of `submit`; `DispatchRefused, DispatchOpen, Exchange,
RecordOutcome` and `Confirm | Reject | DeadLetter | ScheduleRetry |
AwaitPartner` those of `dispatch` and `applyOutcome`; `RetryNoop, RetryRefused,
RetryStart` are the ways a retry job can begin, and a retry goes through the same
dispatch. A payload is the pair (submission, version of the requirements) it was
built from. The university (external) dedupes on the idempotency key and may take
an application whose answer is lost. `Crash` stops a process anywhere: a
request is gone, a worker's job is delivered again. `WriteFails` is a statement of
a job that throws, so the queue tries the job again. `PortalStates` says which
states staff set by hand, `InitialRoutes` how the connector is configured.

A delivery is `Read` (locate and the reasons to skip), `StoreEvent`,
`ApplyTransition`, `MarkApplied`, `Answer`. The university keeps its own `view` of
the application and sends events along it; `Ordered` says whether it waits for an
answer before the next one. It delivers an event again until it is answered, and
copies of answered ones at any time. `moves` is history. In `ApplicationSystem`
the references the university may quote are the keys of what it `held` in the
gateway, and its view starts over with what it takes.

### What is sent and how it is asked for: ApplicationPayload, ApplicationPages
`ApplicationPayload` serves one request at a time and lets the student's
documents, the programme's rules, the consents and the profile move between the
queries of `markReady` and of the payload builder; `past` is what moved under
the request, and a snapshot carries it. `ApplicationPages` is the other side: a
page holds what the server had when it was rendered, a request it sent may be
answered late or never, and its key may be used again. The gateway is only its
outcome in both.

### Keys, trail, vault
`Idempotency`: `Find, Insert, Operate, Complete, Release` are the five accesses of
`run`. The operation is one step that completes or fails; what it does inside is
`Submission`. `AuditTrail`: `Stamp` takes the timestamp, `Record` is the
serialisable transaction. The hash of an event stands for the whole chain up to
it, so a reference is the place of the row it was computed from; a forgery of
hashes is outside the model. `DocumentVault`: `CreateRead, CreateWrite`;
`FinaliseRead, FinaliseUpdate, FinalisePoint, FinaliseEnqueue`; `ScanRead, Scan,
ScanWrite` with the queue's `JobFails` and `WorkerDies`. The owner of the document
puts bytes (`Put`) as long as the signed link is valid, and nothing but its expiry
(`UrlExpires`) ends that: before completion, during it, while the file is scanned
and after the verdict. `late` is history: bytes were put that differ from those a
scan had fetched. A job whose worker dies is delivered again `MaxStalls` times (one,
BullMQ's default) and then fails in the queue without the handler, so without a
dead letter (`stalledJobs`). The queue is taken to accept the names the code gives
its dead-letter queues (`queue.service.ts:45`); a library that refuses the colon in
them would leave no dead letters at all. A scanner is configured: without one every
verdict is `pending`, and nothing ever becomes eligible.

### People who decide: DocumentReview, PublicAnswers, TrustCases, Payouts, GuideSessions, Guides, Consoles
The handlers read a row, check it, and write in a later transaction. A history
variable (`late`, `stale`, `moved`, `raced`) names the rows that had changed in
between; it is read by no action. `Payouts` has two people's approvals and a
payment with its refunds; unique indexes are guards of the writes they protect.
`GuideSessions` books under the row lock of the slot, everything else without;
`Guides` has the other half of a suspension. `TrustCases` and `Consoles` have
areas that share nothing, one chosen at the start.

### What is listed: Institutions, Catalogue, Imports, OfferLifecycle, PriceBreakdown, SearchRanking, Insights, StatusPolling
`Institutions` reads the institution and writes a stage later, `raced` once a write
was decided on what had changed. In `Catalogue` a version is closed and the next
opened in one transaction, its requirements are copied after it, and a reindex is
enqueued after that. `Imports` applies the stored rows one by one.
`OfferLifecycle` has edits, publication, the integrity check and the expiry sweep
on one offer; `PriceBreakdown` is the arithmetic, each turn of the loops
one step, against declarative references. `SearchRanking` pages while the index
moves. `Insights` reads in several queries while rows move.

### Accounts: SignIn, SupportVisits, Erasure, RateLimits, StudentProfiles, EligibilityRules
`SignIn` has one account, its sessions as families of refresh tokens, the
authenticator and the pages that hold tokens. `SupportVisits` has the four writes
of a start, the end by hand and the sweep, and the trigger that closes a grant
once. `Erasure` runs against requests that began before. `RateLimits` has several
instances of the program, some of which lost Redis. `EligibilityRules` holds the
rules as operators, `StudentProfiles` the writes around them.

### Pages without a server: PublicSite, WebPages
`PublicSite` is one record and its copies, a tab's handlers stopping at dialogs,
checksums and timers. `WebPages` is the client state of seven pages, whose answers
come late, in another order, or never.

## 3. Runs

Bounds are constants in every cfg (or, in the three harnesses, in the `WITH` of an
instance), named in the module that declares them. Names starting with `Max` only
cut the state space; `MaxAttempts`, `JobTries`, `MaxTries`, `Limit`, `Rate`, `Window`,
`Ttl` and `Interval` are the program's own limits, taken as 1 to 3, which still
has a first try, a middle and a last one where it matters. `MaxFaults`, `MaxMishaps`,
`MaxDeaths` and `MaxErrors` bound how many faults happen, `FaultKinds` says of which
kinds. `Mixes` are sets of operations that run in one behaviour: all of them at
once would only multiply independent steps, so a mix takes those that touch the
same rows.

| Run | Module | Question and bound |
|---|---|---|
| `submission_tries` | `MCSubmission` | the answers of all connectors together, one request, two workers, 3 attempts, 2 submissions, 2 faults, staff who send the application back: is what is on record, sent, held and shown consistent at every moment, and is every step one of `SubmissionPromise`? |
| `submission_life` | `MCSubmission` | two submissions and a changing set of requirements, no faults, fair: does a pending submission end? |
| `inbound_faults` | `InboundStatus` | two deliveries, reordered and duplicated, two faults of three kinds, fair: is what is answered stored, did what was skipped move nothing, does what did not apply say why unless a crash left it, is every event answered? |
| `handoff_events` | `ApplicationSystem` | first submission and resubmission through a connector that confirms later, up to five events, reordered and duplicated: is every reference on evidence, the promise kept, and is each of the two submissions confirmed by its own receipt? |
| `key_races` | `Idempotency` | two requests, two keys, two bodies, one fault of three kinds, fair: one run, true replays, one completion, and does a key settle? |
| `audit_order` | `AuditTrail` | two writers, four events, every order of ids and commits: when the order is kept, does verification tell the truth? |
| `vault_scans` | `DocumentVault` | two requests and two scans at once, bytes put at any time, two faults of three kinds, fair: can anything unfit go out but what arrived after its scan, is every upload in somebody's hands, and scanned? |
| `service_desk` | `MCServiceDesk` | reviews, cases, answers, a calendar, money, profiles, erasure, rate limits, sign-in, consoles and the payload, two callers each: do the records say of one another what happened? |
| `marketplace` | `MCMarketplace` | institutions, the catalogue, imports, search, prices, polls, pages and figures: does what is listed rest on what stands behind it, and is what is shown fair? |
| `sweeps` | `MCSweeps` | offers, a guide, visits and the public site, fair: does what a sweep, a sanction or a timer set out to end reach its end, and stay at it? |
| `submitted_by_hand` | `MCSubmission` | violated: staff move an application to `submitted` with no reference |
| `vault_checksum` | `DocumentVault` | violated: an upload is completed whose stored bytes are not those of its checksum |

In `handoff_events` five events are enough for the second submission: receipt,
review and a request for more information come before it, and its receipt is the
fourth or fifth. `HandoffConfirms` asks, for each submission apart, that a handoff
the university has taken ceases to wait; it lets one wait when a delivery crashed
(none does in this run), or when the wire had no room left for the receipt *of that
submission*. A university that fills the wire with other events is a bound of the
model; a receipt that was sent must confirm, and the mutant that finds the token of
the first attempt only fails on the second submission. Crashes of deliveries are in
`inbound_faults`, and `HandoffHasGroundsCorrect` is proved with all faults.

**Why three harnesses.** Twenty-odd components of this program never call each
other, so a run for each would ask the same questions of very small systems. A
harness runs them side by side: `part` is chosen at the start, `v1`, `v2`, ... hold
the variables of that part in the order of its `vars`, and each invariant is a
conjunction of `part = ... => Component!Property`. The state space is the disjoint
union of those of the parts, each explored completely; no property is weakened by
it, for the parts are the modules themselves by `INSTANCE ... WITH`. A component
is looked at alone by a cfg of its own with the constants the harness gives it.

Two processes suffice for the races of this code, since each check-then-act pair
is broken by one other process between its two halves; a second submission
matters because attempt numbers and the application row are shared by all
submissions, and a third adds nothing of a new kind. Two faults let a recovery fail.
Three versions of a programme or an offer let a step come between two edits.
Where a bound could hide something, the theorems of section 6 have none.

**Deadlock** is not checked anywhere: every system here may come to rest (an
application is closed, a bound is reached, nobody calls).

## 4. Conditions and divergences

A property named `...Unless<Condition>` holds as long as the condition has not
come about, and the condition is exactly what the code needs: the property
without it is violated, and is stated beside it where the code or its documents claim
it. A history variable records the condition; no action reads it.

| Module | Condition | Why |
|---|---|---|
| `InboundStatus` | an insert failed for another reason than a duplicate; an audit write failed after a move; `Crashed`: a delivery died half way | `EventsOnRecord` and `UnappliedSaysWhyUnlessCrashed` say which fault costs which guarantee |
| `Idempotency` | a completed record was not written; a process died, or a release failed, with a key in flight | `CompletedOnceIfRecorded`, `KeySettlesUnlessAbandoned` |
| `DocumentVault` | a request died completing an upload, or its job stalled too often | `UploadIsScannedIfRequested`, `NoUploadForgotten` |
| `DocumentVault` | `PutLate`: other bytes were put after a scan had fetched those it judged | the signed link outlives finalise and the verdict (`storage.service.ts:42-58`), and what is sent is what is stored then: `EligibleIsCleanUnlessPutLate`, beside `EligibleIsClean` |
| `ApplicationPayload` | `Changed`, `Moved`: what is sent moved after it was resolved; `Revoked`: a consent did; `Tied`: two records started on one day; `Withdrawn`: the application was | queries answered one after another, and an order by a date that ties |
| `ApplicationPages` | `Kept`: an answer kept under a key is replayed; `Lost`: a fetch threw; `Raced`: two starts at once; `BlockedSince`: something went missing after the page was loaded | one page, one key, no timeout |
| `DocumentReview` | `Late`: row or scan changed after it was read | update by id |
| `PublicAnswers`, `Payouts` | `Stale`: a decision was written over what had changed | update by id |
| `TrustCases` | `Stale`: two moves of one case overlapped; `Rescanned`: the file was scanned again; `Died`; `Crowded`: more wait than the queue lists; `Overlapped`: messages counted together | |
| `GuideSessions`, `Guides` | `Moved`: a session had changed since it was read; `Raced`: booked or opened while a suspension took effect; `Reinstated`: a sanction was lifted; `Died` | |
| `Institutions`, `StudentProfiles`, `Erasure` | `Raced`: a write was decided on what had changed; `Failed`: an object could not be removed | |
| `Catalogue`, `Imports` | `Torn`: a handler died before its copy or its reindex, an older rebuild wrote last, or a partnership was revoked; `Again`: a commit begun over a first one | |
| `SearchRanking`, `Insights` | `Moved`: rows changed between the queries; `TurnedBack`: the application did; `ManyTopics`: more than ten topics asked for | |
| `SupportVisits` | `Spoilt`: a call died over the grant, another was started beside it, or it was ended before it had its session | four writes, no transaction |
| `SignIn` | `Doubled`: one token used twice at once; `Late`: a rotation was between its read and its row; `Crossed`: a confirmation met a new secret; `Cut`: a sanction half done, or a sign-in that had looked before it | |
| `RateLimits` | `Switched`: an instance fell back to its own map | |
| `Consoles` | `Moved`, `Crossed`, `Overlapped`, `Failed`: another operator wrote since the page was rendered, or an answer did not come | |
| `WebPages` | `Late`, `Lost`, `Refused`, `Doubled`, `Overlapped`, `Left`, `Hasty`, `Idle`, `Narrowed`, `Turned`: what an answer or a press can come after | |
| `PublicSite` | `Raced` (reset, two tabs, sent twice), `Changed`, `Jumped`, `Replaced`, `Reloaded` | a record with no server |

**Divergences.** Where a comment, a test or a runbook of the repository says more
than the code keeps, the property worded after it is stated in the module, with the
quotation, and TLC finds it violated. Two are checked runs, quoted in `findings`:
`submitted_by_hand` (university staff move an application to `submitted` with no
reference, `university-portal.service.ts:226-229`) and `vault_checksum` (the checksum is
the browser's word, and the stored bytes may be others, `documents.service.ts:133-137`). The others are checked by hand: copy
the cfg of the run, keep one property, and give the constants named here.

Of the application and its neighbours:

| Property | From cfg, changed to | What happens, against what is said |
|---|---|---|
| `PendingResolves` | `submission_life`, `InitialRoutes = {"off"}` | with the connector switched off, a submission is stuck in `submitted_pending` (`docs/runbooks/submission-failures.md:33-36`) |
| `PendingResolves` | `submission_life`, `MaxFaults = 1` | the process dies after the move and before a retry is enqueued (`applications.service.ts:484-485`, "safe to die after") |
| `PendingResolves` | `submission_life`, `PortalStates <- HandMoves` | a late retry takes the number of a resubmission, which then waits for ever |
| `SentAsAcknowledged` | `submission_life` | the payload is built on requirements read after the drift check (`applications.service.ts:37-40`) |
| `RetryAfterConfirmIsNoop` | `submission_life`, `PortalStates <- HandMoves` | a retry of a confirmed submission dispatches again during a later one (`submission.service.ts:356-358`) |
| `DeadLetterAfterAllTries` | `submission_life`, `PortalStates = {}` | attempts are counted over all submissions (`submission.service.ts:297`) |
| `ConfirmedIsHeld` | `handoff_events`, the outcomes of the HTTP API, `FaultKinds = {}` | the late first receipt confirms a resubmission the university does not hold (`submission.service.ts:65-67`) |
| `StateFollowsUniversity` | `inbound_faults`, `FaultKinds = {}` | an event skipped on arrival is never applied (`docs/runbooks/application-stuck.md:29`) |
| `StateFollowsUniversity` | `inbound_faults`, `Ordered = TRUE`, one delivery, `FaultKinds = {}` | a withdrawal the university reports is always refused (`connectors.ts:202-203`) |
| `UnappliedSaysWhy` | `inbound_faults`, `FaultKinds = {"crash"}` | a crash leaves a stored event with neither effect nor reason (`docs/runbooks/application-stuck.md:27-29`) |
| `AnsweredIsStored` | `inbound_faults`, `FaultKinds = {"insert_error"}` | an event is answered that was not stored (`inbound-status.service.ts:41-43`) |
| `SkippedDidNotMove` | `inbound_faults`, `FaultKinds = {"audit_error"}` | an event that moved the application is recorded as refused (`inbound-status.service.ts:204-206`) |
| `CompletedOnce` | `key_races`, `FaultKinds = {"complete_error"}` | an operation that succeeded is run again, because its response could not be stored |
| `KeySettles` | `key_races`, `FaultKinds = {"crash"}` | a key whose process died stays in flight for good: nothing reads its `expiresAt` |
| `UntouchedTrailVerifies` | `audit_order` | an untouched trail fails verification when two writers commit in another order |
| `UploadIsScanned` | `vault_scans`, `FaultKinds = {"request_dies"}` | a request dies between completing an upload and asking for its scan |
| `QuarantineStays` | `vault_scans`, `FaultKinds = {}` | of two scans of one file, the later verdict replaces quarantine |

`PendingResolves` is thus both sides: it holds in `submission_life` and fails once the
process may die, the route be switched off, or a retry take a number.

Of the other components, each in the module named, with the constants its harness
gives it unless others are named:

- **`OfferLifecycle`**: `ExpiredIsSettledAlways` and `ExpiredIsSettledByReplay` (an award
  outlives its version when the sweep dies, `offer-expiry.service.ts:23-30`);
  `MismatchStaysDown` (`offer-integrity.service.ts:44-45`).
- **`PriceBreakdown`**: `NoFailNoGapIsEligible` (the comment of `evaluate`),
  `ClaimableReduces` (the claim deadline is only displayed).
- **`Guides`**: `ActiveIsBacked`, `ActiveStudiesThere`, `EndorsedWhereStudying`,
  `SuspendedWereTold` ("cannot come apart"), `OneThreadPerContext` ("The unique index in
  the schema"; null columns are not compared,
  `20260910224945_phase_3_guide_network/migration.sql:332`), `ClockNeverUndoes`,
  `StageForwardOnly`, `SuspendedHasNoOpenThread`.
- **`GuideSessions`**: `RewardMatchesSession`, `DisputedIsWithheld`, `SuspendedHasNoSession`,
  `LiveHasSlot`, `SlotsAreApart`, `OutcomeIsFinal`; `NoOverbooking` with three sessions and
  the mix `{"book", "cancel"}` (`sessions.service.ts:28-34`).
- **`Payouts`**: `PaidOnce`, `RejectedIsNotPaid`, `RefundsWithinPayment`, `ReversedIsRefunded`,
  `RewardSteps` ("Paid is terminal"). Also seen: a no-show earns a reward that
  `initiatePayout` refuses, and a rejected payout blocks another one for good.
- **`PublicAnswers`**: `PublicHasTwoYeses`, `DecidedStays`, `ConsentedIsNotWithdrawn` ("in either
  direction": consent given again does not publish again).
- **`TrustCases`**: `HistoryIsAChain`, `TerminalStays`, `WithinRate` (the message after the
  limit is stored, and each one refused opens another case), `AttachedIsClean`,
  `BreachingIsLate` and `LongestIsListed` (the wait is read from `createdAt`),
  `HeaderCountsOpen`, `CaseIsAboutWhoWrote`, `FiledAsTheGravest`, `OneCasePerBurst`.
- **`DocumentReview`**: `OneRowPerReviewer` (`schema.prisma:2505-2507`; Modex is a null
  column), `DecidedOnce`, `OpensWhatIsClean`. `escalatesToTrust` opens no case.
- **`StatusPolling`**: `PollsAreApart`, `OnePollAtATime` (`status-poll.service.ts:15-18`).
  Nothing in the code triggers the poll (`docs/phases.md:534-535`).
- **`Catalogue`**: `RequirementsSurvive`, `RevokedIsPulled`, `IndexFollows` (revoking enqueues no
  reindex, `institutions.service.ts:346-353`), `ConfirmedIsShown` (deadlines `{3}`, time 3).
  Fees are not copied to a new version, and an import asks for no reindex.
- **`Imports`**: `MadeAsReviewed`, `ShownIsWritten` (the tuition of a new programme is not
  written), `OwnRowsAreFound`, `PublishedIsKept`.
- **`SupportVisits`**: `OneVisitAtATime`, `EndedIsRevoked`, `EndedIsOnRecord`, `WithdrawnIsEnded`.
- **`Institutions`**: `DomainStaysConfirmed`, `BadgeHasPartnership`, `ForwardOnly`,
  `RevokedIsOut`, `BadgeIsBacked`, `ChecksAreCapped`.
- **`StudentProfiles`, `EligibilityRules`**: `KeptAsSaved`, `OverrideIsNeverSilent` (`explainMany`
  writes no audit event), `CompletedIsTested`, `BetterTestNeverHurts`, `FilledIsAssessed`.
- **`Erasure`**: `ErasedIsBlank`, `FilesAreGone` ("swept by the retention job": there is
  none), `RetainedIsNamed`, `HistoryIsKept` (the data map says academic history is retained).
- **`SearchRanking`**: `NoRowTwice`, `CountsAgree`. **`RateLimits`**: `WithinBudget`, `CountersExpire`
  (`INCR` and `EXPIRE` are two commands).
- **`SignIn`**: `EnrolledIsOnThePhone`, `OneLivePerFamily`, `EndedIsOver`,
  `SuspensionEndsSessions`, `AnsweredIsUsable`, `NewStaffCanEnrol`, `SignedOutIsRevoked`,
  `PendingIsChallenged` (`auth.controller.ts:69-75` against `auth.service.ts:134-141`;
  `lib/console.ts:17` against `:42-50`; `sanctions.service.ts:163`).
- **`ApplicationPayload`**: `SentIsComplete` ("refuses to reach `ready`",
  `payload-builder.service.ts:224-229`), `LaterIsNotSent` (mix `{"consents", "documents"}`),
  `RemedyUnblocks` (a clean copy does not unblock: superseded versions count),
  `SameProfileSameVersion` (`payload-hash.ts`, two records of one day), `SentAsSaved`,
  `EverySnapshotIsSent`, `ReceivedIsHeld`, `RevokedAlone`.
- **`ApplicationPages`**: `OkIsNew`, `BusyIsAwaited`, `ErrorMeansNone`, `ReachedIsValid`,
  `SentIsUnblocked`, `ToldToActMayAct`, `OfferedIsPossible` (`application-wizard.tsx:60-76,
  150, 170-175, 218`; `start-application.tsx:21-23`).
- **`WebPages`**: each property without its `Unless`, `SentWhereMeant`, `SavedIsShown`. The
  "Clear all filters" of an empty search passes the same query on.
- **`Consoles`**: `ShownConsoleLoads` (`admin.ts:35-38`), `DisabledIsRefused`, `AdminRemains`
  (`university-portal.service.ts:541-543`), `OneRolePerColleague` (three operators),
  `ReviewsChain`, `GivenIsInForce`, `VersionsDiffer` (`admin.ts:215-218`), `WaitingIsShown`,
  `AcceptanceIsPlain`.
- **`Insights`**: `TellsHowFar`, `FunnelsAgree`, `TrendCountsEveryone`, `ClearIsClear`,
  `OverdueIsSeen`, `BusyIsNotFailing`, and `TrustOnlyBreaksTies` with twelve topics.
- **`PublicSite`**: `ConfirmedIsKept`, `SentIsTicked`, `SentIsConsented` (`?step=5`),
  `DecidedWasOpened` (`store.js:622`), `PendingIsAwaited` (`apply.js:306`), `BlockedIsSilent`
  (`guides.js:384`).

## 5. Fairness

Weak fairness of each step of a process that has started, and of workers taking
jobs: Node runs what is ready and BullMQ polls. Strong fairness of delivering an
unanswered event, in `InboundStatus`: the partner goes on retrying, and between
tries the handler may be busy. In `MCSweeps`, weak fairness of the next step of a
sweep or a sanction that has begun, and of a timer on an open page. The code has no
scheduler: its queues add one job at a time (`queue.service.ts:77-93`), the sweep of
visits has a consumer and no producer (`workers.service.ts:142`), and
`docs/phases.md:533` says "Still no scheduler". So no sweep is assumed to *begin*:
what `EndsComeAndStay` asks is that one that has begun ends what it found, and that
nothing brings it back; an offer, a verification or a visit nobody sweeps stays.
No fairness on time, on anything a person does, nor on faults. `service_desk` and
`marketplace` use no fairness, and no safety property rests on any.

## 6. Proofs

All theorems are for every value of the constants, under the modules' `ASSUME`s
only (disjoint processes, naturals, subsets of the known kinds), and for
unbounded runs, unless the statement itself says more.

- **Gateway** (`ApplicationSystemProofs`, first half). `TypeCorrect`; then the invariant
  `GatewayInv`. `PartnerHoldsSnapshot`, say, is not inductive: that what arrives is
  the snapshot needs that whoever is on the way to the university carries it
  (`CarriesSnapshot`), and `EvidenceForReference` needs that a receipt in hand is
  of something held (`ReceiptIsHeld`), recorded before it is used
  (`ReceiptIsRecorded`), in a row no other process writes (`OwnsAttempt`,
  `OwnsAlone`). That the university opens one application per submission rests on
  `FiledByKey`. `OutcomeFinal` is an action property from `GatewayInv`.
  `AttemptBudget` has an invariant of its own, `BudgetInv`, over all *tries*: the
  rows, the jobs and the calls that will still make one. `NoParallelTries` has
  `AloneInv`: of the requests, jobs and workers that can still call the university
  for a submission there is one.
- **Refinement** (`ApplicationSystemProofs`). `GatewayKeepsPromise`: every step of the gateway
  is a step of `SubmissionPromise` or a stutter, provided staff do not set
  `submitted` by hand (`"submitted" \notin PortalStates`); `submitted_by_hand`
  shows that the assumption is needed, and that the portal does not keep it.
  `ShownIsTakenCorrect` follows.
- **Inbound status** (`InboundStatusProofs`). `RecordInv` ties a delivery in progress to
  its event: what it stored, what it moved, what it has yet to mark. From it
  `EventsOnRecordCorrect`, `AppliedAtMostOnceCorrect` (however many copies arrive at
  once) and `UnappliedSaysWhyCorrect`: in any order, with any faults but a crash.
  `OrderInv` adds the order of a partner that waits for its answers, and gives
  `StateFollowsCorrect`; no run checks that property, which two divergences of
  section 4 show to be false of any other partner.
- **Composition** (`ApplicationSystemProofs`, second half). `SystemInv` is `GatewayInv` and what the
  events bring: a reference is quoted only if it was issued, and an event that
  confirms does it on the evidence of an accepted attempt or a stored receipt
  (`HandoffHasGroundsCorrect`). `GuaranteesSurvive` and `SystemOutcomeFinal` carry the
  gateway's guarantees over to the composed system, `SystemKeepsPromise` its
  refinement.
- **Keys** (`IdempotencyProofs`). `TypeCorrect`, `OneRunCorrect`, `ReplayCorrect`, and
  `CompletedOnceCorrect`: unless a completed record failed to be written.
- **Audit** (`AuditTrailProofs`). `TypeCorrect`, `OrderedTrailCorrect` and
  `RemovalCorrect`: a trail whose rows were committed in the order of timestamp and
  id verifies, and verification fails if a row other than the last is gone. That
  the order is not guaranteed is `UntouchedTrailVerifies` above.
- **Vault** (`DocumentVaultProofs`). `EligibleCorrect` for any number of concurrent
  scans and puts, by `VaultInv`: verdicts in hand and on record are about the stored
  bytes unless others were put late (`Judged`), and only completed uploads are
  scanned. The condition is needed: without it a clean version may hold bytes no
  scan has seen for as long as its link lives, and the theorem says no more than
  that. `NotForgottenCorrect`: while no request died, an upload without a verdict
  is in the hands of a request, a job, a worker or a human, or its job was given
  up by the queue, by `Held`. `QuarantineCorrect` needs the assumption that there is a
  single scanner, and rests on `WorkIsWanted`; the code does not give it, the
  queue runs four jobs at once (`queue.service.ts:103`), and `QuarantineStays` above is
  the outcome: the theorem says what a concurrency of one would buy.
- **Institutions** (`MarketplaceProofs`). `VerificationInv`: what a request read of the
  institution it still reads, or the institution is about to be `raced`; and what
  was entered, backed and confirmed up to each stage. `EveryStageCorrect` needs no
  condition, `DomainCorrect`, `BadgeCorrect` and the action property `ForwardCorrect` have
  that of a race. `ChecksNearCapCorrect` counts the requests that are between the
  read of a challenge and its count, a cardinality that the step lemmas move by one.
- **Calendar, limits, messages** (`MarketplaceProofs`). `CalendarInv` counts: the places
  of a slot are its live sessions, and a booking about to commit holds the lock and
  has seen room (`BookingsFit`, `PlacesFit`); what a suspension missed was booked
  meanwhile (`MissedIsRaced`). It gives `CountCorrect`, `NoOverbookingCorrect`,
  `LedgerMatchesCorrect`, `DisputedCorrect` and `SuspendedCorrect`. `LimitsInv` says that a
  counter counts at least what was let through (`CountersCount`) and that one without
  expiry is about to get it (`UnsetIsBeingSet`). `RateInv` allows one message more
  than the rate, in the hands of whoever counted alone (`OneAlone`, `PlainWithin`).
- **Polls, imports, catalogue** (`MarketplaceProofs`). `PollsInv` ties `lastPolledAt` to the
  last claim. `SheetsInv` says how far a commit has come (`MadeSoFar`), that one
  caller commits an import and that a row makes one programme. `ProgrammeInv` has the
  timeline of versions, what a handler still refers to, and that a document that is
  not current has something coming that will write it (`ComingUnlessTorn`).
- **The harnesses** (`PartsProofs`). A behaviour of `DeskSpec` or `MarketSpec` is one of the
  part it chose, and as long as that part runs it is a behaviour of the component
  (`...IsProved`), whose theorems hold for every constant, so for those of the
  harness: `BooksBalanceCorrect`, `ListingsAreBackedCorrect` and the action property
  `VerificationGoesForwardCorrect`, for every set of callers and of people.
- **Answers, money and offers** (`DecisionsProofs`). Each invariant says what a call
  in progress may still rely on: `AsRead` and its kin compare what the call read
  with the row, and allow a difference only for rows in the history variable.
  `AnswerInv` gives `TwoYesesCorrect`, `AskerCorrect` (with no condition) and
  `DecidedCorrect`. `PayoutInv` gives `TwoPeopleCorrect` and `PaidTookTwoCorrect`, with no
  condition: dual approval survives every interleaving, for the two names are
  written by separate calls that compare them; `PaidOnceCorrect` and
  `RejectedCorrect` under theirs. `RefundInv` needs the sum of refunds: `SumsAgree`
  shows that the fold the model computes is the sum defined by taking least
  elements off (`LeastOf`, `SetInduction`, which rests on the well-foundedness of the
  naturals), so that `SumUnfolds` adds one refund; then `RefundsCorrect`,
  `ReversedCorrect`. `OfferInv` says which version a call read, who signed it, and
  what the sweep has left of a version's awards and notices; then `CurrentCorrect`,
  `SignedCorrect`, `SettledCorrect`, `ToldCorrect` and the action property
  `AwardsCorrect`.
- **Support visits** (`DecisionsProofs`). `VisitInv` says that who starts a visit looked
  when nobody was there, that a grant has one starter, that what the sweep has yet to
  record is not on record, and that a grant nothing happened to has its start and its
  end on record or in the hands of somebody who records it. `OneVisitCorrect`,
  `RevokedCorrect` and `OnRecordCorrect` follow, each for the grants that are not in `spoilt`
  (a start beside another, a death, a session made after the end), and the action
  property `ClosedCorrect` with no condition. `VisitsAssumption` says that `None` is not a
  moment of time.

Each strengthened invariant was checked by TLC on the instance of its run before
it was proved. The theorems about single components of the harnesses have no
"property" in `PROJECT.json` because a run checks them as a conjunct of the harness's
invariants; their statements name the component's own definitions.

**Model-checked only.** Liveness (`PendingResolves`, `EveryEventAnswered`,
`KeySettlesUnlessAbandoned`, `UploadIsScannedIfRequested`, `EndsComeAndStay`, and the
confirmations of `HandoffKeepsPromise`): fairness and ENABLED are out of the prover's
reach. What a recursive computation yields for
every input (`PriceBreakdown`'s loops, `SearchRanking`'s order, `Insights`' percentiles)
would need induction over data with an operator as a parameter; the sum of refunds
is the one place where an induction over sets was written out. Of `RecordsStand` and
`StepsStand` the parts about answers are proved, of `NothingOutlivesItsGround` those
about offers and visits; `ShownIsFair`, and the components not named above, are
checked by TLC only.

## 7. What is left out, and why

Formatting, labels, notifications and timeline entries (except where a property is
about them); encryption, signatures and hashing; authorisation of requests (each
modelled action starts after it, but for `SignIn` and `Consoles`); delays (a job or
sweep may run at any later time). Of payloads only the versions they were built
from are kept; of requirements, whether they changed. In `Submission` a failed
application that is submitted again without being marked ready is not modelled,
`ApplicationPayload` has it. A published programme is assumed to have requirements
in `ApplicationPayload`, where one request is served at a time. Of patterns,
passwords, tokens and codes only their identity is kept. Left out altogether: the
trace for auditors and the list of applications, registration, wire formats of the
adapters, the monitoring of queues, the profile of a university, the SQL of the
search and its order by duration, health and start-up, shared UI, the build.

## 8. Plan

Done: the application and the gateway, inbound status, keys, trail and vault; the
components of the three harnesses; the proofs of section 6, up to the harness
properties `BooksBalance`, `ListingsAreBacked` and `VerificationGoesForward`. Next:

1. `Guides` and `PublicSite`: what remains of `NothingOutlivesItsGround`.
2. `TrustCases` (`HistoryIsAChainUnlessStale`) and `SignIn` (`ActsAreElevated`,
   `OneLivePerFamilyUnlessDoubled`), for `RecordsStand`.
