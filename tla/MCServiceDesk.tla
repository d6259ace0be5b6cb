---------------------------- MODULE MCServiceDesk ----------------------------
(* The parts in which people decide about people, side by side: documents  *)
(* are assessed, cases moved, answers moderated, sessions booked, rewards  *)
(* paid out, profiles saved and sent, accounts entered and erased, and     *)
(* requests counted.  These parts do not call each other.                  *)
EXTENDS Parts

CONSTANTS
    Others,         \* two of a kind: staff, documents, or identities that are counted
    Universities, Modex, Nobody

DeskSymmetry == Permutations(Callers) \cup Permutations(Others)

Reviews == INSTANCE DocumentReview WITH
    scan <- v1, applied <- v2, rows <- v3, verdicts <- v4, calls <- v5, late <- v6,
    MaxRows <- 3

(* Trust: cases and its console; messages, their files and reports; and    *)
(* the messages of a guide counted.                                        *)
Reports == INSTANCE TrustCases WITH
    area <- v1, cases <- v2, events <- v3, messages <- v4, flags <- v5, notices <- v6,
    file <- v7, desk <- v8, calls <- v9, stale <- v10,
    Areas <- {"cases", "console"}, Threads <- {1}, Texts <- {{}}, ReportTypes <- {"harassment"},
    Rate <- 0, Recipients <- 0, Rows <- {"guide", "institution"}, Sla <- 1, Limit <- 2,
    MaxCases <- 1, MaxEvents <- 4, MaxMessages <- 0, MaxTime <- 3
Screened == INSTANCE TrustCases WITH
    area <- v1, cases <- v2, events <- v3, messages <- v4, flags <- v5, notices <- v6,
    file <- v7, desk <- v8, calls <- v9, stale <- v10,
    Areas <- {"messages", "files", "reports"}, Threads <- {1, 2},
    Texts <- {{}, {"guarantee_claim", "impersonation"}, {"payment_solicitation"},
              {"off_platform_solicitation"}},
    ReportTypes <- {"payment_solicitation", "harassment"},
    Rate <- 1, Recipients <- 1, Rows <- {"guide"}, Sla <- 1, Limit <- 2,
    MaxCases <- 2, MaxEvents <- 2, MaxMessages <- 2, MaxTime <- 1
Counted == INSTANCE TrustCases WITH
    area <- v1, cases <- v2, events <- v3, messages <- v4, flags <- v5, notices <- v6,
    file <- v7, desk <- v8, calls <- v9, stale <- v10,
    Areas <- {"rate"}, Threads <- {1, 2}, Texts <- {{}}, ReportTypes <- {"harassment"},
    Rate <- 1, Recipients <- 1, Rows <- {"guide"}, Sla <- 1, Limit <- 2,
    MaxCases <- 2, MaxEvents <- 2, MaxMessages <- 3, MaxTime <- 1

Answers == INSTANCE PublicAnswers WITH
    active <- v1, answers <- v2, askerKnown <- v3, calls <- v4, stale <- v5,
    MaxAnswers <- 2

(* A guide's calendar: around bookings; under a suspension; delivery       *)
(* against disputes and cases; delivery against both cancellations.        *)
Hour(from, till, capacity) == [from |-> from, till |-> till, capacity |-> capacity]
TwoHours == {Hour(1, 3, 1), Hour(2, 3, 2)}
BookingMixes ==
    {{"slot", "book", "cancel"}, {"book", "cancel", "suspend"},
     {"book", "complete", "dispute", "case"}, {"book", "complete", "cancel", "suspend"}}
Calendar == INSTANCE GuideSessions WITH
    active <- v1, caseOpen <- v2, slots <- v3, sessions <- v4, rewards <- v5, calls <- v6,
    now <- v7, mix <- v8, moved <- v9, died <- v10,
    Hours <- TwoHours, Mixes <- BookingMixes, CrashSteps <- {"dispute_entries"},
    MaxSlots <- 2, MaxSessions <- 2, MaxTime <- 1

MoneyMixes == {{"initiate", "approve", "reject", "pay", "dispute"}, {"refund"}}
Money == INSTANCE Payouts WITH
    rewards <- v1, payouts <- v2, paid <- v3, refunds <- v4, payment <- v5, calls <- v6,
    mix <- v7, stale <- v8,
    Staff <- Others, Rewards <- {"r1"}, Payment <- 3, Amounts <- {1, 2, 3},
    Mixes <- MoneyMixes, MaxPaid <- 2, MaxRefunds <- 4

(* What a programme requires, what a student may declare and hold, and a   *)
(* partner's override: an inverted grade scale; one with an override; a    *)
(* profile with a level in progress; language tests; levels from abroad    *)
(* and work; age, nationality and a document.                              *)
Record(level, grade, done) ==
    [level |-> level, country |-> "x", grade |-> grade, completed |-> done]
Grade(scale, value) == [scale |-> scale, value |-> value]
Bachelors(grade) == <<Record("bachelors", grade, TRUE)>>
Test(overall, writing, expires) ==
    [test |-> "ielts", overall |-> overall, bands |-> [writing |-> writing], expires |-> expires]
Gpa(scale, comparison, value) ==
    [readable |-> TRUE, ruleType |-> "gpa_minimum", scale |-> scale, comparison |-> comparison,
     value |-> value]
NoFacts == [months |-> None, born |-> None, nationality |-> None]
NoVault == [usable |-> {}]
Graded(rules, records, override) ==
    [rules |-> rules, records |-> records, tests |-> {<<>>}, facts |-> {NoFacts},
     vaults |-> {NoVault}, override |-> override]
Ielts ==
    [readable |-> TRUE, ruleType |-> "english_language", test |-> "ielts", overallMinimum |-> 65,
     bandMinimums |-> [writing |-> 60]]
MastersAbroad ==
    [readable |-> TRUE, ruleType |-> "academic_qualification", level |-> "masters",
     countries |-> {"y"}]
AYearOfWork == [readable |-> TRUE, ruleType |-> "work_experience", months |-> 12, field |-> None]
Adult == [readable |-> TRUE, ruleType |-> "age_minimum", years |-> 18]
NotFromX ==
    [readable |-> TRUE, ruleType |-> "nationality_restriction", comparison |-> "not_in",
     countries |-> {"x"}]
Transcript ==
    [readable |-> TRUE, ruleType |-> "document_required", documentType |-> "transcript",
     certified |-> FALSE]
StudentCases ==
    {Graded(<<Gpa("uk_class", "gte", 21), [readable |-> FALSE]>>,
            {Bachelors(Grade("percentage", 610)), Bachelors(Grade("percentage", 1010)),
             Bachelors(Grade("uk_class", 10)), Bachelors(Grade("uk_class", 30))}, None),
     Graded(<<Gpa("percentage", "gte", 800), [readable |-> TRUE, ruleType |-> "portfolio"]>>,
            {Bachelors(Grade("gpa_4", 40)), Bachelors(Grade("gpa_4", 29)),
             Bachelors(Grade("gpa_4", 31)), Bachelors(None)},
            [outcome |-> "pass", expires |-> 1]),
     Graded(<<Gpa("gpa_4", "gt", 33)>>,
            {<<Record("bachelors", Grade("gpa_4", 33), TRUE), Record("masters", None, FALSE)>>,
             Bachelors(Grade("gpa_5", 45)), Bachelors(Grade("gpa_5", 50)),
             Bachelors(Grade("ects_grade", 30))}, None),
     [Graded(<<Ielts>>, {<<>>}, None) EXCEPT !.tests =
          {<<>>, <<Test(65, 60, 1)>>, <<Test(65, None, None)>>, <<Test(70, 50, None)>>,
           <<Test(60, 60, 1)>>}],
     [Graded(<<MastersAbroad, AYearOfWork>>,
             {<<>>, Bachelors(None), Bachelors(None) \o <<Record("masters", None, FALSE)>>}, None)
          EXCEPT !.facts = {NoFacts} \cup {[NoFacts EXCEPT !.months = m] : m \in {6, 12}}],
     [Graded(<<Adult, NotFromX, Transcript>>, {<<>>}, None) EXCEPT
          !.facts = {NoFacts, [months |-> None, born |-> -17, nationality |-> "x"],
                     [months |-> None, born |-> -18, nationality |-> "y"]},
          !.vaults = {NoVault, [usable |-> {"transcript"}]}]}
Profiles == INSTANCE StudentProfiles WITH
    case <- v1, profile <- v2, vault <- v3, calls <- v4, now <- v5, shown <- v6, sent <- v7,
    deaths <- v8, raced <- v9,
    Cases <- StudentCases, MaxDeaths <- 1, MaxTime <- 1

Accounts == INSTANCE Erasure WITH
    account <- v1, session <- v2, profile <- v3, records <- v4, documents <- v5, objects <- v6,
    named <- v7, application <- v8, calls <- v9, report <- v10, faults <- v11, raced <- v12,
    Documents <- Others, MaxMessages <- 1, MaxFaults <- 1
Limits == INSTANCE RateLimits WITH
    redis <- v1, healthy <- v2, local <- v3, calls <- v4, now <- v5, errors <- v6,
    allowed <- v7, switched <- v8,
    Instances <- Callers, Keys <- Others, Limit <- 1, Window <- 1, LocalMaxKeys <- 1, MaxErrors <- 1, MaxTime <- 1

(* Three sessions of one account: rotation and enrolment; and two, around  *)
(* step-up, a suspension and sessions that run out.                        *)
Entry == INSTANCE SignIn WITH
    account <- v1, phone <- v2, sessions <- v3, calls <- v4, held <- v5, shown <- v6,
    staff <- v7, now <- v8, mix <- v9, past <- v10,
    Clients <- Callers, Ttl <- 0,
    Mixes <- {{"login", "refresh", "revoke", "sign out"}, {"login", "enrol", "challenge"}},
    MaxSessions <- 3, MaxSecrets <- 3, MaxSuspensions <- 0, MaxTime <- 0
Elevation == INSTANCE SignIn WITH
    account <- v1, phone <- v2, sessions <- v3, calls <- v4, held <- v5, shown <- v6,
    staff <- v7, now <- v8, mix <- v9, past <- v10,
    Clients <- Callers, Ttl <- 0,
    Mixes <- {{"login", "challenge", "step up", "refresh"}, {"login", "refresh", "suspend"},
              {"login", "refresh", "expire"}},
    MaxSessions <- 2, MaxSecrets <- 1, MaxSuspensions <- 1, MaxTime <- 1

(* The admin consoles: two operators, two documents and a row for one.     *)
Desks == INSTANCE Consoles WITH
    area <- v1, server <- v2, page <- v3, calls <- v4, past <- v5,
    Areas <- {"access", "rows", "staff", "rules", "templates", "documents"},
    Operators <- Others, Versions <- {1, 2}, Limit <- 1, MaxWrites <- 2, MaxCalls <- 2

(* One application: documents, rules, consents or the profile move while   *)
(* it is made ready and sent, or its page is read around the answer.       *)
Sent == INSTANCE ApplicationPayload WITH
    mix <- v1, vault <- v2, programme <- v3, consent <- v4, profile <- v5, application <- v6,
    call <- v7, snapshots <- v8, page <- v9, past <- v10, counts <- v11,
    Documents <- {"d1", "d2"}, Records <- {"r1", "r2"}, Requirements <- {"q1"},
    Needs <- [r \in {"q1"} |-> {"d1"}], StartedOn <- [r \in {"r1", "r2"} |-> IF r = "r1" THEN 1 ELSE 2],
    MaxVersions <- 2, MaxRule <- 2, MaxSnapshots <- 2, MaxCalls <- 3, MaxMoves <- 4,
    Mixes <- {{"documents"}, {"rules"}, {"consents"}, {"profile"}, {"views"}}

ASSUME DeskAssumptions ==
    /\ Reviews!ReviewerAssumption /\ Reports!CasesAssumption
    /\ Screened!CasesAssumption /\ Counted!CasesAssumption /\ Answers!AnswersAssumption
    /\ Calendar!SessionsAssumption /\ Money!PaymentAssumption /\ Profiles!ProfilesAssumption
    /\ Accounts!ErasureAssumption /\ Limits!LimitsAssumption
    /\ Entry!SignInAssumption /\ Elevation!SignInAssumption
    /\ Desks!ConsolesAssumption /\ Sent!PayloadAssumption

DeskInit ==
    \/ part = "reviews"  /\ Reviews!Init  /\ Unused7
    \/ part = "reports"  /\ Reports!Init  /\ Unused11
    \/ part = "screened" /\ Screened!Init /\ Unused11
    \/ part = "counted"  /\ Counted!Init  /\ Unused11
    \/ part = "answers"  /\ Answers!Init  /\ Unused6
    \/ part = "calendar" /\ Calendar!Init /\ Unused11
    \/ part = "money"    /\ Money!Init    /\ Unused9
    \/ part = "profiles" /\ Profiles!Init /\ Unused10
    \/ part = "accounts" /\ Accounts!Init
    \/ part = "limits"   /\ Limits!Init   /\ Unused9
    \/ part = "entry"    /\ Entry!Init    /\ Unused11
    \/ part = "elevation" /\ Elevation!Init /\ Unused11
    \/ part = "desks"    /\ Desks!Init    /\ Unused6
    \/ part = "sent"     /\ Sent!Init     /\ Unused12

DeskNext ==
    /\ UNCHANGED part
    /\ \/ part = "reviews"  /\ Reviews!Next  /\ UNCHANGED <<v7, v8, v9, v10, v11, v12>>
       \/ part = "reports"  /\ Reports!Next  /\ UNCHANGED <<v11, v12>>
       \/ part = "screened" /\ Screened!Next /\ UNCHANGED <<v11, v12>>
       \/ part = "counted"  /\ Counted!Next  /\ UNCHANGED <<v11, v12>>
       \/ part = "answers"  /\ Answers!Next  /\ UNCHANGED <<v6, v7, v8, v9, v10, v11, v12>>
       \/ part = "calendar" /\ Calendar!Next /\ UNCHANGED <<v11, v12>>
       \/ part = "money"    /\ Money!Next    /\ UNCHANGED <<v9, v10, v11, v12>>
       \/ part = "profiles" /\ Profiles!Next /\ UNCHANGED <<v10, v11, v12>>
       \/ part = "accounts" /\ Accounts!Next
       \/ part = "limits"   /\ Limits!Next   /\ UNCHANGED <<v9, v10, v11, v12>>
       \/ part = "entry"    /\ Entry!Next    /\ UNCHANGED <<v11, v12>>
       \/ part = "elevation" /\ Elevation!Next /\ UNCHANGED <<v11, v12>>
       \/ part = "desks"    /\ Desks!Next    /\ UNCHANGED <<v6, v7, v8, v9, v10, v11, v12>>
       \/ part = "sent"     /\ Sent!Next     /\ UNCHANGED <<v12>>

DeskSpec == DeskInit /\ [][DeskNext]_allVars

(* Every part keeps its rows and its calls within their types.             *)
DeskTypesHold ==
    /\ part = "reviews"  => Reviews!TypeOK
    /\ part = "reports"  => Reports!TypeOK
    /\ part = "screened" => Screened!TypeOK
    /\ part = "counted"  => Counted!TypeOK
    /\ part = "answers"  => Answers!TypeOK
    /\ part = "calendar" => Calendar!TypeOK
    /\ part = "money"    => Money!TypeOK
    /\ part = "profiles" => Profiles!TypeOK
    /\ part = "accounts" => Accounts!TypeOK
    /\ part = "limits"   => Limits!TypeOK
    /\ part = "entry"    => Entry!TypeOK
    /\ part = "elevation" => Elevation!TypeOK
    /\ part = "desks"    => Desks!TypeOK
    /\ part = "sent"     => Sent!TypeOK

(* What people decided and students declared is on record as it was meant: *)
(* one assessment of a document by each university, decided once; the      *)
(* history of a case a chain that ends when the case is closed, what a     *)
(* message matched stored as evidence, and looks at it logged; an answer   *)
(* public on two agreements and without its asker; a profile as it was     *)
(* saved, which no missing grade or better grade turns into a rejection;   *)
(* an erased account blank, its files gone, what was kept named; one live  *)
(* session of a rotation, none of one that was ended or suspended, and an  *)
(* elevated one only on a code that was answered in time; and what the     *)
(* consoles show, ask and write as the operators meant it; and what goes   *)
(* to a university, clean, complete, as shown and as consented to.         *)
RecordsStand ==
    /\ part = "reviews" => Reviews!OneRowPerUniversity /\ Reviews!DecidedOnceUnlessLate
    /\ part = "reports" =>
           /\ Reports!HistoryIsAChainUnlessStale /\ Reports!ClosedIsTerminalUnlessStale
           /\ Reports!SeenIsLogged /\ Reports!LateIsShownUnlessCrowded
    /\ part = "screened" =>
           /\ Screened!EveryFindingIsEvidence /\ Screened!AttachedIsCleanUnlessRescanned
           /\ Screened!ReportIsAcknowledgedUnlessDied
    /\ part = "answers" => Answers!PublicHasTwoYesesUnlessStale /\ Answers!AskerStaysPrivate
    /\ part = "profiles" =>
           /\ Profiles!KeptAsSavedUnlessRaced
           /\ Profiles!AbsenceIsNoRejection /\ Profiles!BetterGradeNeverHurts
    /\ part = "accounts" =>
           /\ Accounts!ErasedIsBlankUnlessRaced /\ Accounts!NoFileGoneForNothing
           /\ Accounts!FilesAreGoneUnlessFailed /\ Accounts!RetainedIsNamedUnlessRaced
    /\ part = "entry" =>
           /\ Entry!OneLivePerFamilyUnlessDoubled /\ Entry!EndedIsOverUnlessLate
           /\ Entry!EnrolledIsOnThePhoneUnlessCrossed
    /\ part = "elevation" =>
           /\ Elevation!OneLivePerFamilyUnlessDoubled /\ Elevation!EndedIsOverUnlessLate
           /\ Elevation!SuspensionEndsSessionsUnlessCut /\ Elevation!ActsAreElevated
    /\ part = "desks" =>
           /\ Desks!ButtonsAreHeldUnlessMoved /\ Desks!RefusedMeansMoved /\ Desks!MovesAreLegal
           /\ Desks!LastWriteIsMeant /\ Desks!DisablingIsConfirmed
           /\ Desks!AdminRemainsUnlessCrossed /\ Desks!OneRolePerColleagueUnlessCrossed
           /\ Desks!VersionCountsReviews /\ Desks!ReviewsChainUnlessOverlapped
           /\ Desks!GivenIsInForceUnlessOverlapped /\ Desks!LatestIsActive
           /\ Desks!FormMeansOpenedUnlessFailed
    /\ part = "sent" =>
           /\ Sent!CleanWhenResolved /\ Sent!SentIsCompleteUnlessChanged
           /\ Sent!SentAsShownUnlessMoved /\ Sent!SentIsConsentedUnlessRevoked
           /\ Sent!SameVersionUnlessTied /\ Sent!UnsentSaysWhy
           /\ Sent!ConfirmedHasReceipt /\ Sent!ReceivedIsHeldUnlessWithdrawn

(* What is counted adds up: places of a slot and the sessions that take    *)
(* them, a session and its reward, two people and a payout, a payment and  *)
(* its refunds, a window and the requests or messages let through in it.   *)
BooksBalance ==
    /\ part = "calendar" =>
           /\ Calendar!CountIsKeptUnlessMoved /\ Calendar!NoOverbookingUnlessMoved
           /\ Calendar!RewardMatchesSessionUnlessMoved /\ Calendar!DisputedIsWithheldUnlessMoved
           /\ Calendar!SuspendedHasNoSessionUnlessRaced
    /\ part = "money" =>
           /\ Money!TwoPeople /\ Money!PaidTookTwo /\ Money!PaidOnceUnlessStale
           /\ Money!RejectedIsNotPaidUnlessStale
           /\ Money!RefundsWithinPaymentUnlessStale /\ Money!ReversedIsRefundedUnlessStale
    /\ part = "counted" => Counted!WithinRateUnlessOverlapped
    /\ part = "limits" =>
           /\ Limits!WithinBudgetUnlessSwitched /\ Limits!CountersExpireUnlessSwitched
           /\ Limits!LocalIsBounded

(* No step takes back what was settled: an answer that was rejected or     *)
(* withdrawn does not come back, and time alone fails no student.          *)
StepsStand ==
    [][/\ part = "answers" => Answers!DecidedStaysStep
       /\ part = "profiles" => Profiles!TimeFailsNobodyStep]_allVars
=============================================================================
