---------------------------- MODULE PartsProofs ----------------------------
(* What the runs of several parts side by side check of their books, their *)
(* listings and their badges, proved for every set of callers and of       *)
(* people, and for every length of the behaviours that the bounds of the   *)
(* runs allow.  A behaviour of DeskSpec or MarketSpec is one of the part   *)
(* it chose: a behaviour of that part is one of its component              *)
(* (...IsProved: one definition after the other, the component being       *)
(* instantiated here and in the module of its proofs), of which the        *)
(* theorems hold for every value of the constants; so what the part        *)
(* promises holds as long as it runs (...Holds).                           *)
EXTENDS MCServiceDesk, MCMarketplace, MCSweeps, TLAPS

(* The theorems about payouts, for the constants of the run; what they do  *)
(* not mention is 0.                                                       *)
InDecisions == INSTANCE DecisionsProofs WITH
    Mixes <- MoneyMixes, Staff <- Others, Rewards <- {"r1"}, Payment <- 3,
    Amounts <- {1, 2, 3}, MaxPaid <- 2, MaxRefunds <- 4, calls <- v6, mix <- v7,
    stale <- v8, rewards <- v1, payouts <- v2, paid <- v3, refunds <- v4, payment <- v5,
    MaxTime <- 0, MaxAnswers <- 0, CrashSteps <- 0, Windows <- 0, MaxVersions <- 0,
    Window <- 0, MaxVisits <- 0, MaxDeaths <- 0, now <- 0, active <- 0, answers <- 0,
    askerKnown <- 0, versions <- 0, attachments <- 0, told <- 0, signed <- 0, disputed <- 0,
    died <- 0, consent <- 0, grants <- 0, sessions <- 0, events <- 0, sweep <- 0,
    deaths <- 0, spoilt <- 0

(* The theorems about the other parts, each for the constants of its run;  *)
(* a behaviour is of one of them at a time, so they share its variables.   *)
InMarket == INSTANCE MarketplaceProofs WITH
    Roles <- {"agent", "staff"}, Ttl <- 1, MaxAttempts <- 1, MaxChallenges <- 1,
    MaxTime <- 1, institution <- v1, partnership <- v2, legal <- v3, signatory <- v4,
    challenges <- v5, published <- v6, calls <- v7, now <- v8, entered <- v9, backed <- v10,
    raced <- v11, Mixes <- BookingMixes, CrashSteps <- {"dispute_entries"},
    Hours <- TwoHours, MaxSlots <- 2, MaxSessions <- 2, CalendarTime <- 1,
    Instances <- Callers, Keys <- Others, Limit <- 1, Window <- 1, LocalMaxKeys <- 1,
    MaxErrors <- 1, LimitTime <- 1, Areas <- {"rate"}, Threads <- {1, 2}, Texts <- {{}},
    ReportTypes <- {"harassment"}, Rate <- 1, Recipients <- 1, Rows <- {"guide"}, Sla <- 1,
    QueueLimit <- 2, MaxCases <- 2, MaxEvents <- 2, MaxMessages <- 3, MessageTime <- 1,
    Connectors <- {"k1", "k2"}, Sweepers <- Jobs, Interval <- EveryTick, PollTime <- 2,
    Refs <- {"r1", "r2"}, Names <- {"a", "b"}, Levels <- {"ug", "pg"}, Fees <- {"f1"},
    FileName <- "file", Files <- SomeFiles, Known <- OneKnown, MaxImports <- 2,
    MaxProgrammes <- 4, Workers <- Jobs, Requirements <- {"q1"}, FreshFor <- SomeSlas,
    Deadlines <- {2}, ProgrammeMixes <- SomeMixes, MaxVersions <- 3, MaxJobs <- 2,
    ProgrammeTime <- 2, active <- v1, caseOpen <- v2, slots <- v3, sessions <- v4,
    rewards <- v5, calendarCalls <- v6, calendarNow <- v7, mix <- v8, moved <- v9,
    died <- v10, redis <- v1, healthy <- v2, local <- v3, limitCalls <- v4, limitNow <- v5,
    errors <- v6, allowed <- v7, switched <- v8, area <- v1, cases <- v2, events <- v3,
    messages <- v4, flags <- v5, notices <- v6, file <- v7, desk <- v8, messageCalls <- v9,
    stale <- v10, lastPolled <- v1, enabled <- v2, sweeps <- v3, polls <- v4, pollNow <- v5,
    programmes <- v1, imports <- v2, sheetCalls <- v3, again <- v4, versions <- v1,
    intakes <- v2, basis <- v3, document <- v4, reindexes <- v5, builds <- v6,
    programmeCalls <- v7, programmeMix <- v8, programmeNow <- v9, torn <- v10

(***************************************************************************)
(* Rewards, payouts and refunds                                            *)
(***************************************************************************)

(* A behaviour of the part is one of the component its theorems are about. *)
LEMMA MoneyIsProved == Money!Spec => InDecisions!Money!Spec
<1>1. Money!Init => InDecisions!Money!Init
  BY Zenon DEF Money!RewardState, InDecisions!Money!RewardState, Money!Reward,
         InDecisions!Money!Reward, Money!NoPayout, InDecisions!Money!NoPayout, Money!NoCall,
         InDecisions!Money!NoCall, Money!Init, InDecisions!Money!Init
<1>2. Money!Next => InDecisions!Money!Next
  BY Zenon DEF Money!NoPayout, InDecisions!Money!NoPayout, Money!NoCall,
         InDecisions!Money!NoCall, Money!At, InDecisions!Money!At, Money!Begin,
         InDecisions!Money!Begin, Money!Hold, InDecisions!Money!Hold, Money!End,
         InDecisions!Money!End, Money!Reading, InDecisions!Money!Reading, Money!NowStale,
         InDecisions!Money!NowStale, Money!Payable, InDecisions!Money!Payable,
         Money!InitiateRead, InDecisions!Money!InitiateRead, Money!PayoutFree,
         InDecisions!Money!PayoutFree, Money!InitiateWrite, InDecisions!Money!InitiateWrite,
         Money!CheckDualApproval, InDecisions!Money!CheckDualApproval, Money!ApproveRead,
         InDecisions!Money!ApproveRead, Money!ApproveWrite, InDecisions!Money!ApproveWrite,
         Money!RejectRead, InDecisions!Money!RejectRead, Money!RejectWrite,
         InDecisions!Money!RejectWrite, Money!Settleable, InDecisions!Money!Settleable,
         Money!PayRead, InDecisions!Money!PayRead, Money!PaidReward,
         InDecisions!Money!PaidReward, Money!PayWrite, InDecisions!Money!PayWrite,
         Money!DisputeSession, InDecisions!Money!DisputeSession, Money!Withhold,
         InDecisions!Money!Withhold, Money!DisputeEntries, InDecisions!Money!DisputeEntries,
         Money!Total, InDecisions!Money!Total, Money!Refunded, InDecisions!Money!Refunded,
         Money!WithinPayment, InDecisions!Money!WithinPayment, Money!RefundRead,
         InDecisions!Money!RefundRead, Money!RefundWrite, InDecisions!Money!RefundWrite,
         Money!Next, InDecisions!Money!Next, Money!Cardinality,
         InDecisions!Money!Cardinality
<1>3. [Money!Next]_(Money!vars) => [InDecisions!Money!Next]_(InDecisions!Money!vars)
  BY <1>2 DEF Money!vars, InDecisions!Money!vars
<1> QED
  BY <1>1, <1>3, PTL DEF Money!Spec, InDecisions!Money!Spec

(* The part runs; and what it promises.                                    *)
MoneyRuns == part = "money"
MoneyPromises ==
    /\ Money!TwoPeople
    /\ Money!PaidTookTwo
    /\ Money!PaidOnceUnlessStale
    /\ Money!RejectedIsNotPaidUnlessStale
    /\ Money!RefundsWithinPaymentUnlessStale
    /\ Money!ReversedIsRefundedUnlessStale

(* What the part promises holds as long as it runs.                        *)
LEMMA MoneyHolds == DeskSpec => [](MoneyRuns => MoneyPromises)
<1>1. MoneyRuns /\ DeskInit => Money!Init
  BY DEF DeskInit, MoneyRuns
<1>2. MoneyRuns /\ [DeskNext]_allVars => [Money!Next]_(Money!vars) /\ MoneyRuns'
  BY DEF DeskNext, allVars, MoneyRuns, Money!vars
<1>3. ~MoneyRuns /\ [DeskNext]_allVars => ~MoneyRuns'
  BY DEF DeskNext, allVars, MoneyRuns
<1>4. InDecisions!Money!PaymentAssumption
  BY DeskAssumptions DEF DeskAssumptions, Money!PaymentAssumption,
         InDecisions!Money!PaymentAssumption
<1>5. InDecisions!Money!Spec =>
      /\ []InDecisions!Money!TwoPeople
      /\ []InDecisions!Money!PaidTookTwo
      /\ []InDecisions!Money!PaidOnceUnlessStale
      /\ []InDecisions!Money!RejectedIsNotPaidUnlessStale
      /\ []InDecisions!Money!RefundsWithinPaymentUnlessStale
      /\ []InDecisions!Money!ReversedIsRefundedUnlessStale
  BY <1>4, InDecisions!TwoPeopleCorrect, InDecisions!PaidTookTwoCorrect,
     InDecisions!PaidOnceCorrect, InDecisions!RejectedCorrect, InDecisions!RefundsCorrect,
     InDecisions!ReversedCorrect
<1>6. /\ InDecisions!Money!TwoPeople
      /\ InDecisions!Money!PaidTookTwo
      /\ InDecisions!Money!PaidOnceUnlessStale
      /\ InDecisions!Money!RejectedIsNotPaidUnlessStale
      /\ InDecisions!Money!RefundsWithinPaymentUnlessStale
      /\ InDecisions!Money!ReversedIsRefundedUnlessStale
      => MoneyPromises
  BY Zenon DEF MoneyPromises, Money!TwoPeople, InDecisions!Money!TwoPeople,
         Money!PaidTookTwo, InDecisions!Money!PaidTookTwo, Money!PaidOnceUnlessStale,
         InDecisions!Money!PaidOnceUnlessStale, Money!RejectedIsNotPaidUnlessStale,
         InDecisions!Money!RejectedIsNotPaidUnlessStale,
         Money!RefundsWithinPaymentUnlessStale,
         InDecisions!Money!RefundsWithinPaymentUnlessStale, Money!Refunded,
         InDecisions!Money!Refunded, Money!Total, InDecisions!Money!Total,
         Money!ReversedIsRefundedUnlessStale,
         InDecisions!Money!ReversedIsRefundedUnlessStale, Money!ReversedIsRefunded,
         InDecisions!Money!ReversedIsRefunded, Money!Cardinality,
         InDecisions!Money!Cardinality
<1> QED
  BY <1>1, <1>2, <1>3, <1>5, <1>6, MoneyIsProved, PTL
     DEF DeskSpec, Money!Spec

(***************************************************************************)
(* Requests that are counted                                               *)
(***************************************************************************)

(* A sweep and a count give the same map in both instances.                *)
LEMMA LimitsCountAlike ==
    /\ \A e, some: Limits!Kept(e, some) = InMarket!Limits!Kept(e, some)
    /\ \A e, k: Limits!Counted(e, k) = InMarket!Limits!Counted(e, k)
<1>1. \A e, some: Limits!Kept(e, some) = InMarket!Limits!Kept(e, some)
  BY DEF Limits!Kept, InMarket!Limits!Kept,
         Limits!Cardinality, InMarket!Limits!Cardinality
<1>2. \A e, k: Limits!Counted(e, k) = InMarket!Limits!Counted(e, k)
  BY ZenonT(30)
     DEF Limits!Counted, InMarket!Limits!Counted, Limits!Up, InMarket!Limits!Up,
         Limits!Cap, InMarket!Limits!Cap
<1> QED
  BY <1>1, <1>2

(* And so does the whole fallback to it.                                   *)
LEMMA LimitsLocallyAlike == \A i, k: Limits!Locally(i, k) <=> InMarket!Limits!Locally(i, k)
<1>1. \A e: Limits!Swept(e) = InMarket!Limits!Swept(e)
  BY LimitsCountAlike DEF Limits!Live, InMarket!Limits!Live,
         Limits!Swept, InMarket!Limits!Swept
<1>2. \A e, k: Limits!UsedOf(e, k) = InMarket!Limits!UsedOf(e, k)
  BY DEF Limits!UsedOf, InMarket!Limits!UsedOf
<1> QED
  BY <1>1, <1>2, LimitsCountAlike
     DEF Limits!Locally, InMarket!Limits!Locally, Limits!Allows, InMarket!Limits!Allows,
         Limits!Cap, InMarket!Limits!Cap

(* A behaviour of the part is one of the component its theorems are about. *)
LEMMA LimitsIsProved == Limits!Spec => InMarket!Limits!Spec
<1> USE DEF Limits!Cap, InMarket!Limits!Cap, Limits!NoCall, InMarket!Limits!NoCall,
    Limits!At, InMarket!Limits!At, Limits!Hold, InMarket!Limits!Hold, Limits!End,
    InMarket!Limits!End, Limits!Up, InMarket!Limits!Up, Limits!Allows,
    InMarket!Limits!Allows
<1>1. Limits!Init => InMarket!Limits!Init
  BY DEF Limits!Init, InMarket!Limits!Init
<1>2. ASSUME NEW i, NEW k, Limits!Incr(i, k) PROVE InMarket!Limits!Incr(i, k)
  BY <1>2 DEF Limits!Incr, InMarket!Limits!Incr
<1>3. ASSUME NEW i, Limits!Expire(i) PROVE InMarket!Limits!Expire(i)
  BY <1>3 DEF Limits!Expire, InMarket!Limits!Expire
<1>4. ASSUME NEW i, Limits!Ttl(i) PROVE InMarket!Limits!Ttl(i)
  BY <1>4 DEF Limits!Ttl, InMarket!Limits!Ttl
<1>5. ASSUME NEW i, NEW k, Limits!ConsumeLocally(i, k) PROVE InMarket!Limits!ConsumeLocally(i, k)
  BY <1>5, LimitsLocallyAlike DEF Limits!ConsumeLocally, InMarket!Limits!ConsumeLocally
<1>6. ASSUME NEW i, Limits!Fails(i) PROVE InMarket!Limits!Fails(i)
  BY <1>6, LimitsLocallyAlike DEF Limits!Fails, InMarket!Limits!Fails
<1>7. ASSUME NEW i, Limits!Reconnect(i) PROVE InMarket!Limits!Reconnect(i)
  BY <1>7 DEF Limits!Reconnect, InMarket!Limits!Reconnect
<1>8. Limits!Tick => InMarket!Limits!Tick
  BY DEF Limits!Tick, InMarket!Limits!Tick
<1>9. Limits!Next => InMarket!Limits!Next
  BY <1>2, <1>3, <1>4, <1>5, <1>6, <1>7, <1>8
     DEF Limits!Next, InMarket!Limits!Next
<1>10. [Limits!Next]_(Limits!vars) => [InMarket!Limits!Next]_(InMarket!Limits!vars)
  BY <1>9 DEF Limits!vars, InMarket!Limits!vars
<1> QED
  BY <1>1, <1>10, PTL DEF Limits!Spec, InMarket!Limits!Spec

(* The part runs; and what it promises.                                    *)
LimitsRuns == part = "limits"
LimitsPromises ==
    /\ Limits!WithinBudgetUnlessSwitched
    /\ Limits!CountersExpireUnlessSwitched
    /\ Limits!LocalIsBounded

(* What the part promises holds as long as it runs.                        *)
LEMMA LimitsHolds == DeskSpec => [](LimitsRuns => LimitsPromises)
<1>1. LimitsRuns /\ DeskInit => Limits!Init
  BY DEF DeskInit, LimitsRuns
<1>2. LimitsRuns /\ [DeskNext]_allVars => [Limits!Next]_(Limits!vars) /\ LimitsRuns'
  BY DEF DeskNext, allVars, LimitsRuns, Limits!vars
<1>3. ~LimitsRuns /\ [DeskNext]_allVars => ~LimitsRuns'
  BY DEF DeskNext, allVars, LimitsRuns
<1>4. InMarket!Limits!LimitsAssumption
  BY DeskAssumptions DEF DeskAssumptions, Limits!LimitsAssumption,
         InMarket!Limits!LimitsAssumption
<1>5. InMarket!Limits!Spec =>
      /\ []InMarket!Limits!WithinBudgetUnlessSwitched
      /\ []InMarket!Limits!CountersExpireUnlessSwitched
      /\ []InMarket!Limits!LocalIsBounded
  BY <1>4, InMarket!WithinBudgetCorrect, InMarket!CountersExpireCorrect,
     InMarket!LocalIsBoundedCorrect
<1>6. /\ InMarket!Limits!WithinBudgetUnlessSwitched
      /\ InMarket!Limits!CountersExpireUnlessSwitched
      /\ InMarket!Limits!LocalIsBounded
      => LimitsPromises
  BY Zenon DEF LimitsPromises, Limits!WithinBudgetUnlessSwitched,
         InMarket!Limits!WithinBudgetUnlessSwitched, Limits!CountersExpireUnlessSwitched,
         InMarket!Limits!CountersExpireUnlessSwitched, Limits!LocalIsBounded,
         InMarket!Limits!LocalIsBounded
<1> QED
  BY <1>1, <1>2, <1>3, <1>5, <1>6, LimitsIsProved, PTL
     DEF DeskSpec, Limits!Spec

(***************************************************************************)
(* Slots, sessions and their rewards                                       *)
(***************************************************************************)

(* A behaviour of the part is one of the component its theorems are about. *)
LEMMA CalendarIsProved == Calendar!Spec => InMarket!Calendar!Spec
<1>1. Calendar!Init => InMarket!Calendar!Init
  BY Zenon DEF Calendar!NoHours, InMarket!Calendar!NoHours, Calendar!NoRow,
         InMarket!Calendar!NoRow, Calendar!NoCall, InMarket!Calendar!NoCall, Calendar!Init,
         InMarket!Calendar!Init
<1>2. Calendar!Next => InMarket!Calendar!Next
  BY Zenon DEF Calendar!NoHours, InMarket!Calendar!NoHours, Calendar!NoRow,
         InMarket!Calendar!NoRow, Calendar!NoCall, InMarket!Calendar!NoCall, Calendar!At,
         InMarket!Calendar!At, Calendar!Begin, InMarket!Calendar!Begin, Calendar!Hold,
         InMarket!Calendar!Hold, Calendar!End, InMarket!Calendar!End, Calendar!Add,
         InMarket!Calendar!Add, Calendar!Live, InMarket!Calendar!Live, Calendar!Booking,
         InMarket!Calendar!Booking, Calendar!Locked, InMarket!Calendar!Locked,
         Calendar!Reading, InMarket!Calendar!Reading, Calendar!Changed,
         InMarket!Calendar!Changed, Calendar!SlotsOverlap, InMarket!Calendar!SlotsOverlap,
         Calendar!FreeSlot, InMarket!Calendar!FreeSlot, Calendar!AddSlotRead,
         InMarket!Calendar!AddSlotRead, Calendar!AddSlotWrite,
         InMarket!Calendar!AddSlotWrite, Calendar!RemoveSlotRead,
         InMarket!Calendar!RemoveSlotRead, Calendar!RemoveSlotWrite,
         InMarket!Calendar!RemoveSlotWrite, Calendar!Bookable, InMarket!Calendar!Bookable,
         Calendar!BookLock, InMarket!Calendar!BookLock, Calendar!Suspending,
         InMarket!Calendar!Suspending, Calendar!BookCommit, InMarket!Calendar!BookCommit,
         Calendar!CanTransition, InMarket!Calendar!CanTransition, Calendar!CancelRead,
         InMarket!Calendar!CancelRead, Calendar!HandBack, InMarket!Calendar!HandBack,
         Calendar!CancelWrite, InMarket!Calendar!CancelWrite,
         Calendar!RewardStateForSession, InMarket!Calendar!RewardStateForSession,
         Calendar!CompleteRead, InMarket!Calendar!CompleteRead, Calendar!CompleteWrite,
         InMarket!Calendar!CompleteWrite, Calendar!DisputeSession,
         InMarket!Calendar!DisputeSession, Calendar!Withhold, InMarket!Calendar!Withhold,
         Calendar!DisputeEntries, InMarket!Calendar!DisputeEntries, Calendar!SuspendFind,
         InMarket!Calendar!SuspendFind, Calendar!Booked, InMarket!Calendar!Booked,
         Calendar!CancelFound, InMarket!Calendar!CancelFound, Calendar!Cancelled,
         InMarket!Calendar!Cancelled, Calendar!SuspendCommit,
         InMarket!Calendar!SuspendCommit, Calendar!Reinstate, InMarket!Calendar!Reinstate,
         Calendar!CaseMoves, InMarket!Calendar!CaseMoves, Calendar!Tick,
         InMarket!Calendar!Tick, Calendar!Dies, InMarket!Calendar!Dies, Calendar!Next,
         InMarket!Calendar!Next, Calendar!Cardinality, InMarket!Calendar!Cardinality
<1>3. [Calendar!Next]_(Calendar!vars) => [InMarket!Calendar!Next]_(InMarket!Calendar!vars)
  BY <1>2 DEF Calendar!vars, InMarket!Calendar!vars
<1> QED
  BY <1>1, <1>3, PTL DEF Calendar!Spec, InMarket!Calendar!Spec

(* The part runs; and what it promises.                                    *)
CalendarRuns == part = "calendar"
CalendarPromises ==
    /\ Calendar!CountIsKeptUnlessMoved
    /\ Calendar!NoOverbookingUnlessMoved
    /\ Calendar!RewardMatchesSessionUnlessMoved
    /\ Calendar!DisputedIsWithheldUnlessMoved
    /\ Calendar!SuspendedHasNoSessionUnlessRaced

(* What the part promises holds as long as it runs.                        *)
LEMMA CalendarHolds == DeskSpec => [](CalendarRuns => CalendarPromises)
<1>1. CalendarRuns /\ DeskInit => Calendar!Init
  BY DEF DeskInit, CalendarRuns
<1>2. CalendarRuns /\ [DeskNext]_allVars => [Calendar!Next]_(Calendar!vars) /\ CalendarRuns'
  BY DEF DeskNext, allVars, CalendarRuns, Calendar!vars
<1>3. ~CalendarRuns /\ [DeskNext]_allVars => ~CalendarRuns'
  BY DEF DeskNext, allVars, CalendarRuns
<1>4. InMarket!Calendar!SessionsAssumption
  BY DeskAssumptions DEF DeskAssumptions, Calendar!SessionsAssumption,
         InMarket!Calendar!SessionsAssumption
<1>5. InMarket!Calendar!Spec =>
      /\ []InMarket!Calendar!CountIsKeptUnlessMoved
      /\ []InMarket!Calendar!NoOverbookingUnlessMoved
      /\ []InMarket!Calendar!RewardMatchesSessionUnlessMoved
      /\ []InMarket!Calendar!DisputedIsWithheldUnlessMoved
      /\ []InMarket!Calendar!SuspendedHasNoSessionUnlessRaced
  BY <1>4, InMarket!CountCorrect, InMarket!NoOverbookingCorrect,
     InMarket!LedgerMatchesCorrect, InMarket!DisputedCorrect, InMarket!SuspendedCorrect
<1>6. /\ InMarket!Calendar!CountIsKeptUnlessMoved
      /\ InMarket!Calendar!NoOverbookingUnlessMoved
      /\ InMarket!Calendar!RewardMatchesSessionUnlessMoved
      /\ InMarket!Calendar!DisputedIsWithheldUnlessMoved
      /\ InMarket!Calendar!SuspendedHasNoSessionUnlessRaced
      => CalendarPromises
  BY Zenon DEF CalendarPromises, Calendar!CountIsKeptUnlessMoved,
         InMarket!Calendar!CountIsKeptUnlessMoved, Calendar!HeldOf,
         InMarket!Calendar!HeldOf, Calendar!NoOverbookingUnlessMoved,
         InMarket!Calendar!NoOverbookingUnlessMoved, Calendar!LiveOf,
         InMarket!Calendar!LiveOf, Calendar!Live, InMarket!Calendar!Live,
         Calendar!RewardMatchesSessionUnlessMoved,
         InMarket!Calendar!RewardMatchesSessionUnlessMoved, Calendar!RewardMatchesSession,
         InMarket!Calendar!RewardMatchesSession, Calendar!DisputedIsWithheldUnlessMoved,
         InMarket!Calendar!DisputedIsWithheldUnlessMoved, Calendar!DisputedIsWithheld,
         InMarket!Calendar!DisputedIsWithheld, Calendar!Disputing,
         InMarket!Calendar!Disputing, Calendar!At, InMarket!Calendar!At,
         Calendar!SuspendedHasNoSessionUnlessRaced,
         InMarket!Calendar!SuspendedHasNoSessionUnlessRaced, Calendar!Cardinality,
         InMarket!Calendar!Cardinality
<1> QED
  BY <1>1, <1>2, <1>3, <1>5, <1>6, CalendarIsProved, PTL
     DEF DeskSpec, Calendar!Spec

(***************************************************************************)
(* Messages that are counted                                               *)
(***************************************************************************)

(* A behaviour of the part is one of the component its theorems are about. *)
LEMMA CountedIsProved == Counted!Spec => InMarket!Trust!Spec
<1>1. Counted!Init => InMarket!Trust!Init
  BY Zenon DEF Counted!TheGuide, InMarket!Trust!TheGuide, Counted!AnyMessage,
         InMarket!Trust!AnyMessage, Counted!NoCall, InMarket!Trust!NoCall, Counted!Init,
         InMarket!Trust!Init
<1>2. Counted!Next => InMarket!Trust!Next
  BY Zenon DEF Counted!TrustCaseState, InMarket!Trust!TrustCaseState, Counted!Terminal,
         InMarket!Trust!Terminal, Counted!Signals, InMarket!Trust!Signals,
         Counted!Severities, InMarket!Trust!Severities, Counted!SEVERITY_ORDER,
         InMarket!Trust!SEVERITY_ORDER, Counted!RULES, InMarket!Trust!RULES,
         Counted!AppliesTo, InMarket!Trust!AppliesTo, Counted!HighestSeverity,
         InMarket!Trust!HighestSeverity, Counted!ScanMessage, InMarket!Trust!ScanMessage,
         Counted!OpensCase, InMarket!Trust!OpensCase, Counted!SIGNAL_CASE_TYPE,
         InMarket!Trust!SIGNAL_CASE_TYPE, Counted!ReportSeverity,
         InMarket!Trust!ReportSeverity, Counted!TheGuide, InMarket!Trust!TheGuide,
         Counted!AnyMessage, InMarket!Trust!AnyMessage, Counted!NoCall,
         InMarket!Trust!NoCall, Counted!Idle, InMarket!Trust!Idle, Counted!Hold,
         InMarket!Trust!Hold, Counted!End, InMarket!Trust!End, Counted!CaseOf,
         InMarket!Trust!CaseOf, Counted!OpenCase, InMarket!Trust!OpenCase,
         Counted!Reportable, InMarket!Trust!Reportable, Counted!Report,
         InMarket!Trust!Report, Counted!ToldInThread, InMarket!Trust!ToldInThread,
         Counted!OpenCaseEvent, InMarket!Trust!OpenCaseEvent, Counted!ThreadOf,
         InMarket!Trust!ThreadOf, Counted!ReportNotice, InMarket!Trust!ReportNotice,
         Counted!OpenCaseDies, InMarket!Trust!OpenCaseDies, Counted!CanTransitionCase,
         InMarket!Trust!CanTransitionCase, Counted!TransitionRead,
         InMarket!Trust!TransitionRead, Counted!Moved, InMarket!Trust!Moved,
         Counted!MoveEvent, InMarket!Trust!MoveEvent, Counted!TransitionWrite,
         InMarket!Trust!TransitionWrite, Counted!Exercised, InMarket!Trust!Exercised,
         Counted!Sendable, InMarket!Trust!Sendable, Counted!Send, InMarket!Trust!Send,
         Counted!Recent, InMarket!Trust!Recent, Counted!Written, InMarket!Trust!Written,
         Counted!ExceedsMessageRate, InMarket!Trust!ExceedsMessageRate, Counted!Storing,
         InMarket!Trust!Storing, Counted!Count, InMarket!Trust!Count, Counted!RefuseSpam,
         InMarket!Trust!RefuseSpam, Counted!CitedCase, InMarket!Trust!CitedCase,
         Counted!Store, InMarket!Trust!Store, Counted!Later, InMarket!Trust!Later,
         Counted!Rescan, InMarket!Trust!Rescan, Counted!HourPasses,
         InMarket!Trust!HourPasses, Counted!OnDesk, InMarket!Trust!OnDesk, Counted!Waits,
         InMarket!Trust!Waits, Counted!Decided, InMarket!Trust!Decided, Counted!Tick,
         InMarket!Trust!Tick, Counted!AddEvidence, InMarket!Trust!AddEvidence,
         Counted!ViewEvidence, InMarket!Trust!ViewEvidence, Counted!Logged,
         InMarket!Trust!Logged, Counted!LogLook, InMarket!Trust!LogLook, Counted!LookFails,
         InMarket!Trust!LookFails, Counted!ShowEvidence, InMarket!Trust!ShowEvidence,
         Counted!Next, InMarket!Trust!Next, Counted!Cardinality, InMarket!Trust!Cardinality,
         Counted!ToSet, InMarket!Trust!ToSet
<1>3. [Counted!Next]_(Counted!vars) => [InMarket!Trust!Next]_(InMarket!Trust!vars)
  BY <1>2 DEF Counted!vars, InMarket!Trust!vars
<1> QED
  BY <1>1, <1>3, PTL DEF Counted!Spec, InMarket!Trust!Spec

(* The part runs; and what it promises.                                    *)
CountedRuns == part = "counted"
CountedPromises ==
    Counted!WithinRateUnlessOverlapped

(* What the part promises holds as long as it runs.                        *)
LEMMA CountedHolds == DeskSpec => [](CountedRuns => CountedPromises)
<1>1. CountedRuns /\ DeskInit => Counted!Init
  BY DEF DeskInit, CountedRuns
<1>2. CountedRuns /\ [DeskNext]_allVars => [Counted!Next]_(Counted!vars) /\ CountedRuns'
  BY DEF DeskNext, allVars, CountedRuns, Counted!vars
<1>3. ~CountedRuns /\ [DeskNext]_allVars => ~CountedRuns'
  BY DEF DeskNext, allVars, CountedRuns
<1>4. InMarket!Trust!CasesAssumption
  BY DeskAssumptions DEF DeskAssumptions, Counted!CasesAssumption,
         InMarket!Trust!CasesAssumption
<1>5. InMarket!Trust!Spec =>
      []InMarket!Trust!WithinRateUnlessOverlapped
  BY <1>4, InMarket!WithinRateCorrect
<1>6. InMarket!Trust!WithinRateUnlessOverlapped
      => CountedPromises
  BY Zenon DEF CountedPromises, Counted!WithinRateUnlessOverlapped,
         InMarket!Trust!WithinRateUnlessOverlapped, Counted!Recent, InMarket!Trust!Recent,
         Counted!Written, InMarket!Trust!Written, Counted!Cardinality,
         InMarket!Trust!Cardinality
<1> QED
  BY <1>1, <1>2, <1>3, <1>5, <1>6, CountedIsProved, PTL
     DEF DeskSpec, Counted!Spec

(* What is counted adds up: places and sessions, sessions and rewards, two *)
(* people and a payout, a payment and its refunds, a budget and what was   *)
(* let through (SessionsService, PayoutsService, RateLimitService,         *)
(* TrustService).                                                          *)
THEOREM BooksBalanceCorrect == DeskSpec => []BooksBalance
<1>1. /\ CalendarRuns => CalendarPromises
      /\ MoneyRuns => MoneyPromises
      /\ CountedRuns => CountedPromises
      /\ LimitsRuns => LimitsPromises
      => BooksBalance
  BY DEF BooksBalance, CalendarRuns, CalendarPromises, MoneyRuns, MoneyPromises, CountedRuns,
         CountedPromises, LimitsRuns, LimitsPromises
<1> QED
  BY <1>1, CalendarHolds, MoneyHolds, CountedHolds, LimitsHolds, PTL

(***************************************************************************)
(* Polls of universities                                                   *)
(***************************************************************************)

(* A behaviour of the part is one of the component its theorems are about. *)
LEMMA PollsIsProved == Polls!Spec => InMarket!Polls!Spec
<1>1. Polls!Init => InMarket!Polls!Init
  BY Zenon DEF Polls!NoSweep, InMarket!Polls!NoSweep, Polls!Init, InMarket!Polls!Init
<1>2. Polls!Next => InMarket!Polls!Next
  BY Zenon DEF Polls!NoSweep, InMarket!Polls!NoSweep, Polls!Without, InMarket!Polls!Without,
         Polls!Idle, InMarket!Polls!Idle, Polls!SweepRead, InMarket!Polls!SweepRead,
         Polls!Due, InMarket!Polls!Due, Polls!Unclaimed, InMarket!Polls!Unclaimed,
         Polls!Claim, InMarket!Polls!Claim, Polls!Skip, InMarket!Polls!Skip, Polls!Polled,
         InMarket!Polls!Polled, Polls!SweepEnds, InMarket!Polls!SweepEnds, Polls!SweepDies,
         InMarket!Polls!SweepDies, Polls!SetConnectorEnabled,
         InMarket!Polls!SetConnectorEnabled, Polls!Tick, InMarket!Polls!Tick, Polls!Next,
         InMarket!Polls!Next
<1>3. [Polls!Next]_(Polls!vars) => [InMarket!Polls!Next]_(InMarket!Polls!vars)
  BY <1>2 DEF Polls!vars, InMarket!Polls!vars
<1> QED
  BY <1>1, <1>3, PTL DEF Polls!Spec, InMarket!Polls!Spec

(* The part runs; and what it promises.                                    *)
PollsRuns == part = "polls"
PollsPromises ==
    Polls!ClaimsAreApart

(* What the part promises holds as long as it runs.                        *)
LEMMA PollsHolds == MarketSpec => [](PollsRuns => PollsPromises)
<1>1. PollsRuns /\ MarketInit => Polls!Init
  BY DEF MarketInit, PollsRuns
<1>2. PollsRuns /\ [MarketNext]_allVars => [Polls!Next]_(Polls!vars) /\ PollsRuns'
  BY DEF MarketNext, allVars, PollsRuns, Polls!vars
<1>3. ~PollsRuns /\ [MarketNext]_allVars => ~PollsRuns'
  BY DEF MarketNext, allVars, PollsRuns
<1>4. InMarket!Polls!IntervalAssumption /\ InMarket!Polls!NeverAssumption
  BY MarketAssumptions DEF MarketAssumptions, Polls!IntervalAssumption,
         InMarket!Polls!IntervalAssumption, Polls!NeverAssumption,
         InMarket!Polls!NeverAssumption
<1>5. InMarket!Polls!Spec =>
      []InMarket!Polls!ClaimsAreApart
  BY <1>4, InMarket!ClaimsApartCorrect
<1>6. InMarket!Polls!ClaimsAreApart
      => PollsPromises
  BY Zenon DEF PollsPromises, Polls!ClaimsAreApart, InMarket!Polls!ClaimsAreApart
<1> QED
  BY <1>1, <1>2, <1>3, <1>5, <1>6, PollsIsProved, PTL
     DEF MarketSpec, Polls!Spec

(***************************************************************************)
(* Imports of a catalogue file                                             *)
(***************************************************************************)

(* A behaviour of the part is one of the component its theorems are about. *)
LEMMA SheetsIsProved == Sheets!Spec => InMarket!Sheets!Spec
<1>1. Sheets!Init => InMarket!Sheets!Init
  BY Zenon DEF Sheets!NoCall, InMarket!Sheets!NoCall, Sheets!Init, InMarket!Sheets!Init
<1>2. Sheets!Next => InMarket!Sheets!Next
  BY Zenon DEF Sheets!Column, InMarket!Sheets!Column, Sheets!NoCall, InMarket!Sheets!NoCall,
         Sheets!Matches, InMarket!Sheets!Matches, Sheets!Existing, InMarket!Sheets!Existing,
         Sheets!SeenBefore, InMarket!Sheets!SeenBefore, Sheets!ChangesForNew,
         InMarket!Sheets!ChangesForNew, Sheets!ChangesForUpdate,
         InMarket!Sheets!ChangesForUpdate, Sheets!DiffRow, InMarket!Sheets!DiffRow,
         Sheets!BuildImportDiff, InMarket!Sheets!BuildImportDiff, Sheets!DryRun,
         InMarket!Sheets!DryRun, Sheets!Reviewable, InMarket!Sheets!Reviewable,
         Sheets!CommitRead, InMarket!Sheets!CommitRead, Sheets!Given, InMarket!Sheets!Given,
         Sheets!Created, InMarket!Sheets!Created, Sheets!Found, InMarket!Sheets!Found,
         Sheets!Updated, InMarket!Sheets!Updated, Sheets!Applicable,
         InMarket!Sheets!Applicable, Sheets!CommitRow, InMarket!Sheets!CommitRow,
         Sheets!CommitEnd, InMarket!Sheets!CommitEnd, Sheets!CommitDies,
         InMarket!Sheets!CommitDies, Sheets!Publish, InMarket!Sheets!Publish, Sheets!Next,
         InMarket!Sheets!Next
<1>3. [Sheets!Next]_(Sheets!vars) => [InMarket!Sheets!Next]_(InMarket!Sheets!vars)
  BY <1>2 DEF Sheets!vars, InMarket!Sheets!vars
<1> QED
  BY <1>1, <1>3, PTL DEF Sheets!Spec, InMarket!Sheets!Spec

(* The part runs; and what it promises.                                    *)
SheetsRuns == part = "sheets"
SheetsPromises ==
    /\ Sheets!KeysAreApart
    /\ Sheets!MadeAsReviewedUnlessAgain

(* What the part promises holds as long as it runs.                        *)
LEMMA SheetsHolds == MarketSpec => [](SheetsRuns => SheetsPromises)
<1>1. SheetsRuns /\ MarketInit => Sheets!Init
  BY DEF MarketInit, SheetsRuns
<1>2. SheetsRuns /\ [MarketNext]_allVars => [Sheets!Next]_(Sheets!vars) /\ SheetsRuns'
  BY DEF MarketNext, allVars, SheetsRuns, Sheets!vars
<1>3. ~SheetsRuns /\ [MarketNext]_allVars => ~SheetsRuns'
  BY DEF MarketNext, allVars, SheetsRuns
<1>4. InMarket!Sheets!ImportsAssumption
  BY MarketAssumptions DEF MarketAssumptions, Sheets!ImportsAssumption,
         InMarket!Sheets!ImportsAssumption, Sheets!Programme, InMarket!Sheets!Programme,
         Sheets!FileRow, InMarket!Sheets!FileRow, Sheets!Columns, InMarket!Sheets!Columns
<1>5. InMarket!Sheets!Spec =>
      /\ []InMarket!Sheets!KeysAreApart
      /\ []InMarket!Sheets!MadeAsReviewedUnlessAgain
  BY <1>4, InMarket!KeysAreApartCorrect, InMarket!MadeAsReviewedCorrect
<1>6. /\ InMarket!Sheets!KeysAreApart
      /\ InMarket!Sheets!MadeAsReviewedUnlessAgain
      => SheetsPromises
  BY Zenon DEF SheetsPromises, Sheets!KeysAreApart, InMarket!Sheets!KeysAreApart,
         Sheets!MadeAsReviewedUnlessAgain, InMarket!Sheets!MadeAsReviewedUnlessAgain,
         Sheets!Made, InMarket!Sheets!Made, Sheets!Cardinality, InMarket!Sheets!Cardinality
<1> QED
  BY <1>1, <1>2, <1>3, <1>5, <1>6, SheetsIsProved, PTL
     DEF MarketSpec, Sheets!Spec

(***************************************************************************)
(* A programme of the catalogue                                            *)
(***************************************************************************)

(* A behaviour of the part is one of the component its theorems are about. *)
LEMMA ProgrammesIsProved == Programmes!Spec => InMarket!Programmes!Spec
<1>1. Programmes!Init => InMarket!Programmes!Init
  BY Zenon DEF Programmes!NoBuild, InMarket!Programmes!NoBuild, Programmes!FirstRow,
         InMarket!Programmes!FirstRow, Programmes!NoCall, InMarket!Programmes!NoCall,
         Programmes!Init, InMarket!Programmes!Init
<1>2. Programmes!Next => InMarket!Programmes!Next
  BY Zenon DEF Programmes!Field, InMarket!Programmes!Field, Programmes!Blocking,
         InMarket!Programmes!Blocking, Programmes!Versions, InMarket!Programmes!Versions,
         Programmes!NoBuild, InMarket!Programmes!NoBuild, Programmes!FirstRow,
         InMarket!Programmes!FirstRow, Programmes!NoCall, InMarket!Programmes!NoCall,
         Programmes!At, InMarket!Programmes!At, Programmes!Begin, InMarket!Programmes!Begin,
         Programmes!Hold, InMarket!Programmes!Hold, Programmes!Goto,
         InMarket!Programmes!Goto, Programmes!End, InMarket!Programmes!End, Programmes!Open,
         InMarket!Programmes!Open, Programmes!Current, InMarket!Programmes!Current,
         Programmes!Reading, InMarket!Programmes!Reading, Programmes!Raced,
         InMarket!Programmes!Raced, Programmes!PublicVisibility,
         InMarket!Programmes!PublicVisibility, Programmes!Visible,
         InMarket!Programmes!Visible, Programmes!Projection, InMarket!Programmes!Projection,
         Programmes!Reindex, InMarket!Programmes!Reindex, Programmes!Enqueue,
         InMarket!Programmes!Enqueue, Programmes!ReindexRead,
         InMarket!Programmes!ReindexRead, Programmes!ReindexWrite,
         InMarket!Programmes!ReindexWrite, Programmes!EditRead,
         InMarket!Programmes!EditRead, Programmes!NumberIsFree,
         InMarket!Programmes!NumberIsFree, Programmes!Superseded,
         InMarket!Programmes!Superseded, Programmes!EditWrite,
         InMarket!Programmes!EditWrite, Programmes!EditRefused,
         InMarket!Programmes!EditRefused, Programmes!Copied, InMarket!Programmes!Copied,
         Programmes!CopyRequirements, InMarket!Programmes!CopyRequirements,
         Programmes!AddRequirementRead, InMarket!Programmes!AddRequirementRead,
         Programmes!AddRequirement, InMarket!Programmes!AddRequirement,
         Programmes!SetFeesRead, InMarket!Programmes!SetFeesRead, Programmes!SetFees,
         InMarket!Programmes!SetFees, Programmes!AddIntake, InMarket!Programmes!AddIntake,
         Programmes!PartnershipIsActive, InMarket!Programmes!PartnershipIsActive,
         Programmes!HasFutureIntake, InMarket!Programmes!HasFutureIntake,
         Programmes!CanPublishProgram, InMarket!Programmes!CanPublishProgram,
         Programmes!PublishRead, InMarket!Programmes!PublishRead, Programmes!PublishWrite,
         InMarket!Programmes!PublishWrite, Programmes!UnpublishRead,
         InMarket!Programmes!UnpublishRead, Programmes!UnpublishWrite,
         InMarket!Programmes!UnpublishWrite, Programmes!UnpublishedAll,
         InMarket!Programmes!UnpublishedAll, Programmes!RevokePartnership,
         InMarket!Programmes!RevokePartnership, Programmes!IsStale,
         InMarket!Programmes!IsStale, Programmes!SweepRead, InMarket!Programmes!SweepRead,
         Programmes!StaleFields, InMarket!Programmes!StaleFields, Programmes!SweepLook,
         InMarket!Programmes!SweepLook, Programmes!SweepMark, InMarket!Programmes!SweepMark,
         Programmes!Crash, InMarket!Programmes!Crash, Programmes!Tick,
         InMarket!Programmes!Tick, Programmes!Next, InMarket!Programmes!Next
<1>3. [Programmes!Next]_(Programmes!vars) => [InMarket!Programmes!Next]_(InMarket!Programmes!vars)
  BY <1>2 DEF Programmes!vars, InMarket!Programmes!vars
<1> QED
  BY <1>1, <1>3, PTL DEF Programmes!Spec, InMarket!Programmes!Spec

(* The part runs; and what it promises.                                    *)
ProgrammesRuns == part = "programmes"
ProgrammesPromises ==
    /\ Programmes!TimelineHolds
    /\ Programmes!RequirementsSurviveUnlessTorn
    /\ Programmes!RevokedIsPulledUnlessRaced
    /\ Programmes!IndexFollowsUnlessTorn

(* What the part promises holds as long as it runs.                        *)
LEMMA ProgrammesHolds == MarketSpec => [](ProgrammesRuns => ProgrammesPromises)
<1>1. ProgrammesRuns /\ MarketInit => Programmes!Init
  BY DEF MarketInit, ProgrammesRuns
<1>2. ProgrammesRuns /\ [MarketNext]_allVars => [Programmes!Next]_(Programmes!vars) /\ ProgrammesRuns'
  BY DEF MarketNext, allVars, ProgrammesRuns, Programmes!vars
<1>3. ~ProgrammesRuns /\ [MarketNext]_allVars => ~ProgrammesRuns'
  BY DEF MarketNext, allVars, ProgrammesRuns
<1>4. InMarket!Programmes!CatalogueAssumption
  BY MarketAssumptions DEF MarketAssumptions, Programmes!CatalogueAssumption,
         InMarket!Programmes!CatalogueAssumption
<1>5. InMarket!Programmes!Spec =>
      /\ []InMarket!Programmes!TimelineHolds
      /\ []InMarket!Programmes!RequirementsSurviveUnlessTorn
      /\ []InMarket!Programmes!RevokedIsPulledUnlessRaced
      /\ []InMarket!Programmes!IndexFollowsUnlessTorn
  BY <1>4, InMarket!TimelineCorrect, InMarket!RequirementsSurviveCorrect,
     InMarket!RevokedIsPulledCorrect, InMarket!IndexFollowsCorrect
<1>6. /\ InMarket!Programmes!TimelineHolds
      /\ InMarket!Programmes!RequirementsSurviveUnlessTorn
      /\ InMarket!Programmes!RevokedIsPulledUnlessRaced
      /\ InMarket!Programmes!IndexFollowsUnlessTorn
      => ProgrammesPromises
  BY Zenon DEF ProgrammesPromises, Programmes!TimelineHolds,
         InMarket!Programmes!TimelineHolds, Programmes!Open, InMarket!Programmes!Open,
         Programmes!RequirementsSurviveUnlessTorn,
         InMarket!Programmes!RequirementsSurviveUnlessTorn, Programmes!RequirementsSurvive,
         InMarket!Programmes!RequirementsSurvive, Programmes!At, InMarket!Programmes!At,
         Programmes!Current, InMarket!Programmes!Current, Programmes!Added,
         InMarket!Programmes!Added, Programmes!RevokedIsPulledUnlessRaced,
         InMarket!Programmes!RevokedIsPulledUnlessRaced, Programmes!RevokedIsPulled,
         InMarket!Programmes!RevokedIsPulled, Programmes!IndexFollowsUnlessTorn,
         InMarket!Programmes!IndexFollowsUnlessTorn, Programmes!IndexFollows,
         InMarket!Programmes!IndexFollows, Programmes!Projection,
         InMarket!Programmes!Projection, Programmes!Quiet, InMarket!Programmes!Quiet,
         Programmes!Visible, InMarket!Programmes!Visible, Programmes!PublicVisibility,
         InMarket!Programmes!PublicVisibility, Programmes!Blocking,
         InMarket!Programmes!Blocking, Programmes!Cardinality,
         InMarket!Programmes!Cardinality
<1> QED
  BY <1>1, <1>2, <1>3, <1>5, <1>6, ProgrammesIsProved, PTL
     DEF MarketSpec, Programmes!Spec

(***************************************************************************)
(* Institutions and their verification                                     *)
(***************************************************************************)

(* A behaviour of the part is one of the component its theorems are about. *)
LEMMA BadgesIsProved == Badges!Spec => InMarket!Spec
<1>1. Badges!Init => InMarket!Init
  BY Zenon DEF Badges!Unread, InMarket!Unread, Badges!NoCall, InMarket!NoCall, Badges!Init,
         InMarket!Init
<1>2. Badges!Next => InMarket!Next
  BY Zenon DEF Badges!Stages, InMarket!Stages, Badges!Active, InMarket!Active,
         Badges!OnDomain, InMarket!OnDomain, Badges!Unread, InMarket!Unread, Badges!NoCall,
         InMarket!NoCall, Badges!At, InMarket!At, Badges!Hold, InMarket!Hold, Badges!End,
         InMarket!End, Badges!DomainConfirmed, InMarket!DomainConfirmed,
         Badges!Precondition, InMarket!Precondition, Badges!TrustAgentOnly,
         InMarket!TrustAgentOnly, Badges!OneForward, InMarket!OneForward, Badges!Allowed,
         InMarket!Allowed, Badges!AdvanceRead, InMarket!AdvanceRead, Badges!NextState,
         InMarket!NextState, Badges!AdvanceWrite, InMarket!AdvanceWrite,
         Badges!AdvanceActivate, InMarket!AdvanceActivate, Badges!RecordEvidence,
         InMarket!RecordEvidence, Badges!UpdatePartnership, InMarket!UpdatePartnership,
         Badges!Revoked, InMarket!Revoked, Badges!RevokePartnership,
         InMarket!RevokePartnership, Badges!IssueChallenge, InMarket!IssueChallenge,
         Badges!Checkable, InMarket!Checkable, Badges!CheckRead, InMarket!CheckRead,
         Badges!InDns, InMarket!InDns, Badges!CheckResolve, InMarket!CheckResolve,
         Badges!CheckWrite, InMarket!CheckWrite, Badges!PublishRecord,
         InMarket!PublishRecord, Badges!CallDies, InMarket!CallDies, Badges!Tick,
         InMarket!Tick, Badges!Next, InMarket!Next
<1>3. [Badges!Next]_(Badges!vars) => [InMarket!Next]_(InMarket!vars)
  BY <1>2 DEF Badges!vars, InMarket!vars
<1> QED
  BY <1>1, <1>3, PTL DEF Badges!Spec, InMarket!Spec

(* The part runs; and what it promises.                                    *)
BadgesRuns == part = "badges"
BadgesPromises ==
    /\ Badges!EveryStageEntered
    /\ Badges!DomainStaysConfirmedUnlessRaced
    /\ Badges!BadgeHasPartnershipUnlessRaced
    /\ Badges!ChecksNearCap

(* What the part promises holds as long as it runs.                        *)
LEMMA BadgesHolds == MarketSpec => [](BadgesRuns => BadgesPromises)
<1>1. BadgesRuns /\ MarketInit => Badges!Init
  BY DEF MarketInit, BadgesRuns
<1>2. BadgesRuns /\ [MarketNext]_allVars => [Badges!Next]_(Badges!vars) /\ BadgesRuns'
  BY DEF MarketNext, allVars, BadgesRuns, Badges!vars
<1>3. ~BadgesRuns /\ [MarketNext]_allVars => ~BadgesRuns'
  BY DEF MarketNext, allVars, BadgesRuns
<1>4. InMarket!InstitutionsAssumption
  BY MarketAssumptions DEF MarketAssumptions, Badges!InstitutionsAssumption,
         InMarket!InstitutionsAssumption, Badges!IsFiniteSet, InMarket!IsFiniteSet
<1>5. InMarket!Spec =>
      /\ []InMarket!EveryStageEntered
      /\ []InMarket!DomainStaysConfirmedUnlessRaced
      /\ []InMarket!BadgeHasPartnershipUnlessRaced
      /\ []InMarket!ChecksNearCap
  BY <1>4, InMarket!EveryStageCorrect, InMarket!DomainCorrect, InMarket!BadgeCorrect,
     InMarket!ChecksNearCapCorrect
<1>6. /\ InMarket!EveryStageEntered
      /\ InMarket!DomainStaysConfirmedUnlessRaced
      /\ InMarket!BadgeHasPartnershipUnlessRaced
      /\ InMarket!ChecksNearCap
      => BadgesPromises
  BY Zenon DEF BadgesPromises, Badges!EveryStageEntered, InMarket!EveryStageEntered,
         Badges!DomainStaysConfirmedUnlessRaced, InMarket!DomainStaysConfirmedUnlessRaced,
         Badges!DomainStaysConfirmed, InMarket!DomainStaysConfirmed, Badges!DomainConfirmed,
         InMarket!DomainConfirmed, Badges!BadgeHasPartnershipUnlessRaced,
         InMarket!BadgeHasPartnershipUnlessRaced, Badges!BadgeHasPartnership,
         InMarket!BadgeHasPartnership, Badges!At, InMarket!At, Badges!Badge, InMarket!Badge,
         Badges!Active, InMarket!Active, Badges!Stages, InMarket!Stages,
         Badges!ChecksNearCap, InMarket!ChecksNearCap, Badges!Cardinality,
         InMarket!Cardinality
<1> QED
  BY <1>1, <1>2, <1>3, <1>5, <1>6, BadgesIsProved, PTL
     DEF MarketSpec, Badges!Spec

(* What stands behind a listing: a badge with every stage, a confirmed     *)
(* domain and an active partnership; one current version of a programme    *)
(* with its requirements, pulled when the partnership ends, and in the     *)
(* index as it is; imported programmes as they were reviewed, each once;   *)
(* and polls of a university no closer than its interval                   *)
(* (InstitutionsService, CatalogueService, IngestionService,               *)
(* StatusPollService).                                                     *)
THEOREM ListingsAreBackedCorrect == MarketSpec => []ListingsAreBacked
<1>1. /\ BadgesRuns => BadgesPromises
      /\ ProgrammesRuns => ProgrammesPromises
      /\ SheetsRuns => SheetsPromises
      /\ PollsRuns => PollsPromises
      => ListingsAreBacked
  BY DEF ListingsAreBacked, BadgesRuns, BadgesPromises, ProgrammesRuns, ProgrammesPromises,
         SheetsRuns, SheetsPromises, PollsRuns, PollsPromises
<1> QED
  BY <1>1, BadgesHolds, ProgrammesHolds, SheetsHolds, PollsHolds, PTL

(* No step takes an institution back to an earlier stage, unless a write   *)
(* came late (evaluateTransition, advanceVerification).                    *)
THEOREM VerificationGoesForwardCorrect == MarketSpec => VerificationGoesForward
<1>1. BadgesRuns /\ MarketInit => Badges!Init
  BY DEF MarketInit, BadgesRuns
<1>2. BadgesRuns /\ [MarketNext]_allVars => [Badges!Next]_(Badges!vars) /\ BadgesRuns'
  BY DEF MarketNext, allVars, BadgesRuns, Badges!vars
<1>3. ~BadgesRuns /\ [MarketNext]_allVars => ~BadgesRuns'
  BY DEF MarketNext, allVars, BadgesRuns
<1>4. InMarket!InstitutionsAssumption
  BY MarketAssumptions
     DEF MarketAssumptions, Badges!InstitutionsAssumption, InMarket!InstitutionsAssumption,
         Badges!IsFiniteSet, InMarket!IsFiniteSet
<1>5. InMarket!Spec => []InMarket!TypeOK
  BY <1>4, InMarket!TypeCorrect
<1>6. InMarket!Spec => [][InMarket!ForwardOnlyStep]_(InMarket!vars)
  BY <1>4, InMarket!ForwardCorrect DEF InMarket!ForwardOnlyUnlessRaced
<1>7. InMarket!TypeOK /\ [InMarket!ForwardOnlyStep]_(InMarket!vars)
      => (BadgesRuns => Badges!ForwardOnlyStep)
  <2> SUFFICES ASSUME InMarket!TypeOK, [InMarket!ForwardOnlyStep]_(InMarket!vars)
               PROVE  Badges!ForwardOnlyStep
    OBVIOUS
  <2>1. v1.stage \in Nat
    BY DEF InMarket!TypeOK, InMarket!Institution, InMarket!StageIndex, InMarket!Stages
  <2> QED
    BY <2>1 DEF InMarket!ForwardOnlyStep, Badges!ForwardOnlyStep, InMarket!vars
<1>8. (BadgesRuns => Badges!ForwardOnlyStep)
      => [part = "badges" => Badges!ForwardOnlyStep]_allVars
  BY DEF BadgesRuns
<1>9. ~BadgesRuns => [part = "badges" => Badges!ForwardOnlyStep]_allVars
  BY DEF BadgesRuns
<1> QED
  BY <1>1, <1>2, <1>3, <1>5, <1>6, <1>7, <1>8, <1>9, BadgesIsProved, PTL
     DEF MarketSpec, Badges!Spec, VerificationGoesForward
=============================================================================
