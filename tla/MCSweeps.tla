------------------------------ MODULE MCSweeps -------------------------------
(* The parts that a sweep or a timer keeps in order, side by side: an      *)
(* offer and what it is attached to, a student guide and the guide's       *)
(* conversations, the visits of operators to accounts, and the public site *)
(* in one browser.  These parts do not call each other.                    *)
EXTENDS Parts

CONSTANTS
    Applications, Operators, NoOperator,
    Consents, SiteUniversities, Registered, SiteProgrammes      \* of the public site

(* The whole life of one version; and publishing around edits.             *)
OfferMixes ==
    {{"verify", "publish", "unpublish", "check", "sweep", "attach", "move"},
     {"edit", "verify", "publish"}}
Offers == INSTANCE OfferLifecycle WITH
    versions <- v1, attachments <- v2, told <- v3, calls <- v4, now <- v5, mix <- v6,
    signed <- v7, disputed <- v8, died <- v9,
    Mixes <- OfferMixes,
    CrashSteps <- {"sweep_notify"}, Windows <- {1}, MaxVersions <- 3, MaxTime <- 1

(* Verification and its expiry; sanctions around it; conversations that    *)
(* sanctions interrupt; conversations.                                     *)
Proven == {"challenge", "confirm", "verify"}
Clock == Proven \cup {"sweep"}
GuideMixes ==
    {Clock \cup {"submit", "profile"}, Clock \cup {"submit", "endorse"},
     Proven \cup {"submit", "profile", "endorse"},
     Clock \cup {"sanction", "reverse"},
     Proven \cup {"sanction", "open", "send"}, Proven \cup {"sanction", "open", "close"},
     Proven \cup {"open", "send", "close"}}
Network == INSTANCE Guides WITH
    guide <- v1, evidence <- v2, threads <- v3, sanctions <- v4, flags <- v5, calls <- v6,
    now <- v7, mix <- v8, acted <- v9, reinstated <- v10, died <- v11,
    Mixes <- GuideMixes,
    Places <- {1, 2}, CrashSteps <- {"restrict_tell"}, Validity <- 1, Warning <- 1, Grace <- 1,
    MaxEvidence <- 1, MaxThreads <- 2, MaxSanctions <- 1, MaxTime <- 2

Visits == INSTANCE SupportVisits WITH
    consent <- v1, grants <- v2, sessions <- v3, events <- v4, calls <- v5, sweep <- v6,
    now <- v7, deaths <- v8, spoilt <- v9,
    Nobody <- NoOperator, Window <- 1, MaxVisits <- 2, MaxDeaths <- 0, MaxTime <- 1

(* One visit, for longer: it can be ended while a sweep is closing it.     *)
LongVisit == INSTANCE SupportVisits WITH
    consent <- v1, grants <- v2, sessions <- v3, events <- v4, calls <- v5, sweep <- v6,
    now <- v7, deaths <- v8, spoilt <- v9,
    Nobody <- NoOperator, Window <- 1, MaxVisits <- 1, MaxDeaths <- 1, MaxTime <- 2

(* The site in one tab, with resets and every console; and in two tabs.    *)
Site == INSTANCE PublicSite WITH
    disk <- v1, tabs <- v2, made <- v3, received <- v4, past <- v5, mix <- v6,
    Universities <- SiteUniversities, Programmes <- SiteProgrammes, Tabs <- {1}, CompareLimit <- 2,
    Mixes <- {{"apply", "reset"}, {"apply", "jump"}, {"vault", "review"},
              {"register", "compare"}, {"chat", "cases"}, {"sessions", "tabs"}},
    MaxDocuments <- 2, MaxVersion <- 2, MaxDrafts <- 2, MaxMessages <- 2
TwoTabs == INSTANCE PublicSite WITH
    disk <- v1, tabs <- v2, made <- v3, received <- v4, past <- v5, mix <- v6,
    Universities <- SiteUniversities, Programmes <- SiteProgrammes, Tabs <- {1, 2}, CompareLimit <- 2,
    Mixes <- {{"apply", "tabs"}, {"apply", "vault"}, {"answer", "tabs", "reset"}},
    MaxDocuments <- 1, MaxVersion <- 2, MaxDrafts <- 1, MaxMessages <- 1

ASSUME SweepsAssumptions ==
    /\ Site!SiteAssumption /\ TwoTabs!SiteAssumption
    /\ Offers!OffersAssumption /\ Offers!MixesAssumption
    /\ Network!GuidesAssumption /\ Visits!VisitsAssumption /\ LongVisit!VisitsAssumption

SweepsInit ==
    \/ part = "offers" /\ Offers!Init /\ Unused10
    \/ part = "guides" /\ Network!Init /\ Unused12
    \/ part = "visits" /\ Visits!Init /\ Unused10
    \/ part = "long visit" /\ LongVisit!Init /\ Unused10
    \/ part = "site" /\ Site!Init /\ Unused7
    \/ part = "two tabs" /\ TwoTabs!Init /\ Unused7

SweepsNext ==
    /\ UNCHANGED part
    /\ \/ part = "offers" /\ Offers!Next /\ UNCHANGED <<v10, v11, v12>>
       \/ part = "guides" /\ Network!Next /\ UNCHANGED v12
       \/ part = "visits" /\ Visits!Next /\ UNCHANGED <<v10, v11, v12>>
       \/ part = "long visit" /\ LongVisit!Next /\ UNCHANGED <<v10, v11, v12>>
       \/ part = "site" /\ Site!Next /\ UNCHANGED <<v7, v8, v9, v10, v11, v12>>
       \/ part = "two tabs" /\ TwoTabs!Next /\ UNCHANGED <<v7, v8, v9, v10, v11, v12>>

(* A sweep or a sanction that has begun goes on unless its process dies;   *)
(* whether a sweep is ever started is up to an operator.  A timer of an    *)
(* open page runs out.                                                     *)
Step(c) ==
    /\ UNCHANGED part
    /\ \/ part = "offers" /\ Offers!SweepStep(c) /\ UNCHANGED <<v10, v11, v12>>
       \/ part = "guides" /\ Network!SilencingStep(c) /\ UNCHANGED v12
SweepOfVisits ==
    /\ UNCHANGED <<part, v10, v11, v12>>
    /\ \/ part = "visits" /\ Visits!SweepStep
       \/ part = "long visit" /\ LongVisit!SweepStep
Timer(t) ==
    /\ UNCHANGED <<part, v7, v8, v9, v10, v11, v12>>
    /\ \/ part = "site" /\ t \in {1} /\ Site!Acknowledged(t)
       \/ part = "two tabs" /\ TwoTabs!Acknowledged(t)

SweepsSpec == SweepsInit /\ [][SweepsNext]_allVars
SweepsFairSpec ==
    /\ SweepsSpec
    /\ \A c \in Callers: WF_allVars(Step(c))
    /\ \A t \in {1, 2}: WF_allVars(Timer(t))
    /\ WF_allVars(SweepOfVisits)

(* Every part keeps its rows and its calls within their types.             *)
SweepsTypesHold ==
    /\ part = "offers" => Offers!TypeOK
    /\ part = "guides" => Network!TypeOK
    /\ part = "visits" => Visits!TypeOK
    /\ part = "long visit" => LongVisit!TypeOK
    /\ part = "site" => Site!TypeOK
    /\ part = "two tabs" => TwoTabs!TypeOK

(* Nobody acts on what has run out or was taken back: an offer is current  *)
(* once, published as Trust signed it, and settled and told when expired;  *)
(* a guide is active on evidence, and those a sanction concerns are told;  *)
(* a visit is one at a time, its session gone and its end on record; the   *)
(* site shows as submitted, sent, decided, suspended or verified what is.  *)
NothingOutlivesItsGround ==
    /\ part = "offers" =>
           /\ Offers!OneCurrentVersion /\ Offers!PublishedIsSigned
           /\ Offers!ExpiredIsSettled /\ Offers!ExpiredWasTold
    /\ part = "guides" =>
           /\ Network!ActiveIsBackedUnlessReinstated /\ Network!ExpiryMirrorsEvidence
           /\ Network!SuspendedWereToldUnlessRaced /\ Network!RestrictedWereToldUnlessDied
           /\ Network!EvidenceBeforeAction /\ Network!OneThreadPerProgramme
    /\ part = "visits" =>
           /\ Visits!OneVisitAtATimeUnlessSpoilt /\ Visits!EndedIsRevokedUnlessSpoilt
           /\ Visits!EndedIsOnRecordUnlessSpoilt
    /\ part = "long visit" =>
           LongVisit!EndedIsRevokedUnlessSpoilt /\ LongVisit!EndedIsOnRecordUnlessSpoilt
    /\ part = "site" =>
           /\ Site!SubmittedHasReceipt /\ Site!ConfirmedIsKeptUnlessRaced
           /\ Site!SentIsTickedUnlessChanged /\ Site!SentIsConsentedUnlessJumped
           /\ Site!DecidedWasOpenedUnlessReplaced /\ Site!AccusedHasCase
           /\ Site!EvidencePerStage /\ Site!CompareIsBounded
           /\ Site!PendingIsAwaitedUnlessReloaded
    /\ part = "two tabs" =>
           /\ TwoTabs!SubmittedHasReceipt /\ TwoTabs!ConfirmedIsKeptUnlessRaced
           /\ TwoTabs!SentIsTickedUnlessChanged /\ TwoTabs!SentIsConsentedUnlessJumped
           /\ TwoTabs!PendingIsAwaitedUnlessReloaded

EndsAreFinal ==
    [][/\ part = "offers" => Offers!AttachmentStep
       /\ part = "visits" => Visits!ClosedStep
       /\ part = "long visit" => LongVisit!ClosedStep
       /\ part = "site" => Site!SnapshotStep
       /\ part = "two tabs" => TwoTabs!SnapshotStep]_allVars
Begun(n) ==
    \/ part = "offers" /\ Offers!FoundLapsed(n)
    \/ part = "guides" /\ \E c \in Callers: Network!Silencing(c)
    \/ part = "visits" /\ Visits!Found(n)
    \/ part = "long visit" /\ LongVisit!Found(n)
    \/ part = "site" /\ n = 1 /\ Site!PendingHere(n) /\ Site!Awaiting(n)
    \/ part = "two tabs" /\ TwoTabs!PendingHere(n) /\ TwoTabs!Awaiting(n)
Done(n) ==
    /\ part = "offers" => Offers!Pulled(n)
    /\ part = "guides" => Network!Silent
    /\ part = "visits" => Visits!Closed(n) \/ Visits!ClosedByHand
    /\ part = "long visit" => LongVisit!Closed(n) \/ LongVisit!SweepDied
    /\ part = "site" => (n = 1 => ~Site!PendingHere(n))
    /\ part = "two tabs" => ~TwoTabs!PendingHere(n)

(* What a sweep or a sanction set out to end does end: a lapsed version a  *)
(* sweep found leaves publication, a guide is silenced, a visit a sweep    *)
(* found is closed unless the sweep is broken off, and a submission the    *)
(* page waits for is answered.  What has ended stays so: an attachment     *)
(* moves along its table, a closed visit stays closed, and a snapshot      *)
(* stays as it was sent.                                                   *)
EndsComeAndStay == EndsAreFinal /\ \A n \in 1..2: Begun(n) ~> Done(n)
=============================================================================
