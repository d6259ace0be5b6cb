---------------------------- MODULE MCMarketplace ----------------------------
(* The parts that decide what is shown, side by side: the verification of  *)
(* institutions, the catalogue and its imports, search, the price of a     *)
(* programme after its offers, the polling of universities, the pages of   *)
(* the web application, and the figures and the directory that are drawn   *)
(* from the rows of all of them.  These parts do not call each other.      *)
EXTENDS Parts

CONSTANTS
    Jobs,           \* jobs that rebuild the index, or sweeps that poll
    Never

MarketSymmetry == Permutations(Callers) \cup Permutations(Jobs)

Badges == INSTANCE Institutions WITH
    institution <- v1, partnership <- v2, legal <- v3, signatory <- v4, challenges <- v5,
    published <- v6, calls <- v7, now <- v8, entered <- v9, backed <- v10, raced <- v11,
    Roles <- {"agent", "staff"}, Ttl <- 1, MaxAttempts <- 1, MaxChallenges <- 1, MaxTime <- 1

(* Edits around a crash; publishing around an edit and a revocation, and   *)
(* around the sweep and rebuilds; unpublishing around fees and a crash.    *)
SomeSlas == [kind \in {"program", "fee", "intake"} |-> IF kind = "program" THEN 2 ELSE 1]
SomeMixes ==
    {{"edit", "require", "crash"}, {"publish", "intake", "revoke", "edit"},
     {"publish", "intake", "sweep", "rebuild"}, {"unpublish", "fees", "crash", "rebuild"}}
Programmes == INSTANCE Catalogue WITH
    rows <- v1, intakes <- v2, partnership <- v3, index <- v4, jobs <- v5, builds <- v6,
    calls <- v7, mix <- v8, now <- v9, torn <- v10,
    Workers <- Jobs, Requirements <- {"q1"}, Deadlines <- {2}, Sla <- SomeSlas,
    Mixes <- SomeMixes, MaxVersions <- 3, MaxJobs <- 2, MaxTime <- 2

(* Two files that make programmes or find them again, and one with a row   *)
(* that is refused; one programme the institution has already.             *)
Line(ref, valid, name, level, fee) ==
    [ref |-> ref, valid |-> valid, columns |-> [name |-> name, level |-> level, tuition |-> fee]]
SomeFiles ==
    {<<Line("r1", TRUE, "a", "ug", "f1"), Line("r2", TRUE, "b", "ug", None)>>,
     <<Line("r2", TRUE, "a", "ug", "f1"), Line("r2", TRUE, "b", "pg", "f1")>>,
     <<Line("r1", FALSE, "b", "ug", None), Line("r2", TRUE, "b", "pg", None)>>}
OneKnown ==
    <<[ref |-> "r1", prefixed |-> TRUE, status |-> "published", source |-> <<0, 0>>,
       columns |-> [name |-> "b", level |-> "ug", tuition |-> "f1"]]>>
Sheets == INSTANCE Imports WITH
    programmes <- v1, imports <- v2, calls <- v3, again <- v4,
    Refs <- {"r1", "r2"}, Names <- {"a", "b"}, Levels <- {"ug", "pg"}, Fees <- {"f1"},
    FileName <- "file", Files <- SomeFiles, Known <- OneKnown,
    MaxImports <- 2, MaxProgrammes <- 4

(* Documents that differ in rank, price, country and sponsorship, with and *)
(* without a price, and one that is hidden.                                *)
Doc(text, level, field, price, verified, stale, sponsored, country) ==
    [text |-> text, level |-> level, field |-> field, tuition |-> price, deadline |-> price,
     verified |-> verified, stale |-> stale, sponsored |-> sponsored, country |-> country,
     visible |-> TRUE]
SomeDocuments ==
    {Doc("details", "msc", "other", 5, TRUE, TRUE, TRUE, "x"),
     Doc("no", "msc", "related", 9, FALSE, FALSE, FALSE, "y"),
     Doc("prefix", "bsc", "same", None, FALSE, FALSE, FALSE, "y"),
     [Doc("within", "bsc", "related", None, TRUE, TRUE, TRUE, "y") EXCEPT !.visible = FALSE],
     Doc("subject", "msc", "other", 5, FALSE, TRUE, TRUE, "x"),
     Doc("details", "bsc", "same", 4, TRUE, FALSE, FALSE, "x")}
Query(term, sort, countries, levels, limit) ==
    [term |-> term, sort |-> sort, wanted |-> "msc", budget |-> 6, country |-> countries,
     level |-> levels, tuitionMax |-> limit, limit |-> 1]
SomeQueries ==
    {Query(term, "relevance", {}, {}, None) : term \in BOOLEAN}
    \cup {Query(FALSE, sort, {}, {}, None) : sort \in {"tuition_asc", "tuition_desc", "deadline_asc"}}
    \cup {Query(FALSE, "relevance", {"x"}, {"bsc"}, 5), Query(TRUE, "relevance", {"y"}, {"msc"}, None)}
Search == INSTANCE SearchRanking WITH
    index <- v1, query <- v2, cursor <- v3, shown <- v4, search <- v5, page <- v6,
    changes <- v7, moved <- v8, pages <- v9,
    Keys <- {1, 2, 3}, Documents <- SomeDocuments, Queries <- SomeQueries,
    MaxChanges <- 1, MaxPages <- 3

(* Three offers out of a few that compound, round, cap, waive, tie and     *)
(* exclude each other.                                                     *)
Worth(kind, rate, amount, foreign) ==
    [kind |-> kind, rate |-> rate, amount |-> amount, foreign |-> foreign]
SomeValues == {Worth("percentage", 6, 0, FALSE), Worth("percentage", 9, 0, FALSE),
               Worth("fixed_amount", 0, 4, FALSE), Worth("fixed_amount", 0, 9, TRUE),
               Worth("full_waiver", 0, 0, FALSE)}
Benefit == Worth("benefit_in_kind", 0, 0, FALSE)
Term(published, verified, checked, elsewhere, carved, from, until, checks) ==
    [published |-> published, verified |-> verified, checked |-> checked,
     elsewhere |-> elsewhere, carved |-> carved, from |-> from, until |-> until,
     claimBy |-> until, checks |-> checks]
Open == Term(TRUE, TRUE, TRUE, FALSE, FALSE, 0, 40, <<"pass", "pass">>)
NotWith(other) == [kind |-> "not_combinable_with_offer", other |-> other]
NotWithType(type) == [kind |-> "not_combinable_with_type", other |-> type]
SomeShapes ==
    [type: {"scholarship"}, value: SomeValues, appliesTo: {"tuition"}, specific: {TRUE},
     exclusions: {{}, {NotWith(2)}}, term: {Open}]
    \cup [type: {"discount"}, value: SomeValues, appliesTo: {"tuition"}, specific: {FALSE},
          exclusions: {{}, {NotWithType("scholarship")}}, term: {Open}]
    \cup [type: {"waiver"}, value: {Worth("fixed_amount", 0, 4, FALSE)},
          appliesTo: {"application_fee"}, specific: {TRUE}, exclusions: {{}}, term: {Open}]
    \cup [type: {"benefit"}, value: {Benefit}, appliesTo: {"none"}, specific: {FALSE},
          exclusions: {{}, {NotWithType("discount")}}, term: {Open}]
Charge(tuition, fee) ==
    [charged |-> IF fee = 0 THEN {"tuition"} ELSE {"tuition", "application_fee"},
     amount |-> [tuition |-> tuition, application_fee |-> fee, deposit |-> 0]]
Price == INSTANCE PriceBreakdown WITH
    offer <- v1, cost <- v2, queue <- v3, applied <- v4, suppressed <- v5, priced <- v6,
    remaining <- v7, totalSaving <- v8, saving <- v9,
    Offers <- {1, 2, 3}, Types <- {"scholarship", "discount", "waiver", "benefit"},
    Values <- SomeValues \cup {Benefit}, Shapes <- SomeShapes,
    Costs <- {Charge(tuition, fee) : tuition \in {1, 5}, fee \in {0, 3}}, Scale <- 10, Now <- 5

(* Two offers that may be hidden, missed, or about to lapse.               *)
Terms ==
    {Open, Term(FALSE, TRUE, TRUE, FALSE, FALSE, 0, 40, <<"pass">>),
     Term(TRUE, FALSE, TRUE, FALSE, FALSE, 0, 40, <<"pass">>),
     Term(TRUE, TRUE, FALSE, FALSE, FALSE, 0, 40, <<"pass">>),
     Term(TRUE, TRUE, TRUE, TRUE, FALSE, 0, 40, <<"pass">>),
     Term(TRUE, TRUE, TRUE, FALSE, TRUE, 0, 40, <<"pass">>)}
    \cup {Term(TRUE, TRUE, TRUE, FALSE, FALSE, from, until, <<"pass">>) :
             from \in {5, 6}, until \in {4, 5, 6, 11, 12, 13, 34, 35, 40}}
    \cup {Term(TRUE, TRUE, TRUE, FALSE, FALSE, 0, 40, checks) :
             checks \in {<<>>, <<"unknown">>, <<"pass", "unknown">>, <<"missing_data", "fail">>,
                         <<"unknown", "missing_data">>, <<"pass", "fail">>}}
Listing == INSTANCE PriceBreakdown WITH
    offer <- v1, cost <- v2, queue <- v3, applied <- v4, suppressed <- v5, priced <- v6,
    remaining <- v7, totalSaving <- v8, saving <- v9,
    Offers <- {1, 2}, Types <- {"scholarship"}, Values <- SomeValues,
    Shapes <- [type: {"scholarship"}, value: {Worth("fixed_amount", 0, 4, FALSE)},
               appliesTo: {"tuition"}, specific: {TRUE}, exclusions: {{}}, term: Terms],
    Costs <- {Charge(5, 0), [Charge(0, 0) EXCEPT !.charged = {}]}, Scale <- 10, Now <- 5

EveryTick == [k \in {"k1", "k2"} |-> 1]
Polls == INSTANCE StatusPolling WITH
    lastPolled <- v1, enabled <- v2, sweeps <- v3, polls <- v4, now <- v5,
    Connectors <- {"k1", "k2"}, Sweepers <- Jobs, Interval <- EveryTick, MaxTime <- 2

(* One tab and each of its hazards; and two tabs that start at once.       *)
Apply == INSTANCE ApplicationPages WITH
    application <- v1, world <- v2, keys <- v3, submissions <- v4, pages <- v5,
    requests <- v6, counts <- v7, past <- v8, mix <- v9,
    Tabs <- {1}, Consents <- 1, MaxKeys <- 2, MaxVersion <- 2, MaxRequests <- 2, MaxEpochs <- 2,
    Mixes <- {{"start", "close"}, {"prepare", "send"}, {"send", "drift"},
              {"send", "lose", "elsewhere"}, {"send", "block"}}
Starts == INSTANCE ApplicationPages WITH
    application <- v1, world <- v2, keys <- v3, submissions <- v4, pages <- v5,
    requests <- v6, counts <- v7, past <- v8, mix <- v9,
    Tabs <- {1, 2}, Consents <- 1, MaxKeys <- 1, MaxVersion <- 1, MaxRequests <- 2, MaxEpochs <- 2,
    Mixes <- {{"start", "close"}}

Pages == INSTANCE WebPages WITH
    area <- v1, server <- v2, page <- v3, requests <- v4, past <- v5,
    Areas <- {"chat", "threads", "vault", "profile", "filters", "cache", "table", "onboarding"},
    Threads <- {"t1", "t2"}, Files <- {"f1", "f2"}, Facets <- {"a", "b"}, Rows <- {1, 2, 3},
    Statuses <- {"draft", "published"}, Domains <- {"d1", "d2"}, Window <- 1,
    MaxMessages <- 2, MaxTexts <- 2, MaxDrops <- 2, MaxEdits <- 3, MaxTime <- 3, MaxLoads <- 2

(* Guides who share the field, the topics, the country or nothing with the *)
(* student, and one of another university.                                 *)
Guide(field, move, shared, trust, here) ==
    [raw |-> [programme |-> field, language |-> 0, campus |-> 0, journey |-> move, level |-> 0],
     shared |-> shared, trust |-> trust, here |-> here]
Figures == INSTANCE Insights WITH
    area <- v1, db <- v2, seen <- v3, now <- v4, past <- v5,
    Areas <- {"funnel", "portal", "queues", "directory", "connectors"},
    Apps <- Callers, Docs <- Callers, Cases <- {"c"}, Guides <- {1, 2}, Attempts <- Jobs,
    Window <- 1, Sla <- 1, MinCohort <- 2, HealthyAt <- 50, DegradedAt <- 40,
    Shapes <- {Guide(6, 0, 0, 100, TRUE), Guide(0, 10, 1, 0, TRUE), Guide(0, 0, 0, 50, FALSE)},
    Criteria <- [topics: {0, 1, 10}, availability: BOOLEAN], MaxTime <- 3

ASSUME MarketAssumptions ==
    /\ Badges!InstitutionsAssumption /\ Programmes!CatalogueAssumption
    /\ Sheets!ImportsAssumption /\ Search!RankingAssumption
    /\ Price!OfferAssumption /\ Price!CostAssumption
    /\ Listing!OfferAssumption /\ Listing!CostAssumption
    /\ Polls!BoundsAssumption /\ Polls!IntervalAssumption /\ Polls!NeverAssumption
    /\ Apply!PagesAssumption /\ Starts!PagesAssumption /\ Pages!PagesAssumption
    /\ Figures!InsightsAssumption

MarketInit ==
    \/ part = "badges"     /\ Badges!Init     /\ Unused12
    \/ part = "programmes" /\ Programmes!Init /\ Unused11
    \/ part = "sheets"     /\ Sheets!Init      /\ Unused5
    \/ part = "search"     /\ Search!Init     /\ Unused10
    \/ part = "price"      /\ Price!Init      /\ Unused10
    \/ part = "listing"    /\ Listing!Init    /\ Unused10
    \/ part = "polls"      /\ Polls!Init      /\ Unused6
    \/ part = "apply"      /\ Apply!Init      /\ Unused10
    \/ part = "starts"     /\ Starts!Init     /\ Unused10
    \/ part = "pages"      /\ Pages!Init      /\ Unused6
    \/ part = "figures"    /\ Figures!Init    /\ Unused6

MarketNext ==
    /\ UNCHANGED part
    /\ \/ part = "badges"     /\ Badges!Next     /\ UNCHANGED <<v12>>
       \/ part = "programmes" /\ Programmes!Next /\ UNCHANGED <<v11, v12>>
       \/ part = "sheets"     /\ Sheets!Next      /\ UNCHANGED <<v5, v6, v7, v8, v9, v10, v11, v12>>
       \/ part = "search"     /\ Search!Next     /\ UNCHANGED <<v10, v11, v12>>
       \/ part = "price"      /\ Price!Next      /\ UNCHANGED <<v10, v11, v12>>
       \/ part = "listing"    /\ Listing!Next    /\ UNCHANGED <<v10, v11, v12>>
       \/ part = "polls"      /\ Polls!Next      /\ UNCHANGED <<v6, v7, v8, v9, v10, v11, v12>>
       \/ part = "apply"      /\ Apply!Next      /\ UNCHANGED <<v10, v11, v12>>
       \/ part = "starts"     /\ Starts!Next     /\ UNCHANGED <<v10, v11, v12>>
       \/ part = "pages"      /\ Pages!Next      /\ UNCHANGED <<v6, v7, v8, v9, v10, v11, v12>>
       \/ part = "figures"    /\ Figures!Next    /\ UNCHANGED <<v6, v7, v8, v9, v10, v11, v12>>

MarketSpec == MarketInit /\ [][MarketNext]_allVars

(* Every part keeps its rows and its calls within their types.             *)
MarketTypesHold ==
    /\ part = "badges"     => Badges!TypeOK
    /\ part = "programmes" => Programmes!TypeOK
    /\ part = "sheets"     => Sheets!TypeOK
    /\ part = "search"     => Search!TypeOK
    /\ part = "price"      => Price!TypeOK
    /\ part = "listing"    => Listing!TypeOK
    /\ part = "polls"      => Polls!TypeOK
    /\ part = "apply"      => Apply!TypeOK
    /\ part = "starts"     => Starts!TypeOK
    /\ part = "pages"      => Pages!TypeOK
    /\ part = "figures"    => Figures!TypeOK

(* What stands behind a listing: a badge with every stage, a confirmed     *)
(* domain and an active partnership; one current version of a programme    *)
(* with its requirements, pulled when the partnership ends, and in the     *)
(* index as it is; imported programmes as they were reviewed, each once;   *)
(* and polls of a university no closer than its interval.                  *)
ListingsAreBacked ==
    /\ part = "badges" =>
           /\ Badges!EveryStageEntered /\ Badges!DomainStaysConfirmedUnlessRaced
           /\ Badges!BadgeHasPartnershipUnlessRaced /\ Badges!ChecksNearCap
    /\ part = "programmes" =>
           /\ Programmes!TimelineHolds /\ Programmes!RequirementsSurviveUnlessTorn
           /\ Programmes!RevokedIsPulledUnlessRaced /\ Programmes!IndexFollowsUnlessTorn
    /\ part = "sheets" => Sheets!KeysAreApart /\ Sheets!MadeAsReviewedUnlessAgain
    /\ part = "polls" => Polls!ClaimsAreApart

(* What a student is shown of it: the price that remains, with every offer *)
(* accounted for and each saving within its cost; results in their order,  *)
(* no sponsor ranked for money, missing figures last, and suggestions that *)
(* would find something; pages that say what has happened to what was      *)
(* asked of them, and ask for it once; funnels that narrow and claim no    *)
(* more than happened; reports true of their instant; guides in the order  *)
(* of what they match, whatever their trust score.                         *)
ShownIsFair ==
    /\ part = "listing" =>
           /\ Listing!EveryOfferListed /\ Listing!OnlySatisfiedReduces
           /\ Listing!MissedSaysWhy /\ Listing!BadgeIsCautious
    /\ part = "price" =>
           /\ Price!NetPriceIsWhatRemains /\ Price!AppliedCombine /\ Price!LostToBetter
           /\ Price!ExhaustedIsNothing /\ Price!EveryOfferListed /\ Price!LineIsWithinOffer
    /\ part = "search" =>
           /\ Search!SponsorshipBuysNoRank /\ Search!NullsAreLast /\ Search!ReadsInOrderUnlessMoved
           /\ Search!SuggestionsRecoverUnlessMoved /\ Search!CountsAgreeUnlessMoved
    /\ part = "apply" =>
           /\ Apply!RetryIsNotNew /\ Apply!OkIsNewUnlessKept /\ Apply!BusyIsAwaitedUnlessLost
           /\ Apply!ValidUnlessBlockedSince /\ Apply!TickedBeforeSending
    /\ part = "starts" => Starts!ErrorMeansNoneUnlessRaced
    /\ part = "pages" =>
           /\ Pages!ShownIsSelectedUnlessLate /\ Pages!MessageOnceUnlessLost
           /\ Pages!UnsentIsKeptUnlessRefused /\ Pages!DoneIsFinalisedUnlessDoubled
           /\ Pages!SavedIsStoredUnlessOverlapped /\ Pages!EditsAreKeptUnlessLeft
           /\ Pages!FiltersAddUpUnlessHasty /\ Pages!ShownIsRecentUnlessIdle
           /\ Pages!EmptyMeansNoneUnlessNarrowed /\ Pages!SelectedIsActedOnUnlessTurned
           /\ Pages!ReachedIsComplete
    /\ part = "figures" =>
           /\ Figures!FunnelNarrows /\ Figures!CountsWhatHappened
           /\ Figures!CountsAllUnlessTurnedBack /\ Figures!TrendIsWhole
           /\ Figures!PortalFunnelNarrows /\ Figures!TotalsAgreeUnlessMoved
           /\ Figures!OverdueIsReal /\ Figures!MedianWithinP90 /\ Figures!OneInstantUnlessMoved
           /\ Figures!TrustBuysNoPlaceUnlessManyTopics /\ Figures!OrderIsTotal
           /\ Figures!HardFiltersUnlessMoved
           /\ Figures!HealthyMeansDelivered /\ Figures!P95Covers

(* No step takes an institution back to an earlier stage.                  *)
VerificationGoesForward == [][part = "badges" => Badges!ForwardOnlyStep]_allVars
=============================================================================
