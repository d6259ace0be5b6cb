------------------------------ MODULE Insights ------------------------------
(***************************************************************************)
(* The figures the consoles report and the order a directory is shown in:  *)
(* the two funnels of applications, the trend of a window, the queues and  *)
(* the notes drawn from them, the guides that match a student and the      *)
(* health of a connector.  A report is put together from queries that are  *)
(* answered one after another while the rows move; a behaviour is one of   *)
(* one area.  Times are half days.                                         *)
(***************************************************************************)
EXTENDS Integers, FiniteSets, FiniteSetsExt

CONSTANTS
    Areas,                     \* bound: the areas looked at
    Apps, Docs, Cases, Guides, Attempts,
    Window, Sla,               \* days of a report; half days a review may take
    MinCohort,                 \* MIN_COHORT
    HealthyAt, DegradedAt,     \* connectorHealth: per cent of attempts accepted
    Shapes, Criteria,          \* what a guide may be like, what a student may ask
    MaxTime                    \* bound

InsightsAssumption ==
    /\ {Window, MinCohort} \subseteq Nat \ {0} /\ {Sla, MaxTime} \subseteq Nat
    /\ DegradedAt \in 0..HealthyAt /\ HealthyAt \in 0..100
    /\ Guides \subseteq Nat /\ \A c \in Criteria: c.topics \in 0..12

VARIABLES
    area,
    db,           \* the rows
    seen,         \* what the queries of a report have answered
    now,
    past          \* "moved": a row moved between two of the queries (history)

vars == <<area, db, seen, now, past>>

States == INSTANCE ApplicationStates
NotYet == -1
Count(S) == Cardinality(S)

-----------------------------------------------------------------------------
(* Applications.                                                           *)

Stage == {"started", "ready", "submitted", "decided", "accepted"}
NextStage == [started |-> "ready", ready |-> "submitted", submitted |-> "decided",
              decided |-> "accepted"]

(* STAGE_MEMBERSHIP: the stages a state counts towards.                    *)
SentCounts(state) ==
    CASE state \in {"draft", "withdrawn"} -> {"started"}
      [] state \in {"ready", "failed"} -> {"started", "ready"}
      [] state \in {"submitted_pending", "submitted", "under_review", "more_info"} ->
            {"started", "ready", "submitted"}
      [] state \in {"accepted", "enrolled"} -> Stage
      [] OTHER -> Stage \ {"accepted"}
StageMembership(state) ==
    CASE state \in {"draft", "withdrawn"} -> {"started"}
      [] state \in {"ready", "submitted_pending", "failed"} -> {"started", "ready"}
      [] state \in {"submitted", "under_review", "more_info"} -> {"started", "ready", "submitted"}
      [] state \in {"accepted", "enrolled"} -> Stage
      [] OTHER -> Stage \ {"accepted"}

Started == {a \in Apps: db[a].state # "none"}
InWindow == {a \in Started: db[a].at >= now - 2 * Window}
Funnel(stage) == Count({a \in InWindow: stage \in StageMembership(db[a].state)})

(* A rate of fewer than MinCohort is withheld; so is the largest drop.     *)
Reported(denominator) == denominator >= MinCohort
Lost(stage) == Funnel(stage) - Funnel(NextStage[stage])
BiggestDropOff ==
    {s \in DOMAIN NextStage: /\ Reported(Funnel("started"))
                             /\ \A t \in DOMAIN NextStage: Lost(t) <= Lost(s)}

Day(time) == time \div 2
OneMore == (Day(now) - Window)..Day(now)
DaysShown == (Day(now) - Window + 1)..Day(now)
DailyTrend(day) == Count({a \in InWindow: Day(db[a].at) = day})

(* The funnel of the portal counts all applications of the institution.    *)
Reached(states) == Count({a \in Apps: db[a].state \in states})
PortalFunnel ==
    LET offered == {"offer", "accepted", "declined", "enrolled"}
        reviewed == offered \cup {"under_review", "more_info", "rejected"} IN
    [submitted |-> Reached(reviewed \cup {"submitted"}), under_review |-> Reached(reviewed),
     offer |-> Reached(offered), enrolled |-> Reached({"enrolled"})]

(* What has happened to an application when it enters a state.             *)
Event(state) ==
    CASE state = "ready" -> {"ready"} [] state = "submitted" -> {"submitted"}
      [] state \in {"offer", "rejected"} -> {"decided"} [] state = "accepted" -> {"accepted"}
      [] OTHER -> {}

AppsType ==
    db \in [Apps -> [state: States!ApplicationState \cup {"none"}, happened: SUBSET Stage,
                     at: 0..MaxTime]]
AppsInit == db = [a \in Apps |-> [state |-> "none", happened |-> {}, at |-> 0]]

StartApplication(a) ==
    /\ db[a].state = "none"
    /\ db' = [db EXCEPT ![a] = [state |-> "draft", happened |-> {"started"}, at |-> now]]
MoveApplication(a) ==
    \E to \in States!Successors(db[a].state):
        db' = [db EXCEPT ![a].state = to, ![a].happened = @ \cup Event(to)]

FunnelNext ==
    /\ UNCHANGED <<seen, past>>
    /\ \/ now < MaxTime /\ now' = now + 1 /\ UNCHANGED db
       \/ UNCHANGED now /\ \E a \in Apps: StartApplication(a) \/ MoveApplication(a)

(* The portal groups its applications by state, and counts them, in two    *)
(* queries.                                                                *)
PortalQuery == {"grouped", "counted"}
Asking(queries) == \E q \in queries: seen[q] # NotYet
Answered(queries) == \A q \in queries: seen[q] # NotYet
Moved(queries) ==
    past' = IF Asking(queries) /\ ~Answered(queries) THEN past \cup {"moved"} ELSE past
PortalInit == AppsInit /\ seen = [q \in PortalQuery |-> NotYet]
AskPortal(q) ==
    /\ seen[q] = NotYet /\ seen' = [seen EXCEPT ![q] = Count(Started)]
    /\ UNCHANGED <<db, past>>
Forget(queries) ==
    Answered(queries) /\ seen' = [q \in queries |-> NotYet] /\ past' = {} /\ UNCHANGED db
PortalNext ==
    /\ UNCHANGED now
    /\ \/ \E q \in PortalQuery: AskPortal(q)
       \/ Forget(PortalQuery)
       \/ \E a \in Apps: /\ StartApplication(a) \/ MoveApplication(a)
                         /\ Moved(PortalQuery) /\ UNCHANGED seen

-----------------------------------------------------------------------------
(* Queues: documents with their assessments, and trust cases.              *)

(* Documents are uploaded when the clock starts.                           *)
Untouched == [opened |-> NotYet, decided |-> NotYet, quarantined |-> FALSE]
QueuesType ==
    /\ db.docs \in [Docs -> [opened: NotYet..MaxTime, decided: NotYet..MaxTime,
                             quarantined: BOOLEAN]]
    /\ db.cases \in [Cases -> {"none", "open", "triaging", "closed"}]
QueuesInit ==
    /\ db = [docs |-> [d \in Docs |-> Untouched], cases |-> [c \in Cases |-> "none"]]
    /\ seen = [at |-> NotYet, assessments |-> NotYet, cases |-> NotYet, median |-> NotYet]

(* The row of an assessment is made when the document is opened.           *)
Assessed == {d \in Docs: db.docs[d].opened # NotYet}
Decided == {d \in Docs: db.docs[d].decided # NotYet}
EvenDecided(at) == {d \in Assessed: at - db.docs[d].opened > Sla}
OverdueAssessments(at) == {d \in Assessed \ Decided: at - db.docs[d].opened > Sla}
OpenCases == {c \in Cases: db.cases[c] = "open"}

(* The k-th shortest of the times to a decision.                           *)
Hours(d) == db.docs[d].decided - db.docs[d].opened
Kth(k) ==
    CHOOSE h \in {Hours(d) : d \in Decided}:
        /\ Count({d \in Decided: Hours(d) < h}) < k
        /\ k <= Count({d \in Decided: Hours(d) <= h})
MedianTwice ==
    LET n == Count(Decided) IN
    IF n % 2 = 1 THEN 2 * Kth(n \div 2 + 1) ELSE Kth(n \div 2) + Kth(n \div 2 + 1)
P90 == LET n == Count(Decided) IN Kth((9 * n + 9) \div 10)

Query == {"assessments", "cases"}
Complete == seen.at # NotYet /\ Answered(Query)
Begin ==
    /\ seen.at = NotYet /\ seen' = [seen EXCEPT !.at = now]
    /\ past' = {} /\ UNCHANGED <<db, now>>
ReadAssessments ==
    /\ seen.at # NotYet /\ seen.assessments = NotYet
    /\ seen' = [seen EXCEPT !.assessments = Count(OverdueAssessments(seen.at)),
                            !.median = IF Decided = {} THEN 0 ELSE MedianTwice]
    /\ UNCHANGED <<db, now, past>>
ReadCases ==
    /\ seen.at # NotYet /\ seen.cases = NotYet /\ seen' = [seen EXCEPT !.cases = Count(OpenCases)]
    /\ UNCHANGED <<db, now, past>>
Leave ==
    /\ Complete
    /\ seen' = [at |-> NotYet, assessments |-> NotYet, cases |-> NotYet, median |-> NotYet]
    /\ past' = {} /\ UNCHANGED <<db, now>>

(* buildInsightNotes; the API passes no quarantined files.                 *)
Notes ==
    LET found == {n \in {"assessments-overdue"}: seen.assessments > 0}
                 \cup {n \in {"review-slow"}: seen.median > Sla}
                 \cup {n \in {"trust-open"}: seen.cases > 0} IN
    IF found = {} THEN {"clear"} ELSE found

MoveDocument(d) ==
    /\ ~db.docs[d].quarantined
    /\ \/ db' = [db EXCEPT !.docs[d].quarantined = TRUE]
       \/ db.docs[d].opened = NotYet /\ db' = [db EXCEPT !.docs[d].opened = now]
       \/ /\ db.docs[d].opened # NotYet /\ db.docs[d].decided = NotYet
          /\ db' = [db EXCEPT !.docs[d].decided = now]
MoveCase(c) ==
    \E to \in {"open", "triaging", "closed"}:
        /\ <<db.cases[c], to>> \in {<<"none", "open">>, <<"open", "triaging">>,
                                    <<"open", "closed">>, <<"triaging", "closed">>}
        /\ db' = [db EXCEPT !.cases[c] = to]
MoveRow ==
    /\ (\E d \in Docs: MoveDocument(d)) \/ (\E c \in Cases: MoveCase(c))
    /\ past' = IF seen.at # NotYet THEN past \cup {"moved"} ELSE past
    /\ UNCHANGED <<seen, now>>
Wait ==
    /\ now < MaxTime /\ now' = now + 1
    /\ past' = IF seen.at # NotYet THEN past \cup {"moved"} ELSE past
    /\ UNCHANGED <<db, seen>>

QueuesNext == Begin \/ ReadAssessments \/ ReadCases \/ Leave \/ MoveRow \/ Wait

-----------------------------------------------------------------------------
(* The directory of guides.  Weights are in hundred-thousandths, times the *)
(* number of topics asked for, so that every score is a whole number.      *)

Weight == [programme |-> 20000, language |-> 20000, campus |-> 15000, journey |-> 10000,
           level |-> 10000]
TopicWeight == 25000
Factor == DOMAIN Weight
Parts(c) == IF c.topics = 0 THEN 1 ELSE c.topics

(* What a guide is to the student: raw scores in tenths (a guide of the    *)
(* field scores 6 for the programme, a first-year 7 for the level), the    *)
(* topics shared, the trust score, and whether the university is theirs.   *)
Contribution(shape, factor, c) == (shape.raw[factor] * Weight[factor] * Parts(c)) \div 10
Merit(shape, c) ==
    Min({shape.shared, c.topics}) * TopicWeight
    + MapThenSumSet(LAMBDA factor: Contribution(shape, factor, c), Factor)
TrustBuysAll(shape, c) == Merit(shape, c) + shape.trust * Parts(c) * 1000
Score(shape, c) == Merit(shape, c) + shape.trust * Parts(c)

(* buildMatchReason names the first three of the factors that scored.      *)
FactorOrder == [topics |-> 1, programme |-> 2, language |-> 3, campus |-> 4, journey |-> 5,
                level |-> 6]
Scored(shape, c) ==
    {f \in Factor: shape.raw[f] > 0} \cup {f \in {"topics"}: Min({shape.shared, c.topics}) > 0}
Reasons(shape, c) ==
    {f \in Scored(shape, c):
        Count({g \in Scored(shape, c): FactorOrder[g] < FactorOrder[f]}) < 3}

NotAsked == [asked |-> {}, rows |-> {}, slots |-> [g \in Guides |-> NotYet]]
DirectoryType ==
    db \in [Guides -> [shape: Shapes, active: BOOLEAN, free: 0..1]]
DirectoryInit ==
    /\ db \in [Guides -> [shape: Shapes, active: {TRUE}, free: {0, 1}]] /\ seen = NotAsked

(* The rows of the active guides of the university are read, then the free *)
(* slots of each; matchGuides filters and orders what was read.            *)
AnyRow(c) == Guides
ReadRows(c) == {g \in Guides: db[g].active /\ db[g].shape.here}
Browse(c) ==
    /\ seen.asked = {} /\ seen' = [seen EXCEPT !.asked = {c}, !.rows = ReadRows(c)]
    /\ UNCHANGED <<db, past>>
CountSlots(g) ==
    /\ g \in seen.rows /\ seen.slots[g] = NotYet /\ seen' = [seen EXCEPT !.slots[g] = db[g].free]
    /\ UNCHANGED <<db, past>>
Listed == seen.asked # {} /\ \A g \in seen.rows: seen.slots[g] # NotYet
Offered(c) == {g \in seen.rows: c.availability => seen.slots[g] > 0}
Precedes(g, h, c) ==
    LET own == Score(db[g].shape, c)
        other == Score(db[h].shape, c) IN own > other \/ (own = other /\ g < h)
LeaveDirectory == Listed /\ seen' = NotAsked /\ past' = {} /\ UNCHANGED db

Suspend(g) == db[g].active /\ db' = [db EXCEPT ![g].active = FALSE]
Restore(g) == ~db[g].active /\ db' = [db EXCEPT ![g].active = TRUE]
Book(g) == db[g].free > 0 /\ db' = [db EXCEPT ![g].free = @ - 1]
Cancel(g) == db[g].free = 0 /\ db' = [db EXCEPT ![g].free = 1]
GuideMoves ==
    /\ \E g \in Guides: Suspend(g) \/ Restore(g) \/ Book(g) \/ Cancel(g)
    /\ past' = IF seen.asked # {} THEN {"moved"} ELSE past
    /\ UNCHANGED seen

DirectoryNext ==
    /\ UNCHANGED now
    /\ (\E c \in Criteria: Browse(c)) \/ (\E g \in Guides: CountSlots(g)) \/ LeaveDirectory
       \/ GuideMoves

-----------------------------------------------------------------------------
(* The health of a connector, of the attempts begun in the last Window.    *)

Unsent == [state |-> "none", began |-> 0, ended |-> NotYet]
Ending == {"accepted", "awaiting_handoff", "rejected", "failed", "dead_lettered"}
ConnectorType ==
    db \in [Attempts -> [state: Ending \cup {"none", "in_flight"}, began: 0..MaxTime,
                         ended: NotYet..MaxTime]]
ConnectorInit == db = [a \in Attempts |-> Unsent] /\ seen = NotYet

Mine == {a \in Attempts: db[a].state # "none" /\ db[a].began >= now - Window}
In(state) == {a \in Mine: db[a].state = state}

DeadOnlyByRate ==
    CASE Mine = {} -> "idle"
      [] 100 * Count(In("accepted")) >= HealthyAt * Count(Mine) -> "healthy"
      [] 100 * Count(In("accepted")) >= DegradedAt * Count(Mine) -> "degraded"
      [] OTHER -> "failing"
Health == IF In("dead_lettered") # {} THEN "failing" ELSE DeadOnlyByRate

(* The latency at index floor(.95 n), or the last one.                     *)
Finished == {a \in Mine: db[a].ended # NotYet}
Latency(a) == db[a].ended - db[a].began
LatencyAt(k) ==
    CHOOSE t \in {Latency(a) : a \in Finished}:
        /\ Count({a \in Finished: Latency(a) < t}) <= k
        /\ k < Count({a \in Finished: Latency(a) <= t})
OneBefore == LatencyAt((95 * (Count(Finished) - 1)) \div 100)
P95 == LatencyAt(Min({Count(Finished) - 1, (95 * Count(Finished)) \div 100}))

BeginAttempt(a) ==
    db[a].state = "none" /\ db' = [db EXCEPT ![a] = [Unsent EXCEPT !.state = "in_flight",
                                                                   !.began = now]]
EndAttempt(a) ==
    /\ db[a].state = "in_flight"
    /\ \E to \in Ending: db' = [db EXCEPT ![a].state = to, ![a].ended = now]
GiveUp(a) == db[a].state = "failed" /\ db' = [db EXCEPT ![a].state = "dead_lettered"]

ConnectorNext ==
    /\ UNCHANGED <<seen, past>>
    /\ \/ now < MaxTime /\ now' = now + 1 /\ UNCHANGED db
       \/ /\ UNCHANGED now
          /\ \E a \in Attempts: BeginAttempt(a) \/ EndAttempt(a) \/ GiveUp(a)

-----------------------------------------------------------------------------
Area == {"funnel", "portal", "queues", "directory", "connectors"}

Init ==
    /\ area \in Areas /\ now = 0 /\ past = {}
    /\ CASE area = "funnel" -> AppsInit /\ seen = NotYet
         [] area = "portal" -> PortalInit
         [] area = "queues" -> QueuesInit
         [] area = "directory" -> DirectoryInit
         [] area = "connectors" -> ConnectorInit

Next ==
    /\ UNCHANGED area
    /\ \/ area = "funnel" /\ FunnelNext
       \/ area = "portal" /\ PortalNext
       \/ area = "queues" /\ QueuesNext
       \/ area = "directory" /\ DirectoryNext
       \/ area = "connectors" /\ ConnectorNext

Spec == Init /\ [][Next]_vars

-----------------------------------------------------------------------------
(* Properties.                                                             *)

(* The rows are rows and the clock is a clock.                             *)
TypeOK ==
    /\ area \in Area /\ now \in 0..MaxTime /\ past \subseteq {"moved"}
    /\ CASE area \in {"funnel", "portal"} -> AppsType
         [] area = "queues" -> QueuesType
         [] area = "directory" -> DirectoryType
         [] area = "connectors" -> ConnectorType

(* The funnel is cumulative (insights.ts): no stage counts more than the   *)
(* one before it, and the drop named is the largest.                       *)
FunnelNarrows ==
    area = "funnel" =>
        /\ \A s \in DOMAIN NextStage: Lost(s) >= 0
        /\ \A s \in BiggestDropOff: Funnel("started") - Funnel("accepted") <= 4 * Lost(s)

(* No stage counts an application to which that has not happened: above    *)
(* all, none is said to have reached a university that has not confirmed   *)
(* it (insights.ts on submitted_pending).                                  *)
CountsWhatHappened ==
    area = "funnel" =>
        \A stage \in Stage:
            Funnel(stage) <= Count({a \in InWindow: stage \in db[a].happened})

(* And it counts each one to which it has, unless the application has      *)
(* turned back since.                                                      *)
TurnedBack(a) ==
    \/ db[a].state \in {"withdrawn", "draft"}
    \/ db[a].state \in {"ready", "submitted_pending", "failed"} /\ "submitted" \in db[a].happened
CountsAllUnlessTurnedBack ==
    (area = "funnel" /\ \A a \in Started: ~TurnedBack(a)) =>
        \A stage \in Stage:
            Funnel(stage) = Count({a \in InWindow: stage \in db[a].happened})

(* The funnel tells how far each application got ("how far did it get",    *)
(* insights.ts).  It does not hold: one withdrawn counts as started only.  *)
TellsHowFar ==
    area = "funnel" =>
        \A stage \in Stage: Funnel(stage) = Count({a \in InWindow: stage \in db[a].happened})

(* One figure is reported one way (insights.ts).  It does not hold: an     *)
(* offer that expired counts as decided for Modex, and the portal leaves   *)
(* the application out as if it had never been submitted.                  *)
FunnelsAgree ==
    (area = "funnel" /\ now <= 2 * Window) => PortalFunnel.submitted = Funnel("submitted")

(* Of a day the trend shows, every application of that day is counted: the *)
(* window the rows are read by covers the days drawn (dailyTrend).         *)
TrendIsWhole ==
    area = "funnel" =>
        \A day \in DaysShown: DailyTrend(day) = Count({a \in Started: Day(db[a].at) = day})

(* And the days drawn show every application of the report.  It does not   *)
(* hold: the window begins within a day that is not drawn.                 *)
TrendCountsEveryone ==
    area = "funnel" => Count(InWindow) = MapThenSumSet(DailyTrend, DaysShown)

(* The portal's funnel narrows too, and its total is the sum of its states *)
(* unless an application moved between the two queries.                    *)
PortalFunnelNarrows ==
    area = "portal" =>
        /\ PortalFunnel.submitted >= PortalFunnel.under_review
        /\ PortalFunnel.under_review >= PortalFunnel.offer
        /\ PortalFunnel.offer >= PortalFunnel.enrolled
TotalsAgreeUnlessMoved ==
    (area = "portal" /\ past = {} /\ Answered(PortalQuery)) => seen.grouped = seen.counted

(* What a report calls overdue was past its time and undecided when asked, *)
(* and half the decisions were no slower than the median it gives, nor the *)
(* median than the ninetieth percentile, unless a row moved meanwhile.     *)
OverdueIsReal ==
    (area = "queues" /\ seen.assessments # NotYet /\ past = {}) =>
        seen.assessments =
            Count({d \in Docs: /\ db.docs[d].opened # NotYet /\ db.docs[d].decided = NotYet
                               /\ now - db.docs[d].opened > Sla})
MedianWithinP90 == (area = "queues" /\ Decided # {}) => MedianTwice <= 2 * P90
OneInstantUnlessMoved ==
    (area = "queues" /\ Complete /\ past = {}) =>
        /\ seen.at = now /\ seen.cases = Count(OpenCases)
        /\ Notes = {"clear"} => (OverdueAssessments(now) = {} /\ OpenCases = {})

(* "Nothing is overdue, quarantined, withheld or awaiting a trust          *)
(* decision" is true when it is said.  It does not hold: no figure of      *)
(* quarantined files is passed, and a case under triage is not counted.    *)
ClearIsClear ==
    (area = "queues" /\ Complete /\ past = {} /\ Notes = {"clear"}) =>
        /\ \A d \in Docs: ~db.docs[d].quarantined
        /\ \A c \in Cases: db.cases[c] # "triaging"

(* A document that waits longer than the review commitment is counted as   *)
(* overdue.  It does not hold: one that nobody has opened has no row.      *)
OverdueIsSeen ==
    (area = "queues" /\ seen.assessments # NotYet /\ past = {}) =>
        seen.assessments >= Count({d \in Docs: db.docs[d].decided = NotYet /\ now > Sla})

(* "Trust score cannot buy a place" (guide-matching.ts): of two guides in  *)
(* the list the one that matches better comes first, unless the student    *)
(* has asked for more than ten topics.                                     *)
TrustBuysNoPlaceUnlessManyTopics ==
    (area = "directory" /\ Listed) =>
        \A c \in seen.asked: c.topics <= 10 =>
            \A g, h \in Offered(c):
                Merit(db[g].shape, c) > Merit(db[h].shape, c) => Precedes(g, h, c)

(* However many topics are asked for.  It does not hold: with twelve, one  *)
(* of them shared and a move in common weigh less than a programme of the  *)
(* field and a perfect trust score.                                        *)
TrustOnlyBreaksTies ==
    (area = "directory" /\ Listed) =>
        \A c \in seen.asked: \A g, h \in Offered(c):
            Merit(db[g].shape, c) > Merit(db[h].shape, c) => Precedes(g, h, c)

(* The order is total and the same for the same roster; the reasons given  *)
(* are of factors that counted, and are not silent when some did.          *)
OrderIsTotal ==
    (area = "directory" /\ Listed) =>
        \A c \in seen.asked: \A g, h \in Offered(c):
            /\ g # h => (Precedes(g, h, c) <=> ~Precedes(h, g, c))
            /\ Reasons(db[g].shape, c) = {} => Merit(db[g].shape, c) = 0

(* A guide who may not be found, or cannot be booked where a session is    *)
(* asked for, is not in the list, unless that came about while it was made.*)
HardFiltersUnlessMoved ==
    (area = "directory" /\ Listed /\ past = {}) =>
        \A c \in seen.asked: \A g \in Offered(c):
            /\ db[g].active /\ db[g].shape.here
            /\ c.availability => db[g].free > 0

(* A connector shown as healthy has lost nothing for good within the       *)
(* window, and one shown as idle has been asked nothing (connectorHealth). *)
HealthyMeansDelivered ==
    area = "connectors" =>
        /\ Health = "healthy" => \A a \in Mine: db[a].state # "dead_lettered"
        /\ Health = "idle" <=> \A a \in Attempts: db[a].state = "none" \/ now - db[a].began > Window

(* A connector none of whose attempts went wrong is not failing.  It does  *)
(* not hold: those still in flight count as not accepted.                  *)
BusyIsNotFailing ==
    area = "connectors" =>
        (Mine \subseteq In("in_flight") \cup In("accepted") => Health # "failing")

(* Nineteen in twenty of the finished attempts took no longer than p95.    *)
P95Covers ==
    (area = "connectors" /\ Finished # {}) =>
        20 * Count({a \in Finished: Latency(a) <= P95}) >= 19 * Count(Finished)
=============================================================================
