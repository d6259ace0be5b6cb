----------------------------- MODULE SearchRanking -----------------------------
(***************************************************************************)
(* The catalogue's search: which documents a query matches, in which order *)
(* (ranking.ts), page by page under a cursor (SearchService), with facets  *)
(* and a diagnosis read after the documents.  Scores are exact, in         *)
(* ten-thousandths: where two sums of different factors are equal, the     *)
(* floating-point sums of the code may differ in their last bit.           *)
(***************************************************************************)
EXTENDS Integers, FiniteSets, SequencesExt

CONSTANTS
    None,           \* no fee, no deadline, no limit, no cursor
    Keys,           \* programme keys, ordered as localeCompare orders them
    Documents,      \* what may be indexed under a key: a set of records
    Queries,        \* what a reader may ask: a set of records
    MaxChanges, MaxPages        \* bounds

RankingAssumption == Keys \subseteq Nat /\ {MaxChanges, MaxPages} \subseteq Nat

VARIABLES
    index,          \* the document of each key, or None
    query, cursor, shown,       \* the reader's query, where the next page starts, rows so far
    search,         \* the search in progress
    page,           \* the last answer
    changes, moved, pages       \* changes of the index so far; one while a reader was reading

vars == <<index, query, cursor, shown, search, page, changes, moved, pages>>

(***************************************************************************)
(* Scores.  A document carries how its text matches the term, how near its *)
(* subject is to the one chosen, and what the other factors look at.       *)
(***************************************************************************)

Weight == [text |-> 3500, level |-> 2000, field |-> 1500, budget |-> 1500, verified |-> 1000, fresh |-> 500]
AsAFactor == 600
SponsoredTiebreak == 10

(* Raw scores in hundredths.                                               *)
TextRaw == [exact |-> 100, prefix |-> 90, within |-> 75, subject |-> 50, details |-> 25, no |-> 0]
FieldRaw == [same |-> 100, related |-> 60, other |-> 0]
Contribution(factor, raw) == (raw * Weight[factor]) \div 100
Full(holds) == IF holds THEN 100 ELSE 0

(* within_budget abstains without a fee, or in another currency.           *)
WithinBudget(d, q) == d.tuition # None /\ q.budget # None /\ (d.tuition # None => d.tuition <= q.budget)

Merit(d, q) ==
    Contribution("text", IF q.term THEN TextRaw[d.text] ELSE 0)
      + Contribution("level", Full(d.level = q.wanted))
      + Contribution("field", FieldRaw[d.field])
      + Contribution("budget", Full(WithinBudget(d, q)))
      + Contribution("verified", Full(d.verified)) + Contribution("fresh", Full(~d.stale))

Score(d, q) == Merit(d, q) + IF d.sponsored THEN SponsoredTiebreak ELSE 0

(***************************************************************************)
(* Order.  The programme key makes it total.                               *)
(***************************************************************************)

NullAsZero(a, b, j, k) ==
    LET Zero(x) == IF x = None THEN 0 ELSE x IN Zero(a) < Zero(b) \/ (Zero(a) = Zero(b) /\ j < k)

(* byNullableNumber: a null is last, whatever the direction.               *)
NullsLast(a, b, j, k) ==
    IF a = None \/ b = None THEN (a # None /\ b = None) \/ (a = b /\ j < k) ELSE a < b \/ (a = b /\ j < k)
Ascending(a, b, j, k) == NullsLast(a, b, j, k)
Descending(a, b, j, k) ==
    NullsLast(IF a = None THEN None ELSE 0 - a, IF b = None THEN None ELSE 0 - b, j, k)

Before(j, k, docs, q) ==
    CASE q.sort = "tuition_asc" -> Ascending(docs[j].tuition, docs[k].tuition, j, k)
      [] q.sort = "tuition_desc" -> Descending(docs[j].tuition, docs[k].tuition, j, k)
      [] q.sort = "deadline_asc" -> Ascending(docs[j].deadline, docs[k].deadline, j, k)
      [] q.sort = "relevance" -> Ascending(0 - Score(docs[j], q), 0 - Score(docs[k], q), j, k)

RankDocuments(docs, q) == SetToSortSeq(DOMAIN docs, LAMBDA j, k: Before(j, k, docs, q))

(***************************************************************************)
(* Matching                                                                *)
(***************************************************************************)

Fields == {"country", "level", "tuition"}
ActiveFilters(q) ==
    {f \in Fields: CASE f = "country" -> q.country # {} [] f = "level" -> q.level # {}
                     [] f = "tuition" -> q.tuitionMax # None}

(* whereFor: what is visible and passes every filter but one.              *)
PassesFilter(d, q, f) ==
    CASE f = "country" -> d.country \in q.country
      [] f = "level" -> d.level \in q.level
      [] f = "tuition" -> d.tuition # None /\ (d.tuition # None => d.tuition <= q.tuitionMax)
Matches(d, q, except) ==
    /\ d.visible
    /\ q.term => d.text # "no"
    /\ \A f \in ActiveFilters(q) \ except: PassesFilter(d, q, f)

Found(q, except) ==
    LET keys == {k \in Keys: index[k] # None /\ (index[k] # None => Matches(index[k], q, except))}
    IN  [k \in keys |-> index[k]]
Count(q, except) == Cardinality(DOMAIN Found(q, except))

(***************************************************************************)
(* Searching: documents, then facets or counts, then the page              *)
(***************************************************************************)

NoSearch == [step |-> "idle", ranked |-> <<>>]
NoPage == [rows |-> <<>>, total |-> 0, countries |-> 0, relaxable |-> {}]

TypeOK ==
    /\ index \in [Keys -> Documents \cup {None}]
    /\ query \in Queries /\ cursor \in Keys \cup {None}
    /\ \A i \in DOMAIN shown: shown[i] \in Keys
    /\ search.step \in {"idle", "fetched"} /\ \A i \in DOMAIN search.ranked: search.ranked[i] \in Keys
    /\ Len(page.rows) <= query.limit /\ page.total \in 0..Cardinality(Keys)
    /\ page.relaxable \subseteq ActiveFilters(query)
    /\ changes \in 0..MaxChanges /\ moved \in BOOLEAN /\ pages \in 0..MaxPages

Init ==
    /\ index \in [Keys -> Documents \cup {None}] /\ query \in Queries
    /\ cursor = None /\ shown = <<>> /\ search = NoSearch /\ page = NoPage
    /\ changes = 0 /\ moved = FALSE /\ pages = 0

Fetch ==
    /\ search.step = "idle" /\ pages < MaxPages
    /\ pages = 0 \/ cursor # None       \* the first page, or the next
    /\ search' = [step |-> "fetched", ranked |-> RankDocuments(Found(query, {}), query)]
    /\ pages' = pages + 1
    /\ UNCHANGED <<index, query, cursor, shown, page, changes, moved>>

(* cursorIndex: after the row the cursor names; from the top if it is gone.*)
AtCursor(ranked, after) == IF after \in Range(ranked) THEN CHOOSE i \in DOMAIN ranked: ranked[i] = after ELSE 1
CursorIndex(ranked, after) ==
    IF after \in Range(ranked) THEN (CHOOSE i \in DOMAIN ranked: ranked[i] = after) + 1 ELSE 1

(* diagnoseNoResults: the filters that bring something back on their own.  *)
EveryFilter(q) == ActiveFilters(q)
Relaxable(q) == {f \in ActiveFilters(q): Count(q, {f}) > 0}

Smaller(a, b) == IF a < b THEN a ELSE b

Answer ==
    LET ranked == search.ranked
        first == CursorIndex(ranked, cursor)
        last == Smaller(first + query.limit - 1, Len(ranked))
        rows == SubSeq(ranked, first, last)
    IN  /\ search.step = "fetched"
        /\ page' = [rows |-> rows, total |-> Len(ranked), countries |-> Count(query, {"country"}),
                    relaxable |-> IF ranked = <<>> THEN Relaxable(query) ELSE {}]
        /\ cursor' = IF last < Len(ranked) /\ rows # <<>> THEN Last(rows) ELSE None
        /\ shown' = shown \o rows
        /\ search' = NoSearch
        /\ UNCHANGED <<index, query, changes, moved, pages>>

(* The indexer's, at any time.                                             *)
Reindex(k, d) ==
    /\ changes < MaxChanges /\ index[k] # d
    /\ index' = [index EXCEPT ![k] = d]
    /\ changes' = changes + 1 /\ moved' = (moved \/ pages > 0)
    /\ UNCHANGED <<query, cursor, shown, search, page, pages>>

Next ==
    \/ Fetch \/ Answer
    \/ \E k \in Keys, d \in Documents \cup {None}: Reindex(k, d)

Spec == Init /\ [][Next]_vars

(***************************************************************************)
(* Properties.  Those named Unless... hold until the index changes under   *)
(* the reader.                                                             *)
(***************************************************************************)

(* "It can never move a programme past one that matches the student        *)
(* better" (SPONSORED_TIEBREAK): however the factors add up.               *)
SponsorshipBuysNoRank ==
    \A i, j \in DOMAIN search.ranked:
        LET a == index[search.ranked[i]] b == index[search.ranked[j]]
        IN  moved \/ query.sort # "relevance" \/ i >= j \/ Merit(a, query) >= Merit(b, query)

(* "A null sorts last in both directions" (byNullableNumber).              *)
NullsAreLast ==
    \A i, j \in DOMAIN search.ranked:
        LET a == index[search.ranked[i]] b == index[search.ranked[j]]
        IN  \/ moved \/ i >= j
            \/ query.sort \in {"tuition_asc", "tuition_desc"} /\ (a.tuition = None => b.tuition = None)
            \/ query.sort = "deadline_asc" /\ (a.deadline = None => b.deadline = None)
            \/ query.sort = "relevance"

(* The cursor neither "skips or repeats rows" (cursorIndex): what has been *)
(* shown is the head of the list.                                          *)
NoRowTwice == \A i, j \in DOMAIN shown: shown[i] = shown[j] => i = j
ReadsInOrderUnlessMoved == moved \/ IsPrefix(shown, RankDocuments(Found(query, {}), query))

(* "Filters that recover nothing are left out" (diagnoseNoResults).        *)
SuggestionsRecoverUnlessMoved == moved \/ \A f \in page.relaxable: Count(query, {f}) > 0

(* What is shown beside a page was counted after it: the total of a page   *)
(* without a country filter is that of its countries.                      *)
CountsAgree == page.total > 0 /\ query.country = {} => page.total = page.countries
CountsAgreeUnlessMoved == moved \/ CountsAgree
================================================================================
