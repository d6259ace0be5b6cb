--------------------------- MODULE PriceBreakdown ---------------------------
(***************************************************************************)
(* The price of a programme after its offers: the offers that are shown    *)
(* and those the student is eligible for (OfferPricingService), and        *)
(* computePriceBreakdown and resolveStacking of the contracts package, one *)
(* step per turn of their loops.  The best candidate left is applied or    *)
(* suppressed until none is left; then the applied ones are priced in that *)
(* order, each against what the ones before it left of its cost.           *)
(***************************************************************************)
EXTENDS Integers, FiniteSets, Sequences

CONSTANTS
    Offers,    \* keys of the current offers of the university, in key order
    Now,       \* when the price is asked for
    Types,     \* types of offers
    Values,    \* what an offer can be worth
    Shapes,    \* bound: the offers that occur
    Costs,     \* bound: what a programme charges
    Scale      \* a rate is so many parts of Scale (10 000 basis points)

Bases == {"tuition", "application_fee", "deposit"}
Value == [kind: {"percentage", "fixed_amount", "full_waiver", "benefit_in_kind"},
          rate: 0..Scale, amount: Nat, foreign: BOOLEAN]
Exclusion == [kind: {"not_combinable_with_offer"}, other: Offers]
        \cup [kind: {"not_combinable_with_type"}, other: Types]

(* foreign: a fixed amount in another currency than the cost it reduces.   *)
(* specific: for one programme (or elsewhere: for another one), not for    *)
(* the whole institution; carved: excludes_programmes names this one;      *)
(* checks: what each of its conditions says of the student's profile.      *)
Outcome == {"pass", "fail", "missing_data", "unknown"}
Term == [published: BOOLEAN, verified: BOOLEAN, checked: BOOLEAN, elsewhere: BOOLEAN,
         carved: BOOLEAN, from: Int, until: Int, claimBy: Int, checks: Seq(Outcome)]
Offer == [type: Types, value: Values, appliesTo: Bases \cup {"none"}, specific: BOOLEAN,
          exclusions: SUBSET Exclusion, term: Term]

(* A programme charges tuition, and perhaps the others; or its fees are    *)
(* not published.                                                          *)
Charges == [charged: {B \in SUBSET Bases: B = {} \/ "tuition" \in B}, amount: [Bases -> Nat]]

OfferAssumption ==
    /\ IsFiniteSet(Offers) /\ Offers \subseteq Nat \ {0}
    /\ Scale \in Nat \ {0} /\ Values \subseteq Value
    /\ Shapes \subseteq Offer /\ Now \in Int
CostAssumption ==
    \A charges \in Costs:
        /\ charges \in Charges
        /\ \A base \in Bases \ charges.charged: charges.amount[base] = 0

VARIABLES
    offer,        \* key -> the offer
    cost,         \* what the programme charges
    queue,        \* candidates not decided yet
    applied,      \* keys of the offers applied, best first
    suppressed,   \* key -> the offer it lost to, 0 when its cost is exhausted
    priced,       \* how many of the applied ones are priced
    remaining,    \* base -> what is left of the cost
    totalSaving,
    saving        \* key -> the amount on its line (0: it has no line)

vars == <<offer, cost, queue, applied, suppressed, priced, remaining, totalSaving, saving>>

TypeOK ==
    /\ offer \in [Offers -> Offer] /\ cost \in Charges
    /\ queue \subseteq Offers
    /\ applied \in Seq(Offers)
    /\ DOMAIN suppressed \subseteq Offers /\ \A k \in DOMAIN suppressed: suppressed[k] \in Offers \cup {0}
    /\ priced \in 0..Len(applied)
    /\ remaining \in [Bases -> Nat]
    /\ totalSaving \in Nat /\ saving \in [Offers -> Nat]

(***************************************************************************)
(* liveOffers and evaluate                                                 *)
(***************************************************************************)

(* Verification lapses with the offer (effectiveVerificationState).        *)
PublishedOnly(o) == o.term.published /\ o.term.verified
IsOfferLive(o) ==
    o.term.published /\ o.term.verified /\ o.term.from <= Now /\ o.term.until > Now
IsRenderableOffer(o) == o.term.checked
Anywhere(o) == TRUE
ForProgramme(o) == ~o.term.elsewhere /\ ~o.term.carved
Shown(o) == IsOfferLive(o) /\ IsRenderableOffer(o) /\ ForProgramme(o)

RollUpVerdict(checks) ==
    LET outcomes == {checks[i]: i \in DOMAIN checks} IN
    CASE outcomes = {} -> "not_assessable"
      [] "fail" \in outcomes -> "not_eligible"
      [] "missing_data" \in outcomes -> "incomplete"
      [] "unknown" \in outcomes -> "not_assessable"
      [] OTHER -> "eligible"
NotRejected(o) == RollUpVerdict(o.term.checks) # "not_eligible"
IsEligible(o) == RollUpVerdict(o.term.checks) = "eligible"

(* An offer that is shown without being eligible names its first failed    *)
(* condition, or else its first gap.                                       *)
ReasonOf(o) ==
    LET at(outcome) == {i \in DOMAIN o.term.checks: o.term.checks[i] = outcome}
        first(set) == CHOOSE i \in set: \A j \in set: i <= j
    IN  CASE at("fail") # {} -> first(at("fail"))
          [] at("missing_data") # {} -> first(at("missing_data"))
          [] at("unknown") # {} -> first(at("unknown"))
          [] OTHER -> 0
Ineligible == IF cost.charged = {} THEN {}
              ELSE {k \in Offers: Shown(offer[k]) /\ ~IsEligible(offer[k])}

(* What the badge of a card says of the time left, in thresholds of days:  *)
(* whole days, rounded towards the student's disadvantage.                 *)
Day == 2
OfferExpiryUrgency(o) ==
    LET days == (o.term.until - Now) \div Day IN
    CASE o.term.until <= Now -> "lapsed"
      [] days <= 3 -> "urgent"
      [] days <= 14 -> "due"
      [] OTHER -> "none"

(***************************************************************************)
(* The costs                                                               *)
(***************************************************************************)

(* A share of an amount, rounded half up.                                  *)
ApplyRate(amount, rate) == (2 * amount * rate + Scale) \div (2 * Scale)

WithChange(o, base) == o.value.amount
Capped(o, base) == IF o.value.amount > base THEN base ELSE o.value.amount

SavingFor(o, base) ==
    CASE o.value.kind = "percentage"      -> ApplyRate(base, o.value.rate)
      [] o.value.kind = "fixed_amount"    -> Capped(o, base)
      [] o.value.kind = "full_waiver"     -> base
      [] o.value.kind = "benefit_in_kind" -> 0

Reduces(o) == o.appliesTo \in cost.charged
Unpriceable(o) == Reduces(o) /\ o.value.kind = "fixed_amount" /\ o.value.foreign

(* What an offer saves on its own, against the whole cost.                 *)
Standalone(o) == IF Reduces(o) THEN SavingFor(o, cost.amount[o.appliesTo]) ELSE 0
ReducesSome(o) == Reduces(o) /\ Standalone(o) > 0
ExhaustsBase(o) ==
    Reduces(o) /\ cost.amount[o.appliesTo] > 0 /\ Standalone(o) >= cost.amount[o.appliesTo]

Init ==
    /\ offer \in [Offers -> Shapes]
    /\ cost \in Costs
    /\ queue = IF cost.charged = {} THEN {}
               ELSE {k \in Offers: Shown(offer[k]) /\ IsEligible(offer[k]) /\ ~Unpriceable(offer[k])}
    /\ applied = <<>>
    /\ suppressed = [k \in {} |-> 0]
    /\ priced = 0
    /\ remaining = cost.amount
    /\ totalSaving = 0
    /\ saving = [k \in Offers |-> 0]

Range(s) == {s[i] : i \in DOMAIN s}

(***************************************************************************)
(* resolveStacking                                                         *)
(***************************************************************************)

(* The order is total: saving, then programme-specific, then the key.      *)
LeastSaving(j, k) == Standalone(offer[j]) < Standalone(offer[k])
MoreSaving(j, k) == Standalone(offer[j]) > Standalone(offer[k])

Before(j, k) ==
    \/ MoreSaving(j, k)
    \/ /\ ~MoreSaving(k, j)
       /\ \/ offer[j].specific /\ ~offer[k].specific
          \/ offer[j].specific = offer[k].specific /\ j < k

Best(k) == k \in queue /\ \A j \in queue \ {k}: Before(k, j)

Excludes(j, k) ==
    \E e \in offer[j].exclusions:
        e.other = (IF e.kind = "not_combinable_with_offer" THEN k ELSE offer[k].type)

(* An exclusion binds whichever of the two declares it.                    *)
ConflictOneWay(j, k) == Excludes(j, k)
Conflict(j, k) == Excludes(j, k) \/ Excludes(k, j)

FirstConflict(i, k) ==
    i \in DOMAIN applied /\ Conflict(applied[i], k) /\ \A h \in 1..i - 1: ~Conflict(applied[h], k)
NoConflict(k) == \A i \in DOMAIN applied: ~Conflict(applied[i], k)
Exhausted(k) == \E j \in Range(applied): ExhaustsBase(offer[j]) /\ offer[j].appliesTo = offer[k].appliesTo

NotListed(k, winner) == suppressed
Listed(k, winner) ==
    [j \in DOMAIN suppressed \cup {k} |-> IF j = k THEN winner ELSE suppressed[j]]

Suppress(k) ==
    /\ Best(k)
    /\ \/ \E i \in DOMAIN applied:
              FirstConflict(i, k) /\ suppressed' = Listed(k, applied[i])
       \/ NoConflict(k) /\ Exhausted(k) /\ suppressed' = Listed(k, 0)
    /\ queue' = queue \ {k}
    /\ UNCHANGED <<offer, cost, applied, priced, remaining, totalSaving, saving>>

Apply(k) ==
    /\ Best(k)
    /\ NoConflict(k) /\ ~Exhausted(k)
    /\ applied' = Append(applied, k)
    /\ queue' = queue \ {k}
    /\ UNCHANGED <<offer, cost, suppressed, priced, remaining, totalSaving, saving>>

(***************************************************************************)
(* The lines of computePriceBreakdown                                      *)
(***************************************************************************)

OffTheTotal(o) ==
    IF Reduces(o) THEN SavingFor(o, remaining["tuition"] + remaining["application_fee"]) ELSE 0
OffTheWholeCost(o) == Standalone(o)
LineSaving(o) == IF Reduces(o) THEN SavingFor(o, remaining[o.appliesTo]) ELSE 0

Price ==
    /\ queue = {} /\ priced < Len(applied)
    /\ LET k == applied[priced + 1]  line == LineSaving(offer[k]) IN
       /\ saving' = [saving EXCEPT ![k] = line]
       /\ remaining' = IF Reduces(offer[k])
                       THEN [remaining EXCEPT ![offer[k].appliesTo] = @ - line] ELSE remaining
       /\ totalSaving' = totalSaving + line
    /\ priced' = priced + 1
    /\ UNCHANGED <<offer, cost, queue, applied, suppressed>>

Next == (\E k \in Offers: Suppress(k) \/ Apply(k)) \/ Price

Spec == Init /\ [][Next]_vars

(***************************************************************************)
(* Properties                                                              *)
(***************************************************************************)

Done == queue = {} /\ priced = Len(applied)
Total(amount) == amount["tuition"] + amount["application_fee"] + amount["deposit"]
NetPrice == Total(cost.amount) - totalSaving

(* However many discounts compound on one cost, the net price is what is   *)
(* left of the costs, and never negative (computePriceBreakdown).          *)
NetPriceIsWhatRemains ==
    NetPrice = Total(remaining) /\ \A base \in Bases: remaining[base] \in 0..cost.amount[base]

(* Two offers that refuse to combine, whichever of the two says so, are    *)
(* never both in the price (offersConflict).                               *)
AppliedCombine ==
    \A j, k \in Range(applied): j # k => ~Excludes(j, k)

(* An offer lost to one that is in the price and saves at least as much on *)
(* its own, which is what its reason says (resolveStacking).               *)
LostToBetter ==
    \A k \in DOMAIN suppressed: suppressed[k] # 0 =>
        /\ suppressed[k] \in Range(applied)
        /\ Standalone(offer[suppressed[k]]) >= Standalone(offer[k])

(* An offer left out because its cost is reduced to nothing already would  *)
(* indeed save nothing on top (exhaustedBases in resolveStacking).         *)
ExhaustedIsNothing ==
    Done => \A k \in DOMAIN suppressed: suppressed[k] = 0 => remaining[offer[k].appliesTo] = 0

(* Every offer that is shown ends in exactly one list: applied,            *)
(* suppressed, unpriceable or ineligible, none dropped quietly, and one    *)
(* that is not shown in none (priceProgramme); without published fees the  *)
(* lists are empty.                                                        *)
Lists(k) == <<k \in Range(applied), k \in DOMAIN suppressed, k \in Ineligible,
              IsEligible(offer[k]) /\ Unpriceable(offer[k])>>
EveryOfferListed ==
    Done => \A k \in Offers:
        IF cost.charged # {} /\ Shown(offer[k])
        THEN Cardinality({i \in 1..4: Lists(k)[i]}) = 1
        ELSE k \notin Range(applied) \cup DOMAIN suppressed \cup Ineligible

(* "a net price is only ever computed from offers whose eligibility rules  *)
(* are actually satisfied" (OfferPricingService), and which run, for this  *)
(* programme.                                                              *)
OnlySatisfiedReduces ==
    \A k \in Offers: saving[k] > 0 =>
        LET t == offer[k].term IN
        /\ t.checks # <<>> /\ \A i \in DOMAIN t.checks: t.checks[i] = "pass"
        /\ t.published /\ Now \in t.from..t.until - 1 /\ ~t.elsewhere /\ ~t.carved

(* An offer that is shown as missed gives a reason, and no gap to fill is  *)
(* named while another condition rules the student out (toIneligible).     *)
MissedSaysWhy ==
    \A k \in Ineligible:
        LET checks == offer[k].term.checks IN
        checks # <<>> =>
            /\ ReasonOf(offer[k]) \in DOMAIN checks
            /\ checks[ReasonOf(offer[k])] # "pass"
            /\ checks[ReasonOf(offer[k])] # "fail" => \A i \in DOMAIN checks: checks[i] # "fail"

(* No card that is shown says that its offer has lapsed, and none lets a   *)
(* student believe in more whole days than are left (offerExpiryUrgency).  *)
BadgeIsCautious ==
    \A k \in Offers: Shown(offer[k]) =>
        /\ OfferExpiryUrgency(offer[k]) # "lapsed"
        /\ OfferExpiryUrgency(offer[k]) = "none" => offer[k].term.until - Now >= 15 * Day
        /\ offer[k].term.until - Now <= 3 * Day => OfferExpiryUrgency(offer[k]) = "urgent"

(* Not so: "an offer with no `fail` and no `missing_data` is eligible"     *)
(* (evaluate); what reduces the price can still be claimed (claimDeadline, *)
(* "the award's own deadline", is only displayed).                         *)
NoFailNoGapIsEligible ==
    \A k \in Offers:
        (\A i \in DOMAIN offer[k].term.checks: offer[k].term.checks[i] \notin {"fail", "missing_data"})
            => k \notin Ineligible
ClaimableReduces == \A k \in Offers: saving[k] > 0 => offer[k].term.claimBy > Now

(* No line takes off more than its offer is worth on its own, whatever the *)
(* rounding (savingFor).                                                   *)
LineIsWithinOffer == \A k \in Offers: saving[k] <= Standalone(offer[k])
=============================================================================
