------------------------------ MODULE Payouts ------------------------------
(***************************************************************************)
(* Money that leaves Modex (FinanceConsoleService): the payout of guides'  *)
(* rewards, approved by a second person when it is large, and refunds of a *)
(* service payment.  Each handler reads its row, checks it, and writes in  *)
(* a later transaction without looking again; only the unique indexes of a *)
(* payout hold between the two.                                            *)
(***************************************************************************)
EXTENDS Integers, FiniteSets

CONSTANTS
    Callers,        \* requests that can be in progress at once
    Staff,          \* members of the finance team
    Rewards,        \* entries of the ledger with a value
    Nobody,         \* a column that is null
    Payment,        \* the amount of the service payment
    Amounts,        \* amounts of a refund
    Mixes,          \* bound: sets of handlers called in one behaviour
    MaxPaid, MaxRefunds                \* bounds

PaymentAssumption ==
    /\ {MaxPaid, MaxRefunds} \subseteq Nat /\ {Payment} \cup Amounts \subseteq Nat \ {0}
    /\ Nobody \notin Staff /\ Staff # {} /\ Rewards # {}

VARIABLES
    rewards,        \* the ledger, with the status of the session behind it
    payouts,        \* the payout of a reward, if it has one
    paid,           \* settled transactions for the payout of a reward
    refunds,        \* the amounts refunded, in order
    payment,        \* the state of the service payment
    calls, mix,
    stale           \* what was written after the row read had changed (history)

vars == <<rewards, payouts, paid, refunds, payment, calls, mix, stale>>

Operation == {"initiate", "approve", "reject", "pay", "refund", "dispute"}
Step == {"idle", "initiate", "approve", "reject", "pay", "refund", "dispute"}
RewardState == {"not_earned", "earned", "approved", "paid", "withheld"}
PayoutState == {"none", "pending_approval", "approved", "rejected", "paid"}

Reward == [state: RewardState, session: {"completed", "no_show", "cancelled"}, high: BOOLEAN,
           disputed: BOOLEAN]
Payout == [state: PayoutState, initiatedBy: Staff \cup {Nobody}, approvedBy: Staff \cup {Nobody},
           rejectedBy: Staff \cup {Nobody}]
NoPayout == [state |-> "none", initiatedBy |-> Nobody, approvedBy |-> Nobody, rejectedBy |-> Nobody]

(* A call in progress: who, on which reward, the payout and the total of   *)
(* refunds it read, and the amount to refund.                              *)
Call == [step: Step, who: Staff, reward: Rewards, row: Payout, total: Nat, amount: Nat]
NoCall == [step |-> "idle", who |-> CHOOSE s \in Staff: TRUE, reward |-> CHOOSE r \in Rewards: TRUE,
           row |-> NoPayout, total |-> 0, amount |-> 0]

TypeOK ==
    /\ rewards \in [Rewards -> Reward] /\ payouts \in [Rewards -> Payout]
    /\ paid \in [Rewards -> 0..MaxPaid]
    /\ DOMAIN refunds = 1..Cardinality(DOMAIN refunds) /\ refunds \in [DOMAIN refunds -> Amounts]
    /\ payment \in {"settled", "reversed"}
    /\ calls \in [Callers -> Call] /\ mix \in Mixes /\ stale \subseteq Rewards \cup {"payment"}

(* Rewards as SessionsService.complete wrote them, and a settled payment.  *)
Init ==
    /\ rewards \in [Rewards -> {r \in Reward: ~r.disputed /\ r.state \in {"earned", "withheld"}}]
    /\ payouts = [r \in Rewards |-> NoPayout] /\ paid = [r \in Rewards |-> 0]
    /\ refunds = [n \in {} |-> 0] /\ payment = "settled"
    /\ calls = [c \in Callers |-> NoCall] /\ mix \in Mixes /\ stale = {}

At(c, step) == calls[c].step = step
Begin(c, op) == At(c, "idle") /\ op \in mix
Hold(c, call) == calls' = [calls EXCEPT ![c] = call]
End(c) == Hold(c, NoCall)
Reading(op, s, r) == [NoCall EXCEPT !.step = op, !.who = s, !.reward = r, !.row = payouts[r]]
NowStale(c) == IF payouts[calls[c].reward] # calls[c].row THEN stale \cup {calls[c].reward} ELSE stale

(***************************************************************************)
(* Payouts                                                                 *)
(***************************************************************************)

Payable(reward) == reward.state \in {"earned", "approved"} /\ reward.session = "completed"

InitiateRead(c, s, r) ==
    /\ Begin(c, "initiate")
    /\ payouts[r].state = "none" /\ Payable(rewards[r])
    /\ Hold(c, Reading("initiate", s, r))
    /\ UNCHANGED <<rewards, payouts, paid, refunds, payment, mix, stale>>

(* rewardEntryId is unique: of two payouts for a reward one is refused.    *)
PayoutFree(r) == payouts[r].state = "none"
InitiateWrite(c) ==
    LET r == calls[c].reward IN
    /\ At(c, "initiate")
    /\ payouts' = IF ~PayoutFree(r) THEN payouts
                  ELSE [payouts EXCEPT ![r] = [NoPayout EXCEPT !.state = "pending_approval",
                                                               !.initiatedBy = calls[c].who]]
    /\ End(c)
    /\ UNCHANGED <<rewards, paid, refunds, payment, mix, stale>>

OneIsEnough(high, initiator, approver) == TRUE
CheckDualApproval(high, initiator, approver) == high => initiator # approver

ApproveRead(c, s, r) ==
    /\ Begin(c, "approve")
    /\ payouts[r].state = "pending_approval"
    /\ CheckDualApproval(rewards[r].high, payouts[r].initiatedBy, s)
    /\ Hold(c, Reading("approve", s, r))
    /\ UNCHANGED <<rewards, payouts, paid, refunds, payment, mix, stale>>

ApproveWrite(c) ==
    LET r == calls[c].reward IN
    /\ At(c, "approve")
    /\ payouts' = [payouts EXCEPT ![r].state = "approved", ![r].approvedBy = calls[c].who]
    /\ rewards' = [rewards EXCEPT ![r].state = "approved"]
    /\ stale' = NowStale(c)
    /\ End(c)
    /\ UNCHANGED <<paid, refunds, payment, mix>>

RejectRead(c, s, r) ==
    /\ Begin(c, "reject")
    /\ payouts[r].state = "pending_approval"
    /\ Hold(c, Reading("reject", s, r))
    /\ UNCHANGED <<rewards, payouts, paid, refunds, payment, mix, stale>>

RejectWrite(c) ==
    LET r == calls[c].reward IN
    /\ At(c, "reject")
    /\ payouts' = [payouts EXCEPT ![r].state = "rejected", ![r].rejectedBy = calls[c].who]
    /\ stale' = NowStale(c)
    /\ End(c)
    /\ UNCHANGED <<rewards, paid, refunds, payment, mix>>

AnyState(state) == state \in {"approved", "rejected", "paid"}
Settleable(state) == state = "approved"

PayRead(c, s, r) ==
    /\ Begin(c, "pay") /\ paid[r] < MaxPaid
    /\ Settleable(payouts[r].state)
    /\ Hold(c, Reading("pay", s, r))
    /\ UNCHANGED <<rewards, payouts, paid, refunds, payment, mix, stale>>

(* The transaction, the payout and the reward are one transaction.         *)
SettledReward(r) == [rewards EXCEPT ![r].state = "settled"]
PaidReward(r) == [rewards EXCEPT ![r].state = "paid"]
PayWrite(c) ==
    LET r == calls[c].reward IN
    /\ At(c, "pay") /\ paid[r] < MaxPaid
    /\ paid' = [paid EXCEPT ![r] = @ + 1]
    /\ payouts' = [payouts EXCEPT ![r].state = "paid"]
    /\ rewards' = PaidReward(r)
    /\ stale' = NowStale(c)
    /\ End(c)
    /\ UNCHANGED <<refunds, payment, mix>>

(* SessionsService.dispute: the session, then what is not yet approved.    *)
DisputeSession(c, r) ==
    /\ Begin(c, "dispute")
    /\ rewards' = [rewards EXCEPT ![r].disputed = TRUE]
    /\ Hold(c, [NoCall EXCEPT !.step = "dispute", !.reward = r])
    /\ UNCHANGED <<payouts, paid, refunds, payment, mix, stale>>

WithholdAll(state) == "withheld"
Withhold(state) == IF state \in {"not_earned", "earned"} THEN "withheld" ELSE state
DisputeEntries(c) ==
    /\ At(c, "dispute")
    /\ rewards' = [rewards EXCEPT ![calls[c].reward].state = Withhold(@)]
    /\ End(c)
    /\ UNCHANGED <<payouts, paid, refunds, payment, mix, stale>>

(***************************************************************************)
(* Refunds                                                                 *)
(***************************************************************************)

Total[n \in Nat] == IF n = 0 THEN 0 ELSE refunds[n] + Total[n - 1]
Refunded == Total[Cardinality(DOMAIN refunds)]

NoLimit(total, amount) == amount <= Payment
WithinPayment(total, amount) == total + amount <= Payment

RefundRead(c, amount) ==
    /\ Begin(c, "refund") /\ WithinPayment(Refunded, amount)
    /\ Hold(c, [NoCall EXCEPT !.step = "refund", !.total = Refunded, !.amount = amount])
    /\ UNCHANGED <<rewards, payouts, paid, refunds, payment, mix, stale>>

RefundWrite(c) ==
    LET n == Cardinality(DOMAIN refunds) + 1 IN
    /\ At(c, "refund") /\ n <= MaxRefunds
    /\ refunds' = [m \in 1..n |-> IF m = n THEN calls[c].amount ELSE refunds[m]]
    /\ payment' = IF calls[c].total + calls[c].amount = Payment THEN "reversed" ELSE payment
    /\ stale' = IF Refunded # calls[c].total THEN stale \cup {"payment"} ELSE stale
    /\ End(c)
    /\ UNCHANGED <<rewards, payouts, paid, mix>>

Next ==
    \E c \in Callers:
        \/ InitiateWrite(c) \/ ApproveWrite(c) \/ RejectWrite(c) \/ PayWrite(c)
        \/ DisputeEntries(c) \/ RefundWrite(c)
        \/ \E s \in Staff, r \in Rewards:
               InitiateRead(c, s, r) \/ ApproveRead(c, s, r) \/ RejectRead(c, s, r) \/ PayRead(c, s, r)
        \/ \E r \in Rewards: DisputeSession(c, r)
        \/ \E amount \in Amounts: RefundRead(c, amount)

Spec == Init /\ [][Next]_vars

(***************************************************************************)
(* Properties.  Those named Unless... hold of what no handler wrote over   *)
(* after it had changed; without the condition they do not.                *)
(***************************************************************************)

(* "One actor cannot both start and finish a high-value payout": whatever  *)
(* requests overlap, who approved it is not who initiated it.              *)
TwoPeople ==
    \A r \in Rewards: rewards[r].high /\ payouts[r].approvedBy # Nobody =>
        payouts[r].approvedBy # payouts[r].initiatedBy

(* So no high-value reward leaves without two people, whatever else was    *)
(* written over (checkDualApproval, approvePayout, markPaid).              *)
PaidTookTwo ==
    \A r \in Rewards: rewards[r].high /\ paid[r] > 0 =>
        payouts[r].approvedBy \notin {Nobody, payouts[r].initiatedBy}

(* A reward is paid out once at most, and a payout that reads paid has its *)
(* transaction and a reward that reads paid (markPaid).                    *)
PaidOnce ==
    \A r \in Rewards:
        /\ paid[r] <= 1
        /\ payouts[r].state = "paid" => paid[r] = 1 /\ rewards[r].state = "paid"
PaidOnceUnlessStale ==
    \A r \in Rewards \ stale:
        /\ paid[r] <= 1
        /\ payouts[r].state = "paid" => paid[r] = 1 /\ rewards[r].state = "paid"

(* A payout somebody rejected is never paid (rejectPayout, markPaid).      *)
RejectedIsNotPaid == \A r \in Rewards: payouts[r].rejectedBy # Nobody => paid[r] = 0
RejectedIsNotPaidUnlessStale ==
    \A r \in Rewards \ stale: payouts[r].rejectedBy # Nobody => paid[r] = 0

(* Refunds never exceed the payment ("refuses to refund more than is       *)
(* left"), unless two were in progress at once.                            *)
RefundsWithinPaymentUnlessStale == "payment" \notin stale => Refunded <= Payment
RefundsWithinPayment == Refunded <= Payment

(* A payment that was refunded in full reads reversed, and no other.       *)
ReversedIsRefunded == (payment = "reversed") <=> (Refunded = Payment)
ReversedIsRefundedUnlessStale == "payment" \notin stale => ReversedIsRefunded

(* A reward moves only as REWARD_TRANSITIONS allows ("Paid is terminal").  *)
RewardSuccessors ==
    [not_earned |-> {"earned"}, earned |-> {"approved", "withheld"},
     approved |-> {"paid", "withheld"}, paid |-> {}, withheld |-> {"approved"}]
RewardSteps ==
    [][\A r \in Rewards: rewards'[r].state # rewards[r].state =>
          rewards'[r].state \in RewardSuccessors[rewards[r].state]]_rewards
=============================================================================
