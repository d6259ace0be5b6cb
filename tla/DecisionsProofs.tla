---------------------------- MODULE DecisionsProofs ----------------------------
(***************************************************************************)
(* What people decide while others decide too: payouts and refunds         *)
(* (Payouts), answers that become public (PublicAnswers), offers with the  *)
(* awards attached to them (OfferLifecycle) and visits to a student's      *)
(* account that she allowed (SupportVisits), for any number of requests,   *)
(* people, rewards, versions, visits and moments.  Every theorem is about  *)
(* one of the four, so they share the names of their parameters and        *)
(* variables.                                                              *)
(***************************************************************************)
EXTENDS Integers, Sequences, FiniteSetTheorems, SequenceTheorems, WellFoundedInduction, TLAPS

CONSTANTS
    Callers, Mixes, MaxTime,
    Staff, Rewards, Nobody, Payment, Amounts, MaxPaid, MaxRefunds,
    MaxAnswers,
    Applications, CrashSteps, Windows, MaxVersions,
    Operators, None, Window, MaxVisits, MaxDeaths

VARIABLES
    calls, mix, stale, now,
    rewards, payouts, paid, refunds, payment,
    active, answers, askerKnown,
    versions, attachments, told, signed, disputed, died,
    consent, grants, sessions, events, sweep, deaths, spoilt

Money   == INSTANCE Payouts
Answers == INSTANCE PublicAnswers
Offers  == INSTANCE OfferLifecycle
Visits  == INSTANCE SupportVisits

(***************************************************************************)
(* The inductive invariant of payouts and refunds                          *)
(***************************************************************************)

PayoutTypes ==
    /\ calls = [c \in Callers |-> calls[c]]
    /\ \A c \in Callers: calls[c].who \in Staff /\ calls[c].reward \in Rewards
    /\ rewards \in [Rewards -> Money!Reward] /\ payouts \in [Rewards -> Money!Payout]
    /\ paid \in [Rewards -> 0..MaxPaid]

(* What a call in progress read of its payout.  Once there is a payout its *)
(* initiator stays who it is, and its approval is not taken back.          *)
PayoutsAsRead ==
    \A c \in Callers:
        LET call == calls[c]  payout == payouts[calls[c].reward] IN
        /\ call.step = "approve" =>
               /\ call.row.state = "pending_approval" /\ payout.state # "none"
               /\ rewards[call.reward].high => payout.initiatedBy # call.who
        /\ call.step = "reject" => call.row.state = "pending_approval"
        /\ call.step = "pay" => call.row.state = "approved" /\ payout.approvedBy # Nobody

(* An approved payout has its approver, and so has money that was paid.    *)
ApproverStays ==
    \A r \in Rewards:
        /\ payouts[r].state \in {"approved", "paid"} \/ paid[r] > 0 => payouts[r].approvedBy # Nobody
        /\ payouts[r].approvedBy # Nobody => payouts[r].state # "none"

(* The books of a payout that nobody wrote over.                           *)
PayoutBooks ==
    \A r \in Rewards \ stale:
        /\ payouts[r].state = "paid" => paid[r] = 1 /\ rewards[r].state = "paid"
        /\ payouts[r].state # "paid" => paid[r] = 0
        /\ payouts[r].rejectedBy # Nobody => payouts[r].state = "rejected"

PayoutInv == PayoutTypes /\ PayoutsAsRead /\ Money!TwoPeople /\ ApproverStays /\ PayoutBooks

(* Refunds, beside PayoutInv.                                              *)
RefundTypes ==
    /\ \E n \in 0..MaxRefunds: DOMAIN refunds = 1..n
    /\ refunds \in [DOMAIN refunds -> Amounts]
    /\ payment \in {"settled", "reversed"}

(* A refund in progress fits into what was left when it was read.          *)
RefundsAsRead ==
    \A c \in Callers: calls[c].step = "refund" =>
        /\ calls[c].amount \in Amounts /\ calls[c].total \in Nat
        /\ calls[c].total + calls[c].amount <= Payment

RefundInv ==
    /\ RefundTypes /\ RefundsAsRead
    /\ Money!RefundsWithinPaymentUnlessStale /\ Money!ReversedIsRefundedUnlessStale

(***************************************************************************)
(* The inductive invariant of public answers                               *)
(***************************************************************************)

AnswerTypes ==
    /\ Answers!TypeOK
    /\ \E n \in 0..MaxAnswers: DOMAIN answers = 1..n

(* A call in progress has its answer; a publication read an answer with    *)
(* consent that was waiting; and who read a public answer came after the   *)
(* question had forgotten its student.                                     *)
AnswersAsRead ==
    \A c \in Callers:
        /\ calls[c].step \in {"consent_write", "reject_write", "publish_write"} =>
               calls[c].answer \in DOMAIN answers
        /\ calls[c].step = "publish_write" =>
               calls[c].row.state = "pending_moderation" /\ calls[c].row.consented
        /\ calls[c].step = "consent_write" /\ calls[c].row.state = "published" => ~askerKnown

PublishedForgets == \A a \in DOMAIN answers: answers[a].state = "published" => ~askerKnown
PublishedTwice ==
    \A a \in DOMAIN answers \ stale:
        answers[a].state = "published" => answers[a].consented /\ answers[a].moderated

AnswerInv == AnswerTypes /\ AnswersAsRead /\ PublishedForgets /\ PublishedTwice

(***************************************************************************)
(* The inductive invariant of offers                                       *)
(***************************************************************************)

OfferTypes == Offers!TypeOK /\ \E n \in 1..MaxVersions: DOMAIN versions = 1..n

OnVersion == {"edit_write", "verify_write", "publish_write", "unpublish_write", "check_pull", "check_case",
              "check_revoke", "sweep_notify", "sweep_expire", "attach_write"}

(* A call in progress has its version; a move was along the table; what a  *)
(* sweep found had lapsed; and who holds a version it is about to expire   *)
(* has been told, unless the award came after the window had closed.       *)
AsRead(call, rows, held, notices, time) ==
    /\ call.step \in OnVersion => call.version \in DOMAIN rows
    /\ call.step = "verify_write" => call.to \in {"verified", "unverified"}
    /\ call.step = "move_write" =>
           /\ Offers!CanTransitionAttachment(call.seen, call.to)
           /\ call.to \in {"accepted", "declined", "realised"}
    /\ call.step = "sweep_pull" => call.todo # {}
    /\ \A v \in call.todo: v \in DOMAIN rows /\ rows[v].until <= time
    /\ call.step \in {"sweep_notify", "sweep_expire"} => rows[call.version].until <= time
    /\ call.step = "sweep_expire" =>
           \A a \in Applications:
               held[a].version = call.version /\ held[a].state \in Offers!Held /\ ~held[a].late =>
                   <<a, call.version>> \in notices

OffersAsRead == \A c \in Callers: AsRead(calls[c], versions, attachments, told, now)

VerifiedIsSigned ==
    \A v \in DOMAIN versions: versions[v].verification = "verified" => v \in signed
ExpiredHasLapsed ==
    \A v \in DOMAIN versions: versions[v].publication = "expired" => versions[v].until <= now

OfferInv ==
    /\ OfferTypes /\ OffersAsRead /\ VerifiedIsSigned /\ ExpiredHasLapsed
    /\ Offers!OneCurrentVersion /\ Offers!PublishedIsSigned
    /\ Offers!ExpiredIsSettled /\ Offers!ExpiredWasTold

(***************************************************************************)
(* Public answers                                                          *)
(***************************************************************************)

AnswerStates == {"draft", "pending_moderation", "published", "rejected", "withdrawn"}

LEMMA AnswerFields ==
    ASSUME NEW row \in Answers!Answer
    PROVE  /\ row.state \in AnswerStates
           /\ row.consented \in BOOLEAN /\ row.moderated \in BOOLEAN
BY DEF Answers!Answer, Answers!QaState, AnswerStates

(* A call that reads an answer holds it, and the other calls stay.         *)
LEMMA AnswerReads ==
    ASSUME AnswerTypes, Answers!AnswersAssumption, NEW c \in Callers, NEW a \in DOMAIN answers,
           NEW step \in {"consent_write", "reject_write", "publish_write"}, NEW agreed \in BOOLEAN,
           \/ Answers!Hold(c, [Answers!Reading(step, a) EXCEPT !.consent = agreed])
           \/ Answers!Hold(c, Answers!Reading(step, a))
    PROVE  /\ calls' \in [Callers -> Answers!Call]
           /\ calls'[c].step = step /\ calls'[c].answer = a /\ calls'[c].row = answers[a]
           /\ \A d \in Callers \ {c}: calls'[d] = calls[d]
<1>1. answers[a] \in Answers!Answer /\ a \in 0..MaxAnswers /\ calls \in [Callers -> Answers!Call]
  BY DEF AnswerTypes, Answers!TypeOK, Answers!AnswersAssumption
<1> DEFINE call == Answers!Reading(step, a)
<1>2. call \in Answers!Call /\ call.step = step /\ call.answer = a /\ call.row = answers[a]
  BY <1>1 DEF Answers!Reading, Answers!NoCall, Answers!Call, Answers!Step
<1> HIDE DEF call
<1>3. \A b \in BOOLEAN:
          LET held == [call EXCEPT !.consent = b]
          IN  held \in Answers!Call /\ held.step = step /\ held.answer = a /\ held.row = answers[a]
  BY <1>2 DEF Answers!Call
<1>4. PICK held \in Answers!Call:
          /\ Answers!Hold(c, held)
          /\ held.step = step /\ held.answer = a /\ held.row = answers[a]
  BY <1>2, <1>3 DEF call
<1> QED
  BY <1>1, <1>4 DEF Answers!Hold

LEMMA NoAnswerCall ==
    ASSUME Answers!AnswersAssumption
    PROVE  Answers!NoCall \in Answers!Call /\ Answers!NoCall.step = "idle"
BY DEF Answers!NoCall, Answers!NoAnswer, Answers!Call, Answers!Step, Answers!Answer, Answers!QaState,
       Answers!AnswersAssumption

LEMMA AnswerEnds ==
    ASSUME AnswerTypes, Answers!AnswersAssumption, NEW c \in Callers, Answers!End(c)
    PROVE  /\ calls' \in [Callers -> Answers!Call]
           /\ calls'[c].step = "idle"
           /\ \A d \in Callers \ {c}: calls'[d] = calls[d]
BY NoAnswerCall DEF Answers!End, Answers!Hold, AnswerTypes, Answers!TypeOK

(* What one write does: the row it writes, and which rows it writes over.  *)
Writes(c, row) ==
    LET a == calls[c].answer IN
    /\ answers' = [answers EXCEPT ![a] = row]
    /\ stale' = IF answers[a] # calls[c].row THEN stale \cup {a} ELSE stale

LEMMA AnswerWrites ==
    ASSUME AnswerTypes, NEW c \in Callers, calls[c].answer \in DOMAIN answers,
           NEW row \in Answers!Answer, Writes(c, row)
    PROVE  /\ DOMAIN answers' = DOMAIN answers /\ answers' \in [DOMAIN answers' -> Answers!Answer]
           /\ answers'[calls[c].answer] = row
           /\ \A b \in DOMAIN answers: b # calls[c].answer => answers'[b] = answers[b]
           /\ stale \subseteq stale' /\ stale' \subseteq DOMAIN answers'
           /\ calls[c].answer \notin stale' => answers[calls[c].answer] = calls[c].row
BY DEF Writes, AnswerTypes, Answers!TypeOK

LEMMA ConsentWrites ==
    ASSUME AnswerTypes, NEW c \in Callers, calls[c].answer \in DOMAIN answers, Answers!ConsentWrite(c)
    PROVE  \E row \in Answers!Answer:
               /\ Writes(c, row)
               /\ row.state \in {"pending_moderation", "withdrawn", calls[c].row.state}
               /\ row.state = "pending_moderation" => calls[c].row.state \in {"draft", "pending_moderation"}
               /\ row.state # "withdrawn" => row.consented
               /\ row.moderated = answers[calls[c].answer].moderated
<1> DEFINE a == calls[c].answer
           old == answers[a]
           read == calls[c].row.state
           state == IF read = "draft" THEN "pending_moderation" ELSE read
<1>1. old \in Answers!Answer /\ calls[c].row \in Answers!Answer
  BY DEF AnswerTypes, Answers!TypeOK, Answers!Call
<1>2. read \in AnswerStates /\ state \in AnswerStates
  BY <1>1, AnswerFields DEF AnswerStates
<1>3. stale' = IF answers[a] # calls[c].row THEN stale \cup {a} ELSE stale
  BY DEF Answers!ConsentWrite, Answers!NowStale
<1>4. CASE calls[c].consent
  <2> DEFINE row == [old EXCEPT !.consented = TRUE, !.state = state]
  <2>1. answers' = [answers EXCEPT ![a] = row]
    BY <1>4 DEF Answers!ConsentWrite
  <2>2. row.state = state /\ row.consented /\ row.moderated = old.moderated
    BY <1>1 DEF Answers!Answer
  <2>3. row \in Answers!Answer
    BY <1>1, <1>2 DEF Answers!Answer, Answers!QaState, AnswerStates
  <2> QED
    BY <1>3, <2>1, <2>2, <2>3 DEF Writes
<1>5. CASE ~calls[c].consent
  <2> DEFINE row == [old EXCEPT !.consented = FALSE, !.state = "withdrawn"]
  <2>1. answers' = [answers EXCEPT ![a] = row]
    BY <1>5 DEF Answers!ConsentWrite, Answers!Withdrawn
  <2>2. row.state = "withdrawn" /\ row.moderated = old.moderated
    BY <1>1 DEF Answers!Answer
  <2>3. row \in Answers!Answer
    BY <1>1 DEF Answers!Answer, Answers!QaState
  <2> QED
    BY <1>3, <2>1, <2>2, <2>3 DEF Writes
<1> QED
  BY <1>4, <1>5

LEMMA RejectWrites ==
    ASSUME AnswerTypes, NEW c \in Callers, calls[c].answer \in DOMAIN answers, Answers!RejectWrite(c)
    PROVE  \E row \in Answers!Answer: Writes(c, row) /\ row.state = "rejected"
<1> DEFINE old == answers[calls[c].answer]
           row == [old EXCEPT !.state = "rejected", !.moderated = TRUE]
<1>1. old \in Answers!Answer
  BY DEF AnswerTypes, Answers!TypeOK
<1>2. row.state = "rejected"
  BY <1>1 DEF Answers!Answer
<1>3. row \in Answers!Answer
  BY <1>1 DEF Answers!Answer, Answers!QaState
<1>4. Writes(c, row)
  BY DEF Answers!RejectWrite, Answers!Rejected, Answers!NowStale, Writes
<1> QED
  BY <1>2, <1>3, <1>4

LEMMA PublishWrites ==
    ASSUME AnswerTypes, NEW c \in Callers, calls[c].answer \in DOMAIN answers, Answers!PublishWrite(c)
    PROVE  \E row \in Answers!Answer:
               /\ Writes(c, row) /\ row.state = "published" /\ row.moderated
               /\ row.consented = answers[calls[c].answer].consented
<1> DEFINE a == calls[c].answer
           old == answers[a]
           row == [old EXCEPT !.state = "published", !.moderated = TRUE]
<1>1. old \in Answers!Answer
  BY DEF AnswerTypes, Answers!TypeOK
<1>2. row.state = "published" /\ row.moderated /\ row.consented = old.consented
  BY <1>1 DEF Answers!Answer
<1>3. row \in Answers!Answer
  BY <1>1 DEF Answers!Answer, Answers!QaState
<1>4. answers' = [answers EXCEPT ![a] = row]
  BY DEF Answers!PublishWrite
<1>5. Writes(c, row)
  BY <1>4 DEF Answers!PublishWrite, Answers!NowStale, Writes
<1> QED
  BY <1>2, <1>3, <1>5

LEMMA OneCardinality == \A S: Answers!Cardinality(S) = Cardinality(S)
BY DEF Answers!Cardinality, Cardinality

LEMMA NumberedCardinality ==
    ASSUME NEW n \in Nat
    PROVE  Cardinality(1..n) = n
BY FS_Interval

(* What the calls of others read stays true when one call ends.            *)
LEMMA AnswersReadStay ==
    ASSUME AnswerTypes, Answers!AnswersAssumption, AnswersAsRead, NEW c \in Callers, Answers!End(c),
           DOMAIN answers \subseteq DOMAIN answers', ~askerKnown => ~askerKnown'
    PROVE  AnswersAsRead' /\ calls' \in [Callers -> Answers!Call]
<1>1. /\ calls' \in [Callers -> Answers!Call] /\ calls'[c].step = "idle"
      /\ \A d \in Callers \ {c}: calls'[d] = calls[d]
  BY AnswerEnds
<1>2. ASSUME NEW d \in Callers, calls'[d].step # "idle"
      PROVE  calls'[d] = calls[d]
  BY <1>1, <1>2
<1> QED
  BY <1>1, <1>2 DEF AnswersAsRead

(* A write keeps what a public answer stands on, when an answer that was   *)
(* read as it is gets public with both yeses only.                         *)
LEMMA AnswerWriteStep ==
    ASSUME AnswerInv, Answers!AnswersAssumption, NEW c \in Callers, NEW row \in Answers!Answer,
           calls[c].answer \in DOMAIN answers, Writes(c, row), Answers!End(c), active' = active,
           askerKnown' \in BOOLEAN, ~askerKnown => ~askerKnown',
           row.state = "published" => ~askerKnown',
           /\ calls[c].answer \notin stale /\ answers[calls[c].answer] = calls[c].row
           /\ row.state = "published"
           => row.consented /\ row.moderated
    PROVE  AnswerInv'
<1> DEFINE a == calls[c].answer
<1>1. AnswerTypes /\ AnswersAsRead /\ PublishedForgets /\ PublishedTwice
  BY DEF AnswerInv
<1>2. /\ DOMAIN answers' = DOMAIN answers /\ answers' \in [DOMAIN answers' -> Answers!Answer]
      /\ answers'[a] = row
      /\ \A b \in DOMAIN answers: b # a => answers'[b] = answers[b]
      /\ stale \subseteq stale' /\ stale' \subseteq DOMAIN answers'
      /\ a \notin stale' => answers[a] = calls[c].row
  BY <1>1, AnswerWrites
<1>3. AnswersAsRead' /\ calls' \in [Callers -> Answers!Call]
  BY <1>1, <1>2, AnswersReadStay
<1>4. AnswerTypes'
  BY <1>1, <1>2, <1>3 DEF AnswerTypes, Answers!TypeOK
<1>5. PublishedForgets'
  BY <1>1, <1>2 DEF PublishedForgets
<1>6. PublishedTwice'
  <2> SUFFICES ASSUME NEW b \in DOMAIN answers', b \notin stale', answers'[b].state = "published"
               PROVE  answers'[b].consented /\ answers'[b].moderated
    BY DEF PublishedTwice
  <2>1. CASE b = a
    BY <1>2, <2>1
  <2>2. CASE b # a
    BY <1>1, <1>2, <2>2 DEF PublishedTwice
  <2> QED
    BY <2>1, <2>2
<1> QED
  BY <1>3, <1>4, <1>5, <1>6 DEF AnswerInv

LEMMA AnswerReadStep ==
    ASSUME AnswerInv, Answers!AnswersAssumption, NEW c \in Callers, NEW a \in DOMAIN answers,
           \/ Answers!RejectRead(c, a) \/ Answers!PublishRead(c, a)
           \/ \E agreed \in BOOLEAN: Answers!ConsentRead(c, a, agreed)
    PROVE  AnswerInv'
<1>1. AnswerTypes /\ AnswersAsRead /\ PublishedForgets /\ PublishedTwice
  BY DEF AnswerInv
<1>2. UNCHANGED <<active, answers, askerKnown, stale>>
  BY DEF Answers!RejectRead, Answers!PublishRead, Answers!ConsentRead
<1>3. PICK step \in {"consent_write", "reject_write", "publish_write"}, agreed \in BOOLEAN:
          /\ \/ Answers!Hold(c, [Answers!Reading(step, a) EXCEPT !.consent = agreed])
             \/ Answers!Hold(c, Answers!Reading(step, a))
          /\ step = "publish_write" => Answers!CanPublishAnswer(answers[a])
  <2>1. CASE Answers!RejectRead(c, a)
    BY <2>1 DEF Answers!RejectRead
  <2>2. CASE Answers!PublishRead(c, a)
    BY <2>2 DEF Answers!PublishRead
  <2>3. ASSUME NEW agreed \in BOOLEAN, Answers!ConsentRead(c, a, agreed)
        PROVE  Answers!Hold(c, [Answers!Reading("consent_write", a) EXCEPT !.consent = agreed])
    BY <2>3 DEF Answers!ConsentRead
  <2> QED
    BY <2>1, <2>2, <2>3
<1>4. /\ calls' \in [Callers -> Answers!Call]
      /\ calls'[c].step = step /\ calls'[c].answer = a /\ calls'[c].row = answers[a]
      /\ \A d \in Callers \ {c}: calls'[d] = calls[d]
  BY <1>1, <1>3, AnswerReads
<1>5. AnswerTypes' /\ PublishedForgets' /\ PublishedTwice'
  BY <1>1, <1>2, <1>4 DEF AnswerTypes, Answers!TypeOK, PublishedForgets, PublishedTwice
<1>6. AnswersAsRead'
  <2> SUFFICES ASSUME NEW d \in Callers
               PROVE  /\ calls'[d].step \in {"consent_write", "reject_write", "publish_write"} =>
                             calls'[d].answer \in DOMAIN answers'
                      /\ calls'[d].step = "publish_write" =>
                             calls'[d].row.state = "pending_moderation" /\ calls'[d].row.consented
                      /\ calls'[d].step = "consent_write" /\ calls'[d].row.state = "published" => ~askerKnown'
    BY DEF AnswersAsRead
  <2>1. CASE d = c
    BY <1>1, <1>2, <1>3, <1>4, <2>1 DEF Answers!CanPublishAnswer, PublishedForgets
  <2>2. CASE d # c
    BY <1>1, <1>2, <1>4, <2>2 DEF AnswersAsRead
  <2> QED
    BY <2>1, <2>2
<1> QED
  BY <1>5, <1>6 DEF AnswerInv

LEMMA AnswerCreateStep ==
    ASSUME AnswerInv, Answers!AnswersAssumption, NEW c \in Callers, Answers!AnswerWrite(c)
    PROVE  AnswerInv'
<1>1. AnswerTypes /\ AnswersAsRead /\ PublishedForgets /\ PublishedTwice
  BY DEF AnswerInv
<1>2. PICK n \in 0..MaxAnswers: DOMAIN answers = 1..n
  BY <1>1 DEF AnswerTypes
<1>3. Answers!Cardinality(DOMAIN answers) = n /\ n + 1 \in 1..MaxAnswers
  BY <1>2, OneCardinality, NumberedCardinality DEF Answers!AnswerWrite, Answers!AnswersAssumption
<1> DEFINE agreed == calls[c].consent
           new == [Answers!NoAnswer EXCEPT
                      !.state = IF agreed THEN "pending_moderation" ELSE "draft", !.consented = agreed]
<1>4. answers' = [b \in 1..(n + 1) |-> IF b < n + 1 THEN answers[b] ELSE new]
  BY <1>3 DEF Answers!AnswerWrite
<1>5. new \in Answers!Answer /\ new.state # "published"
  <2>1. agreed \in BOOLEAN
    BY <1>1 DEF AnswerTypes, Answers!TypeOK, Answers!Call
  <2> HIDE DEF agreed
  <2>2. CASE agreed
    BY <2>2 DEF Answers!NoAnswer, Answers!Answer, Answers!QaState
  <2>3. CASE ~agreed
    BY <2>1, <2>3 DEF Answers!NoAnswer, Answers!Answer, Answers!QaState
  <2> QED
    BY <2>2, <2>3
<1> HIDE DEF new
<1>6. /\ DOMAIN answers' = 1..(n + 1) /\ DOMAIN answers \subseteq DOMAIN answers'
      /\ answers'[n + 1] = new
      /\ \A b \in DOMAIN answers: answers'[b] = answers[b]
      /\ \A b \in DOMAIN answers': b \in DOMAIN answers \/ b = n + 1
  BY <1>2, <1>4
<1>7. answers' \in [DOMAIN answers' -> Answers!Answer]
  BY <1>1, <1>4, <1>5, <1>6 DEF AnswerTypes, Answers!TypeOK
<1>8. Answers!End(c) /\ UNCHANGED <<active, askerKnown, stale>>
  BY DEF Answers!AnswerWrite
<1>9. AnswersAsRead' /\ calls' \in [Callers -> Answers!Call]
  BY <1>1, <1>6, <1>8, AnswersReadStay
<1>10. AnswerTypes'
  <2>1. n + 1 \in 0..MaxAnswers /\ DOMAIN answers' \subseteq 1..MaxAnswers
    BY <1>3, <1>6 DEF Answers!AnswersAssumption
  <2> QED
    BY <1>1, <1>6, <1>7, <1>8, <1>9, <2>1 DEF AnswerTypes, Answers!TypeOK
<1>11. PublishedForgets' /\ PublishedTwice'
  BY <1>1, <1>5, <1>6, <1>8 DEF PublishedForgets, PublishedTwice
<1> QED
  BY <1>9, <1>10, <1>11 DEF AnswerInv

LEMMA AnswerInvStep ==
    ASSUME AnswerInv, Answers!AnswersAssumption, [Answers!Next]_(Answers!vars)
    PROVE  AnswerInv'
<1>1. AnswerTypes /\ AnswersAsRead /\ PublishedForgets /\ PublishedTwice /\ askerKnown \in BOOLEAN
  BY DEF AnswerInv, AnswerTypes, Answers!TypeOK
<1>2. ASSUME NEW c \in Callers, NEW agreed \in BOOLEAN, Answers!AnswerRead(c, agreed)
      PROVE  AnswerInv'
  <2>1. \A b \in BOOLEAN:
            LET held == [Answers!NoCall EXCEPT !.step = "answer_create", !.consent = b]
            IN  held \in Answers!Call /\ held.step = "answer_create"
    BY NoAnswerCall DEF Answers!Call, Answers!Step
  <2>2. PICK held \in Answers!Call: Answers!Hold(c, held) /\ held.step = "answer_create"
    BY <1>2, <2>1 DEF Answers!AnswerRead
  <2>3. /\ calls' \in [Callers -> Answers!Call] /\ calls'[c].step = "answer_create"
        /\ \A d \in Callers \ {c}: calls'[d] = calls[d]
    BY <1>1, <2>2 DEF Answers!Hold, AnswerTypes, Answers!TypeOK
  <2>4. UNCHANGED <<active, answers, askerKnown, stale>>
    BY <1>2 DEF Answers!AnswerRead
  <2>5. AnswersAsRead'
    BY <1>1, <2>3, <2>4 DEF AnswersAsRead
  <2> QED
    BY <1>1, <2>3, <2>4, <2>5
       DEF AnswerInv, AnswerTypes, Answers!TypeOK, PublishedForgets, PublishedTwice
<1>3. ASSUME NEW c \in Callers, NEW a \in DOMAIN answers,
             \/ Answers!RejectRead(c, a) \/ Answers!PublishRead(c, a)
             \/ \E agreed \in BOOLEAN: Answers!ConsentRead(c, a, agreed)
      PROVE  AnswerInv'
  BY <1>3, AnswerReadStep
<1>4. ASSUME NEW c \in Callers, Answers!AnswerWrite(c)
      PROVE  AnswerInv'
  BY <1>4, AnswerCreateStep
<1>5. ASSUME NEW c \in Callers, Answers!ConsentWrite(c)
      PROVE  AnswerInv'
  <2>1. calls[c].answer \in DOMAIN answers /\ calls[c].step = "consent_write"
    BY <1>1, <1>5 DEF AnswersAsRead, Answers!ConsentWrite, Answers!At
  <2>2. PICK row \in Answers!Answer:
            /\ Writes(c, row)
            /\ row.state \in {"pending_moderation", "withdrawn", calls[c].row.state}
            /\ row.state # "withdrawn" => row.consented
            /\ row.moderated = answers[calls[c].answer].moderated
    BY <1>1, <1>5, <2>1, ConsentWrites
  <2>3. Answers!End(c) /\ UNCHANGED <<active, askerKnown>>
    BY <1>5 DEF Answers!ConsentWrite
  <2>4. row.state = "published" => calls[c].row.state = "published" /\ row.consented
    BY <2>2
  <2>5. row.state = "published" => ~askerKnown'
    BY <1>1, <2>1, <2>3, <2>4 DEF AnswersAsRead
  <2>6. ASSUME calls[c].answer \notin stale, answers[calls[c].answer] = calls[c].row, row.state = "published"
        PROVE  row.consented /\ row.moderated
    <3>1. answers[calls[c].answer].state = "published"
      BY <2>4, <2>6
    <3> QED
      BY <1>1, <2>1, <2>2, <2>4, <2>6, <3>1 DEF PublishedTwice
  <2> QED
    BY <1>1, <2>1, <2>2, <2>3, <2>5, <2>6, AnswerWriteStep
<1>6. ASSUME NEW c \in Callers, Answers!RejectWrite(c)
      PROVE  AnswerInv'
  <2>1. calls[c].answer \in DOMAIN answers
    BY <1>1, <1>6 DEF AnswersAsRead, Answers!RejectWrite, Answers!At
  <2>2. PICK row \in Answers!Answer: Writes(c, row) /\ row.state = "rejected"
    BY <1>1, <1>6, <2>1, RejectWrites
  <2>3. Answers!End(c) /\ UNCHANGED <<active, askerKnown>>
    BY <1>6 DEF Answers!RejectWrite
  <2> QED
    BY <1>1, <2>1, <2>2, <2>3, AnswerWriteStep
<1>7. ASSUME NEW c \in Callers, Answers!PublishWrite(c)
      PROVE  AnswerInv'
  <2>1. calls[c].answer \in DOMAIN answers /\ calls[c].row.consented
    BY <1>1, <1>7 DEF AnswersAsRead, Answers!PublishWrite, Answers!At
  <2>2. PICK row \in Answers!Answer:
            /\ Writes(c, row) /\ row.state = "published" /\ row.moderated
            /\ row.consented = answers[calls[c].answer].consented
    BY <1>1, <1>7, <2>1, PublishWrites
  <2>3. Answers!End(c) /\ active' = active /\ askerKnown' = FALSE
    BY <1>7 DEF Answers!PublishWrite, Answers!ForgetAsker
  <2>4. answers[calls[c].answer] = calls[c].row => row.consented
    BY <2>1, <2>2
  <2> QED
    BY <1>1, <2>1, <2>2, <2>3, <2>4, AnswerWriteStep
<1>8. CASE Answers!GuideMoves
  BY <1>1, <1>8 DEF Answers!GuideMoves, AnswerInv, AnswerTypes, Answers!TypeOK, AnswersAsRead,
                    PublishedForgets, PublishedTwice
<1>9. CASE UNCHANGED Answers!vars
  BY <1>1, <1>9 DEF Answers!vars, AnswerInv, AnswerTypes, Answers!TypeOK, AnswersAsRead,
                    PublishedForgets, PublishedTwice
<1> QED
  BY <1>2, <1>3, <1>4, <1>5, <1>6, <1>7, <1>8, <1>9 DEF Answers!Next

LEMMA AnswerInvHolds ==
    ASSUME Answers!AnswersAssumption
    PROVE  Answers!Spec => []AnswerInv
<1>1. Answers!Init => AnswerInv
  <2> SUFFICES ASSUME Answers!Init PROVE AnswerInv
    OBVIOUS
  <2>1. DOMAIN answers = {} /\ DOMAIN answers = 1..0 /\ 0 \in 0..MaxAnswers
    BY DEF Answers!Init, Answers!AnswersAssumption
  <2>2. \A c \in Callers: calls[c].step = "idle"
    BY NoAnswerCall DEF Answers!Init
  <2>3. calls \in [Callers -> Answers!Call]
    BY NoAnswerCall DEF Answers!Init
  <2>4. AnswerTypes
    BY <2>1, <2>3 DEF AnswerTypes, Answers!TypeOK, Answers!Init
  <2> QED
    BY <2>1, <2>2, <2>4 DEF AnswerInv, AnswersAsRead, PublishedForgets, PublishedTwice
<1>2. AnswerInv /\ [Answers!Next]_(Answers!vars) => AnswerInv'
  BY AnswerInvStep
<1> QED
  BY <1>1, <1>2, PTL DEF Answers!Spec

(* The guide, the answers and the requests keep their types (QaService).   *)
THEOREM AnswerTypeCorrect ==
    ASSUME Answers!AnswersAssumption
    PROVE  Answers!Spec => []Answers!TypeOK
<1>1. AnswerInv => Answers!TypeOK
  BY DEF AnswerInv, AnswerTypes
<1> QED
  BY <1>1, AnswerInvHolds, PTL

(* "Publication needs two independent yeses", the guide's and a            *)
(* moderator's, however many decide at once, unless one of them decided on *)
(* an answer that had changed (setConsent, moderate).                      *)
THEOREM TwoYesesCorrect ==
    ASSUME Answers!AnswersAssumption
    PROVE  Answers!Spec => []Answers!PublicHasTwoYesesUnlessStale
<1>1. AnswerInv => Answers!PublicHasTwoYesesUnlessStale
  BY DEF AnswerInv, PublishedTwice, Answers!PublicHasTwoYesesUnlessStale, Answers!Public
<1> QED
  BY <1>1, AnswerInvHolds, PTL

(* "The question is public, the student who asked is not", stale decisions *)
(* included (moderate).                                                    *)
THEOREM AskerCorrect ==
    ASSUME Answers!AnswersAssumption
    PROVE  Answers!Spec => []Answers!AskerStaysPrivate
<1>1. AnswerInv => Answers!AskerStaysPrivate
  BY DEF AnswerInv, PublishedForgets, Answers!AskerStaysPrivate, Answers!Public
<1> QED
  BY <1>1, AnswerInvHolds, PTL

(* What a moderator rejected or the guide withdrew does not come back,     *)
(* unless decided on an answer that had changed (setConsent, moderate).    *)
THEOREM DecidedCorrect ==
    ASSUME Answers!AnswersAssumption
    PROVE  Answers!Spec => Answers!DecidedStaysUnlessStale
<1>1. AnswerInv /\ [Answers!Next]_(Answers!vars) => [Answers!DecidedStaysStep]_answers
  <2> SUFFICES ASSUME AnswerInv, [Answers!Next]_(Answers!vars), answers' # answers,
                      NEW a \in DOMAIN answers, Answers!Decided(a), a \notin stale'
               PROVE  answers'[a].state \in {"rejected", "withdrawn"}
    BY DEF Answers!DecidedStaysStep
  <2>1. AnswerTypes /\ AnswersAsRead
    BY DEF AnswerInv
  <2>2. answers[a].state \in {"rejected", "withdrawn"}
    BY DEF Answers!Decided
  <2>3. ASSUME NEW c \in Callers, NEW row \in Answers!Answer, calls[c].answer \in DOMAIN answers,
               Writes(c, row),
               answers[calls[c].answer] = calls[c].row /\ calls[c].row.state \in {"rejected", "withdrawn"}
                 => row.state \in {"rejected", "withdrawn"}
        PROVE  answers'[a].state \in {"rejected", "withdrawn"}
    BY <2>1, <2>2, <2>3, AnswerWrites
  <2>4. ASSUME NEW c \in Callers, Answers!ConsentWrite(c)
        PROVE  answers'[a].state \in {"rejected", "withdrawn"}
    <3>1. calls[c].answer \in DOMAIN answers
      BY <2>1, <2>4 DEF AnswersAsRead, Answers!ConsentWrite, Answers!At
    <3>2. PICK row \in Answers!Answer:
              /\ Writes(c, row)
              /\ row.state \in {"pending_moderation", "withdrawn", calls[c].row.state}
              /\ row.state = "pending_moderation" => calls[c].row.state \in {"draft", "pending_moderation"}
      BY <2>1, <2>4, <3>1, ConsentWrites
    <3> QED
      BY <2>3, <3>1, <3>2
  <2>5. ASSUME NEW c \in Callers, Answers!RejectWrite(c)
        PROVE  answers'[a].state \in {"rejected", "withdrawn"}
    <3>1. calls[c].answer \in DOMAIN answers
      BY <2>1, <2>5 DEF AnswersAsRead, Answers!RejectWrite, Answers!At
    <3> QED
      BY <2>1, <2>3, <2>5, <3>1, RejectWrites
  <2>6. ASSUME NEW c \in Callers, Answers!PublishWrite(c)
        PROVE  answers'[a].state \in {"rejected", "withdrawn"}
    <3>1. calls[c].answer \in DOMAIN answers /\ calls[c].row.state = "pending_moderation"
      BY <2>1, <2>6 DEF AnswersAsRead, Answers!PublishWrite, Answers!At
    <3>2. PICK row \in Answers!Answer: Writes(c, row)
      BY <2>1, <2>6, <3>1, PublishWrites
    <3> QED
      BY <2>3, <3>1, <3>2
  <2>7. ASSUME NEW c \in Callers, Answers!AnswerWrite(c)
        PROVE  answers'[a].state \in {"rejected", "withdrawn"}
    <3>1. PICK n \in 0..MaxAnswers: DOMAIN answers = 1..n
      BY <2>1 DEF AnswerTypes
    <3>2. Answers!Cardinality(DOMAIN answers) = n
      BY <3>1, OneCardinality, NumberedCardinality
    <3>3. a \in 1..(n + 1) /\ a < n + 1
      BY <3>1
    <3>4. answers'[a] = answers[a]
      BY <2>7, <3>2, <3>3 DEF Answers!AnswerWrite
    <3> QED
      BY <2>2, <3>4
  <2> QED
    BY <2>4, <2>5, <2>6, <2>7 DEF Answers!Next, Answers!vars, Answers!AnswerRead, Answers!ConsentRead,
       Answers!RejectRead, Answers!PublishRead, Answers!GuideMoves
<1> QED
  BY <1>1, AnswerInvHolds, PTL DEF Answers!Spec, Answers!DecidedStaysUnlessStale

(***************************************************************************)
(* Payouts                                                                 *)
(***************************************************************************)

LEMMA PayoutFields ==
    ASSUME NEW row \in Money!Payout
    PROVE  /\ row.state \in Money!PayoutState
           /\ row.initiatedBy \in Staff \cup {Nobody} /\ row.approvedBy \in Staff \cup {Nobody}
           /\ row.rejectedBy \in Staff \cup {Nobody}
BY DEF Money!Payout

LEMMA NoPayoutCall ==
    ASSUME Money!PaymentAssumption
    PROVE  /\ Money!NoCall.step = "idle" /\ Money!NoCall.who \in Staff /\ Money!NoCall.reward \in Rewards
<1>1. (CHOOSE s \in Staff: TRUE) \in Staff /\ (CHOOSE r \in Rewards: TRUE) \in Rewards
  BY DEF Money!PaymentAssumption
<1> QED
  BY <1>1 DEF Money!NoCall

LEMMA HeldCall ==
    ASSUME PayoutTypes, NEW c \in Callers, NEW call, Money!Hold(c, call)
    PROVE  /\ calls' = [d \in Callers |-> calls'[d]] /\ calls'[c] = call
           /\ \A d \in Callers \ {c}: calls'[d] = calls[d]
<1>1. calls = [d \in Callers |-> calls[d]]
  BY DEF PayoutTypes
<1> QED
  BY <1>1 DEF Money!Hold

(* A call begins on what its handler read of the payout.                   *)
LEMMA PayoutReads ==
    ASSUME PayoutTypes, Money!PaymentAssumption, NEW c \in Callers, NEW step, NEW s \in Staff,
           NEW r \in Rewards, Money!Hold(c, Money!Reading(step, s, r))
    PROVE  /\ calls'[c].step = step /\ calls'[c].who = s /\ calls'[c].reward = r
           /\ calls'[c].row = payouts[r]
           /\ calls' = [d \in Callers |-> calls'[d]]
           /\ \A d \in Callers \ {c}: calls'[d] = calls[d]
<1>1. /\ Money!Reading(step, s, r).step = step /\ Money!Reading(step, s, r).who = s
      /\ Money!Reading(step, s, r).reward = r /\ Money!Reading(step, s, r).row = payouts[r]
  BY DEF Money!Reading, Money!NoCall
<1> QED
  BY <1>1, HeldCall

LEMMA PayoutEnds ==
    ASSUME PayoutTypes, Money!PaymentAssumption, NEW c \in Callers, Money!End(c)
    PROVE  /\ calls'[c].step = "idle" /\ calls'[c].who \in Staff /\ calls'[c].reward \in Rewards
           /\ calls' = [d \in Callers |-> calls'[d]]
           /\ \A d \in Callers \ {c}: calls'[d] = calls[d]
BY NoPayoutCall, HeldCall DEF Money!End

(* Reading changes nothing but the call.                                   *)
LEMMA PayoutReadStep ==
    ASSUME PayoutInv, Money!PaymentAssumption, NEW c \in Callers, NEW s \in Staff, NEW r \in Rewards,
           \/ Money!InitiateRead(c, s, r) \/ Money!ApproveRead(c, s, r)
           \/ Money!RejectRead(c, s, r) \/ Money!PayRead(c, s, r)
    PROVE  PayoutInv'
<1>1. PayoutTypes /\ PayoutsAsRead /\ Money!TwoPeople /\ ApproverStays /\ PayoutBooks
  BY DEF PayoutInv
<1>2. UNCHANGED <<rewards, payouts, paid, stale>>
  BY DEF Money!InitiateRead, Money!ApproveRead, Money!RejectRead, Money!PayRead
<1>3. PICK step \in {"initiate", "approve", "reject", "pay"}:
          /\ Money!Hold(c, Money!Reading(step, s, r))
          /\ step = "approve" =>
                 payouts[r].state = "pending_approval" /\ (rewards[r].high => payouts[r].initiatedBy # s)
          /\ step = "reject" => payouts[r].state = "pending_approval"
          /\ step = "pay" => payouts[r].state = "approved"
  BY DEF Money!InitiateRead, Money!ApproveRead, Money!RejectRead, Money!PayRead,
         Money!CheckDualApproval, Money!Settleable
<1>4. /\ calls'[c].step = step /\ calls'[c].who = s /\ calls'[c].reward = r
      /\ calls'[c].row = payouts[r]
      /\ calls' = [d \in Callers |-> calls'[d]]
      /\ \A d \in Callers \ {c}: calls'[d] = calls[d]
  BY <1>1, <1>3, PayoutReads
<1>5. PayoutTypes'
  BY <1>1, <1>2, <1>4 DEF PayoutTypes
<1>6. Money!TwoPeople' /\ ApproverStays' /\ PayoutBooks'
  BY <1>1, <1>2 DEF Money!TwoPeople, ApproverStays, PayoutBooks
<1>7. PayoutsAsRead'
  <2>1. ASSUME NEW d \in Callers \ {c}
        PROVE  calls'[d] = calls[d] /\ payouts' = payouts /\ rewards' = rewards
    BY <1>2, <1>4
  <2>2. step = "pay" => payouts[r].approvedBy # Nobody
    BY <1>1, <1>3 DEF ApproverStays
  <2> QED
    BY <1>1, <1>2, <1>3, <1>4, <2>1, <2>2 DEF PayoutsAsRead
<1> QED
  BY <1>5, <1>6, <1>7 DEF PayoutInv

(* One write: the reward, the row of its payout and what was paid.         *)
PayoutWrite(c, row, reward, sum) ==
    LET r == calls[c].reward IN
    /\ payouts' = [payouts EXCEPT ![r] = row]
    /\ rewards' = [rewards EXCEPT ![r] = reward]
    /\ paid' = [paid EXCEPT ![r] = sum]

(* A write keeps the invariant when an initiator and an approval stay, the *)
(* approver of a large payout is another, and, unless the row had changed  *)
(* since it was read, the books of the payout agree.                       *)
LEMMA PayoutWriteStep ==
    ASSUME PayoutInv, Money!PaymentAssumption, NEW c \in Callers, Money!End(c),
           NEW row \in Money!Payout, NEW reward \in Money!Reward, NEW sum \in 0..MaxPaid,
           PayoutWrite(c, row, reward, sum),
           stale \subseteq stale',
           reward.high = rewards[calls[c].reward].high,
           row.state # "none",
           payouts[calls[c].reward].state # "none" => row.initiatedBy = payouts[calls[c].reward].initiatedBy,
           payouts[calls[c].reward].approvedBy # Nobody => row.approvedBy # Nobody,
           reward.high /\ row.approvedBy # Nobody => row.approvedBy # row.initiatedBy,
           row.state \in {"approved", "paid"} \/ sum > 0 => row.approvedBy # Nobody,
           calls[c].reward \notin stale' =>
               /\ row.state = "paid" => sum = 1 /\ reward.state = "paid"
               /\ row.state # "paid" => sum = 0
               /\ row.rejectedBy # Nobody => row.state = "rejected"
    PROVE  PayoutInv'
<1> DEFINE r == calls[c].reward
<1>1. PayoutTypes /\ PayoutsAsRead /\ Money!TwoPeople /\ ApproverStays /\ PayoutBooks
  BY DEF PayoutInv
<1>2. r \in Rewards
  BY <1>1 DEF PayoutTypes
<1>3. /\ calls'[c].step = "idle" /\ calls'[c].who \in Staff /\ calls'[c].reward \in Rewards
      /\ calls' = [d \in Callers |-> calls'[d]]
      /\ \A d \in Callers \ {c}: calls'[d] = calls[d]
  BY <1>1, PayoutEnds
<1>4. /\ payouts' \in [Rewards -> Money!Payout] /\ payouts'[r] = row
      /\ rewards' \in [Rewards -> Money!Reward] /\ rewards'[r] = reward
      /\ paid' \in [Rewards -> 0..MaxPaid] /\ paid'[r] = sum
      /\ \A q \in Rewards \ {r}: payouts'[q] = payouts[q] /\ rewards'[q] = rewards[q] /\ paid'[q] = paid[q]
  BY <1>1, <1>2 DEF PayoutTypes, PayoutWrite
<1>5. PayoutTypes'
  BY <1>1, <1>3, <1>4 DEF PayoutTypes
<1>6. Money!TwoPeople'
  BY <1>1, <1>2, <1>4 DEF Money!TwoPeople
<1>7. ApproverStays'
  BY <1>1, <1>2, <1>4 DEF ApproverStays
<1>8. PayoutBooks'
  <2> SUFFICES ASSUME NEW q \in Rewards, q \notin stale'
               PROVE  /\ payouts'[q].state = "paid" => paid'[q] = 1 /\ rewards'[q].state = "paid"
                      /\ payouts'[q].state # "paid" => paid'[q] = 0
                      /\ payouts'[q].rejectedBy # Nobody => payouts'[q].state = "rejected"
    BY DEF PayoutBooks
  <2>1. CASE q = r
    BY <1>4, <2>1
  <2>2. CASE q # r
    BY <1>1, <1>4, <2>2 DEF PayoutBooks
  <2> QED
    BY <2>1, <2>2
<1>9. PayoutsAsRead'
  <2> SUFFICES ASSUME NEW d \in Callers, calls'[d].step # "idle"
               PROVE  /\ calls'[d].step = "approve" =>
                             /\ calls'[d].row.state = "pending_approval"
                             /\ payouts'[calls'[d].reward].state # "none"
                             /\ rewards'[calls'[d].reward].high =>
                                    payouts'[calls'[d].reward].initiatedBy # calls'[d].who
                      /\ calls'[d].step = "reject" => calls'[d].row.state = "pending_approval"
                      /\ calls'[d].step = "pay" =>
                             calls'[d].row.state = "approved" /\ payouts'[calls'[d].reward].approvedBy # Nobody
    BY <1>3 DEF PayoutsAsRead
  <2>1. calls'[d] = calls[d] /\ calls[d].reward \in Rewards
    BY <1>1, <1>3 DEF PayoutTypes
  <2>2. CASE calls[d].reward = r
    BY <1>1, <1>4, <2>1, <2>2 DEF PayoutsAsRead
  <2>3. CASE calls[d].reward # r
    BY <1>1, <1>4, <2>1, <2>3 DEF PayoutsAsRead
  <2> QED
    BY <2>2, <2>3
<1> QED
  BY <1>5, <1>6, <1>7, <1>8, <1>9 DEF PayoutInv

(* Steps that write no payout: an initiation that came second, disputes,   *)
(* refunds.                                                                *)
LEMMA PayoutQuietStep ==
    ASSUME PayoutInv, NEW c \in Callers, payouts' = payouts, paid' = paid, stale \subseteq stale',
           rewards' \in [Rewards -> Money!Reward],
           \A r \in Rewards: /\ rewards'[r].high = rewards[r].high
                             /\ rewards[r].state = "paid" => rewards'[r].state = "paid",
           calls' = [d \in Callers |-> calls'[d]],
           calls'[c].step \notin {"approve", "reject", "pay"},
           calls'[c].who \in Staff, calls'[c].reward \in Rewards,
           \A d \in Callers \ {c}: calls'[d] = calls[d]
    PROVE  PayoutInv'
<1>1. PayoutTypes /\ PayoutsAsRead /\ Money!TwoPeople /\ ApproverStays /\ PayoutBooks
  BY DEF PayoutInv
<1>2. PayoutTypes'
  BY <1>1 DEF PayoutTypes
<1>3. Money!TwoPeople' /\ ApproverStays' /\ PayoutBooks'
  BY <1>1 DEF Money!TwoPeople, ApproverStays, PayoutBooks
<1>4. PayoutsAsRead'
  <2> SUFFICES ASSUME NEW d \in Callers, calls'[d].step \in {"approve", "reject", "pay"}
               PROVE  /\ calls'[d].step = "approve" =>
                             /\ calls'[d].row.state = "pending_approval"
                             /\ payouts'[calls'[d].reward].state # "none"
                             /\ rewards'[calls'[d].reward].high =>
                                    payouts'[calls'[d].reward].initiatedBy # calls'[d].who
                      /\ calls'[d].step = "reject" => calls'[d].row.state = "pending_approval"
                      /\ calls'[d].step = "pay" =>
                             calls'[d].row.state = "approved" /\ payouts'[calls'[d].reward].approvedBy # Nobody
    BY DEF PayoutsAsRead
  <2>1. calls'[d] = calls[d] /\ calls[d].reward \in Rewards
    BY <1>1 DEF PayoutTypes
  <2> QED
    BY <1>1, <2>1 DEF PayoutsAsRead
<1> QED
  BY <1>2, <1>3, <1>4 DEF PayoutInv

LEMMA InitiateStep ==
    ASSUME PayoutInv, Money!PaymentAssumption, NEW c \in Callers, Money!InitiateWrite(c)
    PROVE  PayoutInv'
<1> DEFINE r == calls[c].reward
<1>1. PayoutTypes /\ ApproverStays /\ PayoutBooks
  BY DEF PayoutInv
<1>2. r \in Rewards /\ calls[c].who \in Staff
  BY <1>1 DEF PayoutTypes
<1>3. Money!End(c) /\ UNCHANGED <<rewards, paid, stale>>
  BY DEF Money!InitiateWrite
<1>4. CASE payouts[r].state # "none"
  <2>1. payouts' = payouts
    BY <1>4 DEF Money!InitiateWrite, Money!PayoutFree
  <2> QED
    BY <1>1, <1>3, <2>1, PayoutEnds, PayoutQuietStep DEF PayoutTypes
<1>5. CASE payouts[r].state = "none"
  <2> DEFINE row == [Money!NoPayout EXCEPT !.state = "pending_approval", !.initiatedBy = calls[c].who]
  <2>1. row \in Money!Payout /\ row.state = "pending_approval"
        /\ row.approvedBy = Nobody /\ row.rejectedBy = Nobody
    BY <1>2 DEF Money!NoPayout, Money!Payout, Money!PayoutState
  <2>2. payouts' = [payouts EXCEPT ![r] = row]
    BY <1>5 DEF Money!InitiateWrite, Money!PayoutFree
  <2> HIDE DEF row
  <2>3. rewards[r] \in Money!Reward /\ paid[r] \in 0..MaxPaid
    BY <1>1, <1>2 DEF PayoutTypes
  <2>4. PayoutWrite(c, row, rewards[r], paid[r])
    BY <1>1, <1>3, <2>2 DEF PayoutWrite, PayoutTypes
  <2>5. payouts[r].approvedBy = Nobody /\ ~(paid[r] > 0)
    BY <1>1, <1>2, <1>5 DEF ApproverStays
  <2>6. paid[r] = 0
    BY <2>3, <2>5
  <2> QED
    BY <1>2, <1>3, <1>5, <2>1, <2>3, <2>4, <2>5, <2>6, PayoutWriteStep
<1> QED
  BY <1>4, <1>5

(* What a writer that found the row unchanged can rely on.                 *)
LEMMA UnchangedRow ==
    ASSUME PayoutInv, NEW c \in Callers, stale' = Money!NowStale(c), calls[c].reward \notin stale'
    PROVE  /\ payouts[calls[c].reward] = calls[c].row
           /\ calls[c].row.state # "paid" => paid[calls[c].reward] = 0
           /\ calls[c].row.state # "rejected" => calls[c].row.rejectedBy = Nobody
<1>1. payouts[calls[c].reward] = calls[c].row /\ calls[c].reward \notin stale
  BY DEF Money!NowStale
<1>2. calls[c].reward \in Rewards
  BY DEF PayoutInv, PayoutTypes
<1> QED
  BY <1>1, <1>2 DEF PayoutInv, PayoutBooks

LEMMA ApproveStep ==
    ASSUME PayoutInv, Money!PaymentAssumption, NEW c \in Callers, Money!ApproveWrite(c)
    PROVE  PayoutInv'
<1> DEFINE r == calls[c].reward
           old == payouts[r]
           row == [old EXCEPT !.state = "approved", !.approvedBy = calls[c].who]
           reward == [rewards[r] EXCEPT !.state = "approved"]
<1>1. PayoutTypes /\ ApproverStays /\ PayoutBooks /\ PayoutsAsRead
  BY DEF PayoutInv
<1>2. /\ r \in Rewards /\ calls[c].who \in Staff /\ old \in Money!Payout
      /\ rewards[r] \in Money!Reward /\ paid[r] \in 0..MaxPaid
  BY <1>1 DEF PayoutTypes
<1>3. /\ row \in Money!Payout /\ row.state = "approved" /\ row.approvedBy = calls[c].who
      /\ row.initiatedBy = old.initiatedBy /\ row.rejectedBy = old.rejectedBy
  BY <1>2 DEF Money!Payout, Money!PayoutState
<1>4. reward \in Money!Reward /\ reward.high = rewards[r].high
  BY <1>2 DEF Money!Reward, Money!RewardState
<1>5. PayoutWrite(c, row, reward, paid[r])
  BY <1>1, <1>2 DEF PayoutWrite, Money!ApproveWrite, PayoutTypes
<1>6. Money!End(c) /\ stale' = Money!NowStale(c) /\ stale \subseteq stale'
  BY DEF Money!ApproveWrite, Money!NowStale
<1>7. /\ calls[c].row.state = "pending_approval" /\ old.state # "none"
      /\ rewards[r].high => old.initiatedBy # calls[c].who
  BY <1>1 DEF PayoutsAsRead, Money!ApproveWrite, Money!At
<1>8. row.approvedBy # Nobody
  BY <1>2, <1>3 DEF Money!PaymentAssumption
<1>9. r \notin stale' => paid[r] = 0 /\ old.rejectedBy = Nobody
  BY <1>6, <1>7, UnchangedRow
<1> HIDE DEF row, reward
<1> QED
  BY <1>2, <1>3, <1>4, <1>5, <1>6, <1>7, <1>8, <1>9, PayoutWriteStep

LEMMA RejectStep ==
    ASSUME PayoutInv, Money!PaymentAssumption, NEW c \in Callers, Money!RejectWrite(c)
    PROVE  PayoutInv'
<1> DEFINE r == calls[c].reward
           old == payouts[r]
           row == [old EXCEPT !.state = "rejected", !.rejectedBy = calls[c].who]
<1>1. PayoutTypes /\ ApproverStays /\ PayoutBooks /\ PayoutsAsRead /\ Money!TwoPeople
  BY DEF PayoutInv
<1>2. /\ r \in Rewards /\ calls[c].who \in Staff /\ old \in Money!Payout
      /\ rewards[r] \in Money!Reward /\ paid[r] \in 0..MaxPaid
  BY <1>1 DEF PayoutTypes
<1>3. /\ row \in Money!Payout /\ row.state = "rejected"
      /\ row.initiatedBy = old.initiatedBy /\ row.approvedBy = old.approvedBy
  BY <1>2 DEF Money!Payout, Money!PayoutState
<1>4. PayoutWrite(c, row, rewards[r], paid[r])
  BY <1>1, <1>2 DEF PayoutWrite, Money!RejectWrite, PayoutTypes
<1>5. Money!End(c) /\ stale' = Money!NowStale(c) /\ stale \subseteq stale'
  BY DEF Money!RejectWrite, Money!NowStale
<1>6. calls[c].row.state = "pending_approval"
  BY <1>1 DEF PayoutsAsRead, Money!RejectWrite, Money!At
<1>7. r \notin stale' => paid[r] = 0
  BY <1>5, <1>6, UnchangedRow
<1>8. /\ rewards[r].high /\ old.approvedBy # Nobody => old.approvedBy # old.initiatedBy
      /\ paid[r] > 0 => old.approvedBy # Nobody
  BY <1>1, <1>2 DEF Money!TwoPeople, ApproverStays
<1> HIDE DEF row
<1> QED
  BY <1>2, <1>3, <1>4, <1>5, <1>7, <1>8, PayoutWriteStep

LEMMA PayStep ==
    ASSUME PayoutInv, Money!PaymentAssumption, NEW c \in Callers, Money!PayWrite(c)
    PROVE  PayoutInv'
<1> DEFINE r == calls[c].reward
           old == payouts[r]
           row == [old EXCEPT !.state = "paid"]
           reward == [rewards[r] EXCEPT !.state = "paid"]
<1>1. PayoutTypes /\ ApproverStays /\ PayoutBooks /\ PayoutsAsRead /\ Money!TwoPeople
  BY DEF PayoutInv
<1>2. /\ r \in Rewards /\ old \in Money!Payout /\ rewards[r] \in Money!Reward /\ paid[r] \in 0..MaxPaid
  BY <1>1 DEF PayoutTypes
<1>3. /\ row \in Money!Payout /\ row.state = "paid" /\ row.initiatedBy = old.initiatedBy
      /\ row.approvedBy = old.approvedBy /\ row.rejectedBy = old.rejectedBy
  BY <1>2 DEF Money!Payout, Money!PayoutState
<1>4. reward \in Money!Reward /\ reward.high = rewards[r].high /\ reward.state = "paid"
  BY <1>2 DEF Money!Reward, Money!RewardState
<1>5. paid[r] + 1 \in 0..MaxPaid /\ paid[r] + 1 > 0
  BY <1>2 DEF Money!PayWrite, Money!PaymentAssumption
<1>6. PayoutWrite(c, row, reward, paid[r] + 1)
  BY <1>1, <1>2 DEF PayoutWrite, Money!PayWrite, Money!PaidReward, PayoutTypes
<1>7. Money!End(c) /\ stale' = Money!NowStale(c) /\ stale \subseteq stale'
  BY DEF Money!PayWrite, Money!NowStale
<1>8. calls[c].row.state = "approved" /\ old.approvedBy # Nobody
  BY <1>1 DEF PayoutsAsRead, Money!PayWrite, Money!At
<1>9. r \notin stale' => paid[r] = 0 /\ old.rejectedBy = Nobody
  BY <1>7, <1>8, UnchangedRow
<1>10. rewards[r].high => old.approvedBy # old.initiatedBy
  BY <1>1, <1>2, <1>8 DEF Money!TwoPeople
<1> HIDE DEF row, reward
<1> QED
  BY <1>2, <1>3, <1>4, <1>5, <1>6, <1>7, <1>8, <1>9, <1>10, PayoutWriteStep

LEMMA DisputeStep ==
    ASSUME PayoutInv, Money!PaymentAssumption, NEW c \in Callers,
           Money!DisputeEntries(c) \/ \E r \in Rewards: Money!DisputeSession(c, r)
    PROVE  PayoutInv'
<1>1. PayoutTypes
  BY DEF PayoutInv
<1>2. UNCHANGED <<payouts, paid, stale>>
  BY DEF Money!DisputeEntries, Money!DisputeSession
<1>3. ASSUME NEW r \in Rewards, Money!DisputeSession(c, r)
      PROVE  PayoutInv'
  <2> DEFINE call == [Money!NoCall EXCEPT !.step = "dispute", !.reward = r]
  <2>1. call.step = "dispute" /\ call.who \in Staff /\ call.reward = r
    BY NoPayoutCall DEF Money!NoCall
  <2> HIDE DEF call
  <2>2. Money!Hold(c, call)
    BY <1>3 DEF Money!DisputeSession, call
  <2>3. /\ calls' = [d \in Callers |-> calls'[d]] /\ calls'[c] = call
        /\ \A d \in Callers \ {c}: calls'[d] = calls[d]
    BY <1>1, <2>2, HeldCall
  <2>4. rewards' = [rewards EXCEPT ![r].disputed = TRUE]
    BY <1>3 DEF Money!DisputeSession
  <2>5. /\ rewards' \in [Rewards -> Money!Reward]
        /\ \A q \in Rewards: rewards'[q].high = rewards[q].high /\ rewards'[q].state = rewards[q].state
    BY <1>1, <2>4 DEF PayoutTypes, Money!Reward
  <2> QED
    BY <1>2, <2>1, <2>3, <2>5, PayoutQuietStep
<1>4. CASE Money!DisputeEntries(c)
  <2> DEFINE r == calls[c].reward
  <2>1. rewards' = [rewards EXCEPT ![r].state = Money!Withhold(@)] /\ Money!End(c) /\ r \in Rewards
    BY <1>1, <1>4 DEF Money!DisputeEntries, PayoutTypes
  <2>2. /\ rewards[r] \in Money!Reward
        /\ Money!Withhold(rewards[r].state) \in Money!RewardState
        /\ rewards[r].state = "paid" => Money!Withhold(rewards[r].state) = "paid"
    BY <1>1, <2>1 DEF PayoutTypes, Money!Reward, Money!Withhold, Money!RewardState
  <2>3. /\ rewards' \in [Rewards -> Money!Reward]
        /\ \A q \in Rewards: /\ rewards'[q].high = rewards[q].high
                             /\ rewards[q].state = "paid" => rewards'[q].state = "paid"
    BY <1>1, <2>1, <2>2 DEF PayoutTypes, Money!Reward
  <2> QED
    BY <1>1, <1>2, <2>1, <2>3, PayoutEnds, PayoutQuietStep
<1> QED
  BY <1>3, <1>4

LEMMA RefundQuietStep ==
    ASSUME PayoutInv, Money!PaymentAssumption, NEW c \in Callers,
           Money!RefundWrite(c) \/ \E amount \in Amounts: Money!RefundRead(c, amount)
    PROVE  PayoutInv'
<1>1. PayoutTypes
  BY DEF PayoutInv
<1>2. UNCHANGED <<rewards, payouts, paid>> /\ stale \subseteq stale'
  BY DEF Money!RefundWrite, Money!RefundRead
<1>3. ASSUME NEW amount \in Amounts, Money!RefundRead(c, amount)
      PROVE  PayoutInv'
  <2> DEFINE call == [Money!NoCall EXCEPT !.step = "refund", !.total = Money!Refunded, !.amount = amount]
  <2>1. call.step = "refund" /\ call.who \in Staff /\ call.reward \in Rewards
    BY NoPayoutCall DEF Money!NoCall
  <2> HIDE DEF call
  <2>2. Money!Hold(c, call)
    BY <1>3 DEF Money!RefundRead, call
  <2>3. /\ calls' = [d \in Callers |-> calls'[d]] /\ calls'[c] = call
        /\ \A d \in Callers \ {c}: calls'[d] = calls[d]
    BY <1>1, <2>2, HeldCall
  <2> QED
    BY <1>1, <1>2, <2>1, <2>3, PayoutQuietStep DEF PayoutTypes
<1>4. CASE Money!RefundWrite(c)
  <2>1. Money!End(c)
    BY <1>4 DEF Money!RefundWrite
  <2> QED
    BY <1>1, <1>2, <2>1, PayoutEnds, PayoutQuietStep DEF PayoutTypes
<1> QED
  BY <1>3, <1>4

LEMMA PayoutInvHolds ==
    ASSUME Money!PaymentAssumption
    PROVE  Money!Spec => []PayoutInv
<1>1. Money!Init => PayoutInv
  <2> SUFFICES ASSUME Money!Init PROVE PayoutInv
    OBVIOUS
  <2>1. /\ payouts = [r \in Rewards |-> Money!NoPayout] /\ paid = [r \in Rewards |-> 0]
        /\ calls = [c \in Callers |-> Money!NoCall] /\ rewards \in [Rewards -> Money!Reward]
    BY DEF Money!Init
  <2>2. /\ Money!NoPayout \in Money!Payout /\ Money!NoPayout.state = "none"
        /\ Money!NoPayout.approvedBy = Nobody /\ Money!NoPayout.rejectedBy = Nobody
    BY DEF Money!NoPayout, Money!Payout, Money!PayoutState
  <2>3. PayoutTypes
    BY <2>1, <2>2, NoPayoutCall DEF PayoutTypes, Money!PaymentAssumption
  <2>4. PayoutsAsRead
    BY <2>1, NoPayoutCall DEF PayoutsAsRead
  <2>5. Money!TwoPeople /\ ApproverStays /\ PayoutBooks
    BY <2>1, <2>2 DEF Money!TwoPeople, ApproverStays, PayoutBooks
  <2> QED
    BY <2>3, <2>4, <2>5 DEF PayoutInv
<1>2. PayoutInv /\ [Money!Next]_(Money!vars) => PayoutInv'
  <2> SUFFICES ASSUME PayoutInv, [Money!Next]_(Money!vars) PROVE PayoutInv'
    OBVIOUS
  <2>1. CASE UNCHANGED Money!vars
    BY <2>1 DEF Money!vars, PayoutInv, PayoutTypes, PayoutsAsRead, Money!TwoPeople, ApproverStays, PayoutBooks
  <2> QED
    BY <2>1, InitiateStep, ApproveStep, RejectStep, PayStep, DisputeStep, RefundQuietStep, PayoutReadStep
       DEF Money!Next
<1> QED
  BY <1>1, <1>2, PTL DEF Money!Spec

(* However the requests of the finance team overlap, who approved a        *)
(* high-value payout is not who initiated it (checkDualApproval).          *)
THEOREM TwoPeopleCorrect ==
    ASSUME Money!PaymentAssumption
    PROVE  Money!Spec => []Money!TwoPeople
<1>1. PayoutInv => Money!TwoPeople
  BY DEF PayoutInv
<1> QED
  BY <1>1, PayoutInvHolds, PTL

(* And no high-value reward leaves without both of them, even when one     *)
(* decision was written over another (approvePayout, markPaid).            *)
THEOREM PaidTookTwoCorrect ==
    ASSUME Money!PaymentAssumption
    PROVE  Money!Spec => []Money!PaidTookTwo
<1>1. PayoutInv => Money!PaidTookTwo
  BY DEF PayoutInv, ApproverStays, Money!TwoPeople, Money!PaidTookTwo
<1> QED
  BY <1>1, PayoutInvHolds, PTL

(* A payout that nobody wrote over is paid once at most, and reads paid    *)
(* exactly with its transaction and its reward (markPaid).                 *)
THEOREM PaidOnceCorrect ==
    ASSUME Money!PaymentAssumption
    PROVE  Money!Spec => []Money!PaidOnceUnlessStale
<1>1. PayoutInv => Money!PaidOnceUnlessStale
  <2> SUFFICES ASSUME PayoutInv, NEW r \in Rewards \ stale
               PROVE  paid[r] <= 1 /\ (payouts[r].state = "paid" => paid[r] = 1 /\ rewards[r].state = "paid")
    BY DEF Money!PaidOnceUnlessStale
  <2>1. /\ payouts[r].state = "paid" => paid[r] = 1 /\ rewards[r].state = "paid"
        /\ payouts[r].state # "paid" => paid[r] = 0
    BY DEF PayoutInv, PayoutBooks
  <2> QED
    BY <2>1
<1> QED
  BY <1>1, PayoutInvHolds, PTL

(* A payout somebody rejected is not paid, unless a decision was written   *)
(* over another (rejectPayout, markPaid).                                  *)
THEOREM RejectedCorrect ==
    ASSUME Money!PaymentAssumption
    PROVE  Money!Spec => []Money!RejectedIsNotPaidUnlessStale
<1>1. PayoutInv => Money!RejectedIsNotPaidUnlessStale
  BY DEF PayoutInv, PayoutBooks, Money!RejectedIsNotPaidUnlessStale
<1> QED
  BY <1>1, PayoutInvHolds, PTL

(***************************************************************************)
(* Induction over the natural numbers, and sums                            *)
(***************************************************************************)

LEMMA LeastOf ==
    ASSUME NEW T, T \subseteq Nat, T # {}
    PROVE  \E x \in T: \A y \in T: x <= y
<1>1. PICK x \in T: \A y \in T: ~ (<<y, x>> \in OpToRel(<, Nat))
  BY NatLessThanWellFounded, WFMin
<1>2. \A y \in T: ~ (y < x)
  BY <1>1 DEF OpToRel
<1> QED
  BY <1>2

LEMMA SetInduction ==
    ASSUME NEW S, 0 \in S, \A n \in Nat: n \in S => n + 1 \in S
    PROVE  Nat \subseteq S
<1> SUFFICES ASSUME Nat \ S # {} PROVE FALSE
  OBVIOUS
<1>1. PICK x \in Nat \ S: \A y \in Nat \ S: x <= y
  BY LeastOf
<1>2. x # 0 /\ x - 1 \in Nat
  BY <1>1
<1>3. x - 1 \in S
  BY <1>1, <1>2
<1> QED
  BY <1>1, <1>2, <1>3

(* The function Payouts adds its refunds up with, for any g; and a part of *)
(* it up to n.                                                             *)
IsSum(g, f) == f = [n \in Nat |-> IF n = 0 THEN 0 ELSE g[n] + f[n - 1]]
SumUpTo(g)  == CHOOSE f: f = [n \in Nat |-> IF n = 0 THEN 0 ELSE g[n] + f[n - 1]]
IsPart(g, n, f) == f = [i \in 0..n |-> IF i = 0 THEN 0 ELSE g[i] + f[i - 1]]

LEMMA PartsExist ==
    ASSUME NEW g, NEW n \in Nat
    PROVE  \E f: IsPart(g, n, f)
<1> DEFINE S == {m \in Nat: \E f: IsPart(g, m, f)}
<1>1. 0 \in S
  <2>1. IsPart(g, 0, [i \in 0..0 |-> 0])
    BY DEF IsPart
  <2> QED
    BY <2>1
<1>2. ASSUME NEW m \in Nat, m \in S
      PROVE  m + 1 \in S
  <2>1. PICK f: IsPart(g, m, f)
    BY <1>2
  <2> DEFINE h == [i \in 0..(m + 1) |-> IF i = m + 1 THEN g[m + 1] + f[m] ELSE f[i]]
  <2>2. ASSUME NEW i \in 0..(m + 1)
        PROVE  h[i] = IF i = 0 THEN 0 ELSE g[i] + h[i - 1]
    <3>1. CASE i = m + 1
      <4>1. i # 0 /\ i - 1 = m /\ m \in 0..(m + 1) /\ m # m + 1
        BY <3>1
      <4>2. h[i] = g[m + 1] + f[m] /\ h[m] = f[m]
        BY <3>1, <4>1
      <4> QED
        BY <3>1, <4>1, <4>2
    <3>2. CASE i # m + 1
      <4>1. i \in 0..m /\ h[i] = f[i]
        BY <3>2
      <4>2. f[i] = IF i = 0 THEN 0 ELSE g[i] + f[i - 1]
        BY <2>1, <4>1 DEF IsPart
      <4>3. i # 0 => h[i - 1] = f[i - 1]
        BY <4>1
      <4> QED
        BY <4>1, <4>2, <4>3
    <3> QED
      BY <3>1, <3>2
  <2> DEFINE body == [i \in 0..(m + 1) |-> IF i = 0 THEN 0 ELSE g[i] + h[i - 1]]
  <2>3. h = [i \in 0..(m + 1) |-> h[i]]
    OBVIOUS
  <2> HIDE DEF h
  <2>4. h = body
    BY <2>2, <2>3
  <2>5. IsPart(g, m + 1, h)
    BY <2>4 DEF IsPart
  <2> QED
    BY <2>5
<1> HIDE DEF S
<1>3. Nat \subseteq S
  BY <1>1, <1>2, SetInduction
<1> QED
  BY <1>3 DEF S

LEMMA PartsAgree ==
    ASSUME NEW g, NEW n \in Nat, NEW m \in Nat, NEW f, NEW h, IsPart(g, n, f), IsPart(g, m, h),
           NEW i \in Nat, i <= n, i <= m
    PROVE  f[i] = h[i]
<1> DEFINE S == {j \in Nat: j <= n /\ j <= m => f[j] = h[j]}
<1>1. \A j \in 0..n: f[j] = IF j = 0 THEN 0 ELSE g[j] + f[j - 1]
  BY DEF IsPart
<1>2. \A j \in 0..m: h[j] = IF j = 0 THEN 0 ELSE g[j] + h[j - 1]
  BY DEF IsPart
<1>3. 0 \in S
  BY <1>1, <1>2
<1>4. ASSUME NEW j \in Nat, j \in S
      PROVE  j + 1 \in S
  <2> SUFFICES ASSUME j + 1 <= n, j + 1 <= m PROVE f[j + 1] = h[j + 1]
    OBVIOUS
  <2>1. f[j] = h[j] /\ j + 1 # 0 /\ (j + 1) - 1 = j /\ j + 1 \in 0..n /\ j + 1 \in 0..m
    BY <1>4
  <2>2. f[j + 1] = g[j + 1] + f[j] /\ h[j + 1] = g[j + 1] + h[j]
    BY <1>1, <1>2, <2>1
  <2> QED
    BY <2>1, <2>2
<1> HIDE DEF S
<1>5. Nat \subseteq S
  BY <1>3, <1>4, SetInduction
<1> QED
  BY <1>5 DEF S

LEMMA SumUnfolds ==
    ASSUME NEW g, NEW n \in Nat
    PROVE  SumUpTo(g)[n] = IF n = 0 THEN 0 ELSE g[n] + SumUpTo(g)[n - 1]
<1> DEFINE Part(m) == CHOOSE f: IsPart(g, m, f)
           sum == [m \in Nat |-> Part(m)[m]]
<1>1. \A m \in Nat: IsPart(g, m, Part(m))
  BY PartsExist
<1> HIDE DEF Part
<1>2. ASSUME NEW m \in Nat
      PROVE  sum[m] = IF m = 0 THEN 0 ELSE g[m] + sum[m - 1]
  <2>1. Part(m)[m] = IF m = 0 THEN 0 ELSE g[m] + Part(m)[m - 1]
    BY <1>1 DEF IsPart
  <2>2. CASE m = 0
    BY <2>1, <2>2
  <2>3. CASE m # 0
    <3>1. m - 1 \in Nat
      BY <2>3
    <3>2. Part(m)[m - 1] = Part(m - 1)[m - 1]
      BY <1>1, <3>1, PartsAgree
    <3> QED
      BY <2>1, <2>3, <3>1, <3>2
  <2> QED
    BY <2>2, <2>3
<1>3. sum = [m \in Nat |-> sum[m]]
  OBVIOUS
<1> HIDE DEF sum
<1>4. IsSum(g, sum)
  BY <1>2, <1>3 DEF IsSum
<1>5. IsSum(g, SumUpTo(g))
  BY <1>4 DEF IsSum, SumUpTo
<1> QED
  BY <1>5 DEF IsSum

LEMMA SumOfNumbers ==
    ASSUME NEW g, NEW n \in Nat, \A i \in 1..n: g[i] \in Nat
    PROVE  SumUpTo(g)[n] \in Nat
<1> DEFINE S == {j \in Nat: j <= n => SumUpTo(g)[j] \in Nat}
<1>1. 0 \in S
  BY SumUnfolds
<1>2. ASSUME NEW j \in Nat, j \in S
      PROVE  j + 1 \in S
  <2> SUFFICES ASSUME j + 1 <= n PROVE SumUpTo(g)[j + 1] \in Nat
    OBVIOUS
  <2>1. SumUpTo(g)[j] \in Nat /\ g[j + 1] \in Nat /\ j + 1 \in Nat /\ j + 1 # 0 /\ (j + 1) - 1 = j
    BY <1>2
  <2>2. SumUpTo(g)[j + 1] = g[j + 1] + SumUpTo(g)[j]
    BY <2>1, SumUnfolds
  <2> QED
    BY <2>1, <2>2
<1> HIDE DEF S
<1>3. Nat \subseteq S
  BY <1>1, <1>2, SetInduction
<1> QED
  BY <1>3 DEF S

LEMMA SumsAgree ==
    ASSUME NEW g, NEW h, NEW n \in Nat, \A i \in 1..n: g[i] = h[i]
    PROVE  SumUpTo(g)[n] = SumUpTo(h)[n]
<1> DEFINE S == {j \in Nat: j <= n => SumUpTo(g)[j] = SumUpTo(h)[j]}
<1>1. 0 \in S
  BY SumUnfolds
<1>2. ASSUME NEW j \in Nat, j \in S
      PROVE  j + 1 \in S
  <2> SUFFICES ASSUME j + 1 <= n PROVE SumUpTo(g)[j + 1] = SumUpTo(h)[j + 1]
    OBVIOUS
  <2>1. SumUpTo(g)[j] = SumUpTo(h)[j] /\ g[j + 1] = h[j + 1] /\ j + 1 \in Nat
        /\ j + 1 # 0 /\ (j + 1) - 1 = j
    BY <1>2
  <2>2. /\ SumUpTo(g)[j + 1] = g[j + 1] + SumUpTo(g)[j]
        /\ SumUpTo(h)[j + 1] = h[j + 1] + SumUpTo(h)[j]
    BY <2>1, SumUnfolds
  <2> QED
    BY <2>1, <2>2
<1> HIDE DEF S
<1>3. Nat \subseteq S
  BY <1>1, <1>2, SetInduction
<1> QED
  BY <1>3 DEF S

(***************************************************************************)
(* Refunds                                                                 *)
(***************************************************************************)

LEMMA OneSum ==
    ASSUME RefundTypes, NEW n \in Nat, DOMAIN refunds = 1..n
    PROVE  Money!Refunded = SumUpTo(refunds)[n]
<1>1. Money!Cardinality(DOMAIN refunds) = Cardinality(1..n)
  BY DEF Money!Cardinality, Cardinality
<1>2. Money!Total = SumUpTo(refunds)
  BY DEF Money!Total, SumUpTo
<1> QED
  BY <1>1, <1>2, NumberedCardinality DEF Money!Refunded

LEMMA RefundedIsNumber ==
    ASSUME RefundTypes, Money!PaymentAssumption
    PROVE  Money!Refunded \in Nat
<1>1. PICK n \in 0..MaxRefunds: DOMAIN refunds = 1..n
  BY DEF RefundTypes
<1>2. n \in Nat /\ \A i \in 1..n: refunds[i] \in Nat
  BY <1>1 DEF RefundTypes, Money!PaymentAssumption
<1> QED
  BY <1>1, <1>2, OneSum, SumOfNumbers

(* Steps that write no refund: what others read stays true.                *)
LEMMA RefundIdleStep ==
    ASSUME RefundInv, NEW c \in Callers, UNCHANGED <<refunds, payment>>, stale \subseteq stale',
           calls'[c].step = "refund" =>
               /\ calls'[c].amount \in Amounts /\ calls'[c].total \in Nat
               /\ calls'[c].total + calls'[c].amount <= Payment,
           \A d \in Callers \ {c}: calls'[d] = calls[d]
    PROVE  RefundInv'
<1>1. RefundTypes'
  BY DEF RefundInv, RefundTypes
<1>2. RefundsAsRead'
  <2> SUFFICES ASSUME NEW d \in Callers, calls'[d].step = "refund"
               PROVE  /\ calls'[d].amount \in Amounts /\ calls'[d].total \in Nat
                      /\ calls'[d].total + calls'[d].amount <= Payment
    BY DEF RefundsAsRead
  <2>1. CASE d = c
    BY <2>1
  <2>2. CASE d # c
    BY <2>2 DEF RefundInv, RefundsAsRead
  <2> QED
    BY <2>1, <2>2
<1>3. Money!Refunded' = Money!Refunded
  BY DEF Money!Refunded, Money!Total, Money!Cardinality
<1>4. Money!RefundsWithinPaymentUnlessStale' /\ Money!ReversedIsRefundedUnlessStale'
  BY <1>3 DEF RefundInv, Money!RefundsWithinPaymentUnlessStale, Money!ReversedIsRefundedUnlessStale,
              Money!ReversedIsRefunded
<1> QED
  BY <1>1, <1>2, <1>4 DEF RefundInv

LEMMA RefundReadStep ==
    ASSUME PayoutInv, RefundInv, Money!PaymentAssumption, NEW c \in Callers, NEW amount \in Amounts,
           Money!RefundRead(c, amount)
    PROVE  RefundInv'
<1> DEFINE call == [Money!NoCall EXCEPT !.step = "refund", !.total = Money!Refunded, !.amount = amount]
<1>1. call.total = Money!Refunded /\ call.amount = amount
  BY DEF Money!NoCall
<1> HIDE DEF call
<1>2. Money!Hold(c, call) /\ UNCHANGED <<refunds, payment, stale>>
      /\ Money!WithinPayment(Money!Refunded, amount)
  BY DEF Money!RefundRead, call
<1>3. calls'[c] = call /\ \A d \in Callers \ {c}: calls'[d] = calls[d]
  BY <1>2, HeldCall DEF PayoutInv
<1>4. Money!Refunded \in Nat
  BY RefundedIsNumber DEF RefundInv
<1> QED
  BY <1>1, <1>2, <1>3, <1>4, RefundIdleStep DEF Money!WithinPayment

LEMMA RefundWriteStep ==
    ASSUME PayoutInv, RefundInv, Money!PaymentAssumption, NEW c \in Callers, Money!RefundWrite(c)
    PROVE  RefundInv'
<1> DEFINE amount == calls[c].amount
           total  == calls[c].total
<1>1. RefundTypes /\ RefundsAsRead
  BY DEF RefundInv
<1>2. PICK k \in 0..MaxRefunds: DOMAIN refunds = 1..k
  BY <1>1 DEF RefundTypes
<1>3. Money!Cardinality(DOMAIN refunds) = k
  <2>1. Money!Cardinality(DOMAIN refunds) = Cardinality(1..k)
    BY <1>2 DEF Money!Cardinality, Cardinality
  <2> QED
    BY <2>1, NumberedCardinality
<1>4. /\ amount \in Amounts /\ total \in Nat /\ total + amount <= Payment
      /\ amount \in Nat \ {0} /\ Payment \in Nat
  BY <1>1 DEF RefundsAsRead, Money!RefundWrite, Money!At, Money!PaymentAssumption
<1>5. /\ refunds' = [m \in 1..(k + 1) |-> IF m = k + 1 THEN amount ELSE refunds[m]]
      /\ k + 1 \in 0..MaxRefunds
      /\ payment' = IF total + amount = Payment THEN "reversed" ELSE payment
      /\ stale' = IF Money!Refunded # total THEN stale \cup {"payment"} ELSE stale
      /\ Money!End(c)
  BY <1>2, <1>3 DEF Money!RefundWrite, Money!PaymentAssumption
<1> HIDE DEF amount, total
<1>6. RefundTypes'
  <2>1. DOMAIN refunds' = 1..(k + 1)
    BY <1>5
  <2>2. \A m \in 1..(k + 1): refunds'[m] \in Amounts
    BY <1>1, <1>2, <1>4, <1>5 DEF RefundTypes
  <2>3. refunds' \in [DOMAIN refunds' -> Amounts]
    BY <1>5, <2>1, <2>2
  <2>4. payment' \in {"settled", "reversed"}
    BY <1>1, <1>5 DEF RefundTypes
  <2> QED
    BY <1>5, <2>1, <2>3, <2>4 DEF RefundTypes
<1>7. RefundsAsRead'
  <2>1. calls'[c].step = "idle" /\ \A d \in Callers \ {c}: calls'[d] = calls[d]
    BY <1>5, PayoutEnds DEF PayoutInv
  <2> SUFFICES ASSUME NEW d \in Callers, calls'[d].step = "refund"
               PROVE  /\ calls'[d].amount \in Amounts /\ calls'[d].total \in Nat
                      /\ calls'[d].total + calls'[d].amount <= Payment
    BY DEF RefundsAsRead
  <2> QED
    BY <1>1, <2>1 DEF RefundsAsRead
<1>8. Money!Refunded' = Money!Refunded + amount
  <2>1. Money!Refunded = SumUpTo(refunds)[k] /\ k \in Nat /\ Money!Refunded \in Nat
    BY <1>1, <1>2, OneSum, RefundedIsNumber
  <2>2. Money!Refunded' = SumUpTo(refunds')[k + 1]
    <3>1. DOMAIN refunds' = 1..(k + 1)
      BY <1>5
    <3>2. Money!Cardinality(DOMAIN refunds') = Cardinality(1..(k + 1))
      BY <3>1 DEF Money!Cardinality, Cardinality
    <3>3. Money!Total' = SumUpTo(refunds')
      BY DEF Money!Total, SumUpTo
    <3> QED
      BY <3>2, <3>3, NumberedCardinality DEF Money!Refunded, Money!Cardinality
  <2>3. /\ k + 1 \in Nat /\ k + 1 # 0 /\ (k + 1) - 1 = k
        /\ refunds'[k + 1] = amount
        /\ \A i \in 1..k: refunds'[i] = refunds[i]
    BY <1>2, <1>5
  <2>4. SumUpTo(refunds')[k + 1] = refunds'[k + 1] + SumUpTo(refunds')[k]
    BY <2>3, SumUnfolds
  <2>5. SumUpTo(refunds')[k] = SumUpTo(refunds)[k]
    BY <2>1, <2>3, SumsAgree
  <2> QED
    BY <1>4, <2>1, <2>2, <2>3, <2>4, <2>5
<1>9. ASSUME "payment" \notin stale'
      PROVE  Money!Refunded' <= Payment /\ (payment' = "reversed" <=> Money!Refunded' = Payment)
  <2>1. Money!Refunded = total /\ "payment" \notin stale
    BY <1>5, <1>9
  <2>2. payment = "reversed" <=> Money!Refunded = Payment
    BY <2>1 DEF RefundInv, Money!ReversedIsRefundedUnlessStale, Money!ReversedIsRefunded
  <2>3. Money!Refunded' = total + amount /\ total # Payment
    BY <1>4, <1>8, <2>1
  <2> QED
    BY <1>4, <1>5, <2>1, <2>2, <2>3
<1> QED
  BY <1>6, <1>7, <1>9 DEF RefundInv, Money!RefundsWithinPaymentUnlessStale,
     Money!ReversedIsRefundedUnlessStale, Money!ReversedIsRefunded

(* Payouts and disputes leave the refunds alone.                           *)
LEMMA RefundOtherStep ==
    ASSUME PayoutInv, RefundInv, Money!PaymentAssumption, NEW c \in Callers,
           \/ Money!InitiateWrite(c) \/ Money!ApproveWrite(c) \/ Money!RejectWrite(c) \/ Money!PayWrite(c)
           \/ Money!DisputeEntries(c) \/ \E r \in Rewards: Money!DisputeSession(c, r)
           \/ \E s \in Staff, r \in Rewards:
                  \/ Money!InitiateRead(c, s, r) \/ Money!ApproveRead(c, s, r)
                  \/ Money!RejectRead(c, s, r) \/ Money!PayRead(c, s, r)
    PROVE  RefundInv'
<1>1. UNCHANGED <<refunds, payment>> /\ stale \subseteq stale'
  BY DEF Money!InitiateWrite, Money!ApproveWrite, Money!RejectWrite, Money!PayWrite,
     Money!DisputeEntries, Money!DisputeSession, Money!InitiateRead, Money!ApproveRead,
     Money!RejectRead, Money!PayRead, Money!NowStale
<1>2. calls'[c].step # "refund" /\ \A d \in Callers \ {c}: calls'[d] = calls[d]
  <2>1. CASE Money!End(c)
    BY <2>1, PayoutEnds DEF PayoutInv
  <2>2. ASSUME NEW s \in Staff, NEW r \in Rewards, NEW step \in Money!Step \ {"refund"},
               Money!Hold(c, Money!Reading(step, s, r))
        PROVE  calls'[c].step # "refund" /\ \A d \in Callers \ {c}: calls'[d] = calls[d]
    BY <2>2, PayoutReads, HeldCall DEF PayoutInv
  <2>3. ASSUME NEW r \in Rewards, Money!DisputeSession(c, r)
        PROVE  calls'[c].step # "refund" /\ \A d \in Callers \ {c}: calls'[d] = calls[d]
    <3> DEFINE call == [Money!NoCall EXCEPT !.step = "dispute", !.reward = r]
    <3>1. call.step = "dispute"
      BY DEF Money!NoCall
    <3> HIDE DEF call
    <3>2. Money!Hold(c, call)
      BY <2>3 DEF Money!DisputeSession, call
    <3> QED
      BY <3>1, <3>2, HeldCall DEF PayoutInv
  <2>4. CASE \E s \in Staff, r \in Rewards:
                 \/ Money!InitiateRead(c, s, r) \/ Money!ApproveRead(c, s, r)
                 \/ Money!RejectRead(c, s, r) \/ Money!PayRead(c, s, r)
    BY <2>2, <2>4 DEF Money!InitiateRead, Money!ApproveRead, Money!RejectRead, Money!PayRead, Money!Step
  <2> QED
    BY <2>1, <2>3, <2>4 DEF Money!InitiateWrite, Money!ApproveWrite, Money!RejectWrite, Money!PayWrite,
       Money!DisputeEntries
<1> QED
  BY <1>1, <1>2, RefundIdleStep

LEMMA RefundInvHolds ==
    ASSUME Money!PaymentAssumption
    PROVE  Money!Spec => []RefundInv
<1>1. Money!Init => RefundInv
  <2> SUFFICES ASSUME Money!Init PROVE RefundInv
    OBVIOUS
  <2>1. refunds = [n \in {} |-> 0] /\ payment = "settled" /\ calls = [c \in Callers |-> Money!NoCall]
    BY DEF Money!Init
  <2>2. DOMAIN refunds = 1..0 /\ 0 \in 0..MaxRefunds /\ Payment \in Nat \ {0}
    BY <2>1 DEF Money!PaymentAssumption
  <2>3. RefundTypes
    BY <2>1, <2>2 DEF RefundTypes
  <2>4. RefundsAsRead
    BY <2>1, NoPayoutCall DEF RefundsAsRead
  <2>5. Money!Refunded = 0
    BY <2>2, <2>3, OneSum, SumUnfolds
  <2> QED
    BY <2>1, <2>2, <2>3, <2>4, <2>5 DEF RefundInv, Money!RefundsWithinPaymentUnlessStale,
       Money!ReversedIsRefundedUnlessStale, Money!ReversedIsRefunded
<1>2. PayoutInv /\ RefundInv /\ [Money!Next]_(Money!vars) => RefundInv'
  <2> SUFFICES ASSUME PayoutInv, RefundInv, [Money!Next]_(Money!vars) PROVE RefundInv'
    OBVIOUS
  <2>1. CASE UNCHANGED Money!vars
    <3>1. UNCHANGED <<refunds, payment, stale, calls>>
      BY <2>1 DEF Money!vars
    <3>2. Money!Refunded' = Money!Refunded
      BY <3>1 DEF Money!Refunded, Money!Total, Money!Cardinality
    <3> QED
      BY <3>1, <3>2 DEF RefundInv, RefundTypes, RefundsAsRead, Money!RefundsWithinPaymentUnlessStale,
         Money!ReversedIsRefundedUnlessStale, Money!ReversedIsRefunded
  <2> QED
    BY <2>1, RefundReadStep, RefundWriteStep, RefundOtherStep DEF Money!Next
<1> QED
  BY <1>1, <1>2, PayoutInvHolds, PTL DEF Money!Spec

(* Refunds never exceed the payment, unless one was written after another  *)
(* had changed the total it read (FinanceConsoleService.refund).           *)
THEOREM RefundsCorrect ==
    ASSUME Money!PaymentAssumption
    PROVE  Money!Spec => []Money!RefundsWithinPaymentUnlessStale
<1>1. RefundInv => Money!RefundsWithinPaymentUnlessStale
  BY DEF RefundInv
<1> QED
  BY <1>1, RefundInvHolds, PTL

(* A payment reads reversed exactly when all of it was refunded, under the *)
(* same condition (FinanceConsoleService.refund).                          *)
THEOREM ReversedCorrect ==
    ASSUME Money!PaymentAssumption
    PROVE  Money!Spec => []Money!ReversedIsRefundedUnlessStale
<1>1. RefundInv => Money!ReversedIsRefundedUnlessStale
  BY DEF RefundInv
<1> QED
  BY <1>1, RefundInvHolds, PTL

(***************************************************************************)
(* Offers                                                                  *)
(***************************************************************************)

LEMMA NoOfferCall ==
    ASSUME Offers!OffersAssumption
    PROVE  /\ Offers!NoCall \in Offers!Call /\ Offers!NoCall.step = "idle"
           /\ Offers!NoCall.todo = {}
<1>1. Offers!AnyApplication \in Applications
  BY DEF Offers!AnyApplication, Offers!OffersAssumption
<1> QED
  BY <1>1 DEF Offers!NoCall, Offers!IdleCall, Offers!Call, Offers!Step, Offers!AttachmentState

LEMMA OneHeldOffer ==
    ASSUME OfferTypes, NEW c \in Callers, NEW call \in Offers!Call, calls' = [calls EXCEPT ![c] = call]
    PROVE  /\ calls' \in [Callers -> Offers!Call] /\ calls'[c] = call
           /\ \A d \in Callers \ {c}: calls'[d] = calls[d]
BY DEF OfferTypes, Offers!TypeOK

(* A row keeps its window, and an award that counts as held in time was so *)
(* before, unless it is of a version that has not lapsed.                  *)
RowsStay == \A v \in DOMAIN versions: v \in DOMAIN versions' /\ versions'[v].until = versions[v].until
HoldersStay ==
    \A a \in Applications: attachments'[a].state \in Offers!Held /\ ~attachments'[a].late =>
        \/ /\ attachments[a].state \in Offers!Held /\ ~attachments[a].late
           /\ attachments[a].version = attachments'[a].version
        \/ ~(versions'[attachments'[a].version].until <= now')

LEMMA OneReadStays ==
    ASSUME NEW call, AsRead(call, versions, attachments, told, now), OfferTypes, RowsStay, HoldersStay,
           told \subseteq told', now <= now', now' \in Nat, Offers!OffersAssumption
    PROVE  AsRead(call, versions', attachments', told', now')
<1>1. \A v \in DOMAIN versions: versions[v].until \in Nat /\ now \in Nat
  BY DEF OfferTypes, Offers!TypeOK, Offers!Row, Offers!Time, Offers!OffersAssumption
<1>2. \A v \in DOMAIN versions: versions[v].until <= now => versions'[v].until <= now'
  BY <1>1 DEF RowsStay
<1>3. call.step \in OnVersion => call.version \in DOMAIN versions
  BY DEF AsRead
<1>4. /\ call.step \in OnVersion => call.version \in DOMAIN versions'
      /\ call.step = "verify_write" => call.to \in {"verified", "unverified"}
      /\ call.step = "move_write" =>
             /\ Offers!CanTransitionAttachment(call.seen, call.to)
             /\ call.to \in {"accepted", "declined", "realised"}
      /\ call.step = "sweep_pull" => call.todo # {}
      /\ \A v \in call.todo: v \in DOMAIN versions' /\ versions'[v].until <= now'
  BY <1>2, <1>3 DEF AsRead, RowsStay
<1>5. call.step \in {"sweep_notify", "sweep_expire"} => versions'[call.version].until <= now'
  BY <1>2, <1>3 DEF AsRead, OnVersion
<1>6. ASSUME call.step = "sweep_expire", NEW a \in Applications,
             attachments'[a].version = call.version, attachments'[a].state \in Offers!Held,
             ~attachments'[a].late
      PROVE  <<a, call.version>> \in told'
  <2>1. /\ attachments[a].state \in Offers!Held /\ ~attachments[a].late
        /\ attachments[a].version = call.version
    BY <1>5, <1>6 DEF HoldersStay
  <2> QED
    BY <1>6, <2>1 DEF AsRead
<1> QED
  BY <1>4, <1>5, <1>6 DEF AsRead

LEMMA OffersReadStay ==
    ASSUME OfferTypes, OffersAsRead, Offers!OffersAssumption, RowsStay, HoldersStay,
           told \subseteq told', now <= now', now' \in Nat, NEW c \in Callers,
           AsRead(calls'[c], versions', attachments', told', now'),
           \A d \in Callers \ {c}: calls'[d] = calls[d]
    PROVE  OffersAsRead'
<1> SUFFICES ASSUME NEW d \in Callers PROVE AsRead(calls'[d], versions', attachments', told', now')
  BY DEF OffersAsRead
<1>1. CASE d = c
  BY <1>1
<1>2. CASE d # c
  <2>1. AsRead(calls[d], versions, attachments, told, now)
    BY DEF OffersAsRead
  <2>2. AsRead(calls[d], versions', attachments', told', now')
    BY <2>1, OneReadStays
  <2> QED
    BY <1>2, <2>2
<1> QED
  BY <1>1, <1>2

(* A version that is settled stays so: who holds it was late.              *)
LEMMA SettledStays ==
    ASSUME Offers!ExpiredIsSettled, ExpiredHasLapsed', HoldersStay, died' = {} => died = {},
           \A v \in DOMAIN versions': versions'[v].publication = "expired" /\ ~Offers!OnSweep(v)' =>
               \/ v \in DOMAIN versions /\ versions[v].publication = "expired" /\ ~Offers!OnSweep(v)
               \/ \A a \in Applications:
                      attachments'[a].version = v => attachments'[a].state \notin Offers!Held
    PROVE  Offers!ExpiredIsSettled'
<1> SUFFICES ASSUME died' = {}, NEW v \in DOMAIN versions', versions'[v].publication = "expired",
                    ~Offers!OnSweep(v)', NEW a \in Applications, attachments'[a].version = v,
                    attachments'[a].state \in Offers!Held, ~attachments'[a].late
             PROVE  FALSE
  BY DEF Offers!ExpiredIsSettled, Offers!Holders
<1>1. /\ died = {} /\ v \in DOMAIN versions /\ versions[v].publication = "expired"
      /\ ~Offers!OnSweep(v)
  OBVIOUS
<1>2. versions'[v].until <= now'
  BY DEF ExpiredHasLapsed
<1>3. attachments[a].state \in Offers!Held /\ ~attachments[a].late /\ attachments[a].version = v
  BY <1>2 DEF HoldersStay
<1> QED
  BY <1>1, <1>3 DEF Offers!ExpiredIsSettled, Offers!Holders

LEMMA SweepsGoOn ==
    ASSUME NEW c \in Callers, calls[c].step \notin {"sweep_notify", "sweep_expire"},
           \A d \in Callers \ {c}: calls'[d] = calls[d], NEW v, Offers!OnSweep(v)
    PROVE  Offers!OnSweep(v)'
BY DEF Offers!OnSweep, Offers!V

(* Nothing but the call changes when a handler reads.                      *)
LEMMA OfferQuietStep ==
    ASSUME OfferInv, Offers!OffersAssumption, NEW c \in Callers, NEW call \in Offers!Call,
           calls' = [calls EXCEPT ![c] = call], AsRead(call, versions, attachments, told, now),
           calls[c].step \notin {"sweep_notify", "sweep_expire"},
           UNCHANGED <<versions, attachments, told, now, mix, signed, died>>,
           disputed' \subseteq DOMAIN versions
    PROVE  OfferInv'
<1>1. /\ OfferTypes /\ OffersAsRead /\ VerifiedIsSigned /\ ExpiredHasLapsed
      /\ Offers!OneCurrentVersion /\ Offers!PublishedIsSigned
      /\ Offers!ExpiredIsSettled /\ Offers!ExpiredWasTold
  BY DEF OfferInv
<1>2. /\ calls' \in [Callers -> Offers!Call] /\ calls'[c] = call
      /\ \A d \in Callers \ {c}: calls'[d] = calls[d]
  BY <1>1, OneHeldOffer
<1>3. OfferTypes' /\ VerifiedIsSigned' /\ ExpiredHasLapsed'
  BY <1>1, <1>2 DEF OfferTypes, Offers!TypeOK, VerifiedIsSigned, ExpiredHasLapsed
<1>4. Offers!OneCurrentVersion' /\ Offers!PublishedIsSigned' /\ Offers!ExpiredWasTold'
  BY <1>1 DEF Offers!OneCurrentVersion, Offers!Current, Offers!PublishedIsSigned, Offers!ExpiredWasTold
<1>5. RowsStay /\ HoldersStay /\ now \in Nat
  BY <1>1 DEF RowsStay, HoldersStay, OfferTypes, Offers!TypeOK, Offers!Time
<1>6. OffersAsRead'
  BY <1>1, <1>2, <1>5, OffersReadStay
<1>7. Offers!ExpiredIsSettled'
  BY <1>1, <1>2, <1>3, <1>5, SettledStays, SweepsGoOn
<1> QED
  BY <1>3, <1>4, <1>6, <1>7 DEF OfferInv

LEMMA NoCallReads ==
    ASSUME Offers!OffersAssumption
    PROVE  AsRead(Offers!NoCall, versions, attachments, told, now)
BY NoOfferCall DEF AsRead, OnVersion

(* A write of one row that keeps its window, its fields and its openness.  *)
LEMMA RowWriteStep ==
    ASSUME OfferInv, Offers!OffersAssumption, NEW c \in Callers, NEW call \in Offers!Call,
           calls' = [calls EXCEPT ![c] = call], AsRead(call, versions, attachments, told, now),
           calls[c].step \notin {"sweep_notify", "sweep_expire"},
           UNCHANGED <<attachments, told, now, mix, died>>, disputed' \subseteq DOMAIN versions,
           NEW v \in DOMAIN versions, NEW row \in Offers!Row, versions' = [versions EXCEPT ![v] = row],
           row.until = versions[v].until, row.open = versions[v].open,
           row.complete = versions[v].complete,
           signed' \subseteq DOMAIN versions, \A w \in signed: w # v => w \in signed',
           row.verification = "verified" => v \in signed',
           row.publication = "published" => v \in signed' /\ row.complete,
           row.publication = "expired" =>
               /\ row.until <= now
               /\ \/ versions[v].publication = "expired"
                  \/ call.step = "sweep_notify" /\ call.version = v
    PROVE  OfferInv'
<1>1. /\ OfferTypes /\ OffersAsRead /\ VerifiedIsSigned /\ ExpiredHasLapsed
      /\ Offers!OneCurrentVersion /\ Offers!PublishedIsSigned
      /\ Offers!ExpiredIsSettled /\ Offers!ExpiredWasTold
  BY DEF OfferInv
<1>2. /\ calls' \in [Callers -> Offers!Call] /\ calls'[c] = call
      /\ \A d \in Callers \ {c}: calls'[d] = calls[d]
  BY <1>1, OneHeldOffer
<1>3. /\ DOMAIN versions' = DOMAIN versions /\ versions'[v] = row
      /\ \A w \in DOMAIN versions: w # v => versions'[w] = versions[w]
      /\ versions' \in [DOMAIN versions' -> Offers!Row]
  BY <1>1 DEF OfferTypes, Offers!TypeOK
<1>4. OfferTypes'
  BY <1>1, <1>2, <1>3 DEF OfferTypes, Offers!TypeOK
<1>5. VerifiedIsSigned' /\ ExpiredHasLapsed'
  BY <1>1, <1>3 DEF VerifiedIsSigned, ExpiredHasLapsed
<1>6. Offers!OneCurrentVersion'
  BY <1>1, <1>3 DEF Offers!OneCurrentVersion, Offers!Current
<1>7. Offers!PublishedIsSigned'
  BY <1>1, <1>3 DEF Offers!PublishedIsSigned
<1>8. Offers!ExpiredWasTold'
  BY <1>1 DEF Offers!ExpiredWasTold
<1>9. RowsStay /\ HoldersStay /\ told \subseteq told' /\ now <= now' /\ now' \in Nat
  BY <1>1, <1>3 DEF RowsStay, HoldersStay, OfferTypes, Offers!TypeOK, Offers!Time
<1>10. OffersAsRead'
  <2>1. AsRead(call, versions', attachments', told', now')
    BY <1>1, <1>9, OneReadStays
  <2> QED
    BY <1>1, <1>2, <1>9, <2>1, OffersReadStay
<1>11. Offers!ExpiredIsSettled'
  <2> SUFFICES ASSUME NEW w \in DOMAIN versions', versions'[w].publication = "expired",
                      ~Offers!OnSweep(w)'
               PROVE  /\ w \in DOMAIN versions /\ versions[w].publication = "expired"
                      /\ ~Offers!OnSweep(w)
    BY <1>1, <1>5, <1>9, SettledStays
  <2>1. ~Offers!OnSweep(w)
    BY <1>2, SweepsGoOn
  <2>2. ~(call.step = "sweep_notify" /\ call.version = w)
    BY <1>2 DEF Offers!OnSweep, Offers!V
  <2> QED
    BY <1>3, <2>1, <2>2
<1> QED
  BY <1>4, <1>5, <1>6, <1>7, <1>8, <1>10, <1>11 DEF OfferInv

(* A call that holds its version reads it; and it stays when the call ends.*)
LEMMA OnItsVersion ==
    ASSUME OfferInv, NEW c \in Callers, calls[c].step \in OnVersion
    PROVE  /\ Offers!V(c) \in DOMAIN versions /\ versions[Offers!V(c)] \in Offers!Row
           /\ Offers!V(c) \in Offers!Version
BY DEF OfferInv, OffersAsRead, AsRead, OfferTypes, Offers!TypeOK, Offers!V

LEMMA VerifyWriteStep ==
    ASSUME OfferInv, Offers!OffersAssumption, NEW c \in Callers, Offers!VerifyWrite(c)
    PROVE  OfferInv'
<1> DEFINE v == Offers!V(c)
           yes == calls[c].to = "verified"
           row == [versions[v] EXCEPT !.verification = calls[c].to,
                                      !.publication = IF yes THEN "in_review" ELSE "draft"]
<1>1. calls[c].step = "verify_write" /\ calls[c].to \in {"verified", "unverified"}
  BY DEF Offers!VerifyWrite, Offers!At, OfferInv, OffersAsRead, AsRead
<1>2. v \in DOMAIN versions /\ versions[v] \in Offers!Row
  BY <1>1, OnItsVersion DEF OnVersion
<1>3. /\ row \in Offers!Row /\ row.verification = calls[c].to
      /\ row.publication \in {"in_review", "draft"}
      /\ row.until = versions[v].until /\ row.open = versions[v].open
      /\ row.complete = versions[v].complete
  <2>1. CASE yes
    BY <1>2, <2>1 DEF Offers!Row, Offers!Publication, Offers!Verification
  <2>2. CASE ~yes
    BY <1>1, <1>2, <2>2 DEF Offers!Row, Offers!Publication, Offers!Verification
  <2> QED
    BY <2>1, <2>2
<1>4. versions' = [versions EXCEPT ![v] = row]
  BY <1>2 DEF Offers!VerifyWrite
<1> HIDE DEF row
<1>5. /\ calls' = [calls EXCEPT ![c] = Offers!NoCall] /\ UNCHANGED <<attachments, told, now, mix, died>>
      /\ signed' = IF yes THEN signed \cup {v} ELSE signed \ {v}
      /\ disputed' = IF yes THEN disputed \ {v} ELSE disputed
  BY DEF Offers!VerifyWrite, Offers!End
<1>6. signed \subseteq DOMAIN versions /\ disputed \subseteq DOMAIN versions
  BY DEF OfferInv, OfferTypes, Offers!TypeOK
<1>7. signed' \subseteq DOMAIN versions /\ disputed' \subseteq DOMAIN versions
  BY <1>2, <1>5, <1>6
<1> QED
  BY <1>1, <1>2, <1>3, <1>4, <1>5, <1>7, NoOfferCall, NoCallReads, RowWriteStep

LEMMA PublishWriteStep ==
    ASSUME OfferInv, Offers!OffersAssumption, NEW c \in Callers, Offers!PublishWrite(c)
    PROVE  OfferInv'
<1> DEFINE v == Offers!V(c)
           row == [versions[v] EXCEPT !.publication = "published"]
<1>1. /\ calls[c].step = "publish_write" /\ calls' = [calls EXCEPT ![c] = Offers!NoCall]
      /\ UNCHANGED <<attachments, told, now, mix, signed, disputed, died>>
  BY DEF Offers!PublishWrite, Offers!At, Offers!End
<1>2. v \in DOMAIN versions /\ versions[v] \in Offers!Row
  BY <1>1, OnItsVersion DEF OnVersion
<1>3. signed \subseteq DOMAIN versions /\ disputed \subseteq DOMAIN versions
  BY DEF OfferInv, OfferTypes, Offers!TypeOK
<1>4. CASE ~Offers!Publishable(versions[v])
  <2>1. versions' = versions
    BY <1>4 DEF Offers!PublishWrite
  <2> QED
    BY <1>1, <1>3, <2>1, NoOfferCall, NoCallReads, OfferQuietStep
<1>5. CASE Offers!Publishable(versions[v])
  <2>1. /\ row \in Offers!Row /\ row.verification = versions[v].verification
        /\ row.publication = "published" /\ row.until = versions[v].until
        /\ row.open = versions[v].open /\ row.complete = versions[v].complete
    BY <1>2 DEF Offers!Row, Offers!Publication
  <2>2. versions' = [versions EXCEPT ![v] = row]
    BY <1>5 DEF Offers!PublishWrite
  <2>3. v \in signed /\ versions[v].complete
    BY <1>2, <1>5 DEF Offers!Publishable, OfferInv, VerifiedIsSigned
  <2> HIDE DEF row
  <2> QED
    BY <1>1, <1>2, <1>3, <2>1, <2>2, <2>3, NoOfferCall, NoCallReads, RowWriteStep
<1> QED
  BY <1>4, <1>5

(* Pulling a version, as an editor, a check or the sweep does.             *)
LEMMA PullStep ==
    ASSUME OfferInv, Offers!OffersAssumption, NEW c \in Callers, NEW call \in Offers!Call,
           calls' = [calls EXCEPT ![c] = call], AsRead(call, versions, attachments, told, now),
           calls[c].step \notin {"sweep_notify", "sweep_expire"},
           UNCHANGED <<attachments, told, now, mix, signed, disputed, died>>,
           NEW v \in DOMAIN versions, NEW to \in {"unpublished", "expired"}, Offers!Pull(v, to),
           to = "expired" /\ versions[v].publication = "published" =>
               versions[v].until <= now /\ call.step = "sweep_notify" /\ call.version = v
    PROVE  OfferInv'
<1> DEFINE old == versions[v]
           row == [old EXCEPT !.publication = IF old.publication = "published" THEN to ELSE old.publication]
<1>1. old \in Offers!Row /\ signed \subseteq DOMAIN versions /\ disputed \subseteq DOMAIN versions
  BY DEF OfferInv, OfferTypes, Offers!TypeOK
<1>2. old.publication \in Offers!Publication /\ to \in Offers!Publication
  BY <1>1 DEF Offers!Row, Offers!Publication
<1>3. /\ row \in Offers!Row /\ row.verification = old.verification /\ row.until = old.until
      /\ row.open = old.open /\ row.complete = old.complete
      /\ row.publication = IF old.publication = "published" THEN to ELSE old.publication
  <2>1. CASE old.publication = "published"
    BY <1>1, <1>2, <2>1 DEF Offers!Row
  <2>2. CASE old.publication # "published"
    BY <1>1, <1>2, <2>2 DEF Offers!Row
  <2> QED
    BY <2>1, <2>2
<1>4. versions' = [versions EXCEPT ![v] = row]
  BY DEF Offers!Pull
<1> HIDE DEF row
<1>5. row.publication # "published"
  BY <1>3
<1>6. row.verification = "verified" => v \in signed
  BY <1>3 DEF OfferInv, VerifiedIsSigned
<1>7. row.publication = "expired" =>
          /\ row.until <= now
          /\ old.publication = "expired" \/ (call.step = "sweep_notify" /\ call.version = v)
  BY <1>3 DEF OfferInv, ExpiredHasLapsed
<1> QED
  BY <1>1, <1>3, <1>4, <1>5, <1>6, <1>7, RowWriteStep

LEMMA PullingStep ==
    ASSUME OfferInv, Offers!OffersAssumption, NEW c \in Callers,
           Offers!UnpublishWrite(c) \/ Offers!CheckPull(c)
    PROVE  OfferInv'
<1>1. calls[c] \in Offers!Call /\ AsRead(calls[c], versions, attachments, told, now)
  BY DEF OfferInv, OfferTypes, Offers!TypeOK, OffersAsRead
<1>2. CASE Offers!UnpublishWrite(c)
  <2>1. /\ calls[c].step = "unpublish_write" /\ calls' = [calls EXCEPT ![c] = Offers!NoCall]
        /\ UNCHANGED <<attachments, told, now, mix, signed, disputed, died>>
        /\ Offers!Pull(Offers!V(c), "unpublished")
    BY <1>2 DEF Offers!UnpublishWrite, Offers!At, Offers!End
  <2>2. Offers!V(c) \in DOMAIN versions
    BY <2>1, OnItsVersion DEF OnVersion
  <2> QED
    BY <2>1, <2>2, NoOfferCall, NoCallReads, PullStep
<1>3. CASE Offers!CheckPull(c)
  <2> DEFINE call == [calls[c] EXCEPT !.step = "check_case"]
  <2>1. /\ calls[c].step = "check_pull" /\ calls' = [calls EXCEPT ![c] = call]
        /\ UNCHANGED <<attachments, told, now, mix, signed, disputed, died>>
        /\ Offers!Pull(Offers!V(c), "unpublished")
    BY <1>3 DEF Offers!CheckPull, Offers!At, Offers!Goto
  <2>2. Offers!V(c) \in DOMAIN versions
    BY <2>1, OnItsVersion DEF OnVersion
  <2>3. /\ call \in Offers!Call /\ call.step = "check_case" /\ call.version = calls[c].version
        /\ call.todo = calls[c].todo
    BY <1>1 DEF Offers!Call, Offers!Step
  <2> HIDE DEF call
  <2>4. AsRead(call, versions, attachments, told, now)
    BY <1>1, <2>1, <2>3 DEF AsRead, OnVersion
  <2> QED
    BY <2>1, <2>2, <2>3, <2>4, PullStep
<1> QED
  BY <1>2, <1>3

LEMMA CheckCaseStep ==
    ASSUME OfferInv, Offers!OffersAssumption, NEW c \in Callers, Offers!CheckCase(c)
    PROVE  OfferInv'
<1> DEFINE call == [calls[c] EXCEPT !.step = "check_revoke"]
<1>1. calls[c] \in Offers!Call /\ AsRead(calls[c], versions, attachments, told, now)
      /\ disputed \subseteq DOMAIN versions
  BY DEF OfferInv, OfferTypes, Offers!TypeOK, OffersAsRead
<1>2. /\ calls[c].step = "check_case" /\ calls' = [calls EXCEPT ![c] = call]
      /\ UNCHANGED <<versions, attachments, told, now, mix, signed, died>>
      /\ disputed' = disputed \cup {Offers!V(c)}
  BY DEF Offers!CheckCase, Offers!At, Offers!Goto
<1>3. Offers!V(c) \in DOMAIN versions
  BY <1>2, OnItsVersion DEF OnVersion
<1>4. /\ call \in Offers!Call /\ call.step = "check_revoke" /\ call.version = calls[c].version
      /\ call.todo = calls[c].todo
  BY <1>1 DEF Offers!Call, Offers!Step
<1> HIDE DEF call
<1>5. AsRead(call, versions, attachments, told, now)
  BY <1>1, <1>2, <1>4 DEF AsRead, OnVersion
<1>6. disputed' \subseteq DOMAIN versions
  BY <1>1, <1>2, <1>3
<1> QED
  BY <1>2, <1>4, <1>5, <1>6, OfferQuietStep

LEMMA CheckRevokeStep ==
    ASSUME OfferInv, Offers!OffersAssumption, NEW c \in Callers, Offers!CheckRevoke(c)
    PROVE  OfferInv'
<1> DEFINE v == Offers!V(c)
           old == versions[v]
           row == [old EXCEPT !.verification = "revoked"]
<1>1. /\ calls[c].step = "check_revoke" /\ calls' = [calls EXCEPT ![c] = Offers!NoCall]
      /\ UNCHANGED <<attachments, told, now, mix, disputed, died>>
  BY DEF Offers!CheckRevoke, Offers!At, Offers!End
<1>2. v \in DOMAIN versions /\ old \in Offers!Row
  BY <1>1, OnItsVersion DEF OnVersion
<1>3. signed \subseteq DOMAIN versions /\ disputed \subseteq DOMAIN versions
  BY DEF OfferInv, OfferTypes, Offers!TypeOK
<1>4. /\ row \in Offers!Row /\ row.verification = "revoked" /\ row.publication = old.publication
      /\ row.until = old.until /\ row.open = old.open /\ row.complete = old.complete
  BY <1>2 DEF Offers!Row, Offers!Verification
<1>5. CASE row.publication = "published" /\ ~Offers!Publishable(row)
  <2>1. UNCHANGED <<versions, signed>>
    BY <1>5 DEF Offers!CheckRevoke
  <2> QED
    BY <1>1, <1>3, <2>1, NoOfferCall, NoCallReads, OfferQuietStep
<1>6. CASE ~(row.publication = "published" /\ ~Offers!Publishable(row))
  <2>1. versions' = [versions EXCEPT ![v] = row] /\ signed' = signed \ {v}
    BY <1>6 DEF Offers!CheckRevoke
  <2>2. row.publication # "published"
    BY <1>4, <1>6 DEF Offers!Publishable
  <2>3. row.publication = "expired" => row.until <= now
    BY <1>2, <1>4 DEF OfferInv, ExpiredHasLapsed
  <2> HIDE DEF row
  <2> QED
    BY <1>1, <1>2, <1>3, <1>4, <2>1, <2>2, <2>3, NoOfferCall, NoCallReads, RowWriteStep
<1> QED
  BY <1>5, <1>6

(* What the sweep does next reads versions that lapsed.                    *)
LEMMA SweptOn ==
    ASSUME OfferInv, Offers!OffersAssumption, NEW c \in Callers, NEW todo \in SUBSET DOMAIN versions,
           \A v \in todo: versions[v].until <= now, Offers!SweepOn(c, todo)
    PROVE  \E call \in Offers!Call:
               /\ calls' = [calls EXCEPT ![c] = call]
               /\ AsRead(call, versions, attachments, told, now)
               /\ call.step \in {"idle", "sweep_pull"}
<1>1. CASE todo = {}
  <2>1. calls' = [calls EXCEPT ![c] = Offers!NoCall]
    BY <1>1 DEF Offers!SweepOn
  <2> QED
    BY <2>1, NoOfferCall, NoCallReads
<1>2. CASE todo # {}
  <2> DEFINE call == [Offers!NoCall EXCEPT !.step = "sweep_pull", !.todo = todo]
  <2>1. calls' = [calls EXCEPT ![c] = call]
    BY <1>2 DEF Offers!SweepOn
  <2>2. todo \in SUBSET Offers!Version
    BY DEF OfferInv, OfferTypes, Offers!TypeOK
  <2>3. call \in Offers!Call /\ call.step = "sweep_pull" /\ call.todo = todo
    BY <2>2, NoOfferCall DEF Offers!Call, Offers!Step
  <2> HIDE DEF call
  <2>4. AsRead(call, versions, attachments, told, now)
    BY <1>2, <2>3 DEF AsRead, OnVersion
  <2> QED
    BY <2>1, <2>3, <2>4
<1> QED
  BY <1>1, <1>2

LEMMA SweepPullStep ==
    ASSUME OfferInv, Offers!OffersAssumption, NEW c \in Callers, Offers!SweepPull(c)
    PROVE  OfferInv'
<1> DEFINE todo == calls[c].todo
           v == Offers!Min(todo)
<1>1. calls[c] \in Offers!Call /\ AsRead(calls[c], versions, attachments, told, now)
  BY DEF OfferInv, OfferTypes, Offers!TypeOK, OffersAsRead
<1>2. /\ calls[c].step = "sweep_pull" /\ Offers!Pull(v, "expired")
      /\ UNCHANGED <<attachments, told, now, mix, signed, disputed, died>>
  BY DEF Offers!SweepPull, Offers!At
<1>3. /\ todo # {} /\ \A w \in todo: w \in DOMAIN versions /\ versions[w].until <= now
      /\ todo \subseteq Offers!Version
  BY <1>1, <1>2 DEF AsRead, Offers!Call
<1>4. v \in todo
  <2>1. todo \subseteq Nat
    BY <1>3 DEF Offers!Version, Offers!OffersAssumption
  <2>2. \E x \in todo: \A y \in todo: x <= y
    BY <1>3, <2>1, LeastOf
  <2> QED
    BY <2>2 DEF Offers!Min
<1> HIDE DEF v
<1>5. CASE versions[v].publication = "published"
  <2> DEFINE call == [calls[c] EXCEPT !.step = "sweep_notify", !.version = v]
  <2>1. calls' = [calls EXCEPT ![c] = call]
    BY <1>5 DEF Offers!SweepPull, v
  <2>2. call \in Offers!Call /\ call.step = "sweep_notify" /\ call.version = v /\ call.todo = todo
    BY <1>1, <1>3, <1>4 DEF Offers!Call, Offers!Step
  <2> HIDE DEF call
  <2>3. AsRead(call, versions, attachments, told, now)
    BY <1>3, <1>4, <2>2 DEF AsRead, OnVersion
  <2> QED
    BY <1>2, <1>3, <1>4, <2>1, <2>2, <2>3, PullStep
<1>6. CASE versions[v].publication # "published"
  <2>1. Offers!SweepOn(c, todo \ {v})
    BY <1>6 DEF Offers!SweepPull, v
  <2>2. todo \ {v} \in SUBSET DOMAIN versions /\ \A w \in todo \ {v}: versions[w].until <= now
    BY <1>3
  <2>3. PICK call \in Offers!Call:
            /\ calls' = [calls EXCEPT ![c] = call]
            /\ AsRead(call, versions, attachments, told, now)
    BY <2>1, <2>2, SweptOn
  <2> QED
    BY <1>2, <1>3, <1>4, <1>6, <2>3, PullStep
<1> QED
  BY <1>5, <1>6

(* A step that moves awards or tells who holds them.                       *)
LEMMA AwardStep ==
    ASSUME OfferInv, Offers!OffersAssumption, NEW c \in Callers, NEW call \in Offers!Call,
           calls' = [calls EXCEPT ![c] = call], AsRead(call, versions, attachments', told', now),
           UNCHANGED <<versions, now, mix, signed, disputed, died>>,
           attachments' \in [Applications -> Offers!Attachment],
           told \subseteq told', told' \subseteq Applications \X Offers!Version, HoldersStay,
           \A v: Offers!OnSweep(v) =>
               \/ Offers!OnSweep(v)'
               \/ \A a \in Applications:
                      attachments'[a].version = v => attachments'[a].state \notin Offers!Held,
           \A a \in Applications: attachments'[a].state = "expired" /\ ~attachments'[a].late =>
               \/ attachments'[a] = attachments[a]
               \/ <<a, attachments'[a].version>> \in told'
    PROVE  OfferInv'
<1>1. /\ OfferTypes /\ OffersAsRead /\ VerifiedIsSigned /\ ExpiredHasLapsed
      /\ Offers!OneCurrentVersion /\ Offers!PublishedIsSigned
      /\ Offers!ExpiredIsSettled /\ Offers!ExpiredWasTold
  BY DEF OfferInv
<1>2. /\ calls' \in [Callers -> Offers!Call] /\ calls'[c] = call
      /\ \A d \in Callers \ {c}: calls'[d] = calls[d]
  BY <1>1, OneHeldOffer
<1>3. OfferTypes' /\ VerifiedIsSigned' /\ ExpiredHasLapsed'
  BY <1>1, <1>2 DEF OfferTypes, Offers!TypeOK, VerifiedIsSigned, ExpiredHasLapsed
<1>4. Offers!OneCurrentVersion' /\ Offers!PublishedIsSigned'
  BY <1>1 DEF Offers!OneCurrentVersion, Offers!Current, Offers!PublishedIsSigned
<1>5. RowsStay /\ now <= now' /\ now' \in Nat
  BY <1>1 DEF RowsStay, OfferTypes, Offers!TypeOK, Offers!Time
<1>6. OffersAsRead'
  BY <1>1, <1>2, <1>5, OffersReadStay
<1>7. Offers!ExpiredIsSettled'
  BY <1>1, <1>3, SettledStays
<1>8. Offers!ExpiredWasTold'
  BY <1>1 DEF Offers!ExpiredWasTold
<1> QED
  BY <1>3, <1>4, <1>6, <1>7, <1>8 DEF OfferInv

LEMMA SweepNotifyStep ==
    ASSUME OfferInv, Offers!OffersAssumption, NEW c \in Callers, Offers!SweepNotify(c)
    PROVE  OfferInv'
<1> DEFINE v == Offers!V(c)
           call == [calls[c] EXCEPT !.step = "sweep_expire"]
<1>1. /\ calls[c] \in Offers!Call /\ AsRead(calls[c], versions, attachments, told, now)
      /\ calls \in [Callers -> Offers!Call]
      /\ attachments \in [Applications -> Offers!Attachment]
      /\ told \subseteq Applications \X Offers!Version
  BY DEF OfferInv, OfferTypes, Offers!TypeOK, OffersAsRead
<1>2. /\ calls[c].step = "sweep_notify" /\ calls' = [calls EXCEPT ![c] = call]
      /\ UNCHANGED <<versions, attachments, now, mix, signed, disputed, died>>
      /\ told' = told \cup (Offers!Holders(v) \X {v})
  BY DEF Offers!SweepNotify, Offers!At, Offers!Goto, Offers!Tell
<1>3. v \in DOMAIN versions /\ v \in Offers!Version /\ v = calls[c].version
  BY <1>2, OnItsVersion DEF OnVersion, Offers!V
<1> HIDE DEF v
<1>4. /\ call \in Offers!Call /\ call.step = "sweep_expire" /\ call.version = calls[c].version
      /\ call.todo = calls[c].todo
  BY <1>1 DEF Offers!Call, Offers!Step
<1> HIDE DEF call
<1>5. told \subseteq told' /\ told' \subseteq Applications \X Offers!Version
  BY <1>1, <1>2, <1>3 DEF Offers!Holders
<1>6. AsRead(call, versions, attachments', told', now)
  <2>1. \A a \in Applications: attachments[a].version = v /\ attachments[a].state \in Offers!Held =>
            <<a, v>> \in told'
    BY <1>2 DEF Offers!Holders
  <2>2. versions[call.version].until <= now /\ call.version \in DOMAIN versions
    BY <1>1, <1>2, <1>3, <1>4 DEF AsRead
  <2> QED
    BY <1>1, <1>2, <1>3, <1>4, <2>1, <2>2 DEF AsRead
<1>7. HoldersStay
  BY <1>2 DEF HoldersStay
<1>8. ASSUME NEW w, Offers!OnSweep(w)
      PROVE  Offers!OnSweep(w)'
  <2>1. PICK d \in Callers: calls[d].step \in {"sweep_notify", "sweep_expire"} /\ calls[d].version = w
    BY <1>8 DEF Offers!OnSweep, Offers!V
  <2>2. calls'[d].step \in {"sweep_notify", "sweep_expire"} /\ calls'[d].version = w
    BY <1>1, <1>2, <1>4, <2>1
  <2> QED
    BY <2>2 DEF Offers!OnSweep, Offers!V
<1> QED
  BY <1>1, <1>2, <1>4, <1>5, <1>6, <1>7, <1>8, AwardStep

LEMMA SweepExpireStep ==
    ASSUME OfferInv, Offers!OffersAssumption, NEW c \in Callers, Offers!SweepExpire(c)
    PROVE  OfferInv'
<1> DEFINE v == Offers!V(c)
           held == Offers!Holders(v)
<1>1. /\ calls[c] \in Offers!Call /\ AsRead(calls[c], versions, attachments, told, now)
      /\ attachments \in [Applications -> Offers!Attachment]
      /\ told \subseteq Applications \X Offers!Version /\ calls \in [Callers -> Offers!Call]
      /\ OfferTypes /\ now \in Nat
  BY DEF OfferInv, OfferTypes, Offers!TypeOK, OffersAsRead, Offers!Time
<1>2. /\ calls[c].step = "sweep_expire" /\ Offers!SweepOn(c, calls[c].todo \ {v})
      /\ UNCHANGED <<versions, told, now, mix, signed, disputed, died>>
      /\ attachments' = [a \in Applications |->
                             IF a \in held THEN [attachments[a] EXCEPT !.state = "expired"]
                             ELSE attachments[a]]
  BY DEF Offers!SweepExpire, Offers!At, Offers!Expire
<1>3. v = calls[c].version
  BY DEF Offers!V
<1>4. PICK call \in Offers!Call:
          /\ calls' = [calls EXCEPT ![c] = call]
          /\ AsRead(call, versions, attachments, told, now)
          /\ call.step \in {"idle", "sweep_pull"}
  <2>1. calls[c].todo \ {v} \in SUBSET DOMAIN versions
        /\ \A w \in calls[c].todo \ {v}: versions[w].until <= now
    BY <1>1 DEF AsRead
  <2> QED
    BY <1>2, <2>1, SweptOn
<1>5. \A a \in held: /\ [attachments[a] EXCEPT !.state = "expired"] \in Offers!Attachment
                     /\ [attachments[a] EXCEPT !.state = "expired"].state = "expired"
                     /\ [attachments[a] EXCEPT !.state = "expired"].version = v
                     /\ [attachments[a] EXCEPT !.state = "expired"].late = attachments[a].late
  BY <1>1 DEF Offers!Attachment, Offers!AttachmentState, Offers!Holders
<1>6. \A a \in Applications:
          /\ a \in held => /\ attachments'[a].state = "expired" /\ attachments'[a].version = v
                           /\ attachments'[a].late = attachments[a].late
          /\ a \notin held => attachments'[a] = attachments[a]
  BY <1>2, <1>5
<1>7. attachments' \in [Applications -> Offers!Attachment]
  BY <1>1, <1>2, <1>5
<1>8. HoldersStay
  BY <1>6 DEF HoldersStay, Offers!Held
<1>9. AsRead(call, versions, attachments', told', now)
  <2>1. RowsStay /\ told \subseteq told' /\ now <= now' /\ now' \in Nat
    BY <1>1, <1>2 DEF RowsStay
  <2>2. AsRead(call, versions', attachments', told', now')
    BY <1>1, <1>4, <1>8, <2>1, OneReadStays
  <2> QED
    BY <1>2, <2>2
<1>10. \A a \in held: ~attachments[a].late => <<a, v>> \in told
  BY <1>1, <1>2, <1>3 DEF AsRead, Offers!Holders
<1>11. ASSUME NEW w, Offers!OnSweep(w), w # v
       PROVE  Offers!OnSweep(w)'
  <2>1. PICK d \in Callers: calls[d].step \in {"sweep_notify", "sweep_expire"} /\ calls[d].version = w
    BY <1>11 DEF Offers!OnSweep, Offers!V
  <2>2. calls'[d] = calls[d]
    BY <1>1, <1>3, <1>4, <1>11, <2>1
  <2> QED
    BY <2>1, <2>2 DEF Offers!OnSweep, Offers!V
<1>12. \A a \in Applications: attachments'[a].version = v => attachments'[a].state \notin Offers!Held
  BY <1>6 DEF Offers!Holders, Offers!Held
<1>13. \A a \in Applications: attachments'[a].state = "expired" /\ ~attachments'[a].late =>
           attachments'[a] = attachments[a] \/ <<a, attachments'[a].version>> \in told'
  BY <1>2, <1>6, <1>10
<1> HIDE DEF held, v
<1> QED
  BY <1>1, <1>2, <1>4, <1>7, <1>8, <1>9, <1>11, <1>12, <1>13, AwardStep

LEMMA AttachWriteStep ==
    ASSUME OfferInv, Offers!OffersAssumption, NEW c \in Callers, Offers!AttachWrite(c)
    PROVE  OfferInv'
<1> DEFINE v == Offers!V(c)
           app == calls[c].app
           late == versions[v].until <= now
           new == [state |-> "attached", version |-> v, late |-> late]
<1>1. /\ calls[c].step = "attach_write" /\ calls' = [calls EXCEPT ![c] = Offers!NoCall]
      /\ UNCHANGED <<versions, told, now, mix, signed, disputed, died>>
  BY DEF Offers!AttachWrite, Offers!At, Offers!End
<1>2. /\ v \in DOMAIN versions /\ v \in Offers!Version /\ app \in Applications
      /\ attachments \in [Applications -> Offers!Attachment]
      /\ told \subseteq Applications \X Offers!Version
      /\ disputed \subseteq DOMAIN versions
  BY <1>1, OnItsVersion DEF OnVersion, OfferInv, OfferTypes, Offers!TypeOK, Offers!Call
<1>3. CASE attachments[app].state # "none"
  <2>1. attachments' = attachments
    BY <1>3 DEF Offers!AttachWrite
  <2> QED
    BY <1>1, <1>2, <2>1, NoOfferCall, NoCallReads, OfferQuietStep
<1>4. CASE attachments[app].state = "none"
  <2>1. attachments' = [attachments EXCEPT ![app] = new]
    BY <1>4 DEF Offers!AttachWrite
  <2>2. new.state = "attached" /\ new.version = v /\ new.late = late
    OBVIOUS
  <2>3. new \in Offers!Attachment
    <3>1. \A b \in BOOLEAN: [state |-> "attached", version |-> v, late |-> b] \in Offers!Attachment
      BY <1>2 DEF Offers!Attachment, Offers!AttachmentState
    <3>2. late \in BOOLEAN
      OBVIOUS
    <3> HIDE DEF late
    <3> QED
      BY <3>1, <3>2
  <2> HIDE DEF new
  <2>4. /\ attachments' \in [Applications -> Offers!Attachment] /\ attachments'[app] = new
        /\ \A a \in Applications: a # app => attachments'[a] = attachments[a]
    BY <1>2, <2>1, <2>3
  <2>5. HoldersStay
    BY <1>1, <2>2, <2>4 DEF HoldersStay
  <2>6. AsRead(Offers!NoCall, versions, attachments', told', now)
    BY NoOfferCall DEF AsRead, OnVersion
  <2>7. \A w: Offers!OnSweep(w) => Offers!OnSweep(w)'
    <3>1. \A d \in Callers \ {c}: calls'[d] = calls[d]
      BY <1>1, NoOfferCall, OneHeldOffer DEF OfferInv
    <3> QED
      BY <1>1, <3>1, SweepsGoOn
  <2> QED
    BY <1>1, <1>2, <2>2, <2>4, <2>5, <2>6, <2>7, NoOfferCall, AwardStep
<1> QED
  BY <1>3, <1>4

LEMMA MoveWriteStep ==
    ASSUME OfferInv, Offers!OffersAssumption, NEW c \in Callers, Offers!MoveWrite(c)
    PROVE  OfferInv'
<1> DEFINE app == calls[c].app
           to == calls[c].to
           old == attachments[app]
           new == [old EXCEPT !.state = to]
<1>1. /\ calls[c].step = "move_write" /\ calls' = [calls EXCEPT ![c] = Offers!NoCall]
      /\ UNCHANGED <<versions, told, now, mix, signed, disputed, died>>
  BY DEF Offers!MoveWrite, Offers!At, Offers!End
<1>2. /\ app \in Applications /\ attachments \in [Applications -> Offers!Attachment]
      /\ told \subseteq Applications \X Offers!Version /\ disputed \subseteq DOMAIN versions
      /\ AsRead(calls[c], versions, attachments, told, now)
  BY DEF OfferInv, OfferTypes, Offers!TypeOK, Offers!Call, OffersAsRead
<1>3. CASE ~Offers!Unmoved(c)
  <2>1. attachments' = attachments
    BY <1>3 DEF Offers!MoveWrite
  <2> QED
    BY <1>1, <1>2, <2>1, NoOfferCall, NoCallReads, OfferQuietStep
<1>4. CASE Offers!Unmoved(c)
  <2>1. attachments' = [attachments EXCEPT ![app] = new]
    BY <1>2, <1>4 DEF Offers!MoveWrite
  <2>2. /\ to \in {"accepted", "declined", "realised"} /\ old \in Offers!Attachment
        /\ old.state \in Offers!Held
    BY <1>1, <1>2, <1>4 DEF AsRead, Offers!Unmoved, Offers!CanTransitionAttachment, Offers!Moves, Offers!Held
  <2>3. /\ new \in Offers!Attachment /\ new.state = to /\ new.version = old.version
        /\ new.late = old.late
    BY <2>2 DEF Offers!Attachment, Offers!AttachmentState
  <2> HIDE DEF new
  <2>4. /\ attachments' \in [Applications -> Offers!Attachment] /\ attachments'[app] = new
        /\ \A a \in Applications: a # app => attachments'[a] = attachments[a]
    BY <1>2, <2>1, <2>3
  <2>5. HoldersStay
    BY <2>2, <2>3, <2>4 DEF HoldersStay
  <2>6. AsRead(Offers!NoCall, versions, attachments', told', now)
    BY NoOfferCall DEF AsRead, OnVersion
  <2>7. \A w: Offers!OnSweep(w) => Offers!OnSweep(w)'
    <3>1. \A d \in Callers \ {c}: calls'[d] = calls[d]
      BY <1>1, NoOfferCall, OneHeldOffer DEF OfferInv
    <3> QED
      BY <1>1, <3>1, SweepsGoOn
  <2> QED
    BY <1>1, <1>2, <2>2, <2>3, <2>4, <2>5, <2>6, <2>7, NoOfferCall, AwardStep
<1> QED
  BY <1>3, <1>4

(* Handlers that read the current version, or an award.                    *)
LEMMA OfferReadStep ==
    ASSUME OfferInv, Offers!OffersAssumption, NEW c \in Callers,
           \/ \E v \in DOMAIN versions:
                  \/ Offers!EditRead(c, v) \/ Offers!VerifyRead(c, v) \/ Offers!PublishRead(c, v)
                  \/ Offers!UnpublishRead(c, v) \/ Offers!CheckRead(c, v)
                  \/ \E a \in Applications: Offers!AttachRead(c, a, v)
           \/ Offers!SweepRead(c)
           \/ \E a \in Applications, to \in {"accepted", "declined", "realised"}: Offers!MoveRead(c, a, to)
    PROVE  OfferInv'
<1>1. /\ DOMAIN versions \subseteq Offers!Version /\ disputed \subseteq DOMAIN versions
      /\ attachments \in [Applications -> Offers!Attachment]
  BY DEF OfferInv, OfferTypes, Offers!TypeOK
<1>2. /\ calls[c].step = "idle"
      /\ UNCHANGED <<versions, attachments, told, now, mix, signed, disputed, died>>
  BY DEF Offers!EditRead, Offers!VerifyRead, Offers!PublishRead, Offers!UnpublishRead, Offers!CheckRead,
     Offers!AttachRead, Offers!SweepRead, Offers!MoveRead, Offers!Begin, Offers!At
<1>3. ASSUME NEW call \in Offers!Call, calls' = [calls EXCEPT ![c] = call],
             AsRead(call, versions, attachments, told, now)
      PROVE  OfferInv'
  BY <1>1, <1>2, <1>3, OfferQuietStep
<1>4. ASSUME NEW v \in DOMAIN versions, NEW step \in OnVersion \ {"sweep_notify", "sweep_expire", "verify_write"},
             Offers!Open(c, step, v)
      PROVE  OfferInv'
  <2> DEFINE call == [Offers!NoCall EXCEPT !.step = step, !.version = v]
  <2>1. step \in Offers!Step
    BY DEF OnVersion, Offers!Step
  <2>2. call \in Offers!Call /\ call.step = step /\ call.version = v /\ call.todo = {}
    BY <1>1, <2>1, NoOfferCall DEF Offers!Call
  <2>3. calls' = [calls EXCEPT ![c] = call]
    BY <1>4 DEF Offers!Open
  <2> HIDE DEF call
  <2>4. AsRead(call, versions, attachments, told, now)
    BY <2>2 DEF AsRead, OnVersion
  <2> QED
    BY <1>3, <2>2, <2>3, <2>4
<1>5. ASSUME NEW v \in DOMAIN versions,
             \/ Offers!EditRead(c, v) \/ Offers!PublishRead(c, v)
             \/ Offers!UnpublishRead(c, v) \/ Offers!CheckRead(c, v)
      PROVE  OfferInv'
  BY <1>4, <1>5 DEF Offers!EditRead, Offers!PublishRead, Offers!UnpublishRead, Offers!CheckRead, OnVersion
<1>6. ASSUME NEW v \in DOMAIN versions, Offers!VerifyRead(c, v)
      PROVE  OfferInv'
  <2>1. PICK decision \in {"verified", "unverified"}:
            calls' = [calls EXCEPT ![c] = [Offers!NoCall EXCEPT !.step = "verify_write", !.version = v,
                                                                !.to = decision]]
    BY <1>6 DEF Offers!VerifyRead
  <2> DEFINE call == [Offers!NoCall EXCEPT !.step = "verify_write", !.version = v, !.to = decision]
  <2>2. /\ call \in Offers!Call /\ call.step = "verify_write" /\ call.version = v
        /\ call.to = decision /\ call.todo = {}
    BY <1>1, NoOfferCall DEF Offers!Call, Offers!Step, Offers!Verification
  <2> HIDE DEF call
  <2>3. AsRead(call, versions, attachments, told, now)
    BY <2>2 DEF AsRead, OnVersion
  <2> QED
    BY <1>3, <2>1, <2>2, <2>3 DEF call
<1>7. ASSUME NEW v \in DOMAIN versions, NEW a \in Applications, Offers!AttachRead(c, a, v)
      PROVE  OfferInv'
  <2> DEFINE call == [Offers!NoCall EXCEPT !.step = "attach_write", !.version = v, !.app = a]
  <2>1. calls' = [calls EXCEPT ![c] = call]
    BY <1>7 DEF Offers!AttachRead
  <2>2. call \in Offers!Call /\ call.step = "attach_write" /\ call.version = v /\ call.todo = {}
    BY <1>1, NoOfferCall DEF Offers!Call, Offers!Step
  <2> HIDE DEF call
  <2>3. AsRead(call, versions, attachments, told, now)
    BY <2>2 DEF AsRead, OnVersion
  <2> QED
    BY <1>3, <2>1, <2>2, <2>3
<1>8. CASE Offers!SweepRead(c)
  <2>1. /\ Offers!SweepOn(c, Offers!Lapsed) /\ Offers!Lapsed \in SUBSET DOMAIN versions
        /\ \A v \in Offers!Lapsed: versions[v].until <= now
    BY <1>8 DEF Offers!SweepRead, Offers!Lapsed
  <2> QED
    BY <1>3, <2>1, SweptOn
<1>9. ASSUME NEW a \in Applications, NEW to \in {"accepted", "declined", "realised"},
             Offers!MoveRead(c, a, to)
      PROVE  OfferInv'
  <2> DEFINE call == [Offers!NoCall EXCEPT !.step = "move_write", !.app = a, !.to = to,
                                           !.seen = attachments[a].state]
  <2>1. calls' = [calls EXCEPT ![c] = call] /\ Offers!CanTransitionAttachment(attachments[a].state, to)
    BY <1>9 DEF Offers!MoveRead
  <2>2. attachments[a].state \in Offers!AttachmentState
    BY <1>1 DEF Offers!Attachment
  <2>3. /\ call \in Offers!Call /\ call.step = "move_write" /\ call.to = to
        /\ call.seen = attachments[a].state /\ call.todo = {}
    BY <2>2, NoOfferCall DEF Offers!Call, Offers!Step, Offers!AttachmentState
  <2> HIDE DEF call
  <2>4. AsRead(call, versions, attachments, told, now)
    BY <2>1, <2>3 DEF AsRead, OnVersion
  <2> QED
    BY <1>3, <2>1, <2>3, <2>4
<1> QED
  BY <1>5, <1>6, <1>7, <1>8, <1>9

LEMMA EditWriteStep ==
    ASSUME OfferInv, Offers!OffersAssumption, NEW c \in Callers, Offers!EditWrite(c)
    PROVE  OfferInv'
<1> DEFINE v == Offers!V(c)
<1>1. /\ OfferTypes /\ OffersAsRead /\ VerifiedIsSigned /\ ExpiredHasLapsed
      /\ Offers!OneCurrentVersion /\ Offers!PublishedIsSigned
      /\ Offers!ExpiredIsSettled /\ Offers!ExpiredWasTold
  BY DEF OfferInv
<1>2. /\ calls[c].step = "edit_write" /\ calls' = [calls EXCEPT ![c] = Offers!NoCall]
      /\ UNCHANGED <<attachments, told, now, mix, signed, disputed, died>>
  BY DEF Offers!EditWrite, Offers!At, Offers!End
<1>3. v \in DOMAIN versions /\ disputed \subseteq DOMAIN versions /\ signed \subseteq DOMAIN versions
  BY <1>1, <1>2, OnItsVersion DEF OnVersion, OfferTypes, Offers!TypeOK
<1>4. CASE versions' = versions
  BY <1>2, <1>3, <1>4, NoOfferCall, NoCallReads, OfferQuietStep
<1>5. CASE versions' # versions
  <2>1. PICK n \in 1..MaxVersions: DOMAIN versions = 1..n
    BY <1>1 DEF OfferTypes
  <2>2. Offers!Max(1..n) = n
    BY DEF Offers!Max
  <2>3. Offers!NextVersion = n + 1
    BY <2>1, <2>2 DEF Offers!NextVersion
  <2>4. n + 1 \in 1..MaxVersions /\ versions[v].open
    BY <1>5, <2>3 DEF Offers!EditWrite, Offers!StillOpen, Offers!Version
  <2> DEFINE next == Offers!NextVersion
  <2>5. PICK complete \in BOOLEAN, until \in Windows:
            versions' = [w \in DOMAIN versions \cup {n + 1} |->
                IF w = n + 1 THEN Offers!Draft(complete, until)
                ELSE [versions[w] EXCEPT !.open = @ /\ w # v]]
    <3>1. PICK complete \in BOOLEAN, until \in Windows:
              versions' = [w \in DOMAIN versions \cup {next} |->
                  IF w = next THEN Offers!Draft(complete, until)
                  ELSE [versions[w] EXCEPT !.open = @ /\ w # v]]
      BY <1>5 DEF Offers!EditWrite
    <3>2. next = n + 1
      BY <2>3
    <3> HIDE DEF next
    <3> QED
      BY <3>1, <3>2
  <2> DEFINE new == Offers!Draft(complete, until)
  <2>6. /\ new \in Offers!Row /\ new.publication = "draft" /\ new.verification = "unverified"
        /\ new.open
    BY DEF Offers!Draft, Offers!Row, Offers!Publication, Offers!Verification
  <2> HIDE DEF new
  <2>7. DOMAIN versions' = 1..(n + 1) /\ versions'[n + 1] = new
    BY <2>1, <2>5 DEF new
  <2>8. ASSUME NEW w \in DOMAIN versions
        PROVE  /\ w # n + 1 /\ w \in DOMAIN versions' /\ versions'[w] \in Offers!Row
               /\ versions'[w].publication = versions[w].publication
               /\ versions'[w].verification = versions[w].verification
               /\ versions'[w].complete = versions[w].complete
               /\ versions'[w].until = versions[w].until
               /\ versions'[w].open <=> versions[w].open /\ w # v
    <3>1. w # n + 1 /\ w \in DOMAIN versions'
      BY <2>1, <2>7
    <3>2. versions[w] \in Offers!Row
      BY <1>1 DEF OfferTypes, Offers!TypeOK
    <3>3. \A b \in BOOLEAN:
              LET row == [versions[w] EXCEPT !.open = b]
              IN  /\ row \in Offers!Row /\ row.publication = versions[w].publication
                  /\ row.verification = versions[w].verification
                  /\ row.complete = versions[w].complete /\ row.until = versions[w].until
                  /\ row.open = b
      BY <3>2 DEF Offers!Row
    <3>4. (versions[w].open /\ w # v) \in BOOLEAN
      OBVIOUS
    <3>5. versions'[w] = [versions[w] EXCEPT !.open = versions[w].open /\ w # v]
      BY <2>5, <3>1
    <3> DEFINE open == versions[w].open /\ w # v
    <3>6. open \in BOOLEAN /\ versions'[w] = [versions[w] EXCEPT !.open = open]
      BY <3>4, <3>5
    <3>7. open <=> versions[w].open /\ w # v
      OBVIOUS
    <3> HIDE DEF open
    <3> QED
      BY <3>1, <3>3, <3>6, <3>7
  <2>9. \A w \in DOMAIN versions': w \in DOMAIN versions \/ w = n + 1
    BY <2>1, <2>7
  <2>10. /\ calls' \in [Callers -> Offers!Call] /\ calls'[c] = Offers!NoCall
         /\ \A d \in Callers \ {c}: calls'[d] = calls[d]
    BY <1>1, <1>2, NoOfferCall, OneHeldOffer
  <2>11. OfferTypes'
    <3>1. versions' \in [DOMAIN versions' -> Offers!Row] /\ DOMAIN versions' \subseteq Offers!Version
      <4>1. \A w \in DOMAIN versions': versions'[w] \in Offers!Row
        BY <2>6, <2>7, <2>8, <2>9
      <4>2. versions' = [w \in DOMAIN versions' |-> versions'[w]]
        BY <2>5
      <4>3. DOMAIN versions' \subseteq Offers!Version
        BY <2>4, <2>7 DEF Offers!Version, Offers!OffersAssumption
      <4> QED
        BY <4>1, <4>2, <4>3
    <3>2. signed \subseteq DOMAIN versions' /\ disputed \subseteq DOMAIN versions'
      BY <1>3, <2>8
    <3> QED
      BY <1>1, <1>2, <2>4, <2>7, <2>10, <3>1, <3>2 DEF OfferTypes, Offers!TypeOK
  <2>12. VerifiedIsSigned' /\ ExpiredHasLapsed' /\ Offers!PublishedIsSigned'
    <3>1. ASSUME NEW w \in DOMAIN versions'
          PROVE  /\ versions'[w].verification = "verified" => w \in signed
                 /\ versions'[w].publication = "expired" => versions'[w].until <= now
                 /\ versions'[w].publication = "published" => w \in signed /\ versions'[w].complete
      BY <1>1, <2>6, <2>7, <2>8, <2>9 DEF VerifiedIsSigned, ExpiredHasLapsed, Offers!PublishedIsSigned
    <3> QED
      BY <1>2, <3>1 DEF VerifiedIsSigned, ExpiredHasLapsed, Offers!PublishedIsSigned
  <2>13. Offers!OneCurrentVersion'
    <3>1. \A w \in DOMAIN versions: versions[w].open <=> w = v
      <4>1. PICK u \in DOMAIN versions: \A w \in DOMAIN versions: versions[w].open <=> w = u
        BY <1>1 DEF Offers!OneCurrentVersion, Offers!Current
      <4> QED
        BY <1>3, <2>4, <4>1
    <3>2. \A w \in DOMAIN versions': versions'[w].open <=> w = n + 1
      BY <2>6, <2>7, <2>8, <2>9, <3>1
    <3>3. n + 1 \in DOMAIN versions'
      BY <2>7
    <3> QED
      BY <3>2, <3>3 DEF Offers!OneCurrentVersion, Offers!Current
  <2>14. Offers!ExpiredWasTold'
    BY <1>1, <1>2 DEF Offers!ExpiredWasTold
  <2>15. RowsStay /\ HoldersStay /\ told \subseteq told' /\ now <= now' /\ now' \in Nat
    BY <1>1, <1>2, <2>8 DEF RowsStay, HoldersStay, OfferTypes, Offers!TypeOK, Offers!Time
  <2>16. OffersAsRead'
    <3>1. AsRead(Offers!NoCall, versions', attachments', told', now')
      BY NoOfferCall DEF AsRead, OnVersion
    <3> QED
      BY <1>1, <2>10, <2>15, <3>1, OffersReadStay
  <2>17. Offers!ExpiredIsSettled'
    <3> SUFFICES ASSUME NEW w \in DOMAIN versions', versions'[w].publication = "expired",
                        ~Offers!OnSweep(w)'
                 PROVE  /\ w \in DOMAIN versions /\ versions[w].publication = "expired"
                        /\ ~Offers!OnSweep(w)
      BY <1>1, <1>2, <2>12, <2>15, SettledStays
    <3>1. ~Offers!OnSweep(w)
      BY <1>2, <2>10, SweepsGoOn
    <3> QED
      BY <2>6, <2>7, <2>8, <2>9, <3>1
  <2> QED
    BY <2>11, <2>12, <2>13, <2>14, <2>16, <2>17 DEF OfferInv
<1> QED
  BY <1>4, <1>5

LEMMA TickStep ==
    ASSUME OfferInv, Offers!OffersAssumption, Offers!Tick
    PROVE  OfferInv'
<1>1. /\ OfferTypes /\ OffersAsRead /\ VerifiedIsSigned /\ ExpiredHasLapsed
      /\ Offers!OneCurrentVersion /\ Offers!PublishedIsSigned
      /\ Offers!ExpiredIsSettled /\ Offers!ExpiredWasTold
  BY DEF OfferInv
<1>2. /\ now < MaxTime /\ now' = now + 1
      /\ UNCHANGED <<versions, attachments, told, calls, mix, signed, disputed, died>>
  BY DEF Offers!Tick
<1>3. now \in Nat /\ now' \in Nat /\ now <= now' /\ now' \in Offers!Time
  BY <1>1, <1>2 DEF OfferTypes, Offers!TypeOK, Offers!Time, Offers!OffersAssumption
<1>4. OfferTypes' /\ VerifiedIsSigned'
  BY <1>1, <1>2, <1>3 DEF OfferTypes, Offers!TypeOK, VerifiedIsSigned
<1>5. ExpiredHasLapsed'
  <2>1. \A v \in DOMAIN versions: versions[v].until \in Nat
    BY <1>1 DEF OfferTypes, Offers!TypeOK, Offers!Row, Offers!OffersAssumption
  <2> QED
    BY <1>1, <1>2, <1>3, <2>1 DEF ExpiredHasLapsed
<1>6. Offers!OneCurrentVersion' /\ Offers!PublishedIsSigned' /\ Offers!ExpiredWasTold'
  BY <1>1, <1>2 DEF Offers!OneCurrentVersion, Offers!Current, Offers!PublishedIsSigned, Offers!ExpiredWasTold
<1>7. Offers!ExpiredIsSettled'
  BY <1>1, <1>2 DEF Offers!ExpiredIsSettled, Offers!OnSweep, Offers!Holders, Offers!V
<1>8. RowsStay /\ HoldersStay /\ told \subseteq told'
  BY <1>2 DEF RowsStay, HoldersStay
<1>9. OffersAsRead'
  <2> SUFFICES ASSUME NEW d \in Callers PROVE AsRead(calls'[d], versions', attachments', told', now')
    BY DEF OffersAsRead
  <2>1. AsRead(calls[d], versions, attachments, told, now)
    BY <1>1 DEF OffersAsRead
  <2>2. AsRead(calls[d], versions', attachments', told', now')
    BY <1>1, <1>3, <1>8, <2>1, OneReadStays
  <2> QED
    BY <1>2, <2>2
<1> QED
  BY <1>4, <1>5, <1>6, <1>7, <1>9 DEF OfferInv

(* A process that dies leaves its version to nobody, which is why what is  *)
(* settled is said of behaviours in which none did.                        *)
LEMMA DiesStep ==
    ASSUME OfferInv, Offers!OffersAssumption, NEW c \in Callers, Offers!Dies(c)
    PROVE  OfferInv'
<1>1. /\ OfferTypes /\ OffersAsRead /\ VerifiedIsSigned /\ ExpiredHasLapsed
      /\ Offers!OneCurrentVersion /\ Offers!PublishedIsSigned
      /\ Offers!ExpiredIsSettled /\ Offers!ExpiredWasTold
  BY DEF OfferInv
<1>2. /\ calls' = [calls EXCEPT ![c] = Offers!NoCall] /\ died' = died \cup {calls[c].step}
      /\ calls[c].step \in CrashSteps
      /\ UNCHANGED <<versions, attachments, told, now, mix, signed, disputed>>
  BY DEF Offers!Dies, Offers!End
<1>3. /\ calls' \in [Callers -> Offers!Call] /\ calls'[c] = Offers!NoCall
      /\ \A d \in Callers \ {c}: calls'[d] = calls[d]
  BY <1>1, <1>2, NoOfferCall, OneHeldOffer
<1>4. OfferTypes' /\ VerifiedIsSigned' /\ ExpiredHasLapsed'
  BY <1>1, <1>2, <1>3 DEF OfferTypes, Offers!TypeOK, VerifiedIsSigned, ExpiredHasLapsed
<1>5. Offers!OneCurrentVersion' /\ Offers!PublishedIsSigned' /\ Offers!ExpiredWasTold'
  BY <1>1, <1>2 DEF Offers!OneCurrentVersion, Offers!Current, Offers!PublishedIsSigned, Offers!ExpiredWasTold
<1>6. Offers!ExpiredIsSettled'
  BY <1>2 DEF Offers!ExpiredIsSettled
<1>7. OffersAsRead'
  <2>1. RowsStay /\ HoldersStay /\ told \subseteq told' /\ now <= now' /\ now' \in Nat
    BY <1>1, <1>2 DEF RowsStay, HoldersStay, OfferTypes, Offers!TypeOK, Offers!Time
  <2>2. AsRead(calls'[c], versions', attachments', told', now')
    BY <1>3, NoOfferCall DEF AsRead, OnVersion
  <2> QED
    BY <1>1, <1>3, <2>1, <2>2, OffersReadStay
<1> QED
  BY <1>4, <1>5, <1>6, <1>7 DEF OfferInv

LEMMA OfferInvHolds ==
    ASSUME Offers!OffersAssumption
    PROVE  Offers!Spec => []OfferInv
<1>1. Offers!Init => OfferInv
  <2> SUFFICES ASSUME Offers!Init PROVE OfferInv
    OBVIOUS
  <2>1. PICK complete \in BOOLEAN, until \in Windows:
            versions = [v \in {1} |-> Offers!Draft(complete, until)]
    BY DEF Offers!Init
  <2>2. /\ attachments = [a \in Applications |-> Offers!NoAttachment]
        /\ told = {} /\ signed = {} /\ disputed = {} /\ died = {}
        /\ calls = [c \in Callers |-> Offers!NoCall] /\ now = 0 /\ mix \in Mixes
    BY DEF Offers!Init
  <2> DEFINE draft == Offers!Draft(complete, until)
  <2>3. /\ draft \in Offers!Row /\ draft.publication = "draft" /\ draft.verification = "unverified"
        /\ draft.open
    BY DEF Offers!Draft, Offers!Row, Offers!Publication, Offers!Verification
  <2> HIDE DEF draft
  <2>4. DOMAIN versions = {1} /\ versions[1] = draft /\ versions \in [{1} -> Offers!Row]
    BY <2>1, <2>3 DEF draft
  <2>5. Offers!NoAttachment \in Offers!Attachment /\ Offers!NoAttachment.state = "none"
    BY DEF Offers!NoAttachment, Offers!Attachment, Offers!AttachmentState
  <2>6. 1 \in 1..MaxVersions /\ {1} = 1..1 /\ 0 \in 0..MaxTime
    BY DEF Offers!OffersAssumption
  <2>7. OfferTypes
    BY <2>2, <2>4, <2>5, <2>6, NoOfferCall DEF OfferTypes, Offers!TypeOK, Offers!Version, Offers!Time
  <2>8. OffersAsRead
    BY <2>2, NoCallReads DEF OffersAsRead
  <2>9. VerifiedIsSigned /\ ExpiredHasLapsed /\ Offers!PublishedIsSigned
    BY <2>3, <2>4 DEF VerifiedIsSigned, ExpiredHasLapsed, Offers!PublishedIsSigned
  <2>10. Offers!OneCurrentVersion
    BY <2>3, <2>4 DEF Offers!OneCurrentVersion, Offers!Current
  <2>11. Offers!ExpiredIsSettled
    BY <2>3, <2>4 DEF Offers!ExpiredIsSettled
  <2>12. Offers!ExpiredWasTold
    BY <2>2, <2>5 DEF Offers!ExpiredWasTold
  <2> QED
    BY <2>7, <2>8, <2>9, <2>10, <2>11, <2>12 DEF OfferInv
<1>2. OfferInv /\ [Offers!Next]_(Offers!vars) => OfferInv'
  <2> SUFFICES ASSUME OfferInv, [Offers!Next]_(Offers!vars) PROVE OfferInv'
    OBVIOUS
  <2>1. CASE UNCHANGED Offers!vars
    BY <2>1 DEF Offers!vars, OfferInv, OfferTypes, Offers!TypeOK, OffersAsRead, VerifiedIsSigned,
       ExpiredHasLapsed, Offers!OneCurrentVersion, Offers!Current, Offers!PublishedIsSigned,
       Offers!ExpiredIsSettled, Offers!OnSweep, Offers!V, Offers!Holders, Offers!ExpiredWasTold
  <2> QED
    BY <2>1, OfferReadStep, EditWriteStep, VerifyWriteStep, PublishWriteStep, PullingStep, CheckCaseStep,
       CheckRevokeStep, SweepPullStep, SweepNotifyStep, SweepExpireStep, AttachWriteStep, MoveWriteStep,
       TickStep, DiesStep
       DEF Offers!Next, Offers!SweepStep
<1> QED
  BY <1>1, <1>2, PTL DEF Offers!Spec

(* The rows of an offer, its awards and its calls keep their types.        *)
THEOREM OfferTypeCorrect ==
    ASSUME Offers!OffersAssumption
    PROVE  Offers!Spec => []Offers!TypeOK
<1>1. OfferInv => Offers!TypeOK
  BY DEF OfferInv, OfferTypes
<1> QED
  BY <1>1, OfferInvHolds, PTL

(* However many edits run at once, one version of an offer is current: no  *)
(* two, and never none (OffersService.supersede).                          *)
THEOREM CurrentCorrect ==
    ASSUME Offers!OffersAssumption
    PROVE  Offers!Spec => []Offers!OneCurrentVersion
<1>1. OfferInv => Offers!OneCurrentVersion
  BY DEF OfferInv
<1> QED
  BY <1>1, OfferInvHolds, PTL

(* A published version is complete and one Trust signed and has not        *)
(* revoked since (OffersService.publish, the offers_publishable check).    *)
THEOREM SignedCorrect ==
    ASSUME Offers!OffersAssumption
    PROVE  Offers!Spec => []Offers!PublishedIsSigned
<1>1. OfferInv => Offers!PublishedIsSigned
  BY DEF OfferInv
<1> QED
  BY <1>1, OfferInvHolds, PTL

(* Once no sweep is on an expired version, every award of it that was made *)
(* in time is settled, unless a process died (OfferExpiryService.sweep).   *)
THEOREM SettledCorrect ==
    ASSUME Offers!OffersAssumption
    PROVE  Offers!Spec => []Offers!ExpiredIsSettled
<1>1. OfferInv => Offers!ExpiredIsSettled
  BY DEF OfferInv
<1> QED
  BY <1>1, OfferInvHolds, PTL

(* Whose award lapsed has been told, whatever died (the order of the       *)
(* writes of OfferExpiryService.sweep).                                    *)
THEOREM ToldCorrect ==
    ASSUME Offers!OffersAssumption
    PROVE  Offers!Spec => []Offers!ExpiredWasTold
<1>1. OfferInv => Offers!ExpiredWasTold
  BY DEF OfferInv
<1> QED
  BY <1>1, OfferInvHolds, PTL

(* An award moves along ATTACHMENT_TRANSITIONS only, whatever a student,   *)
(* the university and the sweep do to it at the same time                  *)
(* (OfferLifecycleService.transition).                                     *)
THEOREM AwardsCorrect ==
    ASSUME Offers!OffersAssumption
    PROVE  Offers!Spec => Offers!AttachmentsFollowTable
<1>1. OfferInv /\ [Offers!Next]_(Offers!vars) => [Offers!AttachmentStep]_attachments
  <2> SUFFICES ASSUME OfferInv, Offers!Next, attachments' # attachments PROVE Offers!AttachmentStep
    BY DEF Offers!vars
  <2> SUFFICES ASSUME NEW a \in Applications, attachments[a].state # "none",
                      attachments'[a].state # attachments[a].state
               PROVE  Offers!CanTransitionAttachment(attachments[a].state, attachments'[a].state)
    BY DEF Offers!AttachmentStep
  <2>1. /\ attachments \in [Applications -> Offers!Attachment]
        /\ OffersAsRead
    BY DEF OfferInv, OfferTypes, Offers!TypeOK
  <2>2. PICK c \in Callers: Offers!SweepExpire(c) \/ Offers!AttachWrite(c) \/ Offers!MoveWrite(c)
    BY DEF Offers!Next, Offers!SweepStep, Offers!EditRead, Offers!VerifyRead, Offers!PublishRead,
       Offers!UnpublishRead, Offers!CheckRead, Offers!AttachRead, Offers!EditWrite, Offers!VerifyWrite,
       Offers!PublishWrite, Offers!UnpublishWrite, Offers!CheckPull, Offers!CheckCase,
       Offers!CheckRevoke, Offers!SweepRead, Offers!SweepPull, Offers!SweepNotify, Offers!Dies,
       Offers!MoveRead, Offers!Tick
  <2>3. CASE Offers!SweepExpire(c)
    <3>1. attachments'[a] = IF a \in Offers!Holders(Offers!V(c))
                            THEN [attachments[a] EXCEPT !.state = "expired"] ELSE attachments[a]
      BY <2>3 DEF Offers!SweepExpire, Offers!Expire
    <3>2. attachments[a].state \in {"attached", "accepted"} /\ attachments'[a].state = "expired"
      BY <2>1, <3>1 DEF Offers!Holders, Offers!Held, Offers!Attachment
    <3> QED
      BY <3>2 DEF Offers!CanTransitionAttachment, Offers!Moves
  <2>4. CASE Offers!AttachWrite(c)
    <3>1. attachments[calls[c].app].state = "none"
      BY <2>4 DEF Offers!AttachWrite
    <3>2. attachments'[a] = attachments[a]
      BY <2>1, <2>4, <3>1 DEF Offers!AttachWrite
    <3> QED
      BY <3>2
  <2>5. CASE Offers!MoveWrite(c)
    <3>1. /\ calls[c].step = "move_write" /\ Offers!Unmoved(c)
          /\ attachments' = [attachments EXCEPT ![calls[c].app].state = calls[c].to]
      BY <2>5 DEF Offers!MoveWrite, Offers!At
    <3>2. Offers!CanTransitionAttachment(calls[c].seen, calls[c].to)
      BY <2>1, <3>1 DEF OffersAsRead, AsRead
    <3>3. a = calls[c].app /\ attachments'[a].state = calls[c].to
      BY <2>1, <3>1 DEF Offers!Attachment
    <3> QED
      BY <3>1, <3>2, <3>3 DEF Offers!Unmoved
  <2> QED
    BY <2>2, <2>3, <2>4, <2>5
<1> QED
  BY <1>1, OfferInvHolds, PTL DEF Offers!Spec, Offers!AttachmentsFollowTable

(***************************************************************************)
(* The inductive invariant of visits                                       *)
(***************************************************************************)

VisitTypes == Visits!TypeOK /\ Len(grants) <= MaxVisits

IsOver(grant, time) == grant.ended # None \/ grant.expires <= time

(* A starter looked when nobody was there; who makes a session or records  *)
(* a start has a grant whose start is not on record; and who records an    *)
(* end closed the grant.                                                   *)
Stands(call, rows, record, time) ==
    /\ call.step = "grant" =>
           /\ call.operator \in Operators /\ call.seen <= Len(rows)
           /\ \A g \in 1..call.seen: IsOver(rows[g], time)
    /\ call.step \notin {"idle", "grant"} => call.grant \in 1..Len(rows)
    /\ call.step \in {"session", "token"} => record[call.grant]["started"] = 0
    /\ call.step = "record" => rows[call.grant].ended # None

Starts(call) == call.step \in {"session", "token"}
VisitCalls ==
    /\ \A c \in Callers: Stands(calls[c], grants, events, now)
    /\ \A c, d \in Callers:
           Starts(calls[c]) /\ Starts(calls[d]) /\ calls[c].grant = calls[d].grant => c = d

(* What the sweep has left was not recorded as expired, nor what it is     *)
(* about to record.                                                        *)
VisitSweep ==
    /\ sweep.left \subseteq 1..Len(grants)
    /\ \A g \in sweep.left: events[g]["expired"] = 0 /\ sweep.record # g
    /\ sweep.record # 0 =>
           /\ sweep.record \in 1..Len(grants) /\ events[sweep.record]["expired"] = 0
           /\ grants[sweep.record].ended # None

NothingEarly ==
    /\ \A g \in Visits!Numbers: g > Len(grants) =>
           events[g]["started"] = 0 /\ events[g]["ended"] = 0 /\ events[g]["expired"] = 0
    /\ \A g \in 1..Len(grants): grants[g].ended = None =>
           events[g]["ended"] = 0 /\ events[g]["expired"] = 0

(* A grant nothing happened to has its start and its end on record, or in  *)
(* the hands of somebody who records it; and those before it were over.    *)
Starter(g) == \E c \in Callers: Starts(calls[c]) /\ calls[c].grant = g
Closer(g)  == \E c \in Callers: calls[c].step = "record" /\ calls[c].grant = g
OnRecord ==
    \A g \in 1..Len(grants) \ spoilt:
        /\ events[g]["started"] = 1 \/ Starter(g)
        /\ grants[g].ended # None =>
               events[g]["ended"] > 0 \/ events[g]["expired"] > 0 \/ sweep.record = g \/ Closer(g)
AloneInIt == \A h \in 1..Len(grants) \ spoilt: \A g \in 1..(h - 1): IsOver(grants[g], now)

VisitInv ==
    /\ VisitTypes /\ VisitCalls /\ VisitSweep /\ NothingEarly /\ OnRecord /\ AloneInIt
    /\ Visits!EndedIsRevokedUnlessSpoilt

(***************************************************************************)
(* Visits                                                                  *)
(***************************************************************************)

LEMMA VisitFacts ==
    ASSUME VisitTypes, Visits!VisitsAssumption
    PROVE  /\ grants \in Seq(Visits!Grant) /\ Len(grants) \in 0..MaxVisits /\ DOMAIN grants = 1..Len(grants)
           /\ 1..Len(grants) \subseteq Visits!Numbers
           /\ \A g \in 1..Len(grants): grants[g] \in Visits!Grant /\ grants[g].expires \in Nat
           /\ events \in [Visits!Numbers -> [Visits!Event -> 0..2]]
           /\ sessions \in [Visits!Numbers -> Visits!SessionState]
           /\ calls \in [Callers -> Visits!Call] /\ sweep \in Visits!Sweep
           /\ now \in Visits!Time /\ now \in Nat /\ None \notin Visits!Time
<1>1. /\ grants \in Seq(Visits!Grant) /\ Len(grants) \in Nat /\ Len(grants) <= MaxVisits
      /\ events \in [Visits!Numbers -> [Visits!Event -> 0..2]]
      /\ sessions \in [Visits!Numbers -> Visits!SessionState]
      /\ calls \in [Callers -> Visits!Call] /\ sweep \in Visits!Sweep /\ now \in Visits!Time
  BY DEF VisitTypes, Visits!TypeOK
<1>2. MaxVisits \in Nat /\ MaxTime \in Nat /\ Window \in Nat /\ None \notin Visits!Time
  BY DEF Visits!VisitsAssumption, Visits!Time
<1>3. now \in Nat /\ DOMAIN grants = 1..Len(grants)
  BY <1>1, <1>2 DEF Visits!Time
<1>4. 1..Len(grants) \subseteq Visits!Numbers
  BY <1>1, <1>2 DEF Visits!Numbers
<1>5. \A g \in 1..Len(grants): grants[g] \in Visits!Grant
  BY <1>1, ElementOfSeq
<1>6. \A grant \in Visits!Grant: grant.expires \in Nat
  BY <1>2 DEF Visits!Grant
<1> QED
  BY <1>1, <1>2, <1>3, <1>4, <1>5, <1>6

LEMMA NoVisitCall ==
    /\ Visits!NoCall.step = "idle" /\ Visits!NoCall.grant = 0
    /\ Visits!VisitsAssumption => Visits!NoCall \in Visits!Call
BY DEF Visits!NoCall, Visits!Call, Visits!VisitsAssumption

LEMMA VisitHeld ==
    ASSUME VisitTypes, NEW c \in Callers, NEW call \in Visits!Call, calls' = [calls EXCEPT ![c] = call]
    PROVE  /\ calls' \in [Callers -> Visits!Call] /\ calls'[c] = call
           /\ \A d \in Callers \ {c}: calls'[d] = calls[d]
BY DEF VisitTypes, Visits!TypeOK

(* An event is counted for its grant, and nothing else is.                 *)
LEMMA EventCounted ==
    ASSUME VisitTypes, NEW g \in Visits!Numbers, NEW e \in Visits!Event, events[g][e] \in 0..1,
           Visits!Happened(g, e)
    PROVE  /\ events' \in [Visits!Numbers -> [Visits!Event -> 0..2]]
           /\ events'[g][e] = events[g][e] + 1
           /\ \A h \in Visits!Numbers, f \in Visits!Event: h # g \/ f # e => events'[h][f] = events[h][f]
<1> DEFINE row == [events[g] EXCEPT ![e] = events[g][e] + 1]
<1>1. events \in [Visits!Numbers -> [Visits!Event -> 0..2]] /\ events[g] \in [Visits!Event -> 0..2]
  BY DEF VisitTypes, Visits!TypeOK
<1>2. events' = [events EXCEPT ![g] = row]
  BY DEF Visits!Happened
<1>3. /\ row \in [Visits!Event -> 0..2] /\ row[e] = events[g][e] + 1
      /\ \A f \in Visits!Event: f # e => row[f] = events[g][f]
  BY <1>1
<1> HIDE DEF row
<1> QED
  BY <1>1, <1>2, <1>3

(* Grants are made and closed, and neither is undone.                      *)
GrantsStay ==
    /\ Len(grants) <= Len(grants')
    /\ \A g \in 1..Len(grants):
           /\ grants'[g].expires = grants[g].expires
           /\ grants[g].ended # None => grants'[g].ended # None

LEMMA OverStays ==
    ASSUME VisitTypes, Visits!VisitsAssumption, GrantsStay, now <= now', now' \in Nat,
           NEW g \in 1..Len(grants), IsOver(grants[g], now)
    PROVE  IsOver(grants'[g], now')
BY VisitFacts DEF GrantsStay, IsOver

LEMMA CallStands ==
    ASSUME NEW call, Stands(call, grants, events, now), VisitTypes, Visits!VisitsAssumption,
           GrantsStay, Len(grants') \in Nat, now <= now', now' \in Nat, call \in Visits!Call,
           Starts(call) => events'[call.grant]["started"] = events[call.grant]["started"]
    PROVE  Stands(call, grants', events', now')
<1>1. call.seen \in Nat /\ Len(grants) \in Nat /\ Len(grants) <= Len(grants')
  BY VisitFacts DEF Visits!Call, Visits!VisitsAssumption, GrantsStay
<1>2. call.step = "grant" =>
          /\ call.operator \in Operators /\ call.seen <= Len(grants')
          /\ \A g \in 1..call.seen: IsOver(grants'[g], now')
  BY <1>1, OverStays DEF Stands
<1>3. call.step \notin {"idle", "grant"} => call.grant \in 1..Len(grants')
  BY <1>1 DEF Stands
<1>4. Starts(call) => events'[call.grant]["started"] = 0
  BY DEF Stands, Starts
<1>5. call.step = "record" => grants'[call.grant].ended # None
  BY DEF Stands, GrantsStay
<1> QED
  BY <1>2, <1>3, <1>4, <1>5 DEF Stands, Starts

(* The calls of others stand, when c's does and does not start a grant     *)
(* that another one is starting.                                           *)
LEMMA CallsStand ==
    ASSUME VisitInv, Visits!VisitsAssumption, GrantsStay, Len(grants') \in Nat, now <= now', now' \in Nat,
           NEW c \in Callers, \A d \in Callers \ {c}: calls'[d] = calls[d],
           Stands(calls'[c], grants', events', now'),
           \A d \in Callers \ {c}: Starts(calls[d]) =>
               events'[calls[d].grant]["started"] = events[calls[d].grant]["started"],
           Starts(calls'[c]) =>
               \A d \in Callers \ {c}: Starts(calls[d]) => calls[d].grant # calls'[c].grant
    PROVE  VisitCalls'
<1>1. VisitTypes /\ VisitCalls /\ calls \in [Callers -> Visits!Call]
  BY VisitFacts DEF VisitInv
<1>2. ASSUME NEW d \in Callers \ {c}
      PROVE  Stands(calls'[d], grants', events', now')
  <2>1. Stands(calls[d], grants, events, now) /\ calls[d] \in Visits!Call
    BY <1>1 DEF VisitCalls
  <2>2. Stands(calls[d], grants', events', now')
    BY <1>1, <2>1, CallStands
  <2> QED
    BY <2>2
<1>3. ASSUME NEW a \in Callers, NEW b \in Callers, Starts(calls'[a]), Starts(calls'[b]),
             calls'[a].grant = calls'[b].grant
      PROVE  a = b
  <2>1. CASE a # c /\ b # c
    BY <1>1, <1>3, <2>1 DEF VisitCalls
  <2>2. CASE a = c /\ b # c
    BY <1>3, <2>2
  <2>3. CASE a # c /\ b = c
    BY <1>3, <2>3
  <2> QED
    BY <2>1, <2>2, <2>3
<1> QED
  BY <1>2, <1>3 DEF VisitCalls

LEMMA HandsStay ==
    ASSUME NEW c \in Callers, \A d \in Callers \ {c}: calls'[d] = calls[d], NEW g
    PROVE  /\ Starter(g) /\ ~(Starts(calls[c]) /\ calls[c].grant = g) => Starter(g)'
           /\ Closer(g) /\ ~(calls[c].step = "record" /\ calls[c].grant = g) => Closer(g)'
BY DEF Starter, Closer

LEMMA SweepStands ==
    ASSUME VisitInv, Visits!VisitsAssumption, GrantsStay, Len(grants') \in Nat, sweep' = sweep,
           \A g \in Visits!Numbers: events'[g]["expired"] = events[g]["expired"]
    PROVE  VisitSweep'
<1>1. VisitSweep /\ VisitTypes
  BY DEF VisitInv
<1>2. /\ Len(grants) \in Nat /\ Len(grants) <= Len(grants') /\ 1..Len(grants) \subseteq Visits!Numbers
      /\ 1..Len(grants) \subseteq 1..Len(grants')
  BY <1>1, VisitFacts DEF GrantsStay
<1>3. /\ sweep.left \subseteq 1..Len(grants')
      /\ \A g \in sweep.left: events'[g]["expired"] = 0 /\ sweep.record # g
  BY <1>1, <1>2 DEF VisitSweep
<1>4. sweep.record # 0 =>
          /\ sweep.record \in 1..Len(grants') /\ events'[sweep.record]["expired"] = 0
          /\ grants'[sweep.record].ended # None
  BY <1>1, <1>2 DEF VisitSweep, GrantsStay
<1> QED
  BY <1>3, <1>4 DEF VisitSweep

(* Nothing is recorded of a grant but what has happened to it.             *)
LEMMA NothingEarlyStands ==
    ASSUME VisitInv, Visits!VisitsAssumption, GrantsStay, Len(grants') \in Nat,
           Len(grants') <= MaxVisits,
           \A g \in Visits!Numbers, f \in Visits!Event:
               \/ events'[g][f] = events[g][f]
               \/ g <= Len(grants) /\ (f = "started" \/ grants[g].ended # None)
    PROVE  NothingEarly'
<1>1. NothingEarly /\ VisitTypes
  BY DEF VisitInv
<1>2. /\ Len(grants) \in Nat /\ Len(grants) <= Len(grants') /\ 1..Len(grants') \subseteq Visits!Numbers
      /\ MaxVisits \in Nat
  BY <1>1, VisitFacts DEF GrantsStay, Visits!Numbers, Visits!VisitsAssumption
<1>3. {"started", "ended", "expired"} \subseteq Visits!Event
  BY DEF Visits!Event
<1>4. ASSUME NEW g \in Visits!Numbers, g > Len(grants)
      PROVE  events'[g]["started"] = 0 /\ events'[g]["ended"] = 0 /\ events'[g]["expired"] = 0
  <2>1. ~(g <= Len(grants))
    BY <1>2, <1>4 DEF Visits!Numbers
  <2> QED
    BY <1>1, <1>3, <1>4, <2>1 DEF NothingEarly
<1>5. ASSUME NEW g \in 1..Len(grants'), grants'[g].ended = None
      PROVE  events'[g]["ended"] = 0 /\ events'[g]["expired"] = 0
  <2>1. CASE g > Len(grants)
    BY <1>2, <1>4, <2>1
  <2>2. CASE g \in 1..Len(grants)
    <3>1. grants[g].ended = None
      BY <1>5, <2>2 DEF GrantsStay
    <3> QED
      BY <1>1, <1>2, <1>3, <2>2, <3>1 DEF NothingEarly
  <2> QED
    BY <1>2, <2>1, <2>2
<1>6. \A g \in Visits!Numbers: g > Len(grants') => g > Len(grants)
  BY <1>2 DEF Visits!Numbers
<1> QED
  BY <1>4, <1>5, <1>6 DEF NothingEarly

LEMMA AloneStands ==
    ASSUME VisitInv, Visits!VisitsAssumption, GrantsStay, Len(grants') = Len(grants),
           spoilt \subseteq spoilt', now <= now', now' \in Nat
    PROVE  AloneInIt'
<1>1. AloneInIt /\ VisitTypes /\ Len(grants) \in Nat
  BY VisitFacts DEF VisitInv
<1>2. ASSUME NEW h \in 1..Len(grants) \ spoilt, NEW g \in 1..(h - 1)
      PROVE  IsOver(grants'[g], now')
  BY <1>1, <1>2, OverStays DEF AloneInIt
<1> QED
  BY <1>1, <1>2 DEF AloneInIt

(* Whatever was on record stays so, or in somebody's hands.                *)
HandedOn(g) ==
    /\ events[g]["started"] = 1 \/ Starter(g) => events'[g]["started"] = 1 \/ Starter(g)'
    /\ events[g]["ended"] > 0 => events'[g]["ended"] > 0
    /\ events[g]["expired"] > 0 => events'[g]["expired"] > 0
    /\ Closer(g) => events'[g]["ended"] > 0 \/ Closer(g)'
    /\ sweep.record = g => events'[g]["expired"] > 0 \/ sweep'.record = g
    /\ grants'[g].ended # None => grants[g].ended # None \/ Closer(g)' \/ sweep'.record = g

LEMMA RecordStands ==
    ASSUME VisitInv, Visits!VisitsAssumption, Len(grants') = Len(grants), spoilt \subseteq spoilt',
           \A g \in 1..Len(grants) \ spoilt': HandedOn(g)
    PROVE  OnRecord'
BY DEF VisitInv, OnRecord, HandedOn

(* The state but for calls and sweep is as it was.                         *)
LEMMA WorldStands ==
    ASSUME VisitInv, Visits!VisitsAssumption, UNCHANGED <<grants, sessions, events>>,
           spoilt \subseteq spoilt', now <= now', now' \in Nat
    PROVE  /\ GrantsStay /\ Len(grants') \in Nat /\ Len(grants') = Len(grants)
           /\ NothingEarly' /\ AloneInIt' /\ Visits!EndedIsRevokedUnlessSpoilt'
           /\ sweep' = sweep => VisitSweep'
<1>1. VisitTypes /\ Len(grants) \in Nat /\ Len(grants) <= MaxVisits
  BY VisitFacts DEF VisitInv, VisitTypes
<1>2. GrantsStay /\ Len(grants') \in Nat /\ Len(grants') = Len(grants)
  BY <1>1 DEF GrantsStay
<1>3. NothingEarly'
  BY <1>1, <1>2, NothingEarlyStands
<1>4. AloneInIt'
  BY <1>2, AloneStands
<1>5. Visits!EndedIsRevokedUnlessSpoilt'
  BY DEF VisitInv, Visits!EndedIsRevokedUnlessSpoilt
<1>6. sweep' = sweep => VisitSweep'
  BY <1>2, SweepStands
<1> QED
  BY <1>2, <1>3, <1>4, <1>5, <1>6

(* A call that has nothing left to record, or whose grant is spoilt, is    *)
(* replaced by one that has not either.                                    *)
LEMMA IdleCallStands ==
    ASSUME VisitInv, Visits!VisitsAssumption, NEW c \in Callers,
           calls[c].step \in {"session", "token", "record"} => calls[c].grant \in spoilt',
           NEW call \in Visits!Call, calls' = [calls EXCEPT ![c] = call],
           UNCHANGED <<grants, sessions, events, sweep, now>>, spoilt \subseteq spoilt',
           call.step \notin {"session", "token"}, Stands(call, grants, events, now)
    PROVE  /\ calls' \in [Callers -> Visits!Call] /\ VisitCalls' /\ VisitSweep' /\ NothingEarly'
           /\ OnRecord' /\ AloneInIt' /\ Visits!EndedIsRevokedUnlessSpoilt'
<1>1. VisitTypes /\ now \in Nat /\ now' = now
  BY VisitFacts DEF VisitInv
<1>2. /\ calls' \in [Callers -> Visits!Call] /\ calls'[c] = call
      /\ \A d \in Callers \ {c}: calls'[d] = calls[d]
  BY <1>1, VisitHeld
<1>3. now <= now' /\ now' \in Nat
  BY <1>1
<1>4. /\ GrantsStay /\ Len(grants') \in Nat /\ Len(grants') = Len(grants)
      /\ NothingEarly' /\ AloneInIt' /\ Visits!EndedIsRevokedUnlessSpoilt' /\ VisitSweep'
  BY <1>3, WorldStands
<1>5. Stands(calls'[c], grants', events', now') /\ ~Starts(calls'[c])
  BY <1>1, <1>2 DEF Starts
<1>6. VisitCalls'
  BY <1>2, <1>3, <1>4, <1>5, CallsStand
<1>7. ASSUME NEW g \in 1..Len(grants) \ spoilt'
      PROVE  HandedOn(g)
  BY <1>2, HandsStay DEF HandedOn, Starts
<1>8. OnRecord'
  BY <1>4, <1>7, RecordStands
<1> QED
  BY <1>2, <1>4, <1>6, <1>8

LEMMA StartReadStands ==
    ASSUME VisitInv, Visits!VisitsAssumption, NEW c \in Callers, NEW o \in Operators,
           Visits!StartRead(c, o)
    PROVE  VisitInv'
<1> DEFINE call == [Visits!NoCall EXCEPT !.step = "grant", !.operator = o, !.seen = Len(grants)]
<1>1. /\ calls[c].step = "idle" /\ calls' = [calls EXCEPT ![c] = call]
      /\ UNCHANGED <<consent, grants, sessions, events, sweep, now, deaths, spoilt>>
      /\ \A g \in DOMAIN grants: ~Visits!IsImpersonationActive(grants[g])
  BY DEF Visits!StartRead, Visits!At, Visits!Hold, Visits!MayStart, Visits!NobodyIsThere
<1>2. /\ VisitTypes /\ now \in Nat /\ Len(grants) \in 0..MaxVisits /\ DOMAIN grants = 1..Len(grants)
      /\ \A g \in 1..Len(grants): grants[g].expires \in Nat
  BY VisitFacts DEF VisitInv
<1>9. 0 \in 0..MaxVisits
  BY DEF Visits!VisitsAssumption
<1>3. /\ call \in Visits!Call /\ call.step = "grant" /\ call.operator = o /\ call.seen = Len(grants)
  BY NoVisitCall, <1>2, <1>9 DEF Visits!Call
<1> HIDE DEF call
<1>4. \A g \in 1..Len(grants): IsOver(grants[g], now)
  BY <1>1, <1>2 DEF IsOver, Visits!IsImpersonationActive
<1>5. Stands(call, grants, events, now)
  BY <1>2, <1>3, <1>4 DEF Stands
<1>6. /\ calls' \in [Callers -> Visits!Call] /\ VisitCalls' /\ VisitSweep' /\ NothingEarly'
      /\ OnRecord' /\ AloneInIt' /\ Visits!EndedIsRevokedUnlessSpoilt'
  BY <1>1, <1>3, <1>5, IdleCallStands
<1>7. VisitTypes'
  BY <1>1, <1>2, <1>6 DEF VisitTypes, Visits!TypeOK
<1> QED
  BY <1>6, <1>7 DEF VisitInv

LEMMA EndReadStands ==
    ASSUME VisitInv, Visits!VisitsAssumption, NEW c \in Callers, NEW g \in DOMAIN grants,
           Visits!EndRead(c, g)
    PROVE  VisitInv'
<1> DEFINE call == [Visits!NoCall EXCEPT !.step = "close", !.grant = g]
<1>1. /\ calls[c].step = "idle" /\ calls' = [calls EXCEPT ![c] = call]
      /\ UNCHANGED <<consent, grants, sessions, events, sweep, now, deaths, spoilt>>
  BY DEF Visits!EndRead, Visits!At, Visits!Hold
<1>2. VisitTypes /\ Len(grants) \in 0..MaxVisits /\ DOMAIN grants = 1..Len(grants)
  BY VisitFacts DEF VisitInv
<1>9. g \in 0..MaxVisits /\ 0 \in 0..MaxVisits
  BY <1>2 DEF Visits!VisitsAssumption
<1>3. call \in Visits!Call /\ call.step = "close" /\ call.grant \in 1..Len(grants)
  BY NoVisitCall, <1>2, <1>9 DEF Visits!Call
<1> HIDE DEF call
<1>5. Stands(call, grants, events, now)
  BY <1>3 DEF Stands
<1>6. /\ calls' \in [Callers -> Visits!Call] /\ VisitCalls' /\ VisitSweep' /\ NothingEarly'
      /\ OnRecord' /\ AloneInIt' /\ Visits!EndedIsRevokedUnlessSpoilt'
  BY <1>1, <1>3, <1>5, IdleCallStands
<1>7. VisitTypes'
  BY <1>1, <1>2, <1>6 DEF VisitTypes, Visits!TypeOK
<1> QED
  BY <1>6, <1>7 DEF VisitInv

LEMMA OthersStand ==
    ASSUME VisitInv, Visits!VisitsAssumption,
           UNCHANGED <<grants, events, calls, sweep, deaths, spoilt>>,
           now <= now', now' \in Visits!Time, consent' \in BOOLEAN,
           sessions' \in [Visits!Numbers -> Visits!SessionState],
           \A g \in Visits!Numbers: sessions'[g] = "live" => sessions[g] = "live"
    PROVE  VisitInv'
<1>1. /\ VisitTypes /\ Len(grants) \in Nat /\ Len(grants) <= MaxVisits /\ now' \in Nat
      /\ 1..Len(grants) \subseteq Visits!Numbers /\ DOMAIN grants = 1..Len(grants)
      /\ calls \in [Callers -> Visits!Call]
  BY VisitFacts DEF VisitInv, VisitTypes, Visits!Time, Visits!VisitsAssumption
<1>2. GrantsStay /\ Len(grants') \in Nat /\ Len(grants') = Len(grants)
  BY <1>1 DEF GrantsStay
<1>3. VisitTypes'
  BY <1>1 DEF VisitTypes, Visits!TypeOK
<1>4. VisitCalls'
  <2>1. \A d \in Callers: Stands(calls[d], grants, events, now)
    BY DEF VisitInv, VisitCalls
  <2>2. \A d \in Callers: Stands(calls[d], grants', events', now')
    BY <1>1, <1>2, <2>1, CallStands
  <2> QED
    BY <2>2 DEF VisitInv, VisitCalls
<1>5. VisitSweep'
  BY <1>2, SweepStands
<1>6. NothingEarly'
  BY <1>1, <1>2, NothingEarlyStands
<1>7. AloneInIt'
  BY <1>1, <1>2, AloneStands
<1>8. OnRecord'
  BY DEF VisitInv, OnRecord, Starter, Closer
<1>9. Visits!EndedIsRevokedUnlessSpoilt'
  BY <1>1 DEF VisitInv, Visits!EndedIsRevokedUnlessSpoilt
<1> QED
  BY <1>3, <1>4, <1>5, <1>6, <1>7, <1>8, <1>9 DEF VisitInv

LEMMA QuietStands ==
    ASSUME VisitInv, Visits!VisitsAssumption,
           \/ Visits!WithdrawConsent \/ Visits!Tick
           \/ \E g \in DOMAIN grants: Visits!RevokeSession(g)
    PROVE  VisitInv'
<1>1. /\ VisitTypes /\ now \in Nat /\ now \in Visits!Time /\ DOMAIN grants = 1..Len(grants)
      /\ 1..Len(grants) \subseteq Visits!Numbers
      /\ sessions \in [Visits!Numbers -> Visits!SessionState] /\ consent \in BOOLEAN /\ MaxTime \in Nat
  BY VisitFacts DEF VisitInv, VisitTypes, Visits!TypeOK, Visits!VisitsAssumption
<1>2. CASE Visits!WithdrawConsent
  <2>1. /\ UNCHANGED <<grants, sessions, events, calls, sweep, deaths, spoilt>> /\ now' = now
        /\ consent' = FALSE
    BY <1>2 DEF Visits!WithdrawConsent
  <2>3. now <= now' /\ now' \in Visits!Time
    BY <1>1, <2>1
  <2>4. consent' \in BOOLEAN
    BY <2>1, Zenon
  <2>2. /\ sessions' \in [Visits!Numbers -> Visits!SessionState]
        /\ \A g \in Visits!Numbers: sessions'[g] = "live" => sessions[g] = "live"
    BY <1>1, <2>1
  <2> QED
    BY <2>1, <2>2, <2>3, <2>4, OthersStand
<1>3. CASE Visits!Tick
  <2>1. now <= now' /\ now' \in Visits!Time
    BY <1>1, <1>3 DEF Visits!Tick, Visits!Time
  <2> QED
    BY <1>1, <1>3, <2>1, OthersStand DEF Visits!Tick
<1>4. ASSUME NEW g \in DOMAIN grants, Visits!RevokeSession(g)
      PROVE  VisitInv'
  <2>1. /\ UNCHANGED <<consent, grants, events, calls, sweep, now, deaths, spoilt>>
        /\ sessions' = [sessions EXCEPT ![g] = "revoked"]
    BY <1>4 DEF Visits!RevokeSession
  <2>2. /\ sessions' \in [Visits!Numbers -> Visits!SessionState]
        /\ \A h \in Visits!Numbers: sessions'[h] = "live" => sessions[h] = "live"
    BY <1>1, <2>1 DEF Visits!SessionState
  <2> QED
    BY <1>1, <2>1, <2>2, OthersStand
<1> QED
  BY <1>2, <1>3, <1>4

LEMMA StartGrantStands ==
    ASSUME VisitInv, Visits!VisitsAssumption, NEW c \in Callers, Visits!StartGrant(c)
    PROVE  VisitInv'
<1>0. PICK g \in Nat: g = Len(grants) + 1
  BY VisitFacts DEF VisitInv
<1> DEFINE new == [operator |-> calls[c].operator, expires |-> now + Window, ended |-> None]
           call == [calls[c] EXCEPT !.step = "session", !.grant = g]
<1>1. /\ calls[c].step = "grant" /\ g \in Visits!Numbers /\ grants' = Append(grants, new)
      /\ spoilt' = IF Len(grants) = calls[c].seen THEN spoilt ELSE spoilt \cup {g}
      /\ calls' = [calls EXCEPT ![c] = call]
      /\ UNCHANGED <<consent, sessions, events, sweep, now, deaths>>
  BY <1>0 DEF Visits!StartGrant, Visits!At, Visits!Hold
<1>2. /\ VisitTypes /\ grants \in Seq(Visits!Grant) /\ Len(grants) \in 0..MaxVisits /\ MaxVisits \in Nat
      /\ DOMAIN grants = 1..Len(grants) /\ calls[c] \in Visits!Call /\ now \in Nat
      /\ now \in Visits!Time /\ now <= now' /\ now' \in Nat
  BY <1>1, VisitFacts DEF VisitInv, Visits!VisitsAssumption
<1>3. /\ calls[c].operator \in Operators /\ calls[c].seen <= Len(grants)
      /\ \A h \in 1..calls[c].seen: IsOver(grants[h], now)
  BY <1>1 DEF VisitInv, VisitCalls, Stands
<1>4. new \in Visits!Grant /\ new.ended = None
  BY <1>2, <1>3 DEF Visits!Grant, Visits!Time, Visits!VisitsAssumption
<1>6. g \in 0..MaxVisits /\ g \in Nat /\ g = Len(grants) + 1 /\ g <= MaxVisits
  BY <1>0, <1>1, <1>2 DEF Visits!Numbers
<1>5. /\ call \in Visits!Call /\ call.step = "session" /\ call.grant = g
  BY <1>2, <1>6 DEF Visits!Call
<1> HIDE DEF new, call
<1>7. /\ grants' \in Seq(Visits!Grant) /\ Len(grants') = g /\ grants'[g] = new
      /\ \A h \in 1..Len(grants): grants'[h] = grants[h]
  BY <1>1, <1>2, <1>4, <1>6, AppendProperties
<1>8. GrantsStay /\ Len(grants') \in Nat /\ Len(grants') <= MaxVisits
  BY <1>2, <1>6, <1>7 DEF GrantsStay
<1>9. /\ calls' \in [Callers -> Visits!Call] /\ calls'[c] = call
      /\ \A d \in Callers \ {c}: calls'[d] = calls[d]
  BY <1>1, <1>2, <1>5, VisitHeld
<1>10. VisitTypes'
  BY <1>1, <1>2, <1>7, <1>8, <1>9 DEF VisitTypes, Visits!TypeOK
<1>11. VisitCalls'
  <2>1. events[g]["started"] = 0
    BY <1>1, <1>2, <1>6 DEF VisitInv, NothingEarly
  <2>2. Stands(calls'[c], grants', events', now')
    BY <1>1, <1>5, <1>6, <1>7, <1>9, <2>1 DEF Stands
  <2>3. \A d \in Callers \ {c}: Starts(calls[d]) => calls[d].grant # calls'[c].grant
    BY <1>2, <1>5, <1>6, <1>9 DEF VisitInv, VisitCalls, Stands, Starts
  <2> QED
    BY <1>1, <1>2, <1>8, <1>9, <2>2, <2>3, CallsStand
<1>12. VisitSweep'
  BY <1>1, <1>8, SweepStands
<1>13. NothingEarly'
  BY <1>1, <1>8, NothingEarlyStands
<1>14. OnRecord'
  <2>1. Starter(g)'
    BY <1>5, <1>9 DEF Starter, Starts
  <2>2. \A h: (Starter(h) => Starter(h)') /\ (Closer(h) => Closer(h)')
    BY <1>1, <1>9, HandsStay DEF Starts
  <2>3. ASSUME NEW h \in 1..Len(grants') \ spoilt'
        PROVE  /\ events'[h]["started"] = 1 \/ Starter(h)'
               /\ grants'[h].ended # None =>
                      events'[h]["ended"] > 0 \/ events'[h]["expired"] > 0 \/ sweep'.record = h \/ Closer(h)'
    <3>1. CASE h = g
      BY <1>4, <1>7, <2>1, <3>1
    <3>2. CASE h \in 1..Len(grants) \ spoilt
      BY <1>1, <1>7, <2>2, <3>2 DEF VisitInv, OnRecord
    <3> QED
      BY <1>1, <1>2, <1>6, <1>7, <3>1, <3>2
  <2> QED
    BY <2>3 DEF OnRecord
<1>15. AloneInIt'
  <2>1. ASSUME NEW h \in 1..Len(grants') \ spoilt', NEW k \in 1..(h - 1)
        PROVE  IsOver(grants'[k], now')
    <3>1. k \in 1..Len(grants)
      BY <1>2, <1>6, <1>7
    <3>2. CASE h = g
      BY <1>1, <1>2, <1>3, <1>6, <1>8, <3>1, <3>2, OverStays
    <3>3. CASE h \in 1..Len(grants) \ spoilt
      BY <1>2, <1>8, <3>1, <3>3, OverStays DEF VisitInv, AloneInIt
    <3> QED
      BY <1>1, <1>2, <1>6, <1>7, <3>2, <3>3
  <2> QED
    BY <2>1 DEF AloneInIt
<1>16. Visits!EndedIsRevokedUnlessSpoilt'
  <2>1. DOMAIN grants' = 1..g
    BY <1>7
  <2>2. ASSUME NEW h \in 1..g \ spoilt', grants'[h].ended # None
        PROVE  sessions'[h] # "live"
    <3>1. h \in 1..Len(grants) \ spoilt
      BY <1>1, <1>2, <1>4, <1>6, <1>7, <2>2
    <3> QED
      BY <1>1, <1>2, <1>7, <2>2, <3>1 DEF VisitInv, Visits!EndedIsRevokedUnlessSpoilt
  <2> QED
    BY <2>1, <2>2 DEF Visits!EndedIsRevokedUnlessSpoilt
<1> QED
  BY <1>10, <1>11, <1>12, <1>13, <1>14, <1>15, <1>16 DEF VisitInv

LEMMA StartSessionStands ==
    ASSUME VisitInv, Visits!VisitsAssumption, NEW c \in Callers, Visits!StartSession(c)
    PROVE  VisitInv'
<1> DEFINE g == calls[c].grant
           call == [calls[c] EXCEPT !.step = "token"]
<1>1. /\ calls[c].step = "session" /\ sessions' = [sessions EXCEPT ![g] = "live"]
      /\ spoilt' = IF grants[g].ended = None THEN spoilt ELSE spoilt \cup {g}
      /\ calls' = [calls EXCEPT ![c] = call]
      /\ UNCHANGED <<consent, grants, events, sweep, now, deaths>>
  BY DEF Visits!StartSession, Visits!At, Visits!Goto
<1>2. /\ VisitTypes /\ Len(grants) \in Nat /\ Len(grants) <= MaxVisits /\ 1..Len(grants) \subseteq Visits!Numbers
      /\ DOMAIN grants = 1..Len(grants) /\ calls[c] \in Visits!Call /\ now <= now' /\ now' \in Nat
      /\ sessions \in [Visits!Numbers -> Visits!SessionState]
  BY <1>1, VisitFacts DEF VisitInv, VisitTypes
<1>3. g \in 1..Len(grants) /\ events[g]["started"] = 0
  BY <1>1 DEF VisitInv, VisitCalls, Stands
<1>4. call \in Visits!Call /\ call.step = "token" /\ call.grant = g
  BY <1>2 DEF Visits!Call
<1> HIDE DEF call, g
<1>5. GrantsStay /\ Len(grants') \in Nat /\ Len(grants') = Len(grants) /\ Len(grants') <= MaxVisits
  BY <1>1, <1>2 DEF GrantsStay
<1>6. /\ calls' \in [Callers -> Visits!Call] /\ calls'[c] = call
      /\ \A d \in Callers \ {c}: calls'[d] = calls[d]
  BY <1>1, <1>2, <1>4, VisitHeld
<1>7. /\ sessions' \in [Visits!Numbers -> Visits!SessionState]
      /\ \A h \in Visits!Numbers \ {g}: sessions'[h] = sessions[h]
  BY <1>1, <1>2 DEF Visits!SessionState
<1>8. spoilt \subseteq spoilt' /\ spoilt' \subseteq Visits!Numbers
  BY <1>1, <1>2, <1>3 DEF VisitTypes, Visits!TypeOK
<1>10. VisitTypes'
  BY <1>1, <1>2, <1>6, <1>7, <1>8 DEF VisitTypes, Visits!TypeOK
<1>11. VisitCalls'
  <2>2. Stands(calls'[c], grants', events', now')
    BY <1>1, <1>3, <1>4, <1>6 DEF Stands
  <2>3. \A d \in Callers \ {c}: Starts(calls[d]) => calls[d].grant # calls'[c].grant
    BY <1>1, <1>4, <1>6 DEF VisitInv, VisitCalls, Starts, g
  <2> QED
    BY <1>1, <1>2, <1>5, <1>6, <2>2, <2>3, CallsStand
<1>12. VisitSweep'
  BY <1>1, <1>5, SweepStands
<1>13. NothingEarly'
  BY <1>1, <1>5, NothingEarlyStands
<1>14. OnRecord'
  <2>1. \A h: Starter(h) => Starter(h)'
    BY <1>4, <1>6 DEF Starter, Starts, g
  <2>2. \A h: Closer(h) => Closer(h)'
    BY <1>1, <1>6, HandsStay
  <2> QED
    BY <1>1, <1>5, <1>8, <2>1, <2>2, RecordStands DEF HandedOn
<1>15. AloneInIt'
  BY <1>2, <1>5, <1>8, AloneStands
<1>16. Visits!EndedIsRevokedUnlessSpoilt'
  <2>1. ASSUME NEW h \in 1..Len(grants) \ spoilt', grants[h].ended # None
        PROVE  sessions'[h] # "live"
    <3>1. h # g
      BY <1>1, <2>1
    <3> QED
      BY <1>2, <1>7, <1>8, <2>1, <3>1 DEF VisitInv, Visits!EndedIsRevokedUnlessSpoilt
  <2> QED
    BY <1>1, <1>2, <2>1 DEF Visits!EndedIsRevokedUnlessSpoilt
<1> QED
  BY <1>10, <1>11, <1>12, <1>13, <1>14, <1>15, <1>16 DEF VisitInv

LEMMA StartRecordStands ==
    ASSUME VisitInv, Visits!VisitsAssumption, NEW c \in Callers, Visits!StartRecord(c)
    PROVE  VisitInv'
<1>0. PICK g : g = calls[c].grant
  OBVIOUS
<1>1. /\ calls[c].step = "token" /\ Visits!Happened(g, "started")
      /\ calls' = [calls EXCEPT ![c] = Visits!NoCall]
      /\ UNCHANGED <<consent, grants, sessions, sweep, now, deaths, spoilt>>
  BY <1>0 DEF Visits!StartRecord, Visits!At, Visits!End, Visits!Hold
<1>2. /\ VisitTypes /\ Len(grants) \in Nat /\ Len(grants) <= MaxVisits /\ 1..Len(grants) \subseteq Visits!Numbers
      /\ now <= now' /\ now' \in Nat /\ spoilt \subseteq spoilt' /\ sweep' = sweep
  BY <1>1, VisitFacts DEF VisitInv, VisitTypes
<1>3. g \in 1..Len(grants) /\ events[g]["started"] = 0
  BY <1>0, <1>1 DEF VisitInv, VisitCalls, Stands
<1>4. "started" \in Visits!Event /\ "ended" \in Visits!Event /\ "expired" \in Visits!Event
  BY DEF Visits!Event
<1>5. /\ events' \in [Visits!Numbers -> [Visits!Event -> 0..2]] /\ events'[g]["started"] = 1
      /\ \A h \in Visits!Numbers, f \in Visits!Event:
             h # g \/ f # "started" => events'[h][f] = events[h][f]
  BY <1>1, <1>2, <1>3, <1>4, EventCounted
<1>6. /\ calls' \in [Callers -> Visits!Call] /\ calls'[c] = Visits!NoCall
      /\ \A d \in Callers \ {c}: calls'[d] = calls[d]
  BY <1>1, <1>2, NoVisitCall, VisitHeld
<1>7. GrantsStay /\ Len(grants') \in Nat /\ Len(grants') = Len(grants) /\ Len(grants') <= MaxVisits
  BY <1>1, <1>2 DEF GrantsStay
<1>10. VisitTypes'
  BY <1>1, <1>2, <1>5, <1>6 DEF VisitTypes, Visits!TypeOK
<1>11. VisitCalls'
  <2>1. Stands(calls'[c], grants', events', now') /\ ~Starts(calls'[c])
    BY <1>6, NoVisitCall DEF Stands, Starts
  <2>2. \A d \in Callers \ {c}: Starts(calls[d]) =>
            events'[calls[d].grant]["started"] = events[calls[d].grant]["started"]
    <3>1. ASSUME NEW d \in Callers \ {c}, Starts(calls[d])
          PROVE  calls[d].grant # g /\ calls[d].grant \in Visits!Numbers
      BY <1>0, <1>1, <1>2, <3>1 DEF VisitInv, VisitCalls, Stands, Starts
    <3> QED
      BY <1>4, <1>5, <3>1
  <2> QED
    BY <1>2, <1>6, <1>7, <2>1, <2>2, CallsStand
<1>12. VisitSweep'
  BY <1>2, <1>4, <1>5, <1>7, SweepStands
<1>13. NothingEarly'
  <2>1. g <= Len(grants)
    BY <1>2, <1>3
  <2>2. \A h \in Visits!Numbers, f \in Visits!Event:
            \/ events'[h][f] = events[h][f]
            \/ h <= Len(grants) /\ (f = "started" \/ grants[h].ended # None)
    BY <1>5, <2>1
  <2> QED
    BY <1>7, <2>2, NothingEarlyStands
<1>14. OnRecord'
  <2>1. ASSUME NEW h \in 1..Len(grants) \ spoilt'
        PROVE  HandedOn(h)
    <3>1. Closer(h) => Closer(h)'
      BY <1>1, <1>6, HandsStay
    <3>2. events[h]["started"] = 1 \/ Starter(h) => events'[h]["started"] = 1 \/ Starter(h)'
      <4>1. CASE h = g
        BY <1>5, <4>1
      <4>2. CASE h # g
        BY <1>0, <1>2, <1>4, <1>5, <1>6, <4>2, HandsStay
      <4> QED
        BY <4>1, <4>2
    <3> QED
      BY <1>1, <1>2, <1>4, <1>5, <3>1, <3>2 DEF HandedOn
  <2> QED
    BY <1>2, <1>7, <2>1, RecordStands
<1>15. AloneInIt'
  BY <1>2, <1>7, AloneStands
<1>16. Visits!EndedIsRevokedUnlessSpoilt'
  BY <1>1 DEF VisitInv, Visits!EndedIsRevokedUnlessSpoilt
<1> QED
  BY <1>10, <1>11, <1>12, <1>13, <1>14, <1>15, <1>16 DEF VisitInv

(* Who closes a grant ends its session with it.                            *)
LEMMA CloseStands ==
    ASSUME VisitInv, Visits!VisitsAssumption, NEW g \in 1..Len(grants), NEW at \in Visits!Time,
           Visits!Closable(g, at), Visits!Close(g, at)
    PROVE  /\ grants' \in Seq(Visits!Grant) /\ Len(grants') = Len(grants) /\ GrantsStay
           /\ grants'[g].ended # None /\ \A h \in 1..Len(grants) \ {g}: grants'[h] = grants[h]
           /\ \A h \in 1..Len(grants): grants[h].ended # None => grants'[h] = grants[h]
           /\ sessions' \in [Visits!Numbers -> Visits!SessionState]
           /\ spoilt' = spoilt => Visits!EndedIsRevokedUnlessSpoilt'
<1>1. /\ grants \in Seq(Visits!Grant) /\ Len(grants) \in Nat /\ DOMAIN grants = 1..Len(grants)
      /\ 1..Len(grants) \subseteq Visits!Numbers /\ grants[g] \in Visits!Grant /\ None \notin Visits!Time
      /\ sessions \in [Visits!Numbers -> Visits!SessionState]
  BY VisitFacts DEF VisitInv
<1> DEFINE row == [grants[g] EXCEPT !.ended = at]
<1>2. /\ grants' = [grants EXCEPT ![g] = row]
      /\ sessions' = [sessions EXCEPT ![g] = Visits!Revoked(sessions[g])]
  BY DEF Visits!Close
<1>3. /\ row \in Visits!Grant /\ row.ended = at /\ row.expires = grants[g].expires
      /\ grants[g].ended = at => row = grants[g]
  BY <1>1 DEF Visits!Grant
<1> HIDE DEF row
<1>4. /\ grants' \in Seq(Visits!Grant) /\ Len(grants') = Len(grants) /\ grants'[g] = row
      /\ \A h \in 1..Len(grants) \ {g}: grants'[h] = grants[h]
  BY <1>1, <1>2, <1>3, ExceptSeq
<1>5. at # None /\ (grants[g].ended = None \/ grants[g].ended = at)
  BY <1>1 DEF Visits!Closable
<1>6. GrantsStay
  BY <1>1, <1>3, <1>4, <1>5 DEF GrantsStay
<1>7. /\ sessions' \in [Visits!Numbers -> Visits!SessionState] /\ sessions'[g] # "live"
      /\ \A h \in Visits!Numbers \ {g}: sessions'[h] = sessions[h]
  BY <1>1, <1>2 DEF Visits!SessionState, Visits!Revoked
<1>8. spoilt' = spoilt => Visits!EndedIsRevokedUnlessSpoilt'
  <2>1. DOMAIN grants' = 1..Len(grants)
    BY <1>4
  <2>2. ASSUME NEW h \in 1..Len(grants) \ spoilt, grants'[h].ended # None
        PROVE  sessions'[h] # "live"
    BY <1>1, <1>4, <1>7, <2>2 DEF VisitInv, Visits!EndedIsRevokedUnlessSpoilt
  <2> QED
    BY <2>1, <2>2 DEF Visits!EndedIsRevokedUnlessSpoilt
<1> QED
  BY <1>3, <1>4, <1>5, <1>6, <1>7, <1>8

LEMMA EndCloseStands ==
    ASSUME VisitInv, Visits!VisitsAssumption, NEW c \in Callers, Visits!EndClose(c)
    PROVE  VisitInv'
<1>0. PICK g : g = calls[c].grant
  OBVIOUS
<1>1. /\ calls[c].step = "close" /\ UNCHANGED <<consent, events, sweep, now, deaths, spoilt>>
  BY DEF Visits!EndClose, Visits!At
<1>2. /\ VisitTypes /\ Len(grants) \in Nat /\ Len(grants) <= MaxVisits /\ now \in Visits!Time
      /\ now <= now' /\ now' \in Nat /\ spoilt \subseteq spoilt' /\ calls[c] \in Visits!Call
  BY <1>1, VisitFacts DEF VisitInv, VisitTypes
<1>3. g \in 1..Len(grants)
  BY <1>0, <1>1 DEF VisitInv, VisitCalls, Stands
<1>4. CASE ~Visits!Closable(g, now)
  <2>1. calls' = [calls EXCEPT ![c] = Visits!NoCall] /\ UNCHANGED <<grants, sessions>>
    BY <1>0, <1>4 DEF Visits!EndClose, Visits!End, Visits!Hold
  <2>2. Visits!NoCall \in Visits!Call /\ Visits!NoCall.step = "idle"
        /\ Stands(Visits!NoCall, grants, events, now)
    BY NoVisitCall DEF Stands
  <2>3. /\ calls' \in [Callers -> Visits!Call] /\ VisitCalls' /\ VisitSweep' /\ NothingEarly'
        /\ OnRecord' /\ AloneInIt' /\ Visits!EndedIsRevokedUnlessSpoilt'
    BY <1>1, <1>2, <2>1, <2>2, IdleCallStands
  <2>4. VisitTypes'
    BY <1>1, <1>2, <2>1, <2>3 DEF VisitTypes, Visits!TypeOK
  <2> QED
    BY <2>3, <2>4 DEF VisitInv
<1>5. CASE Visits!Closable(g, now)
  <2> DEFINE call == [calls[c] EXCEPT !.step = "record"]
  <2>1. calls' = [calls EXCEPT ![c] = call] /\ Visits!Close(g, now)
    BY <1>0, <1>5 DEF Visits!EndClose, Visits!Goto
  <2>2. call \in Visits!Call /\ call.step = "record" /\ call.grant = g
    BY <1>0, <1>2 DEF Visits!Call
  <2> HIDE DEF call
  <2>3. /\ grants' \in Seq(Visits!Grant) /\ Len(grants') = Len(grants) /\ GrantsStay
        /\ grants'[g].ended # None /\ \A h \in 1..Len(grants) \ {g}: grants'[h] = grants[h]
        /\ sessions' \in [Visits!Numbers -> Visits!SessionState]
        /\ Visits!EndedIsRevokedUnlessSpoilt'
    BY <1>1, <1>2, <1>3, <1>5, <2>1, CloseStands
  <2>4. /\ calls' \in [Callers -> Visits!Call] /\ calls'[c] = call
        /\ \A d \in Callers \ {c}: calls'[d] = calls[d]
    BY <1>2, <2>1, <2>2, VisitHeld
  <2>5. Len(grants') \in Nat /\ Len(grants') <= MaxVisits
    BY <1>2, <2>3
  <2>6. VisitTypes'
    BY <1>1, <1>2, <2>3, <2>4, <2>5 DEF VisitTypes, Visits!TypeOK
  <2>7. VisitCalls'
    <3>1. Stands(calls'[c], grants', events', now') /\ ~Starts(calls'[c])
      BY <1>3, <2>2, <2>3, <2>4 DEF Stands, Starts
    <3> QED
      BY <1>1, <1>2, <2>3, <2>4, <2>5, <3>1, CallsStand
  <2>8. VisitSweep'
    BY <1>1, <2>3, <2>5, SweepStands
  <2>9. NothingEarly'
    BY <1>1, <2>3, <2>5, NothingEarlyStands
  <2>10. OnRecord'
    <3>1. \A h: (Starter(h) => Starter(h)') /\ (Closer(h) => Closer(h)')
      BY <1>1, <2>4, HandsStay DEF Starts
    <3>2. Closer(g)'
      BY <2>2, <2>4 DEF Closer
    <3>3. \A h \in 1..Len(grants): grants'[h].ended # None => grants[h].ended # None \/ Closer(h)'
      BY <2>3, <3>2
    <3>4. \A h \in 1..Len(grants) \ spoilt': HandedOn(h)
      BY <1>1, <3>1, <3>3 DEF HandedOn
    <3> QED
      BY <1>2, <2>3, <3>4, RecordStands
  <2>11. AloneInIt'
    BY <1>2, <2>3, AloneStands
  <2> QED
    BY <2>3, <2>6, <2>7, <2>8, <2>9, <2>10, <2>11 DEF VisitInv
<1> QED
  BY <1>4, <1>5

LEMMA EndRecordStands ==
    ASSUME VisitInv, Visits!VisitsAssumption, NEW c \in Callers, Visits!EndRecord(c)
    PROVE  VisitInv'
<1>0. PICK g : g = calls[c].grant
  OBVIOUS
<1>1. /\ calls[c].step = "record" /\ Visits!Happened(g, "ended") /\ events[g]["ended"] < 2
      /\ calls' = [calls EXCEPT ![c] = Visits!NoCall]
      /\ UNCHANGED <<consent, grants, sessions, sweep, now, deaths, spoilt>>
  BY <1>0 DEF Visits!EndRecord, Visits!At, Visits!End, Visits!Hold
<1>2. /\ VisitTypes /\ Len(grants) \in Nat /\ Len(grants) <= MaxVisits /\ 1..Len(grants) \subseteq Visits!Numbers
      /\ now <= now' /\ now' \in Nat /\ spoilt \subseteq spoilt' /\ sweep' = sweep
      /\ events \in [Visits!Numbers -> [Visits!Event -> 0..2]]
  BY <1>1, VisitFacts DEF VisitInv, VisitTypes
<1>3. g \in 1..Len(grants) /\ g \in Visits!Numbers /\ grants[g].ended # None
  BY <1>0, <1>1, <1>2 DEF VisitInv, VisitCalls, Stands
<1>4. "started" \in Visits!Event /\ "ended" \in Visits!Event /\ "expired" \in Visits!Event
  BY DEF Visits!Event
<1>8. events[g]["ended"] \in 0..1
  BY <1>1, <1>2, <1>3, <1>4
<1>5. /\ events' \in [Visits!Numbers -> [Visits!Event -> 0..2]] /\ events'[g]["ended"] > 0
      /\ \A h \in Visits!Numbers, f \in Visits!Event:
             h # g \/ f # "ended" => events'[h][f] = events[h][f]
  BY <1>1, <1>2, <1>3, <1>4, <1>8, EventCounted
<1>6. /\ calls' \in [Callers -> Visits!Call] /\ calls'[c] = Visits!NoCall
      /\ \A d \in Callers \ {c}: calls'[d] = calls[d]
  BY <1>1, <1>2, NoVisitCall, VisitHeld
<1>7. GrantsStay /\ Len(grants') \in Nat /\ Len(grants') = Len(grants) /\ Len(grants') <= MaxVisits
  BY <1>1, <1>2 DEF GrantsStay
<1>10. VisitTypes'
  BY <1>1, <1>2, <1>5, <1>6 DEF VisitTypes, Visits!TypeOK
<1>11. VisitCalls'
  <2>1. Stands(calls'[c], grants', events', now') /\ ~Starts(calls'[c])
    BY <1>6, NoVisitCall DEF Stands, Starts
  <2>2. \A d \in Callers \ {c}: Starts(calls[d]) =>
            events'[calls[d].grant]["started"] = events[calls[d].grant]["started"]
    <3>1. ASSUME NEW d \in Callers \ {c}, Starts(calls[d])
          PROVE  calls[d].grant \in Visits!Numbers
      BY <1>2, <3>1 DEF VisitInv, VisitCalls, Stands, Starts
    <3> QED
      BY <1>4, <1>5, <3>1
  <2> QED
    BY <1>2, <1>6, <1>7, <2>1, <2>2, CallsStand
<1>12. VisitSweep'
  BY <1>2, <1>4, <1>5, <1>7, SweepStands
<1>13. NothingEarly'
  <2>1. g <= Len(grants)
    BY <1>2, <1>3
  <2>2. \A h \in Visits!Numbers, f \in Visits!Event:
            \/ events'[h][f] = events[h][f]
            \/ h <= Len(grants) /\ (f = "started" \/ grants[h].ended # None)
    BY <1>3, <1>5, <2>1
  <2> QED
    BY <1>7, <2>2, NothingEarlyStands
<1>14. OnRecord'
  <2>1. ASSUME NEW h \in 1..Len(grants) \ spoilt'
        PROVE  HandedOn(h)
    <3>1. Starter(h) => Starter(h)'
      BY <1>1, <1>6, HandsStay DEF Starts
    <3>2. Closer(h) => events'[h]["ended"] > 0 \/ Closer(h)'
      BY <1>0, <1>5, <1>6, HandsStay
    <3>3. events[h]["ended"] > 0 => events'[h]["ended"] > 0
      BY <1>2, <1>4, <1>5
    <3> QED
      BY <1>1, <1>2, <1>4, <1>5, <3>1, <3>2, <3>3 DEF HandedOn
  <2> QED
    BY <1>2, <1>7, <2>1, RecordStands
<1>15. AloneInIt'
  BY <1>2, <1>7, AloneStands
<1>16. Visits!EndedIsRevokedUnlessSpoilt'
  BY <1>1 DEF VisitInv, Visits!EndedIsRevokedUnlessSpoilt
<1> QED
  BY <1>10, <1>11, <1>12, <1>13, <1>14, <1>15, <1>16 DEF VisitInv

LEMMA CallDiesStands ==
    ASSUME VisitInv, Visits!VisitsAssumption, NEW c \in Callers, Visits!CallDies(c)
    PROVE  VisitInv'
<1>1. /\ spoilt' = IF calls[c].grant = 0 THEN spoilt ELSE spoilt \cup {calls[c].grant}
      /\ deaths < MaxDeaths /\ deaths' = deaths + 1
      /\ calls' = [calls EXCEPT ![c] = Visits!NoCall]
      /\ UNCHANGED <<consent, grants, sessions, events, sweep, now>>
  BY DEF Visits!CallDies, Visits!End, Visits!Hold
<1>2. /\ VisitTypes /\ Len(grants) \in Nat /\ calls[c] \in Visits!Call
      /\ spoilt \subseteq Visits!Numbers /\ deaths \in 0..MaxDeaths /\ MaxVisits \in Nat /\ MaxDeaths \in Nat
  BY VisitFacts DEF VisitInv, VisitTypes, Visits!TypeOK, Visits!VisitsAssumption
<1>3. calls[c].step \in {"session", "token", "record"} => calls[c].grant \in spoilt'
  <2>1. calls[c].step \in {"session", "token", "record"} => calls[c].grant \in 1..Len(grants)
    BY DEF VisitInv, VisitCalls, Stands
  <2> QED
    BY <1>1, <1>2, <2>1
<1>4. spoilt \subseteq spoilt' /\ spoilt' \subseteq Visits!Numbers
  <2>1. calls[c].grant \in 0..MaxVisits
    BY <1>2 DEF Visits!Call
  <2>2. calls[c].grant = 0 \/ calls[c].grant \in Visits!Numbers
    BY <1>2, <2>1 DEF Visits!Numbers
  <2> QED
    BY <1>1, <1>2, <2>2
<1>5. /\ Visits!NoCall \in Visits!Call /\ Visits!NoCall.step = "idle"
      /\ Stands(Visits!NoCall, grants, events, now)
  BY NoVisitCall DEF Stands
<1>6. /\ calls' \in [Callers -> Visits!Call] /\ VisitCalls' /\ VisitSweep' /\ NothingEarly'
      /\ OnRecord' /\ AloneInIt' /\ Visits!EndedIsRevokedUnlessSpoilt'
  BY <1>1, <1>3, <1>4, <1>5, IdleCallStands
<1>7. VisitTypes'
  BY <1>1, <1>2, <1>4, <1>6 DEF VisitTypes, Visits!TypeOK
<1> QED
  BY <1>6, <1>7 DEF VisitInv

(* The calls stand when the sweep takes a step.                            *)
LEMMA CallsKept ==
    ASSUME VisitInv, Visits!VisitsAssumption, GrantsStay, Len(grants') \in Nat, calls' = calls, now' = now,
           \A g \in Visits!Numbers: events'[g]["started"] = events[g]["started"]
    PROVE  /\ VisitCalls' /\ \A g: (Starter(g) => Starter(g)') /\ (Closer(g) => Closer(g)')
<1>1. /\ VisitTypes /\ now <= now' /\ now' \in Nat /\ calls \in [Callers -> Visits!Call]
      /\ 1..Len(grants) \subseteq Visits!Numbers
  BY VisitFacts DEF VisitInv
<1>2. ASSUME NEW d \in Callers
      PROVE  Stands(calls[d], grants', events', now')
  <2>1. Stands(calls[d], grants, events, now) /\ calls[d] \in Visits!Call
    BY <1>1 DEF VisitInv, VisitCalls
  <2>2. Starts(calls[d]) => events'[calls[d].grant]["started"] = events[calls[d].grant]["started"]
    BY <1>1, <2>1 DEF Stands, Starts
  <2> QED
    BY <1>1, <2>1, <2>2, CallStands
<1>3. VisitCalls'
  BY <1>2 DEF VisitInv, VisitCalls
<1> QED
  BY <1>3 DEF Starter, Closer

LEMMA SweepReadStands ==
    ASSUME VisitInv, Visits!VisitsAssumption, Visits!SweepRead
    PROVE  VisitInv'
<1> DEFINE due == {g \in DOMAIN grants: Visits!Expired(g)}
<1>1. /\ sweep = Visits!NoSweep /\ sweep' = [began |-> now, left |-> due, record |-> 0]
      /\ UNCHANGED <<consent, grants, sessions, events, calls, now, deaths, spoilt>>
  BY DEF Visits!SweepRead
<1>2. /\ VisitTypes /\ Len(grants) \in Nat /\ now \in Visits!Time /\ DOMAIN grants = 1..Len(grants)
      /\ 1..Len(grants) \subseteq Visits!Numbers /\ now <= now' /\ now' \in Nat
      /\ MaxVisits \in Nat /\ spoilt \subseteq spoilt'
  BY <1>1, VisitFacts DEF VisitInv, Visits!VisitsAssumption
<1>3. due \subseteq 1..Len(grants) /\ \A g \in due: grants[g].ended = None
  BY <1>2 DEF Visits!Expired
<1> HIDE DEF due
<1>4. /\ GrantsStay /\ Len(grants') \in Nat /\ Len(grants') = Len(grants)
      /\ NothingEarly' /\ AloneInIt' /\ Visits!EndedIsRevokedUnlessSpoilt'
  BY <1>1, <1>2, WorldStands
<1>5. VisitCalls' /\ \A g: (Starter(g) => Starter(g)') /\ (Closer(g) => Closer(g)')
  BY <1>1, <1>4, CallsKept
<1>6. sweep' \in Visits!Sweep /\ sweep'.left = due /\ sweep'.record = 0
  BY <1>1, <1>2, <1>3 DEF Visits!Sweep
<1>7. VisitTypes'
  BY <1>1, <1>2, <1>6 DEF VisitTypes, Visits!TypeOK
<1>8. VisitSweep'
  <2>1. \A g \in due: events[g]["expired"] = 0 /\ g # 0
    BY <1>2, <1>3 DEF VisitInv, NothingEarly
  <2> QED
    BY <1>1, <1>3, <1>4, <1>6, <2>1 DEF VisitSweep
<1>9. OnRecord'
  <2>1. sweep.record = 0
    BY <1>1 DEF Visits!NoSweep
  <2>2. \A g \in 1..Len(grants) \ spoilt': HandedOn(g)
    BY <1>1, <1>5, <2>1 DEF HandedOn
  <2> QED
    BY <1>2, <1>4, <2>2, RecordStands
<1> QED
  BY <1>4, <1>5, <1>7, <1>8, <1>9 DEF VisitInv

LEMMA SweepCloseStands ==
    ASSUME VisitInv, Visits!VisitsAssumption, NEW g \in Visits!Numbers, Visits!SweepClose(g)
    PROVE  VisitInv'
<1>1. /\ sweep.record = 0 /\ g \in sweep.left
      /\ UNCHANGED <<consent, events, calls, now, deaths, spoilt>>
  BY DEF Visits!SweepClose
<1>2. /\ VisitTypes /\ Len(grants) \in Nat /\ Len(grants) <= MaxVisits /\ now <= now' /\ now' \in Nat
      /\ sweep \in Visits!Sweep /\ sweep.began \in Visits!Time /\ MaxVisits \in Nat /\ MaxTime \in Nat
      /\ spoilt \subseteq spoilt'
  BY <1>1, VisitFacts DEF VisitInv, VisitTypes, Visits!Sweep, Visits!VisitsAssumption
<1>3. /\ g \in 1..Len(grants) /\ sweep.left \subseteq 1..Len(grants)
      /\ \A h \in sweep.left: events[h]["expired"] = 0
  BY <1>1 DEF VisitInv, VisitSweep
<1>4. CASE ~Visits!Closable(g, sweep.began)
  <2>1. sweep' = Visits!NoSweep /\ UNCHANGED <<grants, sessions>>
    BY <1>4 DEF Visits!SweepClose
  <2>2. /\ GrantsStay /\ Len(grants') \in Nat /\ Len(grants') = Len(grants)
        /\ NothingEarly' /\ AloneInIt' /\ Visits!EndedIsRevokedUnlessSpoilt'
    BY <1>1, <1>2, <2>1, WorldStands
  <2>3. VisitCalls' /\ \A h: (Starter(h) => Starter(h)') /\ (Closer(h) => Closer(h)')
    BY <1>1, <2>2, CallsKept
  <2>4. sweep' \in Visits!Sweep /\ sweep'.left = {} /\ sweep'.record = 0
    BY <1>2, <2>1 DEF Visits!Sweep, Visits!NoSweep, Visits!Time
  <2>5. VisitTypes'
    BY <1>1, <1>2, <2>1, <2>4 DEF VisitTypes, Visits!TypeOK
  <2>6. VisitSweep'
    BY <2>4 DEF VisitSweep
  <2>7. OnRecord'
    <3>1. \A h \in 1..Len(grants) \ spoilt': HandedOn(h)
      BY <1>1, <1>3, <2>1, <2>3 DEF HandedOn
    <3> QED
      BY <1>2, <2>2, <3>1, RecordStands
  <2> QED
    BY <2>2, <2>3, <2>5, <2>6, <2>7 DEF VisitInv
<1>5. CASE Visits!Closable(g, sweep.began)
  <2>1. /\ sweep' = [sweep EXCEPT !.left = sweep.left \ {g}, !.record = g]
        /\ Visits!Close(g, sweep.began)
    BY <1>5 DEF Visits!SweepClose
  <2>2. /\ grants' \in Seq(Visits!Grant) /\ Len(grants') = Len(grants) /\ GrantsStay
        /\ grants'[g].ended # None /\ \A h \in 1..Len(grants) \ {g}: grants'[h] = grants[h]
        /\ sessions' \in [Visits!Numbers -> Visits!SessionState]
        /\ Visits!EndedIsRevokedUnlessSpoilt'
    BY <1>1, <1>2, <1>3, <1>5, <2>1, CloseStands
  <2>3. Len(grants') \in Nat /\ Len(grants') <= MaxVisits
    BY <1>2, <2>2
  <2>4. VisitCalls' /\ \A h: (Starter(h) => Starter(h)') /\ (Closer(h) => Closer(h)')
    BY <1>1, <2>2, <2>3, CallsKept
  <2>5. sweep' \in Visits!Sweep /\ sweep'.left = sweep.left \ {g} /\ sweep'.record = g
    <3>1. g \in 0..MaxVisits /\ sweep.left \ {g} \in SUBSET Visits!Numbers
      BY <1>2 DEF Visits!Sweep, Visits!Numbers
    <3> QED
      BY <1>2, <2>1, <3>1 DEF Visits!Sweep
  <2>6. VisitTypes'
    BY <1>1, <1>2, <2>2, <2>3, <2>5 DEF VisitTypes, Visits!TypeOK
  <2>7. VisitSweep'
    BY <1>1, <1>3, <2>2, <2>5 DEF VisitSweep
  <2>8. NothingEarly'
    BY <1>1, <2>2, <2>3, NothingEarlyStands
  <2>9. OnRecord'
    <3>1. \A h \in 1..Len(grants): grants'[h].ended # None => grants[h].ended # None \/ sweep'.record = h
      BY <2>2, <2>5
    <3>2. \A h \in 1..Len(grants) \ spoilt': HandedOn(h)
      BY <1>1, <1>3, <2>4, <3>1 DEF HandedOn
    <3> QED
      BY <1>2, <2>2, <3>2, RecordStands
  <2>10. AloneInIt'
    BY <1>2, <2>2, AloneStands
  <2> QED
    BY <2>2, <2>4, <2>6, <2>7, <2>8, <2>9, <2>10 DEF VisitInv
<1> QED
  BY <1>4, <1>5

LEMMA SweepRecordStands ==
    ASSUME VisitInv, Visits!VisitsAssumption, Visits!SweepRecord
    PROVE  VisitInv'
<1>0. PICK g : g = sweep.record
  OBVIOUS
<1>1. /\ g # 0 /\ Visits!Happened(g, "expired")
      /\ sweep' = IF sweep.left = {} THEN Visits!NoSweep ELSE [sweep EXCEPT !.record = 0]
      /\ UNCHANGED <<consent, grants, sessions, calls, now, deaths, spoilt>>
  BY <1>0 DEF Visits!SweepRecord, Visits!Onward
<1>2. /\ VisitTypes /\ Len(grants) \in Nat /\ Len(grants) <= MaxVisits /\ 1..Len(grants) \subseteq Visits!Numbers
      /\ now <= now' /\ now' \in Nat /\ spoilt \subseteq spoilt' /\ sweep \in Visits!Sweep
      /\ events \in [Visits!Numbers -> [Visits!Event -> 0..2]] /\ MaxVisits \in Nat /\ MaxTime \in Nat
  BY <1>1, VisitFacts DEF VisitInv, VisitTypes, Visits!VisitsAssumption
<1>3. /\ g \in 1..Len(grants) /\ g \in Visits!Numbers /\ grants[g].ended # None
      /\ events[g]["expired"] = 0 /\ sweep.left \subseteq 1..Len(grants)
      /\ \A h \in sweep.left: events[h]["expired"] = 0 /\ h # g
  BY <1>0, <1>1, <1>2 DEF VisitInv, VisitSweep
<1>4. "started" \in Visits!Event /\ "ended" \in Visits!Event /\ "expired" \in Visits!Event
  BY DEF Visits!Event
<1>5. /\ events' \in [Visits!Numbers -> [Visits!Event -> 0..2]] /\ events'[g]["expired"] > 0
      /\ \A h \in Visits!Numbers, f \in Visits!Event:
             h # g \/ f # "expired" => events'[h][f] = events[h][f]
  BY <1>1, <1>2, <1>3, <1>4, EventCounted
<1>6. sweep' \in Visits!Sweep /\ sweep'.left = sweep.left /\ sweep'.record = 0
  <2>1. CASE sweep.left = {}
    BY <1>1, <1>2, <2>1 DEF Visits!Sweep, Visits!NoSweep, Visits!Time
  <2>2. CASE sweep.left # {}
    BY <1>1, <1>2, <2>2 DEF Visits!Sweep
  <2> QED
    BY <2>1, <2>2
<1>7. GrantsStay /\ Len(grants') \in Nat /\ Len(grants') = Len(grants) /\ Len(grants') <= MaxVisits
  BY <1>1, <1>2 DEF GrantsStay
<1>10. VisitTypes'
  BY <1>1, <1>2, <1>5, <1>6 DEF VisitTypes, Visits!TypeOK
<1>11. VisitCalls' /\ \A h: (Starter(h) => Starter(h)') /\ (Closer(h) => Closer(h)')
  BY <1>1, <1>4, <1>5, <1>7, CallsKept
<1>12. VisitSweep'
  <2>1. \A h \in sweep.left: events'[h]["expired"] = 0 /\ h # 0
    BY <1>2, <1>3, <1>4, <1>5
  <2> QED
    BY <1>3, <1>6, <1>7, <2>1 DEF VisitSweep
<1>13. NothingEarly'
  <2>1. g <= Len(grants)
    BY <1>2, <1>3
  <2>2. \A h \in Visits!Numbers, f \in Visits!Event:
            \/ events'[h][f] = events[h][f]
            \/ h <= Len(grants) /\ (f = "started" \/ grants[h].ended # None)
    BY <1>3, <1>5, <2>1
  <2> QED
    BY <1>7, <2>2, NothingEarlyStands
<1>14. OnRecord'
  <2>1. ASSUME NEW h \in 1..Len(grants) \ spoilt'
        PROVE  HandedOn(h)
    <3>1. sweep.record = h => events'[h]["expired"] > 0
      BY <1>0, <1>5
    <3>2. events[h]["expired"] > 0 => events'[h]["expired"] > 0
      BY <1>2, <1>4, <1>5
    <3> QED
      BY <1>1, <1>2, <1>4, <1>5, <1>11, <3>1, <3>2 DEF HandedOn
  <2> QED
    BY <1>2, <1>7, <2>1, RecordStands
<1>15. AloneInIt'
  BY <1>2, <1>7, AloneStands
<1>16. Visits!EndedIsRevokedUnlessSpoilt'
  BY <1>1 DEF VisitInv, Visits!EndedIsRevokedUnlessSpoilt
<1> QED
  BY <1>10, <1>11, <1>12, <1>13, <1>14, <1>15, <1>16 DEF VisitInv

LEMMA SweepDiesStands ==
    ASSUME VisitInv, Visits!VisitsAssumption, Visits!SweepDies
    PROVE  VisitInv'
<1>1. /\ spoilt' = IF sweep.record = 0 THEN spoilt ELSE spoilt \cup {sweep.record}
      /\ deaths < MaxDeaths /\ deaths' = deaths + 1 /\ sweep' = Visits!NoSweep
      /\ UNCHANGED <<consent, grants, sessions, events, calls, now>>
  BY DEF Visits!SweepDies
<1>2. /\ VisitTypes /\ Len(grants) \in Nat /\ now <= now' /\ now' \in Nat
      /\ 1..Len(grants) \subseteq Visits!Numbers /\ spoilt \subseteq Visits!Numbers
      /\ deaths \in 0..MaxDeaths /\ {MaxVisits, MaxTime, MaxDeaths} \subseteq Nat
  BY <1>1, VisitFacts DEF VisitInv, VisitTypes, Visits!TypeOK, Visits!VisitsAssumption
<1>3. sweep.record # 0 => sweep.record \in 1..Len(grants) /\ sweep.record \in spoilt'
  BY <1>1 DEF VisitInv, VisitSweep
<1>4. spoilt \subseteq spoilt' /\ spoilt' \subseteq Visits!Numbers
  BY <1>1, <1>2, <1>3
<1>5. /\ GrantsStay /\ Len(grants') \in Nat /\ Len(grants') = Len(grants)
      /\ NothingEarly' /\ AloneInIt' /\ Visits!EndedIsRevokedUnlessSpoilt'
  BY <1>1, <1>2, <1>4, WorldStands
<1>6. VisitCalls' /\ \A h: (Starter(h) => Starter(h)') /\ (Closer(h) => Closer(h)')
  BY <1>1, <1>5, CallsKept
<1>7. sweep' \in Visits!Sweep /\ sweep'.left = {} /\ sweep'.record = 0
  BY <1>1, <1>2 DEF Visits!Sweep, Visits!NoSweep, Visits!Time
<1>8. VisitTypes'
  BY <1>1, <1>2, <1>4, <1>7 DEF VisitTypes, Visits!TypeOK
<1>9. VisitSweep'
  BY <1>7 DEF VisitSweep
<1>10. OnRecord'
  <2>1. \A h \in 1..Len(grants) \ spoilt': HandedOn(h)
    BY <1>1, <1>2, <1>3, <1>6 DEF HandedOn
  <2> QED
    BY <1>4, <1>5, <2>1, RecordStands
<1> QED
  BY <1>5, <1>6, <1>8, <1>9, <1>10 DEF VisitInv

LEMMA VisitInit ==
    ASSUME Visits!Init, Visits!VisitsAssumption
    PROVE  VisitInv
<1>1. /\ grants = <<>> /\ Len(grants) = 0 /\ DOMAIN grants = {} /\ grants \in Seq(Visits!Grant)
      /\ sweep = Visits!NoSweep /\ now = 0 /\ spoilt = {} /\ deaths = 0 /\ consent = TRUE
      /\ sessions = [g \in Visits!Numbers |-> "none"]
      /\ events = [g \in Visits!Numbers |-> [e \in Visits!Event |-> 0]]
      /\ calls = [c \in Callers |-> Visits!NoCall]
  BY DEF Visits!Init
<1>2. {MaxVisits, MaxTime, MaxDeaths} \subseteq Nat
  BY DEF Visits!VisitsAssumption
<1>3. Visits!NoSweep \in Visits!Sweep /\ Visits!NoSweep.left = {} /\ Visits!NoSweep.record = 0
  BY <1>2 DEF Visits!Sweep, Visits!NoSweep, Visits!Time
<1>4. VisitTypes
  <2>1. consent \in BOOLEAN
    BY <1>1, Zenon
  <2>2. /\ sessions \in [Visits!Numbers -> Visits!SessionState]
        /\ events \in [Visits!Numbers -> [Visits!Event -> 0..2]]
        /\ calls \in [Callers -> Visits!Call] /\ sweep \in Visits!Sweep
    BY <1>1, <1>3, NoVisitCall DEF Visits!SessionState
  <2>3. now \in Visits!Time /\ deaths \in 0..MaxDeaths /\ spoilt \subseteq Visits!Numbers
    BY <1>1, <1>2 DEF Visits!Time
  <2> QED
    BY <1>1, <1>2, <2>1, <2>2, <2>3 DEF VisitTypes, Visits!TypeOK
<1>5. VisitCalls
  BY <1>1, NoVisitCall DEF VisitCalls, Stands, Starts
<1>6. VisitSweep /\ OnRecord /\ AloneInIt
  BY <1>1, <1>3 DEF VisitSweep, OnRecord, AloneInIt
<1>7. NothingEarly
  BY <1>1 DEF NothingEarly, Visits!Event
<1>8. Visits!EndedIsRevokedUnlessSpoilt
  BY <1>1 DEF Visits!EndedIsRevokedUnlessSpoilt
<1> QED
  BY <1>4, <1>5, <1>6, <1>7, <1>8 DEF VisitInv

LEMMA VisitStep ==
    ASSUME VisitInv, Visits!VisitsAssumption, [Visits!Next]_Visits!vars
    PROVE  VisitInv'
<1>1. CASE UNCHANGED Visits!vars
  <2>1. /\ UNCHANGED <<grants, events, calls, sweep, deaths, spoilt, consent, sessions>> /\ now' = now
    BY <1>1 DEF Visits!vars
  <2>2. /\ now \in Visits!Time /\ now \in Nat /\ consent \in BOOLEAN
        /\ sessions \in [Visits!Numbers -> Visits!SessionState]
    BY VisitFacts DEF VisitInv, VisitTypes, Visits!TypeOK
  <2>3. now <= now' /\ now' \in Visits!Time /\ sessions' \in [Visits!Numbers -> Visits!SessionState]
    BY <2>1, <2>2
  <2>4. consent' \in BOOLEAN
    BY <2>1, <2>2, Zenon
  <2> QED
    BY <2>1, <2>3, <2>4, OthersStand
<1>2. ASSUME NEW c \in Callers,
             \/ \E o \in Operators: Visits!StartRead(c, o)
             \/ Visits!StartGrant(c) \/ Visits!StartSession(c) \/ Visits!StartRecord(c)
             \/ \E g \in DOMAIN grants: Visits!EndRead(c, g)
             \/ Visits!EndClose(c) \/ Visits!EndRecord(c) \/ Visits!CallDies(c)
      PROVE  VisitInv'
  BY <1>2, StartReadStands, StartGrantStands, StartSessionStands, StartRecordStands, EndReadStands,
     EndCloseStands, EndRecordStands, CallDiesStands
<1>3. ASSUME Visits!SweepRead \/ Visits!SweepRecord \/ \E g \in Visits!Numbers: Visits!SweepClose(g)
      PROVE  VisitInv'
  BY <1>3, SweepReadStands, SweepRecordStands, SweepCloseStands
<1>4. CASE Visits!SweepDies
  BY <1>4, SweepDiesStands
<1>5. ASSUME \/ \E g \in DOMAIN grants: Visits!RevokeSession(g)
             \/ Visits!WithdrawConsent \/ Visits!Tick
      PROVE  VisitInv'
  BY <1>5, QuietStands
<1> QED
  BY <1>1, <1>2, <1>3, <1>4, <1>5 DEF Visits!Next

(* What visits keep at every moment, for any number of operators, requests *)
(* and visits: all of VisitInv, from which the theorems below follow.      *)
THEOREM VisitInvHolds ==
    ASSUME Visits!VisitsAssumption
    PROVE  Visits!Spec => []VisitInv
<1>1. Visits!Init => VisitInv
  BY VisitInit
<1>2. VisitInv /\ [Visits!Next]_Visits!vars => VisitInv'
  BY VisitStep
<1> QED
  BY <1>1, <1>2, PTL DEF Visits!Spec

(* Type correctness of visits (TypeOK of SupportVisits), for any number of *)
(* calls and visits.                                                       *)
THEOREM VisitTypeCorrect ==
    ASSUME Visits!VisitsAssumption
    PROVE  Visits!Spec => []Visits!TypeOK
<1>1. VisitInv => Visits!TypeOK
  BY DEF VisitInv, VisitTypes
<1> QED
  BY <1>1, VisitInvHolds, PTL

(* "One active support session per subject" (start): with any number of    *)
(* operators, only a start that came beside another one, or died, lets two *)
(* into one account.                                                       *)
THEOREM OneVisitCorrect ==
    ASSUME Visits!VisitsAssumption
    PROVE  Visits!Spec => []Visits!OneVisitAtATimeUnlessSpoilt
<1>1. ASSUME VisitInv
      PROVE  Visits!OneVisitAtATimeUnlessSpoilt
  <2>1. /\ Len(grants) \in Nat /\ DOMAIN grants = 1..Len(grants) /\ now \in Nat
        /\ \A g \in 1..Len(grants): grants[g].expires \in Nat
    BY <1>1, VisitFacts DEF VisitInv
  <2>2. ASSUME NEW h \in 1..Len(grants) \ spoilt, NEW g \in 1..Len(grants), g < h
        PROVE  ~Visits!IsImpersonationActive(grants[g])
    <3>1. g \in 1..(h - 1)
      BY <2>1, <2>2
    <3>2. IsOver(grants[g], now)
      BY <1>1, <2>2, <3>1 DEF VisitInv, AloneInIt
    <3> QED
      BY <2>1, <3>2 DEF IsOver, Visits!IsImpersonationActive
  <2>3. \A g, h \in 1..Len(grants): g # h => g < h \/ h < g
    BY <2>1
  <2> QED
    BY <2>1, <2>2, <2>3 DEF Visits!OneVisitAtATimeUnlessSpoilt
<1> QED
  BY <1>1, VisitInvHolds, PTL

(* The session of a visit that was ended does not work any more, unless it *)
(* was made after the end (end, sweepExpired).                             *)
THEOREM RevokedCorrect ==
    ASSUME Visits!VisitsAssumption
    PROVE  Visits!Spec => []Visits!EndedIsRevokedUnlessSpoilt
<1>1. VisitInv => Visits!EndedIsRevokedUnlessSpoilt
  BY DEF VisitInv
<1> QED
  BY <1>1, VisitInvHolds, PTL

(* "An explicit end event for every start": a visit nobody is at has its   *)
(* start on record, and its end just when it has ended, unless something   *)
(* died over it.                                                           *)
THEOREM OnRecordCorrect ==
    ASSUME Visits!VisitsAssumption
    PROVE  Visits!Spec => []Visits!EndedIsOnRecordUnlessSpoilt
<1>1. ASSUME VisitInv
      PROVE  Visits!EndedIsOnRecordUnlessSpoilt
  <2>1. /\ DOMAIN grants = 1..Len(grants) /\ 1..Len(grants) \subseteq Visits!Numbers
        /\ events \in [Visits!Numbers -> [Visits!Event -> 0..2]]
    BY <1>1, VisitFacts DEF VisitInv
  <2>2. ASSUME NEW g \in 1..Len(grants) \ spoilt, ~Visits!AtIt(g)
        PROVE  /\ events[g]["started"] = 1
               /\ grants[g].ended # None <=> events[g]["ended"] + events[g]["expired"] > 0
    <3>1. ~Starter(g) /\ ~Closer(g) /\ sweep.record # g
      BY <2>2 DEF Visits!AtIt, Starter, Closer
    <3>2. events[g]["ended"] \in 0..2 /\ events[g]["expired"] \in 0..2
      BY <2>1 DEF Visits!Event
    <3>3. /\ events[g]["started"] = 1
          /\ grants[g].ended # None => events[g]["ended"] > 0 \/ events[g]["expired"] > 0
      BY <1>1, <3>1 DEF VisitInv, OnRecord
    <3>4. grants[g].ended = None => events[g]["ended"] = 0 /\ events[g]["expired"] = 0
      BY <1>1 DEF VisitInv, NothingEarly
    <3> QED
      BY <3>2, <3>3, <3>4
  <2> QED
    BY <2>1, <2>2 DEF Visits!EndedIsOnRecordUnlessSpoilt
<1> QED
  BY <1>1, VisitInvHolds, PTL

LEMMA ClosedStays ==
    ASSUME VisitInv, Visits!VisitsAssumption, [Visits!Next]_Visits!vars
    PROVE  Visits!ClosedStep
<1>1. /\ grants \in Seq(Visits!Grant) /\ Len(grants) \in Nat /\ DOMAIN grants = 1..Len(grants)
      /\ now \in Visits!Time /\ now \in Nat /\ sweep.began \in Visits!Time
  BY VisitFacts DEF VisitInv, Visits!Sweep
<1>2. CASE grants' = grants
  BY <1>2 DEF Visits!ClosedStep
<1>3. ASSUME NEW c \in Callers, Visits!StartGrant(c)
      PROVE  Visits!ClosedStep
  <2> DEFINE new == [operator |-> calls[c].operator, expires |-> now + Window, ended |-> None]
  <2>1. grants' = Append(grants, new) /\ calls[c].step = "grant"
    BY <1>3 DEF Visits!StartGrant, Visits!At
  <2>2. calls[c].operator \in Operators
    BY <2>1 DEF VisitInv, VisitCalls, Stands
  <2>3. new \in Visits!Grant
    BY <1>1, <2>2 DEF Visits!Grant, Visits!Time, Visits!VisitsAssumption
  <2> HIDE DEF new
  <2> QED
    BY <1>1, <2>1, <2>3, AppendProperties DEF Visits!ClosedStep
<1>4. ASSUME NEW c \in Callers, Visits!EndClose(c)
      PROVE  Visits!ClosedStep
  <2>0. PICK g : g = calls[c].grant
    OBVIOUS
  <2>1. g \in 1..Len(grants)
    BY <1>4, <2>0 DEF Visits!EndClose, Visits!At, VisitInv, VisitCalls, Stands
  <2>2. CASE Visits!Closable(g, now) /\ Visits!Close(g, now)
    BY <1>1, <2>1, <2>2, CloseStands DEF Visits!ClosedStep
  <2> QED
    BY <1>2, <1>4, <2>0, <2>2 DEF Visits!EndClose
<1>5. ASSUME NEW g \in Visits!Numbers, Visits!SweepClose(g)
      PROVE  Visits!ClosedStep
  <2>1. g \in 1..Len(grants)
    BY <1>5 DEF Visits!SweepClose, VisitInv, VisitSweep
  <2>2. CASE Visits!Closable(g, sweep.began) /\ Visits!Close(g, sweep.began)
    BY <1>1, <2>1, <2>2, CloseStands DEF Visits!ClosedStep
  <2> QED
    BY <1>2, <1>5, <2>2 DEF Visits!SweepClose
<1> QED
  BY <1>2, <1>3, <1>4, <1>5 DEF Visits!Next, Visits!vars, Visits!StartRead, Visits!StartSession,
     Visits!StartRecord, Visits!EndRead, Visits!EndRecord, Visits!CallDies, Visits!SweepRead,
     Visits!SweepRecord, Visits!RevokeSession, Visits!WithdrawConsent, Visits!SweepDies, Visits!Tick

(* "Closing is one-way" (the trigger on impersonation_grants): what closed *)
(* a grant first stays, and so does all the rest of it.                    *)
THEOREM ClosedCorrect ==
    ASSUME Visits!VisitsAssumption
    PROVE  Visits!Spec => Visits!ClosedForGood
<1>1. VisitInv /\ [Visits!Next]_Visits!vars => [Visits!ClosedStep]_Visits!vars
  BY ClosedStays
<1> QED
  BY <1>1, VisitInvHolds, PTL DEF Visits!Spec, Visits!ClosedForGood
=============================================================================
