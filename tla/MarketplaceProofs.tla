--------------------------- MODULE MarketplaceProofs ---------------------------
(***************************************************************************)
(* What institutions and guides offer while others change it, for any      *)
(* number of requests, moments and rows.                                   *)
(*                                                                         *)
(* One institution's verification (Institutions): no stage is skipped, and *)
(* only a write that came late takes one back, leaves a stage without the  *)
(* domain it was entered on, or a badge without a partnership; a challenge *)
(* is checked past its cap once for each request beside the first.         *)
(*                                                                         *)
(* What is counted: the places of a guide's slots and the rewards of its   *)
(* sessions (Calendar), requests in a window (Limits), and messages of a   *)
(* guide in an hour (Trust).                                               *)
(*                                                                         *)
(* What is listed: the polls of universities (Polls), the import of a      *)
(* catalogue file (Sheets), and one programme with its versions and its    *)
(* search document (Programmes).  Every theorem is about one of the seven, *)
(* whose variables are its own.                                            *)
(***************************************************************************)
EXTENDS Institutions, FiniteSetTheorems, SequenceTheorems, TLAPS

CONSTANTS
    Mixes, CrashSteps, Hours, MaxSlots, MaxSessions, CalendarTime,
    Instances, Keys, None, Limit, Window, LocalMaxKeys, MaxErrors, LimitTime,
    Areas, Threads, Texts, ReportTypes, Rate, Recipients, Rows, Sla, QueueLimit,
    MaxCases, MaxEvents, MaxMessages, MessageTime,
    Connectors, Sweepers, Never, Interval, PollTime,
    Refs, Names, Levels, Fees, FileName, Files, Known, MaxImports, MaxProgrammes,
    Workers, Requirements, FreshFor, Deadlines, ProgrammeMixes, MaxVersions, MaxJobs, ProgrammeTime

VARIABLES
    active, caseOpen, slots, sessions, rewards, calendarCalls, calendarNow, mix, moved, died,
    redis, healthy, local, limitCalls, limitNow, errors, allowed, switched,
    area, cases, events, messages, flags, notices, file, desk, messageCalls, stale,
    lastPolled, enabled, sweeps, polls, pollNow,
    programmes, imports, sheetCalls, again,
    versions, intakes, basis, document, reindexes, builds, programmeCalls, programmeMix,
    programmeNow, torn

Calendar == INSTANCE GuideSessions WITH
    calls <- calendarCalls, now <- calendarNow, MaxTime <- CalendarTime
Limits == INSTANCE RateLimits WITH calls <- limitCalls, now <- limitNow, MaxTime <- LimitTime
Trust == INSTANCE TrustCases WITH
    calls <- messageCalls, MaxTime <- MessageTime, Limit <- QueueLimit
Polls == INSTANCE StatusPolling WITH now <- pollNow, MaxTime <- PollTime
Sheets == INSTANCE Imports WITH calls <- sheetCalls
Programmes == INSTANCE Catalogue WITH
    rows <- versions, partnership <- basis, index <- document, jobs <- reindexes,
    calls <- programmeCalls, mix <- programmeMix, now <- programmeNow,
    Sla <- FreshFor, Mixes <- ProgrammeMixes, MaxTime <- ProgrammeTime

(***************************************************************************)
(* The inductive invariant of an institution's verification                *)
(***************************************************************************)

(* What an advance in progress found when it read: it goes one stage on    *)
(* from there, and the stages up to there had been entered.                *)
AdvancesByOne ==
    \A c \in Callers: At(c, "advance") =>
        /\ calls[c].to = calls[c].from.stage + 1
        /\ 1..calls[c].from.stage \subseteq entered

(* The checks of challenge k in progress, which have read its attempts and *)
(* not raised them yet.                                                    *)
Checking(k) == {c \in Callers: calls[c].step \in {"resolve", "answer"} /\ calls[c].challenge = k}

ChecksExist ==
    /\ Len(challenges) <= MaxChallenges
    /\ \A c \in Callers: calls[c].step \in {"resolve", "answer"} =>
           calls[c].challenge \in DOMAIN challenges

(* The attempts a challenge has, with those about to be counted.           *)
AttemptsRoom ==
    \A k \in DOMAIN challenges:
        challenges[k].attempts + Cardinality(Checking(k)) < MaxAttempts + Cardinality(Callers)

(* Where the domain is evidence, for a stage entered or about to be, it is *)
(* confirmed until a late answer takes the confirmation back.              *)
OnEvidenceOfDomain ==
    \/ backed # {}
    \/ \E c \in Callers: At(c, "advance") /\ calls[c].onEvidence /\ calls[c].to \in OnDomain
EvidenceStands == raced \/ (OnEvidenceOfDomain => DomainConfirmed)

VerificationInv ==
    /\ TypeOK /\ AdvancesByOne /\ ChecksExist /\ AttemptsRoom
    /\ EveryStageEntered /\ EvidenceStands /\ BadgeHasPartnershipUnlessRaced

(***************************************************************************)
(* Facts of the operators                                                  *)
(***************************************************************************)

LEMMA FiveStages == Active = 5 /\ StageIndex = 0..5
BY DEF Active, StageIndex, Stages

LEMMA NoCallType ==
    ASSUME InstitutionsAssumption
    PROVE  NoCall \in Call
BY FiveStages DEF NoCall, Call, Unread, Institution, InstitutionsAssumption

LEMMA PreconditionType ==
    ASSUME TypeOK, NEW to \in 1..5
    PROVE  Precondition(to) \in BOOLEAN
<1>1. DomainConfirmed \in BOOLEAN
  BY DEF DomainConfirmed
<1>2. partnership.contract \in BOOLEAN /\ legal \in BOOLEAN /\ signatory \in BOOLEAN
  BY DEF TypeOK, Partnership
<1>3. to = 1 \/ to = 2 \/ to = 3 \/ to = 4 \/ to = 5
  OBVIOUS
<1> QED
  BY <1>1, <1>2, <1>3 DEF Precondition

(* Holding a call leaves the others where they were.                       *)
LEMMA HeldCalls ==
    ASSUME calls \in [Callers -> Call], NEW c \in Callers, NEW call \in Call, Hold(c, call)
    PROVE  /\ calls' \in [Callers -> Call]
           /\ calls'[c] = call
           /\ \A d \in Callers \ {c}: calls'[d] = calls[d]
BY DEF Hold

LEMMA EndedCalls ==
    ASSUME InstitutionsAssumption, calls \in [Callers -> Call], NEW c \in Callers, End(c)
    PROVE  /\ calls' \in [Callers -> Call]
           /\ calls'[c] = NoCall
           /\ \A d \in Callers \ {c}: calls'[d] = calls[d]
BY NoCallType, HeldCalls DEF End

LEMMA CheckingFinite ==
    ASSUME InstitutionsAssumption, NEW k
    PROVE  /\ IsFiniteSet(Checking(k)) /\ Cardinality(Checking(k)) \in Nat
           /\ Cardinality(Callers) \in Nat /\ Cardinality(Checking(k)) <= Cardinality(Callers)
<1>1. Checking(k) \subseteq Callers
  BY DEF Checking
<1> QED
  BY <1>1, FS_Subset, FS_CardinalityType DEF InstitutionsAssumption

(* A step that starts no check leaves every challenge as many in progress  *)
(* or fewer.                                                               *)
LEMMA CheckingShrinks ==
    ASSUME InstitutionsAssumption, NEW k, Checking(k)' \subseteq Checking(k)
    PROVE  Cardinality(Checking(k)') \in Nat /\ Cardinality(Checking(k)') <= Cardinality(Checking(k))
BY CheckingFinite, FS_Subset, FS_CardinalityType

(***************************************************************************)
(* The first state                                                         *)
(***************************************************************************)

LEMMA InitHolds ==
    ASSUME InstitutionsAssumption, Init
    PROVE  VerificationInv
<1> USE DEF Init
<1>1. challenges \in Seq(Challenge) /\ Len(challenges) = 0 /\ DOMAIN challenges = {}
  BY EmptySeq, FiveStages
<1>2. TypeOK
  <2>1. institution \in Institution /\ calls \in [Callers -> Call]
    BY NoCallType, FiveStages DEF Unread, Institution
  <2>2. partnership \in Partnership
    BY DEF Partnership
  <2>3. now \in Time
    BY DEF InstitutionsAssumption, Time
  <2> QED
    BY <1>1, <2>1, <2>2, <2>3 DEF TypeOK
<1>3. AdvancesByOne
  BY DEF AdvancesByOne, At, NoCall
<1>4. ChecksExist
  BY <1>1 DEF ChecksExist, NoCall, InstitutionsAssumption
<1>5. AttemptsRoom
  BY <1>1 DEF AttemptsRoom
<1>6. EveryStageEntered
  BY DEF EveryStageEntered, Unread
<1>7. EvidenceStands
  BY DEF EvidenceStands, OnEvidenceOfDomain, At, NoCall
<1>8. BadgeHasPartnershipUnlessRaced
  BY FiveStages DEF BadgeHasPartnershipUnlessRaced, BadgeHasPartnership, Badge, Unread
<1> QED
  BY <1>2, <1>3, <1>4, <1>5, <1>6, <1>7, <1>8 DEF VerificationInv

(***************************************************************************)
(* Types                                                                   *)
(***************************************************************************)

LEMMA TypeStep ==
    ASSUME InstitutionsAssumption, VerificationInv, [Next]_vars
    PROVE  TypeOK'
<1> USE DEF TypeOK
<1> SUFFICES ASSUME VerificationInv, TypeOK, ChecksExist, AttemptsRoom PROVE TypeOK'
  BY DEF VerificationInv
<1>1. ASSUME NEW c \in Callers, NEW to \in 1..Active, NEW role \in Roles, NEW justified \in BOOLEAN,
             AdvanceRead(c, to, role, justified)
      PROVE  TypeOK'
  <2>1. Precondition(to) \in BOOLEAN
    BY <1>1, FiveStages, PreconditionType
  <2>2. [NoCall EXCEPT !.step = "advance", !.to = to, !.from = institution,
                       !.onEvidence = Precondition(to)] \in Call
    <3>1. to \in StageIndex /\ institution \in Institution
      BY FiveStages
    <3>2. \A b \in BOOLEAN:
              [NoCall EXCEPT !.step = "advance", !.to = to, !.from = institution, !.onEvidence = b] \in Call
      BY <3>1, NoCallType DEF Call
    <3> QED
      BY <2>1, <3>2
  <2> QED
    BY <1>1, <2>2, HeldCalls DEF AdvanceRead
<1>2. ASSUME NEW c \in Callers, AdvanceWrite(c)
      PROVE  TypeOK'
  <2>1. calls[c].to \in 1..Active
    BY <1>2, FiveStages DEF AdvanceWrite, VerificationInv, AdvancesByOne, Call, Institution, At
  <2>2. institution' \in Institution /\ entered' \subseteq 1..Active /\ backed' \subseteq OnDomain
    BY <1>2, <2>1, FiveStages DEF AdvanceWrite, Institution, NextState
  <2>3. raced' \in BOOLEAN
    BY <1>2 DEF AdvanceWrite
  <2>4. [calls[c] EXCEPT !.step = "activate"] \in Call
    BY DEF Call
  <2>5. calls' \in [Callers -> Call]
    BY <1>2, <2>4, HeldCalls, EndedCalls DEF AdvanceWrite
  <2> QED
    BY <1>2, <2>2, <2>3, <2>5 DEF AdvanceWrite
<1>3. ASSUME NEW c \in Callers, AdvanceActivate(c)
      PROVE  TypeOK'
  BY <1>3, EndedCalls DEF AdvanceActivate, Partnership
<1>4. ASSUME NEW c \in Callers, CallDies(c)
      PROVE  TypeOK'
  BY <1>4, EndedCalls DEF CallDies
<1>5. ASSUME NEW c \in Callers, NEW k \in DOMAIN challenges, CheckRead(c, k)
      PROVE  TypeOK'
  <2>1. k \in 0..MaxChallenges
    BY DEF ChecksExist, InstitutionsAssumption
  <2>2. [NoCall EXCEPT !.step = "resolve", !.challenge = k] \in Call
    BY <2>1, NoCallType DEF Call
  <2> QED
    BY <1>5, <2>2, HeldCalls DEF CheckRead
<1>6. ASSUME NEW c \in Callers, CheckResolve(c)
      PROVE  TypeOK'
  <2>1. PICK found \in {FALSE, InDns(calls[c].challenge)}:
            Hold(c, [calls[c] EXCEPT !.step = "answer", !.found = found])
    BY <1>6 DEF CheckResolve
  <2>2. [calls[c] EXCEPT !.step = "answer", !.found = found] \in Call
    <3>1. \A b \in BOOLEAN: [calls[c] EXCEPT !.step = "answer", !.found = b] \in Call
      BY DEF Call
    <3>2. InDns(calls[c].challenge) \in BOOLEAN
      BY DEF InDns
    <3>3. found \in BOOLEAN
      BY <3>2
    <3> QED
      BY <3>1, <3>3
  <2> QED
    BY <1>6, <2>1, <2>2, HeldCalls DEF CheckResolve
<1>7. ASSUME NEW c \in Callers, CheckWrite(c)
      PROVE  TypeOK'
  <2> DEFINE k == calls[c].challenge
  <2>1. k \in DOMAIN challenges /\ c \in Checking(k)
    BY <1>7 DEF CheckWrite, ChecksExist, Checking, At
  <2>2. Cardinality(Checking(k)) >= 1
    <3>1. Checking(k) # {}
      BY <2>1
    <3> QED
      BY <3>1, CheckingFinite, FS_EmptySet
  <2>3. challenges[k] \in Challenge
    BY <2>1, ElementOfSeq
  <2>4. challenges[k].attempts + 1 \in 0..(MaxAttempts + Cardinality(Callers))
    <3>1. challenges[k].attempts \in Nat /\ MaxAttempts \in Nat
      BY <2>3 DEF Challenge, InstitutionsAssumption
    <3>2. Cardinality(Checking(k)) \in Nat /\ Cardinality(Callers) \in Nat
      BY CheckingFinite
    <3>3. challenges[k].attempts + Cardinality(Checking(k)) < MaxAttempts + Cardinality(Callers)
      BY <2>1 DEF AttemptsRoom
    <3> QED
      BY <2>2, <3>1, <3>2, <3>3
  <2>5. [challenges[k] EXCEPT !.attempts = @ + 1, !.confirmed = calls[c].found] \in Challenge
    BY <2>3, <2>4 DEF Challenge, Call
  <2>6. challenges' \in Seq(Challenge)
    <3>1. challenges' = [challenges EXCEPT ![k] =
              [challenges[k] EXCEPT !.attempts = @ + 1, !.confirmed = calls[c].found]]
      BY <1>7, <2>1, <2>3 DEF CheckWrite, Challenge
    <3> HIDE DEF k
    <3> QED
      BY <2>1, <2>5, <3>1, ExceptSeq
  <2> QED
    BY <1>7, <2>6, EndedCalls DEF CheckWrite
<1>8. CASE RecordEvidence
  BY <1>8 DEF RecordEvidence
<1>9. CASE UpdatePartnership
  BY <1>9 DEF UpdatePartnership, Partnership
<1>10. CASE RevokePartnership
  BY <1>10 DEF RevokePartnership, Partnership, Institution, Revoked
<1>11. CASE IssueChallenge
  <2>1. [expires |-> now + Ttl, attempts |-> 0, confirmed |-> FALSE] \in Challenge
    <3>1. Cardinality(Callers) \in Nat
      BY FS_CardinalityType DEF InstitutionsAssumption
    <3>2. 0 \in 0..(MaxAttempts + Cardinality(Callers)) /\ now + Ttl \in 0..(MaxTime + Ttl)
      BY <3>1 DEF Time, InstitutionsAssumption
    <3> QED
      BY <3>2 DEF Challenge
  <2>2. challenges' \in Seq(Challenge)
    BY <1>11, <2>1, AppendProperties DEF IssueChallenge
  <2> QED
    BY <1>11, <2>2 DEF IssueChallenge
<1>12. ASSUME NEW k \in DOMAIN challenges, PublishRecord(k)
       PROVE  TypeOK'
  <2>1. k \in Numbers
    BY DEF Numbers, ChecksExist, InstitutionsAssumption
  <2> QED
    BY <1>12, <2>1 DEF PublishRecord
<1>13. CASE Tick
  BY <1>13 DEF Tick, Time, InstitutionsAssumption
<1>14. CASE UNCHANGED vars
  BY <1>14 DEF vars
<1> QED
  BY <1>1, <1>2, <1>3, <1>4, <1>5, <1>6, <1>7, <1>8, <1>9, <1>10, <1>11, <1>12, <1>13, <1>14 DEF Next

(***************************************************************************)
(* What a step does to the calls in progress                               *)
(***************************************************************************)

(* Evidence, stages entered and challenges are only ever added.            *)
LEMMA HistoryGrows ==
    ASSUME TypeOK, [Next]_vars
    PROVE  /\ entered \subseteq entered' /\ DOMAIN challenges \subseteq DOMAIN challenges'
           /\ raced => raced'
<1>1. \A k \in DOMAIN challenges: \A b: DOMAIN [challenges EXCEPT ![k] = b] = DOMAIN challenges
  OBVIOUS
<1>2. \A new: DOMAIN challenges \subseteq DOMAIN Append(challenges, new)
  BY AppendProperties DEF TypeOK
<1>3. DOMAIN challenges \subseteq DOMAIN challenges'
  BY <1>2 DEF Next, vars, AdvanceRead, AdvanceWrite, AdvanceActivate, CallDies, CheckRead, CheckResolve,
              CheckWrite, RecordEvidence, UpdatePartnership, RevokePartnership, IssueChallenge,
              PublishRecord, Tick
<1>4. entered \subseteq entered'
  BY DEF Next, vars, AdvanceRead, AdvanceWrite, AdvanceActivate, CallDies, CheckRead, CheckResolve,
         CheckWrite, RecordEvidence, UpdatePartnership, RevokePartnership, IssueChallenge,
         PublishRecord, Tick
<1>5. raced => raced'
  BY Zenon DEF Next, vars, AdvanceRead, AdvanceWrite, AdvanceActivate, CallDies, CheckRead, CheckResolve,
         CheckWrite, RecordEvidence, UpdatePartnership, RevokePartnership, IssueChallenge,
         PublishRecord, Tick
<1> QED
  BY <1>3, <1>4, <1>5

(* An advance in progress was there before, or has just read.              *)
AdvanceReads(c) ==
    \E to \in 1..Active, role \in Roles, justified \in BOOLEAN: AdvanceRead(c, to, role, justified)

LEMMA AdvanceReadCall ==
    ASSUME InstitutionsAssumption, TypeOK, NEW c \in Callers, NEW to \in 1..Active,
           NEW role \in Roles, NEW justified \in BOOLEAN, AdvanceRead(c, to, role, justified)
    PROVE  /\ calls'[c].step = "advance" /\ calls'[c].to = to
           /\ calls'[c].from = institution /\ calls'[c].onEvidence = Precondition(to)
           /\ calls' \in [Callers -> Call]
           /\ \A d \in Callers \ {c}: calls'[d] = calls[d]
<1>1. to \in StageIndex /\ institution \in Institution /\ Precondition(to) \in BOOLEAN
  BY PreconditionType, FiveStages DEF TypeOK
<1>2. \A b \in BOOLEAN:
          [NoCall EXCEPT !.step = "advance", !.to = to, !.from = institution, !.onEvidence = b] \in Call
  BY <1>1, NoCallType DEF Call
<1> DEFINE b == Precondition(to)
<1>3. [NoCall EXCEPT !.step = "advance", !.to = to, !.from = institution, !.onEvidence = b] \in Call
  BY <1>1, <1>2
<1>4. calls'[c] = [NoCall EXCEPT !.step = "advance", !.to = to, !.from = institution, !.onEvidence = b]
  BY <1>3, HeldCalls DEF AdvanceRead, TypeOK
<1>5. /\ calls' \in [Callers -> Call]
      /\ \A d \in Callers \ {c}: calls'[d] = calls[d]
  BY <1>3, HeldCalls DEF AdvanceRead, TypeOK
<1> HIDE DEF b
<1>6. /\ calls'[c].step = "advance" /\ calls'[c].to = to
      /\ calls'[c].from = institution /\ calls'[c].onEvidence = b
  BY <1>4 DEF NoCall
<1> QED
  BY <1>5, <1>6 DEF b

LEMMA CheckReadCall ==
    ASSUME InstitutionsAssumption, TypeOK, ChecksExist, NEW c \in Callers,
           NEW k \in DOMAIN challenges, CheckRead(c, k)
    PROVE  /\ calls'[c].step = "resolve" /\ calls'[c].challenge = k
           /\ \A d \in Callers \ {c}: calls'[d] = calls[d]
<1>1. k \in 0..MaxChallenges
  BY DEF ChecksExist, InstitutionsAssumption, TypeOK
<1>2. [NoCall EXCEPT !.step = "resolve", !.challenge = k] \in Call
  BY <1>1, NoCallType DEF Call
<1>3. /\ calls'[c] = [NoCall EXCEPT !.step = "resolve", !.challenge = k]
      /\ \A d \in Callers \ {c}: calls'[d] = calls[d]
  BY <1>2, HeldCalls DEF CheckRead, TypeOK
<1> QED
  BY <1>3 DEF NoCall

LEMMA CheckResolveCall ==
    ASSUME InstitutionsAssumption, TypeOK, NEW c \in Callers, CheckResolve(c)
    PROVE  /\ calls'[c].step = "answer" /\ calls'[c].challenge = calls[c].challenge
           /\ \A d \in Callers \ {c}: calls'[d] = calls[d]
<1>1. PICK found \in {FALSE, InDns(calls[c].challenge)}:
          Hold(c, [calls[c] EXCEPT !.step = "answer", !.found = found])
  BY DEF CheckResolve
<1>2. \A b \in BOOLEAN: [calls[c] EXCEPT !.step = "answer", !.found = b] \in Call
  BY DEF TypeOK, Call
<1>3. InDns(calls[c].challenge) \in BOOLEAN
  BY DEF InDns
<1>4. found \in BOOLEAN
  BY <1>3
<1>5. calls'[c] = [calls[c] EXCEPT !.step = "answer", !.found = found]
  BY <1>1, <1>2, <1>4, HeldCalls DEF TypeOK
<1>6. \A d \in Callers \ {c}: calls'[d] = calls[d]
  BY <1>1, <1>2, <1>4, HeldCalls DEF TypeOK
<1> QED
  BY <1>5, <1>6 DEF TypeOK, Call

LEMMA AdvanceWriteCall ==
    ASSUME InstitutionsAssumption, TypeOK, NEW c \in Callers, AdvanceWrite(c)
    PROVE  /\ calls'[c] = IF calls[c].to = Active THEN [calls[c] EXCEPT !.step = "activate"] ELSE NoCall
           /\ calls'[c].step = IF calls[c].to = Active THEN "activate" ELSE "idle"
           /\ \A d \in Callers \ {c}: calls'[d] = calls[d]
<1>1. [calls[c] EXCEPT !.step = "activate"] \in Call
  BY DEF Call, TypeOK
<1>2. CASE calls[c].to = Active
  <2>1. /\ calls'[c] = [calls[c] EXCEPT !.step = "activate"]
        /\ \A d \in Callers \ {c}: calls'[d] = calls[d]
    BY <1>1, <1>2, HeldCalls DEF AdvanceWrite, TypeOK
  <2>2. calls[c] \in Call
    BY DEF TypeOK
  <2> QED
    BY <1>2, <2>1, <2>2 DEF Call
<1>3. CASE calls[c].to # Active
  <2>1. /\ calls'[c] = NoCall
        /\ \A d \in Callers \ {c}: calls'[d] = calls[d]
    BY <1>3, EndedCalls DEF AdvanceWrite, TypeOK
  <2> QED
    BY <1>3, <2>1 DEF NoCall
<1> QED
  BY <1>2, <1>3

LEMMA AdvanceStays ==
    ASSUME InstitutionsAssumption, TypeOK, ChecksExist, [Next]_vars,
           NEW d \in Callers, calls'[d].step = "advance"
    PROVE  calls'[d] = calls[d] \/ AdvanceReads(d)
<1>1. ASSUME NEW c \in Callers, AdvanceReads(c), c # d
      PROVE  calls'[d] = calls[d]
  BY <1>1, AdvanceReadCall DEF AdvanceReads
<1>2. ASSUME NEW c \in Callers, AdvanceWrite(c)
      PROVE  calls'[d] = calls[d]
  BY <1>2, AdvanceWriteCall
<1>3. ASSUME NEW c \in Callers, AdvanceActivate(c) \/ CallDies(c) \/ CheckWrite(c)
      PROVE  calls'[d] = calls[d]
  <2>1. End(c)
    BY <1>3 DEF AdvanceActivate, CallDies, CheckWrite
  <2> QED
    BY <2>1, EndedCalls DEF TypeOK, NoCall
<1>4. ASSUME NEW c \in Callers, NEW k \in DOMAIN challenges, CheckRead(c, k)
      PROVE  calls'[d] = calls[d]
  BY <1>4, CheckReadCall
<1>5. ASSUME NEW c \in Callers, CheckResolve(c)
      PROVE  calls'[d] = calls[d]
  BY <1>5, CheckResolveCall
<1>6. ASSUME \/ RecordEvidence \/ UpdatePartnership \/ RevokePartnership \/ IssueChallenge
             \/ \E k \in DOMAIN challenges: PublishRecord(k)
             \/ Tick \/ UNCHANGED vars
      PROVE  calls'[d] = calls[d]
  BY <1>6 DEF RecordEvidence, UpdatePartnership, RevokePartnership, IssueChallenge, PublishRecord, Tick, vars
<1> QED
  BY <1>1, <1>2, <1>3, <1>4, <1>5, <1>6 DEF Next, AdvanceReads

(* A check in progress was of the same challenge before, or has just read. *)
LEMMA CheckStays ==
    ASSUME InstitutionsAssumption, TypeOK, ChecksExist, [Next]_vars,
           NEW d \in Callers, calls'[d].step \in {"resolve", "answer"}
    PROVE  \/ calls[d].step \in {"resolve", "answer"} /\ calls'[d].challenge = calls[d].challenge
           \/ \E k \in DOMAIN challenges: CheckRead(d, k)
<1>1. ASSUME NEW c \in Callers, AdvanceReads(c)
      PROVE  calls'[d] = calls[d]
  BY <1>1, AdvanceReadCall DEF AdvanceReads
<1>2. ASSUME NEW c \in Callers, AdvanceWrite(c)
      PROVE  calls'[d] = calls[d]
  BY <1>2, AdvanceWriteCall
<1>3. ASSUME NEW c \in Callers, AdvanceActivate(c) \/ CallDies(c) \/ CheckWrite(c)
      PROVE  calls'[d] = calls[d]
  <2>1. End(c)
    BY <1>3 DEF AdvanceActivate, CallDies, CheckWrite
  <2> QED
    BY <2>1, EndedCalls DEF TypeOK, NoCall
<1>4. ASSUME NEW c \in Callers, NEW k \in DOMAIN challenges, CheckRead(c, k), c # d
      PROVE  calls'[d] = calls[d]
  BY <1>4, CheckReadCall
<1>5. ASSUME NEW c \in Callers, CheckResolve(c)
      PROVE  /\ calls'[d].challenge = calls[d].challenge
             /\ calls[d].step \in {"resolve", "answer"}
  BY <1>5, CheckResolveCall DEF CheckResolve, At
<1>6. ASSUME \/ RecordEvidence \/ UpdatePartnership \/ RevokePartnership \/ IssueChallenge
             \/ \E k \in DOMAIN challenges: PublishRecord(k)
             \/ Tick \/ UNCHANGED vars
      PROVE  calls'[d] = calls[d]
  BY <1>6 DEF RecordEvidence, UpdatePartnership, RevokePartnership, IssueChallenge, PublishRecord, Tick, vars
<1> QED
  BY <1>1, <1>2, <1>3, <1>4, <1>5, <1>6 DEF Next, AdvanceReads

(***************************************************************************)
(* The conjuncts, step by step                                             *)
(***************************************************************************)

LEMMA AdvancesStep ==
    ASSUME InstitutionsAssumption, VerificationInv, [Next]_vars
    PROVE  AdvancesByOne'
<1> SUFFICES ASSUME NEW c \in Callers, calls'[c].step = "advance"
             PROVE  /\ calls'[c].to = calls'[c].from.stage + 1
                    /\ 1..calls'[c].from.stage \subseteq entered'
  BY DEF AdvancesByOne, At
<1>1. TypeOK /\ ChecksExist /\ entered \subseteq entered'
  BY HistoryGrows DEF VerificationInv
<1>2. CASE calls'[c] = calls[c]
  BY <1>1, <1>2 DEF VerificationInv, AdvancesByOne, At
<1>3. CASE AdvanceReads(c)
  <2>1. PICK to \in 1..Active, role \in Roles, justified \in BOOLEAN: AdvanceRead(c, to, role, justified)
    BY <1>3 DEF AdvanceReads
  <2>2. calls'[c].to = to /\ calls'[c].from = institution
    BY <1>1, <2>1, AdvanceReadCall
  <2>3. to = institution.stage + 1
    BY <2>1 DEF AdvanceRead, Allowed, OneForward
  <2>4. 1..institution.stage \subseteq entered
    BY DEF VerificationInv, EveryStageEntered
  <2> QED
    BY <1>1, <2>2, <2>3, <2>4
<1> QED
  BY <1>1, <1>2, <1>3, AdvanceStays

LEMMA ChecksStep ==
    ASSUME InstitutionsAssumption, VerificationInv, [Next]_vars
    PROVE  ChecksExist'
<1>1. TypeOK /\ ChecksExist /\ DOMAIN challenges \subseteq DOMAIN challenges'
  BY HistoryGrows DEF VerificationInv
<1>2. Len(challenges') <= MaxChallenges
  <2>1. CASE IssueChallenge
    BY <1>1, <2>1, AppendProperties DEF IssueChallenge, TypeOK, InstitutionsAssumption
  <2>2. ASSUME NEW c \in Callers, CheckWrite(c)
        PROVE  Len(challenges') <= MaxChallenges
    BY <1>1, <2>2 DEF CheckWrite, ChecksExist, TypeOK
  <2>3. CASE challenges' = challenges
    BY <1>1, <2>3 DEF ChecksExist
  <2> QED
    BY <2>1, <2>2, <2>3 DEF Next, vars, AdvanceRead, AdvanceWrite, AdvanceActivate, CallDies, CheckRead,
          CheckResolve, RecordEvidence, UpdatePartnership, RevokePartnership, PublishRecord, Tick
<1>3. ASSUME NEW c \in Callers, calls'[c].step \in {"resolve", "answer"}
      PROVE  calls'[c].challenge \in DOMAIN challenges'
  <2>1. CASE calls[c].step \in {"resolve", "answer"} /\ calls'[c].challenge = calls[c].challenge
    BY <1>1, <2>1 DEF ChecksExist
  <2>2. ASSUME NEW k \in DOMAIN challenges, CheckRead(c, k)
        PROVE  calls'[c].challenge \in DOMAIN challenges'
    BY <1>1, <2>2, CheckReadCall
  <2> QED
    BY <1>1, <1>3, <2>1, <2>2, CheckStays
<1> QED
  BY <1>2, <1>3 DEF ChecksExist

(* A check that writes is not in progress any more, and has raised the     *)
(* attempts by one; one that starts had room to.                           *)
LEMMA AttemptsStep ==
    ASSUME InstitutionsAssumption, VerificationInv, [Next]_vars
    PROVE  AttemptsRoom'
<1> SUFFICES ASSUME NEW k \in DOMAIN challenges'
             PROVE  challenges'[k].attempts + Cardinality(Checking(k)') < MaxAttempts + Cardinality(Callers)
  BY DEF AttemptsRoom
<1> DEFINE before == Checking(k)
           after  == Checking(k)'
<1>1. TypeOK /\ ChecksExist /\ AttemptsRoom /\ ChecksExist'
  BY ChecksStep DEF VerificationInv
<1>2. /\ IsFiniteSet(before) /\ Cardinality(before) \in Nat /\ Cardinality(Callers) \in Nat
      /\ MaxAttempts \in Nat
  BY CheckingFinite DEF InstitutionsAssumption
<1>3. k \in DOMAIN challenges => challenges[k].attempts \in Nat
  <2>1. k \in DOMAIN challenges => challenges[k] \in Challenge
    BY <1>1, ElementOfSeq DEF TypeOK
  <2> QED
    BY <1>2, <2>1 DEF Challenge
<1>4. ASSUME NEW c \in Callers, NEW j \in DOMAIN challenges, CheckRead(c, j)
      PROVE  challenges'[k].attempts + Cardinality(after) < MaxAttempts + Cardinality(Callers)
  <2>1. challenges' = challenges /\ calls'[c].challenge = j /\ challenges[j].attempts < MaxAttempts
    BY <1>1, <1>4, CheckReadCall DEF CheckRead, Checkable
  <2>2. CASE j = k
    <3>1. after \subseteq Callers
      BY DEF Checking
    <3>2. Cardinality(after) \in Nat /\ Cardinality(after) <= Cardinality(Callers)
      BY <3>1, FS_Subset, FS_CardinalityType DEF InstitutionsAssumption
    <3> HIDE DEF after, before
    <3> QED
      BY <1>2, <1>3, <2>1, <2>2, <3>2
  <2>3. CASE j # k
    <3>1. after \subseteq before
      BY <1>1, <1>4, <2>1, <2>3, CheckReadCall DEF Checking
    <3>2. Cardinality(after) \in Nat /\ Cardinality(after) <= Cardinality(before)
      BY <3>1, CheckingShrinks
    <3>3. k \in DOMAIN challenges
      BY <2>1
    <3>4. challenges[k].attempts + Cardinality(before) < MaxAttempts + Cardinality(Callers)
      BY <1>1, <3>3 DEF AttemptsRoom
    <3> HIDE DEF after, before
    <3> QED
      BY <1>2, <1>3, <2>1, <3>2, <3>3, <3>4
  <2> QED
    BY <2>2, <2>3
<1>5. ASSUME \A c \in Callers, j \in DOMAIN challenges: ~CheckRead(c, j)
      PROVE  after \subseteq before
  BY <1>1, <1>5, CheckStays DEF Checking
<1>6. ASSUME \A c \in Callers, j \in DOMAIN challenges: ~CheckRead(c, j)
      PROVE  Cardinality(after) \in Nat /\ Cardinality(after) <= Cardinality(before)
  BY <1>5, <1>6, CheckingShrinks
<1>7. ASSUME NEW c \in Callers, CheckWrite(c), calls[c].challenge = k
      PROVE  challenges'[k].attempts + Cardinality(after) < MaxAttempts + Cardinality(Callers)
  <2>1. c \in before /\ k \in DOMAIN challenges
    BY <1>1, <1>7 DEF CheckWrite, At, Checking, ChecksExist
  <2>2. challenges'[k].attempts = challenges[k].attempts + 1
    <3>1. challenges[k] \in Challenge
      BY <1>1, <2>1, ElementOfSeq DEF TypeOK
    <3> QED
      BY <1>7, <2>1, <3>1 DEF CheckWrite, Challenge
  <2>3. calls'[c] = NoCall /\ \A d \in Callers \ {c}: calls'[d] = calls[d]
    BY <1>1, <1>7, EndedCalls DEF CheckWrite, TypeOK
  <2>4. after = before \ {c}
    BY <2>3 DEF Checking, NoCall
  <2>5. Cardinality(after) = Cardinality(before) - 1
    BY <1>2, <2>1, <2>4, FS_RemoveElement
  <2>6. challenges[k].attempts + Cardinality(before) < MaxAttempts + Cardinality(Callers)
    BY <1>1, <2>1 DEF AttemptsRoom
  <2> HIDE DEF after, before
  <2> QED
    BY <1>2, <1>3, <2>1, <2>2, <2>5, <2>6
<1>8. CASE IssueChallenge /\ k \notin DOMAIN challenges
  <2>1. challenges'[k].attempts = 0
    BY <1>1, <1>8, AppendProperties DEF IssueChallenge, TypeOK
  <2>2. after = {}
    BY <1>1, <1>8 DEF IssueChallenge, Checking, ChecksExist
  <2>3. Cardinality(after) = 0
    BY <2>2, FS_EmptySet
  <2> HIDE DEF after, before
  <2> QED
    BY <1>2, <2>1, <2>3 DEF InstitutionsAssumption, after
<1>9. ASSUME \A c \in Callers, j \in DOMAIN challenges: ~CheckRead(c, j),
             k \in DOMAIN challenges, challenges'[k] = challenges[k]
      PROVE  challenges'[k].attempts + Cardinality(after) < MaxAttempts + Cardinality(Callers)
  <2>1. challenges[k].attempts + Cardinality(before) < MaxAttempts + Cardinality(Callers)
    BY <1>1, <1>9 DEF AttemptsRoom
  <2>2. Cardinality(after) \in Nat /\ Cardinality(after) <= Cardinality(before)
    BY <1>6, <1>9
  <2> HIDE DEF after, before
  <2> QED
    BY <1>2, <1>3, <1>9, <2>1, <2>2
<1>10. ASSUME NEW c \in Callers, CheckWrite(c), calls[c].challenge # k
       PROVE  k \in DOMAIN challenges /\ challenges'[k] = challenges[k]
  BY <1>10 DEF CheckWrite
<1>11. ASSUME IssueChallenge, k \in DOMAIN challenges
       PROVE  challenges'[k] = challenges[k]
  BY <1>1, <1>11, AppendProperties DEF IssueChallenge, TypeOK
<1>12. \/ challenges' = challenges \/ IssueChallenge \/ \E c \in Callers: CheckWrite(c)
  BY DEF Next, vars, AdvanceRead, AdvanceWrite, AdvanceActivate, CallDies, CheckRead,
         CheckResolve, RecordEvidence, UpdatePartnership, RevokePartnership, PublishRecord, Tick
<1> HIDE DEF after, before
<1> QED
  BY <1>4, <1>7, <1>8, <1>9, <1>10, <1>11, <1>12 DEF after

(* An advance goes one stage on from stages that had been entered.         *)
LEMMA EnteredStep ==
    ASSUME InstitutionsAssumption, VerificationInv, [Next]_vars
    PROVE  EveryStageEntered'
<1>1. TypeOK /\ entered \subseteq entered' /\ 1..institution.stage \subseteq entered
  BY HistoryGrows DEF VerificationInv, EveryStageEntered
<1>2. ASSUME NEW c \in Callers, AdvanceWrite(c)
      PROVE  EveryStageEntered'
  <2>1. calls[c].to = calls[c].from.stage + 1 /\ 1..calls[c].from.stage \subseteq entered
    BY <1>2 DEF AdvanceWrite, VerificationInv, AdvancesByOne
  <2>2. calls[c].from.stage \in 0..5
    BY <1>1, FiveStages DEF TypeOK, Call, Institution
  <2>3. institution'.stage = calls[c].to /\ entered' = entered \cup {calls[c].to}
    BY <1>2 DEF AdvanceWrite
  <2> QED
    BY <2>1, <2>2, <2>3 DEF EveryStageEntered
<1>3. CASE RevokePartnership
  BY <1>1, <1>3 DEF RevokePartnership, Revoked, EveryStageEntered, TypeOK, Institution
<1>4. CASE institution' = institution
  BY <1>1, <1>4 DEF EveryStageEntered
<1> QED
  BY <1>2, <1>3, <1>4 DEF Next, vars, AdvanceRead, AdvanceActivate, CallDies, CheckRead, CheckWrite,
         CheckResolve, RecordEvidence, UpdatePartnership, IssueChallenge, PublishRecord, Tick

(* A confirmation is taken back only by an answer that came late.          *)
LEMMA ConfirmedStays ==
    ASSUME InstitutionsAssumption, VerificationInv, [Next]_vars, DomainConfirmed, ~raced'
    PROVE  DomainConfirmed'
<1>1. TypeOK /\ ChecksExist
  BY DEF VerificationInv
<1>2. PICK k \in DOMAIN challenges: challenges[k].confirmed
  BY DEF DomainConfirmed
<1>3. ASSUME NEW c \in Callers, CheckWrite(c)
      PROVE  DomainConfirmed'
  <2>1. calls[c].challenge # k
    BY <1>2, <1>3 DEF CheckWrite
  <2> QED
    BY <1>2, <1>3, <2>1 DEF CheckWrite, DomainConfirmed
<1>4. CASE IssueChallenge
  BY <1>1, <1>2, <1>4, AppendProperties DEF IssueChallenge, DomainConfirmed, TypeOK
<1>5. CASE challenges' = challenges
  BY <1>5 DEF DomainConfirmed
<1> QED
  BY <1>3, <1>4, <1>5 DEF Next, vars, AdvanceRead, AdvanceWrite, AdvanceActivate, CallDies, CheckRead,
         CheckResolve, RecordEvidence, UpdatePartnership, RevokePartnership, PublishRecord, Tick

(* Evidence of the domain comes from an advance that finds it confirmed.   *)
LEMMA EvidenceStep ==
    ASSUME InstitutionsAssumption, VerificationInv, [Next]_vars
    PROVE  EvidenceStands'
<1> SUFFICES ASSUME ~raced', OnEvidenceOfDomain'
             PROVE  DomainConfirmed'
  BY DEF EvidenceStands
<1>1. TypeOK /\ ChecksExist /\ ~raced
  BY HistoryGrows DEF VerificationInv
<1>2. OnEvidenceOfDomain => DomainConfirmed
  BY <1>1 DEF VerificationInv, EvidenceStands
<1>3. SUFFICES DomainConfirmed
  BY ConfirmedStays
<1>4. CASE backed' # {}
  <2>1. ASSUME NEW c \in Callers, AdvanceWrite(c)
        PROVE  DomainConfirmed
    <3>1. CASE backed # {}
      BY <1>2, <3>1 DEF OnEvidenceOfDomain
    <3>2. CASE calls[c].onEvidence /\ calls[c].to \in OnDomain
      BY <1>2, <2>1, <3>2 DEF OnEvidenceOfDomain, AdvanceWrite
    <3> QED
      BY <1>4, <2>1, <3>1, <3>2 DEF AdvanceWrite
  <2>2. CASE backed' = backed
    BY <1>2, <1>4, <2>2 DEF OnEvidenceOfDomain
  <2> QED
    BY <2>1, <2>2 DEF Next, vars, AdvanceRead, AdvanceActivate, CallDies, CheckRead, CheckWrite, CheckResolve,
          RecordEvidence, UpdatePartnership, RevokePartnership, IssueChallenge, PublishRecord, Tick
<1>5. ASSUME NEW c \in Callers, calls'[c].step = "advance", calls'[c].onEvidence, calls'[c].to \in OnDomain
      PROVE  DomainConfirmed
  <2>1. CASE calls'[c] = calls[c]
    BY <1>2, <1>5, <2>1 DEF OnEvidenceOfDomain, At
  <2>2. CASE AdvanceReads(c)
    <3>1. PICK to \in 1..Active, role \in Roles, justified \in BOOLEAN: AdvanceRead(c, to, role, justified)
      BY <2>2 DEF AdvanceReads
    <3>2. calls'[c].to = to /\ calls'[c].onEvidence = Precondition(to)
      BY <1>1, <3>1, AdvanceReadCall
    <3>3. Precondition(to) /\ (to = 2 \/ to = 5)
      BY <1>5, <3>2 DEF OnDomain
    <3>4. Precondition(2) => DomainConfirmed
      BY DEF Precondition
    <3>5. Precondition(5) => DomainConfirmed
      BY DEF Precondition
    <3> QED
      BY <3>3, <3>4, <3>5
  <2> QED
    BY <1>1, <1>5, <2>1, <2>2, AdvanceStays
<1> QED
  BY <1>4, <1>5 DEF OnEvidenceOfDomain, At

(* The last stage leaves a call that will write the partnership.           *)
LEMMA BadgeStep ==
    ASSUME InstitutionsAssumption, VerificationInv, [Next]_vars
    PROVE  BadgeHasPartnershipUnlessRaced'
<1> DEFINE Activating == \E c \in Callers: calls[c].step = "activate"
<1> SUFFICES ASSUME ~raced', Badge'
             PROVE  partnership'.status = "active" \/ Activating'
  BY DEF BadgeHasPartnershipUnlessRaced, BadgeHasPartnership, At
<1>1. TypeOK /\ ChecksExist /\ ~raced
  BY HistoryGrows DEF VerificationInv
<1>2. Badge => partnership.status = "active" \/ Activating
  BY <1>1 DEF VerificationInv, BadgeHasPartnershipUnlessRaced, BadgeHasPartnership, At
<1>3. ASSUME NEW c \in Callers, AdvanceWrite(c)
      PROVE  Activating'
  <2>1. calls[c].to = Active
    BY <1>3 DEF Badge, AdvanceWrite
  <2> QED
    BY <1>1, <1>3, <2>1, AdvanceWriteCall
<1>4. ASSUME NEW c \in Callers, AdvanceActivate(c)
      PROVE  partnership'.status = "active"
  BY <1>1, <1>4 DEF AdvanceActivate, TypeOK, Partnership
<1>5. CASE RevokePartnership
  BY <1>1, <1>5 DEF RevokePartnership, Revoked, Badge, TypeOK, Institution
<1>6. CASE UpdatePartnership
  BY <1>1, <1>2, <1>6 DEF UpdatePartnership, Badge, TypeOK, Partnership
<1>7. ASSUME UNCHANGED <<institution, partnership>>,
             \A d \in Callers: calls[d].step = "activate" => calls'[d].step = "activate"
      PROVE  partnership'.status = "active" \/ Activating'
  BY <1>2, <1>7 DEF Badge
<1>8. ASSUME NEW c \in Callers, AdvanceReads(c)
      PROVE  partnership'.status = "active" \/ Activating'
  BY <1>1, <1>7, <1>8, AdvanceReadCall DEF AdvanceReads, AdvanceRead, At
<1>9. ASSUME NEW c \in Callers, \/ CheckWrite(c) \/ CheckResolve(c)
                                \/ \E k \in DOMAIN challenges: CheckRead(c, k)
      PROVE  partnership'.status = "active" \/ Activating'
  BY <1>1, <1>7, <1>9, EndedCalls, CheckResolveCall, CheckReadCall
     DEF CheckWrite, CheckResolve, CheckRead, At, TypeOK
<1>10. CASE RecordEvidence \/ IssueChallenge \/ (\E k \in DOMAIN challenges: PublishRecord(k)) \/ Tick \/ UNCHANGED vars
  BY <1>7, <1>10 DEF RecordEvidence, IssueChallenge, PublishRecord, Tick, vars
<1>11. ~\E c \in Callers: CallDies(c)
  BY DEF CallDies
<1> QED
  BY <1>3, <1>4, <1>5, <1>6, <1>8, <1>9, <1>10, <1>11 DEF Next, AdvanceReads

LEMMA VerificationStep ==
    ASSUME InstitutionsAssumption, VerificationInv, [Next]_vars
    PROVE  VerificationInv'
BY TypeStep, AdvancesStep, ChecksStep, AttemptsStep, EnteredStep, EvidenceStep, BadgeStep DEF VerificationInv

LEMMA VerificationHolds ==
    ASSUME InstitutionsAssumption
    PROVE  Spec => []VerificationInv
<1>1. Init => VerificationInv
  BY InitHolds
<1>2. VerificationInv /\ [Next]_vars => VerificationInv'
  BY VerificationStep
<1> QED
  BY <1>1, <1>2, PTL DEF Spec

(***************************************************************************)
(* The theorems                                                            *)
(***************************************************************************)

(* The row, the partnership, the challenges and the requests keep their    *)
(* types (InstitutionsService, DomainVerificationService).                 *)
THEOREM TypeCorrect ==
    ASSUME InstitutionsAssumption
    PROVE  Spec => []TypeOK
<1>1. VerificationInv => TypeOK
  BY DEF VerificationInv
<1> QED
  BY <1>1, VerificationHolds, PTL

(* No stage is skipped, however many requests advance one institution at   *)
(* once (evaluateTransition, advanceVerification).                         *)
THEOREM EveryStageCorrect ==
    ASSUME InstitutionsAssumption
    PROVE  Spec => []EveryStageEntered
<1>1. VerificationInv => EveryStageEntered
  BY DEF VerificationInv
<1> QED
  BY <1>1, VerificationHolds, PTL

(* Behind a stage that was entered on evidence the domain stays confirmed, *)
(* unless an answer came late (checkChallenge).                            *)
THEOREM DomainCorrect ==
    ASSUME InstitutionsAssumption
    PROVE  Spec => []DomainStaysConfirmedUnlessRaced
<1>1. VerificationInv => DomainStaysConfirmedUnlessRaced
  BY DEF VerificationInv, EvidenceStands, OnEvidenceOfDomain, DomainStaysConfirmedUnlessRaced,
         DomainStaysConfirmed
<1> QED
  BY <1>1, VerificationHolds, PTL

(* A badge has its partnership or a request about to write it, unless that *)
(* request died (advanceVerification, revokePartnership).                  *)
THEOREM BadgeCorrect ==
    ASSUME InstitutionsAssumption
    PROVE  Spec => []BadgeHasPartnershipUnlessRaced
<1>1. VerificationInv => BadgeHasPartnershipUnlessRaced
  BY DEF VerificationInv
<1> QED
  BY <1>1, VerificationHolds, PTL

(* The cap on checks is overrun by one check at most for each request      *)
(* beside the first (checkChallenge, MAX_ATTEMPTS).                        *)
THEOREM ChecksNearCapCorrect ==
    ASSUME InstitutionsAssumption
    PROVE  Spec => []ChecksNearCap
<1>1. VerificationInv => ChecksNearCap
  <2> SUFFICES ASSUME VerificationInv, NEW k \in DOMAIN challenges
               PROVE  challenges[k].attempts < MaxAttempts + Cardinality(Callers)
    BY DEF ChecksNearCap
  <2>1. challenges[k].attempts + Cardinality(Checking(k)) < MaxAttempts + Cardinality(Callers)
    BY DEF VerificationInv, AttemptsRoom
  <2>2. challenges[k] \in Challenge
    BY ElementOfSeq DEF VerificationInv, TypeOK
  <2>3. /\ challenges[k].attempts \in Nat /\ MaxAttempts \in Nat
        /\ Cardinality(Checking(k)) \in Nat /\ Cardinality(Callers) \in Nat
    BY <2>2, CheckingFinite DEF Challenge, InstitutionsAssumption
  <2> QED
    BY <2>1, <2>3
<1> QED
  BY <1>1, VerificationHolds, PTL

(* "Verification only moves forward": a step back writes over what changed *)
(* since it was read (evaluateTransition, advanceVerification).            *)
THEOREM ForwardCorrect ==
    ASSUME InstitutionsAssumption
    PROVE  Spec => ForwardOnlyUnlessRaced
<1>1. VerificationInv /\ [Next]_vars => [ForwardOnlyStep]_vars
  <2> SUFFICES ASSUME VerificationInv, [Next]_vars, ~raced'
               PROVE  institution'.stage >= institution.stage
    BY DEF ForwardOnlyStep
  <2>1. institution.stage \in 0..5
    BY FiveStages DEF VerificationInv, TypeOK, Institution
  <2>2. ASSUME NEW c \in Callers, AdvanceWrite(c)
        PROVE  institution'.stage >= institution.stage
    <3>1. institution = calls[c].from
      BY <2>2 DEF AdvanceWrite
    <3>2. institution'.stage = institution.stage + 1
      BY <2>2, <3>1 DEF AdvanceWrite, VerificationInv, AdvancesByOne
    <3> QED
      BY <2>1, <3>2
  <2>3. CASE RevokePartnership
    BY <2>1, <2>3 DEF RevokePartnership, Revoked, VerificationInv, TypeOK, Institution
  <2>4. CASE institution' = institution
    BY <2>1, <2>4
  <2> QED
    BY <2>2, <2>3, <2>4 DEF Next, vars, AdvanceRead, AdvanceActivate, CallDies, CheckRead, CheckWrite,
       CheckResolve, RecordEvidence, UpdatePartnership, IssueChallenge, PublishRecord, Tick
<1> QED
  BY <1>1, VerificationHolds, PTL DEF Spec, ForwardOnlyUnlessRaced

(***************************************************************************)
(* The inductive invariant of a guide's calendar                           *)
(***************************************************************************)

(* Sessions and entries are numbered as they come; a call at a step that   *)
(* needs a slot or a session has one, and what it read of a session it     *)
(* will write was confirmed.                                               *)
CalendarTypes ==
    /\ active \in BOOLEAN /\ caseOpen \in BOOLEAN
    /\ DOMAIN slots \subseteq 1..MaxSlots /\ slots \in [DOMAIN slots -> Calendar!Slot]
    /\ sessions \in [DOMAIN sessions -> Calendar!Session]
    /\ rewards \in [DOMAIN rewards -> Calendar!Reward]
    /\ calendarCalls \in [Callers -> Calendar!Call] /\ calendarNow \in 0..CalendarTime /\ mix \in Mixes
    /\ moved \subseteq DOMAIN sessions /\ died \subseteq CrashSteps
RowsInOrder ==
    /\ Cardinality(DOMAIN sessions) \in Nat /\ DOMAIN sessions = 1..Cardinality(DOMAIN sessions)
    /\ Cardinality(DOMAIN rewards) \in Nat /\ DOMAIN rewards = 1..Cardinality(DOMAIN rewards)
RowsRefer ==
    /\ \A i \in DOMAIN sessions: sessions[i].slot \in DOMAIN slots \cup {0}
    /\ \A n \in DOMAIN rewards: rewards[n].session \in DOMAIN sessions
CallRefers(call) ==
    /\ call.step \in {"cancel_write", "complete_write", "dispute_entries"} =>
           call.session \in DOMAIN sessions
    /\ call.step \in {"cancel_write", "complete_write"} => call.row.status = "confirmed"
    /\ call.step = "complete_write" /\ call.row.disputed => call.reward = "withheld"
    /\ call.step = "suspend_commit" => call.found \subseteq DOMAIN sessions
CallsRefer == \A c \in Callers: CallRefers(calendarCalls[c])

(* Bookings that are not committed: each holds the lock of a slot there is,*)
(* and there is room for its session.                                      *)
BookingsFit ==
    /\ IsFiniteSet(Calendar!Booking)
    /\ Cardinality(DOMAIN sessions) + Cardinality(Calendar!Booking) <= MaxSessions
    /\ \A c \in Calendar!Booking: calendarCalls[c].slot \in DOMAIN slots
    /\ \A c, d \in Calendar!Booking: calendarCalls[c].slot = calendarCalls[d].slot => c = d
PlacesFit ==
    \A s \in DOMAIN slots:
        /\ slots[s].booked <= slots[s].hours.capacity
        /\ Calendar!Locked(s) => slots[s].booked < slots[s].hours.capacity

(* Whatever became live since a suspension looked was booked meanwhile.    *)
MissedIsRaced ==
    \A c \in Callers: calendarCalls[c].step = "suspend_commit" =>
        \A i \in Calendar!Live \ calendarCalls[c].found: sessions[i].raced

CalendarInv ==
    /\ CalendarTypes /\ RowsInOrder /\ RowsRefer /\ CallsRefer /\ BookingsFit /\ PlacesFit
    /\ MissedIsRaced
    /\ Calendar!CountIsKeptUnlessMoved /\ Calendar!RewardMatchesSessionUnlessMoved
    /\ Calendar!DisputedIsWithheldUnlessMoved /\ Calendar!SuspendedHasNoSessionUnlessRaced

(* The cardinality of the calendar's own module is the library's.          *)
LEMMA CalendarCardinality ==
    \A S: Calendar!Cardinality(S) = Cardinality(S)
  BY DEF Calendar!Cardinality, Cardinality

LEMMA CalendarNoCall ==
    ASSUME Calendar!SessionsAssumption
    PROVE  /\ Calendar!NoHours \in Hours /\ Calendar!NoCall \in Calendar!Call
           /\ Calendar!NoCall.step = "idle" /\ CallRefers(Calendar!NoCall)
<1>1. Calendar!NoHours \in Hours
  BY DEF Calendar!NoHours, Calendar!SessionsAssumption
<1>2. Calendar!NoRow \in Calendar!Session
  BY DEF Calendar!NoRow, Calendar!Session, Calendar!SessionsAssumption, Calendar!SessionStatus,
         Calendar!RewardState
<1>3. Calendar!NoCall \in Calendar!Call
  BY <1>1, <1>2 DEF Calendar!NoCall, Calendar!Call, Calendar!SessionsAssumption, Calendar!Step,
         Calendar!RewardState
<1>4. Calendar!NoCall.step = "idle"
  BY DEF Calendar!NoCall
<1>5. CallRefers(Calendar!NoCall)
  BY <1>4 DEF CallRefers
<1> QED
  BY <1>1, <1>3, <1>4, <1>5

(* One call moves: the others stay, and so do their bookings.              *)
LEMMA CallMoves ==
    ASSUME CalendarTypes, NEW c \in Callers, NEW call \in Calendar!Call,
           calendarCalls' = [calendarCalls EXCEPT ![c] = call]
    PROVE  /\ calendarCalls'[c] = call
           /\ \A d \in Callers: d # c => calendarCalls'[d] = calendarCalls[d]
           /\ calendarCalls' \in [Callers -> Calendar!Call]
           /\ call.step # "book_commit" => Calendar!Booking' = Calendar!Booking \ {c}
           /\ call.step = "book_commit" => Calendar!Booking' = Calendar!Booking \cup {c}
  BY DEF CalendarTypes, Calendar!Booking, Calendar!At

(* A call moves, books nothing, and no session goes: calls and bookings    *)
(* still refer to what there is, and no slot is locked that was not.       *)
LEMMA CallsStillRefer ==
    ASSUME CalendarTypes, CallsRefer, NEW c \in Callers, NEW call \in Calendar!Call,
           calendarCalls' = [calendarCalls EXCEPT ![c] = call], DOMAIN sessions \subseteq DOMAIN sessions',
           CallRefers(call)'
    PROVE  CallsRefer'
<1> SUFFICES ASSUME NEW d \in Callers
             PROVE  CallRefers(calendarCalls[d])'
  BY DEF CallsRefer
<1>1. CASE d = c
  BY <1>1, CallMoves
<1>2. CASE d # c
  <2>1. calendarCalls'[d] = calendarCalls[d] /\ CallRefers(calendarCalls[d])
    BY <1>2, CallMoves DEF CallsRefer
  <2> QED
    BY <2>1 DEF CallRefers
<1> QED
  BY <1>1, <1>2

LEMMA BookingsStillFit ==
    ASSUME CalendarTypes, RowsInOrder, BookingsFit, NEW c \in Callers, NEW call \in Calendar!Call,
           calendarCalls' = [calendarCalls EXCEPT ![c] = call], call.step # "book_commit",
           DOMAIN sessions' = DOMAIN sessions, Calendar!SessionsAssumption,
           \A d \in Calendar!Booking: d # c => calendarCalls[d].slot \in DOMAIN slots'
    PROVE  BookingsFit' /\ \A s: Calendar!Locked(s)' => Calendar!Locked(s)
<1>1. Calendar!Booking' = Calendar!Booking \ {c} /\ \A d \in Callers: d # c => calendarCalls'[d] = calendarCalls[d]
  BY CallMoves
<1>2. \A d \in Calendar!Booking': d \in Calendar!Booking /\ d # c /\ calendarCalls'[d] = calendarCalls[d]
  BY <1>1 DEF Calendar!Booking
<1>3. /\ IsFiniteSet(Calendar!Booking') /\ Cardinality(Calendar!Booking') \in Nat
      /\ Cardinality(Calendar!Booking') <= Cardinality(Calendar!Booking)
      /\ Cardinality(Calendar!Booking) \in Nat
  BY <1>1, FS_Subset, FS_CardinalityType DEF BookingsFit
<1>4. Cardinality(DOMAIN sessions') + Cardinality(Calendar!Booking') <= MaxSessions
  BY <1>3 DEF BookingsFit, RowsInOrder, Calendar!SessionsAssumption
<1>5. BookingsFit'
  BY <1>2, <1>3, <1>4 DEF BookingsFit
<1>6. \A s: Calendar!Locked(s)' => Calendar!Locked(s)
  BY <1>2 DEF Calendar!Locked
<1> QED
  BY <1>5, <1>6

(* No new session is live, and no call at the suspension looks anew.       *)
LEMMA MissedStaysRaced ==
    ASSUME CalendarTypes, MissedIsRaced, NEW c \in Callers, NEW call \in Calendar!Call,
           calendarCalls' = [calendarCalls EXCEPT ![c] = call],
           call.step = "suspend_commit" => Calendar!Live' \subseteq call.found,
           \A i \in Calendar!Live': i \in Calendar!Live /\ (sessions[i].raced => sessions'[i].raced)
    PROVE  MissedIsRaced'
<1> SUFFICES ASSUME NEW d \in Callers, calendarCalls'[d].step = "suspend_commit",
                    NEW i \in Calendar!Live', i \notin calendarCalls'[d].found
             PROVE  sessions'[i].raced
  BY DEF MissedIsRaced
<1>1. d # c /\ calendarCalls'[d] = calendarCalls[d]
  BY CallMoves
<1>2. sessions[i].raced
  BY <1>1 DEF MissedIsRaced
<1> QED
  BY <1>2

LEMMA PlacesStillFit ==
    ASSUME PlacesFit, CalendarTypes, slots' \in [DOMAIN slots' -> Calendar!Slot],
           Calendar!SessionsAssumption,
           \A s: Calendar!Locked(s)' => Calendar!Locked(s),
           \A s \in DOMAIN slots':
              \/ s \in DOMAIN slots /\ slots'[s].hours = slots[s].hours /\ slots'[s].booked <= slots[s].booked
              \/ slots'[s].booked = 0
    PROVE  PlacesFit'
<1> SUFFICES ASSUME NEW s \in DOMAIN slots'
             PROVE  /\ slots'[s].booked <= slots'[s].hours.capacity
                    /\ Calendar!Locked(s)' => slots'[s].booked < slots'[s].hours.capacity
  BY DEF PlacesFit
<1>1. slots'[s].hours \in Hours /\ slots'[s].booked \in Int
  BY DEF Calendar!Slot
<1>2. slots'[s].hours.capacity \in Nat /\ slots'[s].hours.capacity > 0
  BY <1>1 DEF Calendar!SessionsAssumption
<1>3. CASE s \in DOMAIN slots /\ slots'[s].hours = slots[s].hours /\ slots'[s].booked <= slots[s].booked
  <2>1. slots[s].booked \in Int
    BY <1>3 DEF CalendarTypes, Calendar!Slot
  <2>2. /\ slots[s].booked <= slots[s].hours.capacity
        /\ Calendar!Locked(s) => slots[s].booked < slots[s].hours.capacity
    BY <1>3 DEF PlacesFit
  <2> QED
    BY <1>1, <1>2, <1>3, <2>1, <2>2
<1>4. CASE slots'[s].booked = 0
  BY <1>2, <1>4
<1> QED
  BY <1>3, <1>4

(* A call that writes no row: it looks, or it dies.                        *)
LEMMA CalendarLooks ==
    ASSUME CalendarInv, Calendar!SessionsAssumption, NEW c \in Callers, NEW call \in Calendar!Call,
           calendarCalls' = [calendarCalls EXCEPT ![c] = call],
           call.step \notin {"book_commit", "dispute_entries"}, CallRefers(call),
           call.step = "suspend_commit" => call.found = Calendar!Live,
           calendarCalls[c].step = "dispute_entries" => died' # {}, died \subseteq died', died' \subseteq CrashSteps,
           UNCHANGED <<active, caseOpen, slots, sessions, rewards, calendarNow, mix, moved>>
    PROVE  CalendarInv'
<1> USE DEF CalendarInv
<1>1. CalendarTypes'
  BY CallMoves DEF CalendarTypes
<1>2. RowsInOrder' /\ RowsRefer'
  BY DEF RowsInOrder, RowsRefer
<1>3. CallsRefer'
  <2>1. CallRefers(call)'
    BY DEF CallRefers
  <2> QED
    BY <2>1, CallsStillRefer
<1>4. BookingsFit' /\ \A s: Calendar!Locked(s)' => Calendar!Locked(s)
  <2>1. \A d \in Calendar!Booking: calendarCalls[d].slot \in DOMAIN slots'
    BY DEF BookingsFit
  <2> QED
    BY <2>1, BookingsStillFit
<1>5. PlacesFit'
  BY <1>4, PlacesStillFit DEF CalendarTypes, PlacesFit
<1>6. MissedIsRaced'
  BY MissedStaysRaced DEF Calendar!Live
<1>7. Calendar!CountIsKeptUnlessMoved' /\ Calendar!SuspendedHasNoSessionUnlessRaced'
  BY DEF Calendar!CountIsKeptUnlessMoved, Calendar!SuspendedHasNoSessionUnlessRaced, Calendar!HeldOf,
         Calendar!Live
<1>8. Calendar!RewardMatchesSessionUnlessMoved'
  BY DEF Calendar!RewardMatchesSessionUnlessMoved, Calendar!RewardMatchesSession
<1>9. Calendar!DisputedIsWithheldUnlessMoved'
  <2> SUFFICES ASSUME moved = {}, died' = {}, NEW n \in DOMAIN rewards,
                      sessions[rewards[n].session].disputed, ~Calendar!Disputing(rewards[n].session)'
               PROVE  rewards[n].state = "withheld"
    BY DEF Calendar!DisputedIsWithheldUnlessMoved, Calendar!DisputedIsWithheld
  <2>1. calendarCalls[c].step # "dispute_entries" /\ died = {}
    OBVIOUS
  <2>2. ~Calendar!Disputing(rewards[n].session)
    BY <2>1, CallMoves DEF Calendar!Disputing, Calendar!At
  <2> QED
    BY <2>1, <2>2 DEF Calendar!DisputedIsWithheldUnlessMoved, Calendar!DisputedIsWithheld
<1> QED
  BY <1>1, <1>2, <1>3, <1>4, <1>5, <1>6, <1>7, <1>8, <1>9

LEMMA CalendarIndex ==
    ASSUME CalendarInv, Calendar!SessionsAssumption
    PROVE  /\ DOMAIN sessions \subseteq 1..MaxSessions
           /\ \A i \in DOMAIN sessions: sessions[i] \in Calendar!Session
           /\ Calendar!Live \subseteq DOMAIN sessions
           /\ \A c \in Callers: calendarCalls[c] \in Calendar!Call /\ CallRefers(calendarCalls[c])
<1>1. Cardinality(Calendar!Booking) \in Nat
  BY FS_CardinalityType DEF CalendarInv, BookingsFit
<1>2. DOMAIN sessions \subseteq 1..MaxSessions
  BY <1>1 DEF CalendarInv, RowsInOrder, BookingsFit, Calendar!SessionsAssumption
<1> QED
  BY <1>2 DEF CalendarInv, CalendarTypes, CallsRefer, Calendar!Live

LEMMA CalendarReadStep ==
    ASSUME CalendarInv, Calendar!SessionsAssumption, NEW c \in Callers,
           \/ \E h \in Hours: Calendar!AddSlotRead(c, h)
           \/ \E s \in DOMAIN slots: Calendar!RemoveSlotRead(c, s)
           \/ \E i \in DOMAIN sessions:
                 \/ Calendar!CancelRead(c, i)
                 \/ \E outcome \in {"completed", "no_show"}: Calendar!CompleteRead(c, i, outcome)
           \/ Calendar!SuspendFind(c) \/ Calendar!Dies(c)
    PROVE  CalendarInv'
<1> USE CalendarIndex, CalendarNoCall
<1> DEFINE Filled == Calendar!NoCall
<1>1. ASSUME NEW h \in Hours, Calendar!AddSlotRead(c, h)
      PROVE  CalendarInv'
  <2> DEFINE call == [Filled EXCEPT !.step = "slot_create", !.hours = h]
  <2>1. call \in Calendar!Call /\ call.step = "slot_create" /\ CallRefers(call)
    BY DEF Calendar!Call, Calendar!Step, CallRefers
  <2>2. calendarCalls[c].step = "idle" /\ calendarCalls' = [calendarCalls EXCEPT ![c] = call]
    BY <1>1 DEF Calendar!AddSlotRead, Calendar!Begin, Calendar!At, Calendar!Hold
  <2> HIDE DEF call
  <2> QED
    BY <1>1, <2>1, <2>2, CalendarLooks DEF Calendar!AddSlotRead, CalendarInv, CalendarTypes
<1>2. ASSUME NEW s \in DOMAIN slots, Calendar!RemoveSlotRead(c, s)
      PROVE  CalendarInv'
  <2> DEFINE call == [Filled EXCEPT !.step = "slot_delete", !.slot = s]
  <2>0. s \in 0..MaxSlots
    BY DEF CalendarInv, CalendarTypes, Calendar!SessionsAssumption
  <2>1. call \in Calendar!Call /\ call.step = "slot_delete" /\ CallRefers(call)
    BY <2>0 DEF Calendar!Call, Calendar!Step, CallRefers
  <2>2. calendarCalls[c].step = "idle" /\ calendarCalls' = [calendarCalls EXCEPT ![c] = call]
    BY <1>2 DEF Calendar!RemoveSlotRead, Calendar!Begin, Calendar!At, Calendar!Hold
  <2> HIDE DEF call
  <2> QED
    BY <1>2, <2>1, <2>2, CalendarLooks DEF Calendar!RemoveSlotRead, CalendarInv, CalendarTypes
<1>3. ASSUME NEW i \in DOMAIN sessions, Calendar!CancelRead(c, i)
      PROVE  CalendarInv'
  <2> DEFINE call == Calendar!Reading("cancel_write", i)
  <2>0. i \in 0..MaxSessions /\ sessions[i].status = "confirmed" /\ sessions[i] \in Calendar!Session
    BY <1>3 DEF Calendar!CancelRead, Calendar!CanTransition, Calendar!SessionsAssumption
  <2>1. call \in Calendar!Call /\ call.step = "cancel_write" /\ CallRefers(call)
    BY <2>0 DEF Calendar!Call, Calendar!Step, CallRefers, Calendar!Reading
  <2>2. calendarCalls[c].step = "idle" /\ calendarCalls' = [calendarCalls EXCEPT ![c] = call]
    BY <1>3 DEF Calendar!CancelRead, Calendar!Begin, Calendar!At, Calendar!Hold
  <2> HIDE DEF call
  <2> QED
    BY <1>3, <2>1, <2>2, CalendarLooks DEF Calendar!CancelRead, CalendarInv, CalendarTypes
<1>4. ASSUME NEW i \in DOMAIN sessions, NEW outcome \in {"completed", "no_show"},
             Calendar!CompleteRead(c, i, outcome)
      PROVE  CalendarInv'
  <2>4. i \in 0..MaxSessions /\ sessions[i] \in Calendar!Session
    BY DEF Calendar!SessionsAssumption
  <2>5. sessions[i].status = "confirmed"
    BY <1>4 DEF Calendar!CompleteRead, Calendar!CanTransition
  <2>0. i \in 0..MaxSessions /\ sessions[i].status = "confirmed" /\ sessions[i] \in Calendar!Session
    BY <2>4, <2>5
  <2> DEFINE reward == Calendar!RewardStateForSession(sessions[i].disputed)
             call == [Calendar!Reading("complete_write", i) EXCEPT !.outcome = outcome, !.reward = reward]
  <2>3. reward \in Calendar!RewardState /\ (sessions[i].disputed => reward = "withheld")
    BY DEF Calendar!RewardStateForSession, Calendar!RewardState
  <2> HIDE DEF reward
  <2>1. call \in Calendar!Call /\ call.step = "complete_write" /\ CallRefers(call)
    BY <2>0, <2>3 DEF Calendar!Call, Calendar!Step, CallRefers, Calendar!Reading
  <2>2. calendarCalls[c].step = "idle" /\ calendarCalls' = [calendarCalls EXCEPT ![c] = call]
    BY <1>4 DEF Calendar!CompleteRead, Calendar!Begin, Calendar!At, Calendar!Hold, reward
  <2> HIDE DEF call
  <2> QED
    BY <1>4, <2>1, <2>2, CalendarLooks DEF Calendar!CompleteRead, CalendarInv, CalendarTypes
<1>5. ASSUME Calendar!SuspendFind(c)
      PROVE  CalendarInv'
  <2> DEFINE call == [Filled EXCEPT !.step = "suspend_commit", !.found = Calendar!Live]
  <2>0. Calendar!Live \subseteq 1..MaxSessions
    OBVIOUS
  <2>1. call \in Calendar!Call /\ call.step = "suspend_commit" /\ call.found = Calendar!Live /\ CallRefers(call)
    BY <2>0 DEF Calendar!Call, Calendar!Step, CallRefers
  <2>2. calendarCalls[c].step = "idle" /\ calendarCalls' = [calendarCalls EXCEPT ![c] = call]
    BY <1>5 DEF Calendar!SuspendFind, Calendar!Begin, Calendar!At, Calendar!Hold
  <2> HIDE DEF call
  <2> QED
    BY <1>5, <2>1, <2>2, CalendarLooks DEF Calendar!SuspendFind, CalendarInv, CalendarTypes
<1>6. ASSUME Calendar!Dies(c)
      PROVE  CalendarInv'
  <2>1. /\ calendarCalls' = [calendarCalls EXCEPT ![c] = Calendar!NoCall] /\ died' # {} /\ died \subseteq died'
        /\ died' \subseteq CrashSteps
    BY <1>6 DEF Calendar!Dies, Calendar!End, Calendar!Hold, CalendarInv, CalendarTypes
  <2> QED
    BY <1>6, <2>1, CalendarLooks DEF Calendar!Dies
<1> QED
  BY <1>1, <1>2, <1>3, <1>4, <1>5, <1>6

(* What a write leaves of the invariant: it ends its call, makes no session*)
(* live, and takes no place and no slot a booking holds.                   *)
LEMMA CalendarEnds ==
    ASSUME CalendarInv, Calendar!SessionsAssumption, NEW c \in Callers,
           calendarCalls' = [calendarCalls EXCEPT ![c] = Calendar!NoCall],
           DOMAIN sessions' = DOMAIN sessions,
           \A i \in DOMAIN sessions: sessions'[i].status = "confirmed" =>
               sessions[i].status = "confirmed" /\ (sessions[i].raced => sessions'[i].raced),
           slots' \in [DOMAIN slots' -> Calendar!Slot],
           \A s \in DOMAIN slots':
              \/ s \in DOMAIN slots /\ slots'[s].hours = slots[s].hours /\ slots'[s].booked <= slots[s].booked
              \/ slots'[s].booked = 0,
           \A d \in Calendar!Booking: d # c => calendarCalls[d].slot \in DOMAIN slots'
    PROVE  /\ calendarCalls' \in [Callers -> Calendar!Call]
           /\ CallsRefer' /\ BookingsFit' /\ PlacesFit' /\ MissedIsRaced'
           /\ Calendar!Live' \subseteq Calendar!Live
           /\ (~active' => ~active) => Calendar!SuspendedHasNoSessionUnlessRaced'
<1> USE CalendarNoCall DEF CalendarInv
<1>1. calendarCalls' \in [Callers -> Calendar!Call]
  BY CallMoves
<1>2. CallsRefer'
  <2>1. CallRefers(Calendar!NoCall)'
    BY DEF CallRefers
  <2> QED
    BY <2>1, CallsStillRefer
<1>3. BookingsFit' /\ \A s: Calendar!Locked(s)' => Calendar!Locked(s)
  BY BookingsStillFit
<1>4. PlacesFit'
  BY <1>3, PlacesStillFit
<1>5. /\ Calendar!Live' \subseteq Calendar!Live
      /\ \A i \in Calendar!Live': sessions[i].raced => sessions'[i].raced
  BY DEF Calendar!Live
<1>6. MissedIsRaced'
  BY <1>5, MissedStaysRaced
<1>7. (~active' => ~active) => Calendar!SuspendedHasNoSessionUnlessRaced'
  BY <1>5 DEF Calendar!SuspendedHasNoSessionUnlessRaced
<1> QED
  BY <1>1, <1>2, <1>3, <1>4, <1>5, <1>6, <1>7

LEMMA DisputeEntriesStep ==
    ASSUME CalendarInv, Calendar!SessionsAssumption, NEW c \in Callers, Calendar!DisputeEntries(c)
    PROVE  CalendarInv'
<1> DEFINE i == calendarCalls[c].session
<1>1. /\ calendarCalls[c].step = "dispute_entries" /\ calendarCalls' = [calendarCalls EXCEPT ![c] = Calendar!NoCall]
      /\ rewards' = Calendar!Withhold(i)
      /\ UNCHANGED <<active, caseOpen, slots, sessions, calendarNow, mix, moved, died>>
  BY DEF Calendar!DisputeEntries, Calendar!At, Calendar!End, Calendar!Hold
<1>2. /\ DOMAIN rewards' = DOMAIN rewards /\ rewards' \in [DOMAIN rewards' -> Calendar!Reward]
      /\ \A n \in DOMAIN rewards:
            /\ rewards'[n].session = rewards[n].session
            /\ rewards[n].session = i => rewards'[n].state = "withheld"
            /\ rewards[n].session # i => rewards'[n] = rewards[n]
  BY <1>1 DEF Calendar!Withhold, CalendarInv, CalendarTypes, Calendar!Reward, Calendar!RewardState
<1>3. \A d \in Calendar!Booking: calendarCalls[d].slot \in DOMAIN slots'
  BY <1>1 DEF CalendarInv, BookingsFit
<1>4. /\ calendarCalls' \in [Callers -> Calendar!Call]
      /\ CallsRefer' /\ BookingsFit' /\ PlacesFit' /\ MissedIsRaced'
      /\ Calendar!SuspendedHasNoSessionUnlessRaced'
  <2>1. /\ slots' \in [DOMAIN slots' -> Calendar!Slot]
        /\ \A s \in DOMAIN slots': s \in DOMAIN slots /\ slots'[s].hours = slots[s].hours
                                   /\ slots'[s].booked <= slots[s].booked
    BY <1>1 DEF CalendarInv, CalendarTypes, Calendar!Slot
  <2> QED
    BY <1>1, <1>3, <2>1, CalendarEnds
<1>5. CalendarTypes' /\ RowsInOrder' /\ RowsRefer'
  BY <1>1, <1>2, <1>4 DEF CalendarInv, CalendarTypes, RowsInOrder, RowsRefer
<1>6. Calendar!CountIsKeptUnlessMoved'
  BY <1>1 DEF CalendarInv, Calendar!CountIsKeptUnlessMoved, Calendar!HeldOf
<1>7. Calendar!RewardMatchesSessionUnlessMoved'
  BY <1>1, <1>2 DEF CalendarInv, Calendar!RewardMatchesSessionUnlessMoved, Calendar!RewardMatchesSession
<1>8. Calendar!DisputedIsWithheldUnlessMoved'
  <2> SUFFICES ASSUME moved = {}, died = {}, NEW n \in DOMAIN rewards,
                      sessions[rewards[n].session].disputed, rewards[n].session # i,
                      ~Calendar!Disputing(rewards[n].session)'
               PROVE  rewards[n].state = "withheld"
    BY <1>1, <1>2 DEF Calendar!DisputedIsWithheldUnlessMoved, Calendar!DisputedIsWithheld
  <2>1. \A d \in Callers: d # c => calendarCalls'[d] = calendarCalls[d]
    BY <1>1, CallMoves, CalendarNoCall DEF CalendarInv
  <2>2. ASSUME NEW d \in Callers, calendarCalls[d].step = "dispute_entries", calendarCalls[d].session = rewards[n].session
        PROVE  FALSE
    <3>1. d # c /\ calendarCalls'[d] = calendarCalls[d]
      BY <2>1, <2>2
    <3> QED
      BY <1>2, <2>2, <3>1 DEF Calendar!Disputing, Calendar!At
  <2>3. ~Calendar!Disputing(rewards[n].session)
    BY <2>2 DEF Calendar!Disputing, Calendar!At
  <2> QED
    BY <2>3 DEF CalendarInv, Calendar!DisputedIsWithheldUnlessMoved, Calendar!DisputedIsWithheld
<1> QED
  BY <1>4, <1>5, <1>6, <1>7, <1>8 DEF CalendarInv

LEMMA CalendarTurns ==
    ASSUME CalendarInv, Calendar!SessionsAssumption, Calendar!Reinstate \/ Calendar!CaseMoves \/ Calendar!Tick
    PROVE  CalendarInv'
<1>1. /\ UNCHANGED <<slots, sessions, rewards, calendarCalls, mix, moved, died>> /\ (~active' => ~active)
      /\ active' \in BOOLEAN /\ caseOpen' \in BOOLEAN /\ calendarNow' \in 0..CalendarTime
  <2>1. active \in BOOLEAN /\ caseOpen \in BOOLEAN /\ calendarNow \in 0..CalendarTime /\ CalendarTime \in Nat
    BY DEF CalendarInv, CalendarTypes, Calendar!SessionsAssumption
  <2>2. CASE Calendar!Reinstate
    BY <2>1, <2>2 DEF Calendar!Reinstate
  <2>3. CASE Calendar!CaseMoves
    BY <2>1, <2>3 DEF Calendar!CaseMoves
  <2>4. CASE Calendar!Tick
    BY <2>1, <2>4 DEF Calendar!Tick
  <2> QED
    BY <2>2, <2>3, <2>4
<1>2. CalendarTypes' /\ RowsInOrder' /\ RowsRefer' /\ CallsRefer'
  BY <1>1 DEF CalendarInv, CalendarTypes, RowsInOrder, RowsRefer, CallsRefer, CallRefers
<1>3. BookingsFit' /\ PlacesFit' /\ MissedIsRaced'
  BY <1>1 DEF CalendarInv, BookingsFit, PlacesFit, MissedIsRaced, Calendar!Booking, Calendar!Locked,
              Calendar!At, Calendar!Live
<1>4. Calendar!CountIsKeptUnlessMoved' /\ Calendar!SuspendedHasNoSessionUnlessRaced'
  BY <1>1 DEF CalendarInv, Calendar!CountIsKeptUnlessMoved, Calendar!HeldOf, Calendar!Live,
              Calendar!SuspendedHasNoSessionUnlessRaced
<1>5. Calendar!RewardMatchesSessionUnlessMoved' /\ Calendar!DisputedIsWithheldUnlessMoved'
  BY <1>1 DEF CalendarInv, Calendar!RewardMatchesSessionUnlessMoved, Calendar!RewardMatchesSession,
              Calendar!DisputedIsWithheldUnlessMoved, Calendar!DisputedIsWithheld, Calendar!Disputing,
              Calendar!At
<1> QED
  BY <1>2, <1>3, <1>4, <1>5 DEF CalendarInv

(* A call that is not a dispute ends, and rows keep what disputes are      *)
(* about: what is disputed is still withheld.                              *)
LEMMA DisputesUntouched ==
    ASSUME CalendarInv, Calendar!SessionsAssumption, NEW c \in Callers,
           calendarCalls' = [calendarCalls EXCEPT ![c] = Calendar!NoCall], calendarCalls[c].step # "dispute_entries",
           DOMAIN sessions' = DOMAIN sessions,
           \A i \in DOMAIN sessions: sessions'[i].disputed = sessions[i].disputed,
           moved \subseteq moved', UNCHANGED <<rewards, died>>
    PROVE  Calendar!DisputedIsWithheldUnlessMoved'
<1> SUFFICES ASSUME moved = {}, died = {}, NEW n \in DOMAIN rewards,
                    sessions'[rewards[n].session].disputed, ~Calendar!Disputing(rewards[n].session)'
             PROVE  rewards[n].state = "withheld"
  BY DEF Calendar!DisputedIsWithheldUnlessMoved, Calendar!DisputedIsWithheld
<1>1. rewards[n].session \in DOMAIN sessions
  BY DEF CalendarInv, RowsRefer
<1>2. \A d \in Callers: d # c => calendarCalls'[d] = calendarCalls[d]
  BY CallMoves, CalendarNoCall DEF CalendarInv
<1>3. ~Calendar!Disputing(rewards[n].session)
  BY <1>2 DEF Calendar!Disputing, Calendar!At
<1> QED
  BY <1>1, <1>3 DEF CalendarInv, Calendar!DisputedIsWithheldUnlessMoved, Calendar!DisputedIsWithheld

LEMMA AddSlotWriteStep ==
    ASSUME CalendarInv, Calendar!SessionsAssumption, NEW c \in Callers, Calendar!AddSlotWrite(c)
    PROVE  CalendarInv'
<1>1. /\ calendarCalls[c].step = "slot_create" /\ calendarCalls' = [calendarCalls EXCEPT ![c] = Calendar!NoCall]
      /\ UNCHANGED <<active, caseOpen, sessions, rewards, calendarNow, mix, moved, died>>
  BY DEF Calendar!AddSlotWrite, Calendar!At, Calendar!End, Calendar!Hold
<1>2. /\ DOMAIN slots' \subseteq 1..MaxSlots /\ DOMAIN slots \subseteq DOMAIN slots'
      /\ slots' \in [DOMAIN slots' -> Calendar!Slot]
      /\ \A s \in DOMAIN slots: slots'[s] = slots[s]
      /\ \A s \in DOMAIN slots' \ DOMAIN slots: slots'[s].booked = 0
  <2>1. CASE DOMAIN slots = 1..MaxSlots
    BY <2>1 DEF CalendarInv, CalendarTypes, Calendar!AddSlotWrite
  <2>2. CASE DOMAIN slots # 1..MaxSlots
    <3> DEFINE new == Calendar!FreeSlot
    <3>1. new \in 1..MaxSlots /\ new \notin DOMAIN slots
      BY <2>2 DEF CalendarInv, CalendarTypes, Calendar!FreeSlot
    <3>2. slots' = [s \in DOMAIN slots \cup {new} |->
                       IF s = new THEN [hours |-> calendarCalls[c].hours, booked |-> 0] ELSE slots[s]]
      BY <2>2 DEF Calendar!AddSlotWrite
    <3>3. [hours |-> calendarCalls[c].hours, booked |-> 0] \in Calendar!Slot
      BY DEF CalendarInv, CalendarTypes, Calendar!Slot, Calendar!Call
    <3> HIDE DEF new
    <3> QED
      BY <3>1, <3>2, <3>3 DEF CalendarInv, CalendarTypes
  <2> QED
    BY <2>1, <2>2
<1>3. \A d \in Calendar!Booking: calendarCalls[d].slot \in DOMAIN slots'
  BY <1>2 DEF CalendarInv, BookingsFit
<1>4. /\ calendarCalls' \in [Callers -> Calendar!Call]
      /\ CallsRefer' /\ BookingsFit' /\ PlacesFit' /\ MissedIsRaced'
      /\ Calendar!SuspendedHasNoSessionUnlessRaced'
  <2>1. \A s \in DOMAIN slots':
           \/ s \in DOMAIN slots /\ slots'[s].hours = slots[s].hours /\ slots'[s].booked <= slots[s].booked
           \/ slots'[s].booked = 0
    BY <1>2 DEF CalendarInv, CalendarTypes, Calendar!Slot
  <2> QED
    BY <1>1, <1>2, <1>3, <2>1, CalendarEnds
<1>5. CalendarTypes' /\ RowsInOrder' /\ RowsRefer'
  BY <1>1, <1>2, <1>4 DEF CalendarInv, CalendarTypes, RowsInOrder, RowsRefer
<1>6. Calendar!CountIsKeptUnlessMoved'
  <2>0. \A s: Calendar!HeldOf(s)' = Calendar!HeldOf(s)
    BY <1>1 DEF Calendar!HeldOf
  <2> SUFFICES ASSUME moved = {}, NEW s \in DOMAIN slots'
               PROVE  slots'[s].booked = Cardinality(Calendar!HeldOf(s))
    BY <1>1, <2>0, CalendarCardinality DEF Calendar!CountIsKeptUnlessMoved
  <2>3. \A t \in DOMAIN slots: slots[t].booked = Cardinality(Calendar!HeldOf(t))
    BY CalendarCardinality DEF CalendarInv, Calendar!CountIsKeptUnlessMoved
  <2>1. CASE s \in DOMAIN slots
    BY <1>2, <2>1, <2>3
  <2>2. CASE s \notin DOMAIN slots
    <3>1. Calendar!HeldOf(s) = {}
      BY <1>2, <2>2 DEF CalendarInv, RowsRefer, Calendar!HeldOf
    <3> QED
      BY <1>2, <2>2, <3>1, FS_EmptySet
  <2> QED
    BY <2>1, <2>2
<1>7. Calendar!RewardMatchesSessionUnlessMoved'
  BY <1>1 DEF CalendarInv, Calendar!RewardMatchesSessionUnlessMoved, Calendar!RewardMatchesSession
<1>8. Calendar!DisputedIsWithheldUnlessMoved'
  BY <1>1, DisputesUntouched
<1> QED
  BY <1>4, <1>5, <1>6, <1>7, <1>8 DEF CalendarInv

(* Rows that were held, or not come to, stay so: the ledger still matches. *)
LEMMA RewardsUntouched ==
    ASSUME CalendarInv, moved \subseteq moved', DOMAIN sessions' = DOMAIN sessions, rewards' = rewards,
           moved' = {} => \A i \in DOMAIN sessions: sessions[i].status \in {"completed", "no_show"} =>
               sessions'[i].status = sessions[i].status
    PROVE  Calendar!RewardMatchesSessionUnlessMoved'
<1> SUFFICES ASSUME moved' = {}
             PROVE  Calendar!RewardMatchesSession'
  BY DEF Calendar!RewardMatchesSessionUnlessMoved
<1>1. moved = {} /\ Calendar!RewardMatchesSession
  BY DEF CalendarInv, Calendar!RewardMatchesSessionUnlessMoved
<1>2. \A n \in DOMAIN rewards: rewards[n].session \in DOMAIN sessions
  BY DEF CalendarInv, RowsRefer
<1> QED
  BY <1>1, <1>2 DEF Calendar!RewardMatchesSession

LEMMA RemoveSlotWriteStep ==
    ASSUME CalendarInv, Calendar!SessionsAssumption, NEW c \in Callers, Calendar!RemoveSlotWrite(c)
    PROVE  CalendarInv'
<1>0. PICK gone: gone = calendarCalls[c].slot
  OBVIOUS
<1>1. /\ calendarCalls[c].step = "slot_delete" /\ calendarCalls' = [calendarCalls EXCEPT ![c] = Calendar!NoCall]
      /\ ~Calendar!Locked(gone)
      /\ slots' = [s \in DOMAIN slots \ {gone} |-> slots[s]]
      /\ sessions' = [i \in DOMAIN sessions |->
                         IF sessions[i].slot = gone THEN [sessions[i] EXCEPT !.slot = 0] ELSE sessions[i]]
      /\ UNCHANGED <<active, caseOpen, rewards, calendarNow, mix, moved, died>>
  BY <1>0 DEF Calendar!RemoveSlotWrite, Calendar!At, Calendar!End, Calendar!Hold
<1>2. /\ DOMAIN sessions' = DOMAIN sessions /\ sessions' \in [DOMAIN sessions' -> Calendar!Session]
      /\ \A i \in DOMAIN sessions:
            /\ sessions'[i].status = sessions[i].status /\ sessions'[i].disputed = sessions[i].disputed
            /\ sessions'[i].raced = sessions[i].raced
            /\ sessions'[i].slot = IF sessions[i].slot = gone THEN 0 ELSE sessions[i].slot
  <2>1. 0 \in 0..MaxSlots
    BY DEF Calendar!SessionsAssumption
  <2>2. \A i \in DOMAIN sessions: [sessions[i] EXCEPT !.slot = 0] \in Calendar!Session
    BY <2>1 DEF CalendarInv, CalendarTypes, Calendar!Session
  <2> QED
    BY <1>1, <2>2 DEF CalendarInv, CalendarTypes, Calendar!Session
<1>3. /\ DOMAIN slots' = DOMAIN slots \ {gone} /\ slots' \in [DOMAIN slots' -> Calendar!Slot]
      /\ DOMAIN slots' \subseteq 1..MaxSlots
      /\ \A s \in DOMAIN slots': s \in DOMAIN slots /\ slots'[s] = slots[s] /\ slots[s].booked \in Int
  BY <1>1 DEF CalendarInv, CalendarTypes, Calendar!Slot
<1>4. \A d \in Calendar!Booking: calendarCalls[d].slot \in DOMAIN slots'
  BY <1>1, <1>3 DEF CalendarInv, BookingsFit, Calendar!Locked
<1>5. /\ calendarCalls' \in [Callers -> Calendar!Call]
      /\ CallsRefer' /\ BookingsFit' /\ PlacesFit' /\ MissedIsRaced'
      /\ Calendar!SuspendedHasNoSessionUnlessRaced'
  <2>1. \A s \in DOMAIN slots': s \in DOMAIN slots /\ slots'[s].hours = slots[s].hours
                                /\ slots'[s].booked <= slots[s].booked
    BY <1>3
  <2>2. \A i \in DOMAIN sessions: sessions'[i].status = "confirmed" =>
             sessions[i].status = "confirmed" /\ (sessions[i].raced => sessions'[i].raced)
    BY <1>2
  <2>3. slots' \in [DOMAIN slots' -> Calendar!Slot] /\ DOMAIN sessions' = DOMAIN sessions
    BY <1>2, <1>3
  <2> QED
    BY <1>1, <1>4, <2>1, <2>2, <2>3, CalendarEnds
<1>6. CalendarTypes' /\ RowsInOrder'
  BY <1>1, <1>2, <1>3, <1>5 DEF CalendarInv, CalendarTypes, RowsInOrder
<1>7. RowsRefer'
  BY <1>1, <1>2, <1>3 DEF CalendarInv, RowsRefer
<1>8. Calendar!CountIsKeptUnlessMoved'
  <2> SUFFICES ASSUME moved = {}, NEW s \in DOMAIN slots'
               PROVE  slots'[s].booked = Cardinality(Calendar!HeldOf(s)')
    BY <1>1, CalendarCardinality DEF Calendar!CountIsKeptUnlessMoved, Calendar!HeldOf
  <2>1. s # gone /\ s # 0 /\ s \in DOMAIN slots
    BY <1>3
  <2>2. Calendar!HeldOf(s)' = Calendar!HeldOf(s)
    BY <1>2, <2>1 DEF Calendar!HeldOf
  <2>3. slots[s].booked = Cardinality(Calendar!HeldOf(s))
    BY <2>1, CalendarCardinality DEF CalendarInv, Calendar!CountIsKeptUnlessMoved
  <2> QED
    BY <1>3, <2>2, <2>3
<1>9. Calendar!RewardMatchesSessionUnlessMoved'
  BY <1>1, <1>2, RewardsUntouched
<1>10. Calendar!DisputedIsWithheldUnlessMoved'
  BY <1>1, <1>2, DisputesUntouched
<1> QED
  BY <1>5, <1>6, <1>7, <1>8, <1>9, <1>10 DEF CalendarInv

(* What a write knows that finds its session as it was read: the session   *)
(* was live and has no entry in the ledger.                                *)
LEMMA ReadIsStillTrue ==
    ASSUME CalendarInv, Calendar!SessionsAssumption, NEW c \in Callers,
           calendarCalls[c].step \in {"cancel_write", "complete_write"},
           moved' = Calendar!Changed(c)
    PROVE  /\ calendarCalls[c].session \in DOMAIN sessions
           /\ moved \subseteq moved' /\ moved' \subseteq DOMAIN sessions
           /\ moved' = {} =>
                 /\ moved = {} /\ sessions[calendarCalls[c].session] = calendarCalls[c].row
                 /\ sessions[calendarCalls[c].session].status = "confirmed"
                 /\ \A n \in DOMAIN rewards: rewards[n].session # calendarCalls[c].session
<1>1. /\ calendarCalls[c].session \in DOMAIN sessions /\ calendarCalls[c].row.status = "confirmed"
      /\ moved \subseteq DOMAIN sessions
  BY DEF CalendarInv, CalendarTypes, CallsRefer, CallRefers
<1>2. moved \subseteq moved' /\ moved' \subseteq DOMAIN sessions
  BY <1>1 DEF Calendar!Changed
<1>3. moved' = {} => moved = {} /\ sessions[calendarCalls[c].session] = calendarCalls[c].row
  BY DEF Calendar!Changed
<1>4. moved = {} /\ sessions[calendarCalls[c].session].status = "confirmed" =>
         \A n \in DOMAIN rewards: rewards[n].session # calendarCalls[c].session
  BY DEF CalendarInv, Calendar!RewardMatchesSessionUnlessMoved, Calendar!RewardMatchesSession
<1> QED
  BY <1>1, <1>2, <1>3, <1>4

LEMMA HeldIsFinite ==
    ASSUME CalendarInv, Calendar!SessionsAssumption
    PROVE  IsFiniteSet(DOMAIN sessions) /\ \A s: IsFiniteSet(Calendar!HeldOf(s))
<1>1. IsFiniteSet(DOMAIN sessions)
  BY FS_Interval DEF CalendarInv, RowsInOrder
<1> QED
  BY <1>1, FS_Subset DEF Calendar!HeldOf

LEMMA CancelWriteStep ==
    ASSUME CalendarInv, Calendar!SessionsAssumption, NEW c \in Callers, Calendar!CancelWrite(c)
    PROVE  CalendarInv'
<1>0. PICK i, s: i = calendarCalls[c].session /\ s = calendarCalls[c].row.slot
  OBVIOUS
<1>1. /\ calendarCalls[c].step = "cancel_write" /\ calendarCalls' = [calendarCalls EXCEPT ![c] = Calendar!NoCall]
      /\ UNCHANGED <<active, caseOpen, rewards, calendarNow, mix, died>>
  BY DEF Calendar!CancelWrite, Calendar!At, Calendar!End, Calendar!Hold
<1>2. CASE s # 0 /\ s \notin DOMAIN slots
  <2>1. UNCHANGED <<slots, sessions, moved>>
    BY <1>0, <1>2 DEF Calendar!CancelWrite
  <2> QED
    BY <1>1, <2>1, CalendarLooks, CalendarNoCall DEF CalendarInv, CalendarTypes
<1>3. CASE s = 0 \/ s \in DOMAIN slots
  <2>1. /\ sessions' = [sessions EXCEPT ![i].status = "cancelled"]
        /\ slots' = Calendar!HandBack(s) /\ moved' = Calendar!Changed(c)
    BY <1>0, <1>3 DEF Calendar!CancelWrite
  <2>2. /\ i \in DOMAIN sessions /\ moved \subseteq moved' /\ moved' \subseteq DOMAIN sessions
        /\ moved' = {} => /\ moved = {} /\ sessions[i].slot = s /\ sessions[i].status = "confirmed"
                          /\ \A n \in DOMAIN rewards: rewards[n].session # i
    BY <1>0, <1>1, <2>1, ReadIsStillTrue
  <2>3. /\ DOMAIN sessions' = DOMAIN sessions /\ sessions' \in [DOMAIN sessions' -> Calendar!Session]
        /\ \A j \in DOMAIN sessions:
              /\ sessions'[j].disputed = sessions[j].disputed /\ sessions'[j].raced = sessions[j].raced
              /\ sessions'[j].slot = sessions[j].slot
              /\ sessions'[j].status = IF j = i THEN "cancelled" ELSE sessions[j].status
    BY <2>1, <2>2 DEF CalendarInv, CalendarTypes, Calendar!Session, Calendar!SessionStatus
  <2>4. /\ DOMAIN slots' = DOMAIN slots /\ slots' \in [DOMAIN slots' -> Calendar!Slot]
        /\ \A t \in DOMAIN slots:
              /\ slots[t].booked \in Int /\ slots'[t].hours = slots[t].hours
              /\ slots'[t].booked = IF t = s THEN slots[t].booked - 1 ELSE slots[t].booked
    BY <2>1 DEF Calendar!HandBack, CalendarInv, CalendarTypes, Calendar!Slot
  <2>5. \A d \in Calendar!Booking: calendarCalls[d].slot \in DOMAIN slots'
    BY <2>4 DEF CalendarInv, BookingsFit
  <2>6. /\ calendarCalls' \in [Callers -> Calendar!Call]
        /\ CallsRefer' /\ BookingsFit' /\ PlacesFit' /\ MissedIsRaced'
        /\ Calendar!SuspendedHasNoSessionUnlessRaced'
    <3>1. \A t \in DOMAIN slots': t \in DOMAIN slots /\ slots'[t].hours = slots[t].hours
                                  /\ slots'[t].booked <= slots[t].booked
      BY <2>4
    <3>2. \A j \in DOMAIN sessions: sessions'[j].status = "confirmed" =>
               sessions[j].status = "confirmed" /\ (sessions[j].raced => sessions'[j].raced)
      BY <2>3
    <3> QED
      BY <1>1, <2>3, <2>4, <2>5, <3>1, <3>2, CalendarEnds
  <2>7. CalendarTypes' /\ RowsInOrder' /\ RowsRefer'
    BY <1>1, <2>2, <2>3, <2>4, <2>6 DEF CalendarInv, CalendarTypes, RowsInOrder, RowsRefer
  <2>8. Calendar!CountIsKeptUnlessMoved'
    <3> SUFFICES ASSUME moved' = {}, NEW t \in DOMAIN slots
                 PROVE  slots'[t].booked = Cardinality(Calendar!HeldOf(t)')
      BY <2>4, CalendarCardinality DEF Calendar!CountIsKeptUnlessMoved, Calendar!HeldOf
    <3>1. slots[t].booked = Cardinality(Calendar!HeldOf(t))
      BY <2>2, CalendarCardinality DEF CalendarInv, Calendar!CountIsKeptUnlessMoved
    <3>2. Calendar!HeldOf(t)' = Calendar!HeldOf(t) \ {i}
      BY <2>3 DEF Calendar!HeldOf
    <3>3. i \in Calendar!HeldOf(t) <=> t = s
      BY <2>2 DEF Calendar!HeldOf
    <3>4. Cardinality(Calendar!HeldOf(t) \ {i}) =
             IF i \in Calendar!HeldOf(t) THEN Cardinality(Calendar!HeldOf(t)) - 1
             ELSE Cardinality(Calendar!HeldOf(t))
      BY HeldIsFinite, FS_RemoveElement
    <3> QED
      BY <2>4, <3>1, <3>2, <3>3, <3>4
  <2>9. Calendar!RewardMatchesSessionUnlessMoved'
    BY <1>1, <2>2, <2>3, RewardsUntouched
  <2>10. Calendar!DisputedIsWithheldUnlessMoved'
    BY <1>1, <2>2, <2>3, DisputesUntouched
  <2> QED
    BY <2>6, <2>7, <2>8, <2>9, <2>10 DEF CalendarInv
<1> QED
  BY <1>2, <1>3

LEMMA CompleteWriteStep ==
    ASSUME CalendarInv, Calendar!SessionsAssumption, NEW c \in Callers, Calendar!CompleteWrite(c)
    PROVE  CalendarInv'
<1>0. PICK i, n1: i = calendarCalls[c].session /\ n1 = Cardinality(DOMAIN rewards) + 1
  OBVIOUS
<1>1. /\ calendarCalls[c].step = "complete_write" /\ calendarCalls' = [calendarCalls EXCEPT ![c] = Calendar!NoCall]
      /\ sessions' = [sessions EXCEPT ![i].status = calendarCalls[c].outcome, ![i].reward = calendarCalls[c].reward]
      /\ rewards' = Calendar!Add(rewards, [session |-> i, state |-> calendarCalls[c].reward])
      /\ moved' = Calendar!Changed(c)
      /\ UNCHANGED <<active, caseOpen, slots, calendarNow, mix, died>>
  BY <1>0 DEF Calendar!CompleteWrite, Calendar!At, Calendar!End, Calendar!Hold
<1>2. /\ i \in DOMAIN sessions /\ moved \subseteq moved' /\ moved' \subseteq DOMAIN sessions
      /\ moved' = {} => /\ moved = {} /\ sessions[i] = calendarCalls[c].row /\ sessions[i].status = "confirmed"
                        /\ \A n \in DOMAIN rewards: rewards[n].session # i
  BY <1>0, <1>1, ReadIsStillTrue
<1>3. /\ calendarCalls[c] \in Calendar!Call /\ calendarCalls[c].outcome \in {"completed", "no_show"}
      /\ calendarCalls[c].reward \in Calendar!RewardState /\ (calendarCalls[c].row.disputed => calendarCalls[c].reward = "withheld")
      /\ DOMAIN sessions \subseteq 1..MaxSessions
  BY <1>1, CalendarIndex DEF Calendar!Call, CallRefers
<1>4. /\ DOMAIN sessions' = DOMAIN sessions /\ sessions' \in [DOMAIN sessions' -> Calendar!Session]
      /\ \A j \in DOMAIN sessions:
            /\ sessions'[j].disputed = sessions[j].disputed /\ sessions'[j].raced = sessions[j].raced
            /\ sessions'[j].slot = sessions[j].slot
            /\ sessions'[j].status = IF j = i THEN calendarCalls[c].outcome ELSE sessions[j].status
  BY <1>1, <1>2, <1>3 DEF CalendarInv, CalendarTypes, Calendar!Session, Calendar!SessionStatus
<1>5. /\ n1 \notin DOMAIN rewards /\ DOMAIN rewards' = DOMAIN rewards \cup {n1}
      /\ Cardinality(DOMAIN rewards') \in Nat /\ DOMAIN rewards' = 1..Cardinality(DOMAIN rewards')
      /\ \A n \in DOMAIN rewards: rewards'[n] = rewards[n]
      /\ rewards'[n1] = [session |-> i, state |-> calendarCalls[c].reward]
  <2>1. n1 \in Nat /\ DOMAIN rewards = 1..(n1 - 1) /\ n1 >= 1
    BY <1>0 DEF CalendarInv, RowsInOrder
  <2>2. DOMAIN rewards' = DOMAIN rewards \cup {n1}
    BY <1>0, <1>1, CalendarCardinality DEF Calendar!Add
  <2>3. DOMAIN rewards' = 1..n1 /\ n1 \notin DOMAIN rewards
    BY <2>1, <2>2
  <2>4. Cardinality(1..n1) = n1
    BY <2>1, FS_Interval
  <2>5. /\ \A n \in DOMAIN rewards: rewards'[n] = rewards[n]
        /\ rewards'[n1] = [session |-> i, state |-> calendarCalls[c].reward]
    BY <1>0, <1>1, <2>3, CalendarCardinality DEF Calendar!Add
  <2> QED
    BY <2>1, <2>2, <2>3, <2>4, <2>5
<1>6. rewards' \in [DOMAIN rewards' -> Calendar!Reward]
  <2>1. [session |-> i, state |-> calendarCalls[c].reward] \in Calendar!Reward
    BY <1>2, <1>3 DEF Calendar!Reward
  <2>2. rewards' = [n \in DOMAIN rewards' |-> rewards'[n]]
    BY <1>1 DEF Calendar!Add
  <2> QED
    BY <1>5, <2>1, <2>2 DEF CalendarInv, CalendarTypes
<1>7. /\ calendarCalls' \in [Callers -> Calendar!Call]
      /\ CallsRefer' /\ BookingsFit' /\ PlacesFit' /\ MissedIsRaced'
      /\ Calendar!SuspendedHasNoSessionUnlessRaced'
  <2>1. slots' \in [DOMAIN slots' -> Calendar!Slot] /\ \A t \in DOMAIN slots': t \in DOMAIN slots
            /\ slots'[t].hours = slots[t].hours /\ slots'[t].booked <= slots[t].booked
    BY <1>1 DEF CalendarInv, CalendarTypes, Calendar!Slot
  <2>2. \A j \in DOMAIN sessions: sessions'[j].status = "confirmed" =>
             sessions[j].status = "confirmed" /\ (sessions[j].raced => sessions'[j].raced)
    BY <1>3, <1>4
  <2>3. \A d \in Calendar!Booking: calendarCalls[d].slot \in DOMAIN slots'
    BY <1>1 DEF CalendarInv, BookingsFit
  <2> QED
    BY <1>1, <1>4, <2>1, <2>2, <2>3, CalendarEnds
<1>8. CalendarTypes' /\ RowsInOrder'
  BY <1>1, <1>2, <1>4, <1>5, <1>6, <1>7 DEF CalendarInv, CalendarTypes, RowsInOrder
<1>9. RowsRefer'
  BY <1>1, <1>2, <1>4, <1>5 DEF CalendarInv, RowsRefer
<1>10. Calendar!CountIsKeptUnlessMoved'
  <2> SUFFICES ASSUME moved' = {}, NEW t \in DOMAIN slots
               PROVE  slots[t].booked = Cardinality(Calendar!HeldOf(t)')
    BY <1>1, CalendarCardinality DEF Calendar!CountIsKeptUnlessMoved, Calendar!HeldOf
  <2>1. Calendar!HeldOf(t)' = Calendar!HeldOf(t)
    BY <1>2, <1>3, <1>4 DEF Calendar!HeldOf
  <2> QED
    BY <1>2, <2>1, CalendarCardinality DEF CalendarInv, Calendar!CountIsKeptUnlessMoved
<1>11. Calendar!RewardMatchesSessionUnlessMoved'
  <2> SUFFICES ASSUME moved' = {}
               PROVE  Calendar!RewardMatchesSession'
    BY DEF Calendar!RewardMatchesSessionUnlessMoved
  <2>1. Calendar!RewardMatchesSession /\ \A n \in DOMAIN rewards: rewards[n].session \in DOMAIN sessions
    BY <1>2 DEF CalendarInv, Calendar!RewardMatchesSessionUnlessMoved, RowsRefer
  <2>2. \A n \in DOMAIN rewards: rewards[n].session # i
    BY <1>2
  <2> QED
    BY <1>2, <1>3, <1>4, <1>5, <2>1, <2>2 DEF Calendar!RewardMatchesSession
<1>12. Calendar!DisputedIsWithheldUnlessMoved'
  <2> SUFFICES ASSUME moved' = {}, died = {}, NEW n \in DOMAIN rewards',
                      sessions'[rewards'[n].session].disputed, ~Calendar!Disputing(rewards[n].session)'
               PROVE  rewards'[n].state = "withheld"
    BY <1>1 DEF Calendar!DisputedIsWithheldUnlessMoved, Calendar!DisputedIsWithheld
  <2>1. CASE n = n1
    BY <1>2, <1>3, <1>4, <1>5, <2>1
  <2>2. CASE n \in DOMAIN rewards
    <3>1. rewards[n].session \in DOMAIN sessions /\ sessions[rewards[n].session].disputed
      BY <1>4, <1>5, <2>2 DEF CalendarInv, RowsRefer
    <3>2. \A d \in Callers: d # c => calendarCalls'[d] = calendarCalls[d]
      BY <1>1, CallMoves, CalendarNoCall DEF CalendarInv
    <3>3. ~Calendar!Disputing(rewards[n].session)
      BY <1>1, <1>5, <2>2, <3>2 DEF Calendar!Disputing, Calendar!At
    <3> QED
      BY <1>2, <1>5, <2>2, <3>1, <3>3 DEF CalendarInv, Calendar!DisputedIsWithheldUnlessMoved,
                                          Calendar!DisputedIsWithheld
  <2> QED
    BY <1>5, <2>1, <2>2
<1> QED
  BY <1>7, <1>8, <1>9, <1>10, <1>11, <1>12 DEF CalendarInv

LEMMA DisputeSessionStep ==
    ASSUME CalendarInv, Calendar!SessionsAssumption, NEW c \in Callers, NEW i \in DOMAIN sessions,
           Calendar!DisputeSession(c, i)
    PROVE  CalendarInv'
<1> USE CalendarIndex, CalendarNoCall
<1>0. PICK call: call = [Calendar!NoCall EXCEPT !.step = "dispute_entries", !.session = i]
  OBVIOUS
<1>1. /\ calendarCalls[c].step = "idle" /\ calendarCalls' = [calendarCalls EXCEPT ![c] = call]
      /\ sessions' = [sessions EXCEPT ![i].disputed = TRUE, ![i].reward = "withheld"]
      /\ UNCHANGED <<active, caseOpen, slots, rewards, calendarNow, mix, moved, died>>
  BY <1>0 DEF Calendar!DisputeSession, Calendar!Begin, Calendar!At, Calendar!Hold
<1>2. i \in 0..MaxSessions
  BY DEF Calendar!SessionsAssumption
<1>3. call \in Calendar!Call /\ call.step = "dispute_entries" /\ call.session = i
  BY <1>0, <1>2 DEF Calendar!Call, Calendar!Step
<1>4. /\ DOMAIN sessions' = DOMAIN sessions /\ sessions' \in [DOMAIN sessions' -> Calendar!Session]
      /\ \A j \in DOMAIN sessions:
            /\ sessions'[j].raced = sessions[j].raced
            /\ sessions'[j].slot = sessions[j].slot /\ sessions'[j].status = sessions[j].status
            /\ j # i => sessions'[j] = sessions[j]
  BY <1>1 DEF CalendarInv, CalendarTypes, Calendar!Session, Calendar!RewardState
<1>5. CallRefers(call)'
  BY <1>3, <1>4 DEF CallRefers
<1>6. CallsRefer'
  BY <1>1, <1>3, <1>4, <1>5, CallsStillRefer DEF CalendarInv
<1>7. BookingsFit' /\ \A s: Calendar!Locked(s)' => Calendar!Locked(s)
  <2>1. \A d \in Calendar!Booking: calendarCalls[d].slot \in DOMAIN slots'
    BY <1>1 DEF CalendarInv, BookingsFit
  <2> QED
    BY <1>1, <1>3, <1>4, <2>1, BookingsStillFit DEF CalendarInv
<1>8. PlacesFit'
  BY <1>1, <1>7 DEF CalendarInv, PlacesFit
<1>9. Calendar!Live' = Calendar!Live
  BY <1>4 DEF Calendar!Live
<1>10. MissedIsRaced'
  <2>1. \A j \in Calendar!Live': j \in Calendar!Live /\ (sessions[j].raced => sessions'[j].raced)
    BY <1>4, <1>9
  <2> QED
    BY <1>1, <1>3, <2>1, MissedStaysRaced DEF CalendarInv
<1>11. Calendar!SuspendedHasNoSessionUnlessRaced'
  BY <1>1, <1>4, <1>9 DEF CalendarInv, Calendar!SuspendedHasNoSessionUnlessRaced
<1>12. calendarCalls' \in [Callers -> Calendar!Call]
  BY <1>1, <1>3, CallMoves DEF CalendarInv
<1>13. CalendarTypes' /\ RowsInOrder' /\ RowsRefer'
  BY <1>1, <1>4, <1>12 DEF CalendarInv, CalendarTypes, RowsInOrder, RowsRefer
<1>14. Calendar!CountIsKeptUnlessMoved'
  <2>1. \A s: Calendar!HeldOf(s)' = Calendar!HeldOf(s)
    BY <1>4 DEF Calendar!HeldOf
  <2> QED
    BY <1>1, <2>1 DEF CalendarInv, Calendar!CountIsKeptUnlessMoved
<1>15. Calendar!RewardMatchesSessionUnlessMoved'
  BY <1>1, <1>4, RewardsUntouched
<1>16. Calendar!DisputedIsWithheldUnlessMoved'
  <2> SUFFICES ASSUME moved = {}, died = {}, NEW n \in DOMAIN rewards,
                      sessions'[rewards[n].session].disputed, ~Calendar!Disputing(rewards[n].session)'
               PROVE  rewards[n].state = "withheld"
    BY <1>1 DEF Calendar!DisputedIsWithheldUnlessMoved, Calendar!DisputedIsWithheld
  <2>1. calendarCalls'[c] = call /\ \A d \in Callers: d # c => calendarCalls'[d] = calendarCalls[d]
    BY <1>1, <1>3, CallMoves DEF CalendarInv
  <2>2. rewards[n].session # i
    BY <1>1, <1>3, <2>1 DEF Calendar!Disputing, Calendar!At
  <2>3. ~Calendar!Disputing(rewards[n].session)
    BY <1>1, <2>1 DEF Calendar!Disputing, Calendar!At
  <2>4. sessions[rewards[n].session].disputed
    BY <1>4, <2>2 DEF CalendarInv, RowsRefer
  <2> QED
    BY <2>3, <2>4 DEF CalendarInv, Calendar!DisputedIsWithheldUnlessMoved, Calendar!DisputedIsWithheld
<1> QED
  BY <1>6, <1>7, <1>8, <1>10, <1>11, <1>13, <1>14, <1>15, <1>16 DEF CalendarInv

LEMMA BookLockStep ==
    ASSUME CalendarInv, Calendar!SessionsAssumption, NEW c \in Callers, NEW s \in DOMAIN slots,
           Calendar!BookLock(c, s)
    PROVE  CalendarInv'
<1> USE CalendarNoCall
<1>0. PICK call: call = [Calendar!NoCall EXCEPT !.step = "book_commit", !.slot = s]
  OBVIOUS
<1>1. /\ calendarCalls[c].step = "idle" /\ calendarCalls' = [calendarCalls EXCEPT ![c] = call]
      /\ Cardinality(DOMAIN sessions) + Cardinality(Calendar!Booking) < MaxSessions
      /\ ~Calendar!Locked(s) /\ slots[s].booked < slots[s].hours.capacity
      /\ UNCHANGED <<active, caseOpen, slots, sessions, rewards, calendarNow, mix, moved, died>>
  BY <1>0, CalendarCardinality DEF Calendar!BookLock, Calendar!Begin, Calendar!At, Calendar!Hold,
                                   Calendar!Bookable
<1>2. s \in 0..MaxSlots
  BY DEF CalendarInv, CalendarTypes, Calendar!SessionsAssumption
<1>3. call \in Calendar!Call /\ call.step = "book_commit" /\ call.slot = s
  BY <1>0, <1>2 DEF Calendar!Call, Calendar!Step
<1>4. /\ calendarCalls'[c] = call /\ \A d \in Callers: d # c => calendarCalls'[d] = calendarCalls[d]
      /\ calendarCalls' \in [Callers -> Calendar!Call]
      /\ Calendar!Booking' = Calendar!Booking \cup {c}
  BY <1>1, <1>3, CallMoves DEF CalendarInv
<1>5. CalendarTypes' /\ RowsInOrder' /\ RowsRefer'
  BY <1>1, <1>4 DEF CalendarInv, CalendarTypes, RowsInOrder, RowsRefer
<1>6. CallsRefer'
  <2>1. CallRefers(call)'
    BY <1>3 DEF CallRefers
  <2> QED
    BY <1>1, <1>3, <2>1, CallsStillRefer DEF CalendarInv
<1>7. BookingsFit'
  <2>1. c \notin Calendar!Booking /\ IsFiniteSet(Calendar!Booking)
    BY <1>1 DEF Calendar!Booking, Calendar!At, CalendarInv, BookingsFit
  <2>2. /\ IsFiniteSet(Calendar!Booking') /\ Cardinality(Calendar!Booking) \in Nat
        /\ Cardinality(Calendar!Booking') = Cardinality(Calendar!Booking) + 1
    BY <1>4, <2>1, FS_AddElement, FS_CardinalityType
  <2>3. Cardinality(DOMAIN sessions') + Cardinality(Calendar!Booking') <= MaxSessions
    BY <1>1, <2>2 DEF CalendarInv, RowsInOrder, Calendar!SessionsAssumption
  <2>4. \A d \in Calendar!Booking': d # c => d \in Callers /\ d \in Calendar!Booking /\ calendarCalls'[d] = calendarCalls[d]
    BY <1>4 DEF Calendar!Booking
  <2>5. \A d \in Calendar!Booking: calendarCalls[d].slot # s
    BY <1>1 DEF Calendar!Locked
  <2>6. \A d \in Calendar!Booking': calendarCalls'[d].slot \in DOMAIN slots'
    BY <1>1, <1>3, <1>4, <2>4 DEF CalendarInv, BookingsFit
  <2>7. \A d, e \in Calendar!Booking': calendarCalls'[d].slot = calendarCalls'[e].slot => d = e
    BY <1>3, <1>4, <2>4, <2>5 DEF CalendarInv, BookingsFit
  <2> QED
    BY <2>2, <2>3, <2>6, <2>7 DEF BookingsFit
<1>8. PlacesFit'
  <2>1. \A t: Calendar!Locked(t)' => Calendar!Locked(t) \/ t = s
    BY <1>3, <1>4 DEF Calendar!Locked, Calendar!Booking
  <2> QED
    BY <1>1, <2>1 DEF CalendarInv, PlacesFit
<1>9. MissedIsRaced'
  BY <1>1, <1>3, MissedStaysRaced DEF CalendarInv, Calendar!Live
<1>10. Calendar!CountIsKeptUnlessMoved' /\ Calendar!SuspendedHasNoSessionUnlessRaced'
  BY <1>1 DEF CalendarInv, Calendar!CountIsKeptUnlessMoved, Calendar!SuspendedHasNoSessionUnlessRaced,
              Calendar!HeldOf, Calendar!Live
<1>11. Calendar!RewardMatchesSessionUnlessMoved'
  BY <1>1, RewardsUntouched
<1>12. Calendar!DisputedIsWithheldUnlessMoved'
  <2>1. \A i: Calendar!Disputing(i) => Calendar!Disputing(i)'
    BY <1>1, <1>4 DEF Calendar!Disputing, Calendar!At
  <2>2. \A n \in DOMAIN rewards: ~Calendar!Disputing(rewards[n].session)' => ~Calendar!Disputing(rewards[n].session)
    BY <1>1, <2>1
  <2> QED
    BY <1>1, <2>2 DEF CalendarInv, Calendar!DisputedIsWithheldUnlessMoved, Calendar!DisputedIsWithheld
<1> QED
  BY <1>5, <1>6, <1>7, <1>8, <1>9, <1>10, <1>11, <1>12 DEF CalendarInv

LEMMA BookCommitStep ==
    ASSUME CalendarInv, Calendar!SessionsAssumption, NEW c \in Callers, Calendar!BookCommit(c)
    PROVE  CalendarInv'
<1> USE CalendarNoCall
<1>0. PICK s, new, row: /\ s = calendarCalls[c].slot /\ new = Cardinality(DOMAIN sessions) + 1
                        /\ row = [slot |-> s, status |-> "confirmed", disputed |-> FALSE,
                                  reward |-> "not_earned", raced |-> ~active \/ Calendar!Suspending]
  OBVIOUS
<1>1. /\ calendarCalls[c].step = "book_commit" /\ calendarCalls' = [calendarCalls EXCEPT ![c] = Calendar!NoCall]
      /\ slots' = [slots EXCEPT ![s].booked = @ + 1] /\ sessions' = Calendar!Add(sessions, row)
      /\ UNCHANGED <<active, caseOpen, rewards, calendarNow, mix, moved, died>>
  BY <1>0 DEF Calendar!BookCommit, Calendar!At, Calendar!End, Calendar!Hold
<1>2. /\ calendarCalls'[c] = Calendar!NoCall /\ \A d \in Callers: d # c => calendarCalls'[d] = calendarCalls[d]
      /\ calendarCalls' \in [Callers -> Calendar!Call]
      /\ Calendar!Booking' = Calendar!Booking \ {c} /\ c \in Calendar!Booking
  BY <1>1, CallMoves DEF CalendarInv, Calendar!Booking, Calendar!At
<1>3. s \in DOMAIN slots /\ s \in 1..MaxSlots /\ slots[s].booked < slots[s].hours.capacity
  BY <1>0, <1>2 DEF CalendarInv, CalendarTypes, BookingsFit, PlacesFit, Calendar!Locked
<1>4. /\ row \in Calendar!Session /\ row.slot = s /\ row.status = "confirmed" /\ ~row.disputed
      /\ row.raced <=> ~active \/ Calendar!Suspending
  <2>1. (~active \/ Calendar!Suspending) \in BOOLEAN /\ s \in 0..MaxSlots
    BY <1>3 DEF Calendar!SessionsAssumption
  <2> QED
    BY <1>0, <2>1 DEF Calendar!Session, Calendar!SessionStatus, Calendar!RewardState
<1>5. /\ new \notin DOMAIN sessions /\ DOMAIN sessions' = DOMAIN sessions \cup {new}
      /\ Cardinality(DOMAIN sessions') = Cardinality(DOMAIN sessions) + 1
      /\ Cardinality(DOMAIN sessions') \in Nat /\ DOMAIN sessions' = 1..Cardinality(DOMAIN sessions')
      /\ \A i \in DOMAIN sessions: sessions'[i] = sessions[i]
      /\ sessions'[new] = row
  <2>1. new \in Nat /\ DOMAIN sessions = 1..(new - 1) /\ new >= 1
    BY <1>0 DEF CalendarInv, RowsInOrder
  <2>2. DOMAIN sessions' = DOMAIN sessions \cup {new}
    BY <1>0, <1>1, CalendarCardinality DEF Calendar!Add
  <2>3. DOMAIN sessions' = 1..new /\ new \notin DOMAIN sessions
    BY <2>1, <2>2
  <2>4. Cardinality(1..new) = new
    BY <2>1, FS_Interval
  <2>5. (\A i \in DOMAIN sessions: sessions'[i] = sessions[i]) /\ sessions'[new] = row
    BY <1>0, <1>1, <2>3, CalendarCardinality DEF Calendar!Add
  <2> QED
    BY <1>0, <2>1, <2>2, <2>3, <2>4, <2>5
<1>6. sessions' \in [DOMAIN sessions' -> Calendar!Session]
  <2>1. sessions' = [i \in DOMAIN sessions' |-> sessions'[i]]
    BY <1>1 DEF Calendar!Add
  <2> QED
    BY <1>4, <1>5, <2>1 DEF CalendarInv, CalendarTypes
<1>7. /\ DOMAIN slots' = DOMAIN slots /\ slots' \in [DOMAIN slots' -> Calendar!Slot]
      /\ \A t \in DOMAIN slots:
            /\ slots[t].booked \in Int /\ slots'[t].hours = slots[t].hours
            /\ slots'[t].booked = IF t = s THEN slots[t].booked + 1 ELSE slots[t].booked
            /\ slots[t].hours.capacity \in Nat
  <2>1. \A t \in DOMAIN slots: slots[t].hours \in Hours /\ slots[t].hours.capacity \in Nat
    BY DEF CalendarInv, CalendarTypes, Calendar!Slot, Calendar!SessionsAssumption
  <2>2. \A t \in DOMAIN slots: /\ slots[t] \in Calendar!Slot /\ slots[t].booked \in Int
                               /\ slots[t].booked + 1 \in Int
    BY DEF CalendarInv, CalendarTypes, Calendar!Slot
  <2>3. [slots[s] EXCEPT !.booked = @ + 1] \in Calendar!Slot
    BY <1>3, <2>2 DEF Calendar!Slot
  <2>4. slots' = [t \in DOMAIN slots |-> IF t = s THEN [slots[s] EXCEPT !.booked = @ + 1] ELSE slots[t]]
    BY <1>1, <1>3 DEF CalendarInv, CalendarTypes
  <2>5. DOMAIN slots' = DOMAIN slots /\ slots' \in [DOMAIN slots' -> Calendar!Slot]
    BY <2>2, <2>3, <2>4
  <2>6. \A t \in DOMAIN slots:
           /\ slots'[t].hours = slots[t].hours
           /\ slots'[t].booked = IF t = s THEN slots[t].booked + 1 ELSE slots[t].booked
    BY <1>3, <2>2, <2>4 DEF Calendar!Slot
  <2> QED
    BY <2>1, <2>2, <2>5, <2>6
<1>8. CalendarTypes' /\ RowsInOrder'
  BY <1>1, <1>2, <1>5, <1>6, <1>7 DEF CalendarInv, CalendarTypes, RowsInOrder
<1>9. RowsRefer'
  BY <1>1, <1>3, <1>4, <1>5, <1>7 DEF CalendarInv, RowsRefer
<1>10. CallsRefer'
  <2>1. CallRefers(Calendar!NoCall)' /\ DOMAIN sessions \subseteq DOMAIN sessions'
    BY <1>5 DEF CallRefers
  <2> QED
    BY <1>1, <2>1, CallsStillRefer DEF CalendarInv
<1>11. BookingsFit'
  <2>1. /\ IsFiniteSet(Calendar!Booking') /\ Cardinality(Calendar!Booking) \in Nat
        /\ Cardinality(Calendar!Booking') = Cardinality(Calendar!Booking) - 1
    BY <1>2, FS_RemoveElement, FS_CardinalityType DEF CalendarInv, BookingsFit
  <2>2. Cardinality(DOMAIN sessions') + Cardinality(Calendar!Booking') <= MaxSessions
    BY <1>5, <2>1 DEF CalendarInv, BookingsFit, RowsInOrder, Calendar!SessionsAssumption
  <2>3. \A d \in Calendar!Booking': d \in Calendar!Booking /\ calendarCalls'[d] = calendarCalls[d]
    BY <1>2 DEF Calendar!Booking
  <2> QED
    BY <1>7, <2>1, <2>2, <2>3 DEF CalendarInv, BookingsFit
<1>12. PlacesFit'
  <2>1. \A t: Calendar!Locked(t)' => Calendar!Locked(t) /\ t # s
    BY <1>0, <1>2 DEF Calendar!Locked, Calendar!Booking, CalendarInv, BookingsFit
  <2> SUFFICES ASSUME NEW t \in DOMAIN slots
               PROVE  /\ slots'[t].booked <= slots'[t].hours.capacity
                      /\ Calendar!Locked(t)' => slots'[t].booked < slots'[t].hours.capacity
    BY <1>7 DEF PlacesFit
  <2>2. /\ slots[t].booked <= slots[t].hours.capacity
        /\ Calendar!Locked(t) => slots[t].booked < slots[t].hours.capacity
    BY DEF CalendarInv, PlacesFit
  <2> QED
    BY <1>3, <1>7, <2>1, <2>2
<1>13. Calendar!Live' = Calendar!Live \cup {new} /\ new \notin Calendar!Live
  BY <1>4, <1>5 DEF Calendar!Live
<1>14. MissedIsRaced'
  <2> SUFFICES ASSUME NEW d \in Callers, calendarCalls'[d].step = "suspend_commit",
                      NEW i \in Calendar!Live', i \notin calendarCalls'[d].found
               PROVE  sessions'[i].raced
    BY DEF MissedIsRaced
  <2>1. d # c /\ calendarCalls[d] = calendarCalls'[d]
    BY <1>2
  <2>2. Calendar!Suspending
    BY <2>1 DEF Calendar!Suspending, Calendar!At
  <2>3. i \in Calendar!Live => sessions[i].raced /\ i \in DOMAIN sessions
    BY <2>1 DEF CalendarInv, MissedIsRaced, Calendar!Live
  <2> QED
    BY <1>4, <1>5, <1>13, <2>2, <2>3
<1>15. Calendar!SuspendedHasNoSessionUnlessRaced'
  <2>1. \A i \in Calendar!Live: i \in DOMAIN sessions
    BY DEF Calendar!Live
  <2> QED
    BY <1>1, <1>4, <1>5, <1>13, <2>1 DEF CalendarInv, Calendar!SuspendedHasNoSessionUnlessRaced
<1>16. Calendar!CountIsKeptUnlessMoved'
  <2> SUFFICES ASSUME moved = {}, NEW t \in DOMAIN slots
               PROVE  slots'[t].booked = Cardinality(Calendar!HeldOf(t)')
    BY <1>1, <1>7, CalendarCardinality DEF Calendar!CountIsKeptUnlessMoved, Calendar!HeldOf
  <2>1. slots[t].booked = Cardinality(Calendar!HeldOf(t))
    BY CalendarCardinality DEF CalendarInv, Calendar!CountIsKeptUnlessMoved
  <2>2. Calendar!HeldOf(t)' = IF t = s THEN Calendar!HeldOf(t) \cup {new} ELSE Calendar!HeldOf(t)
    BY <1>4, <1>5 DEF Calendar!HeldOf
  <2>3. Cardinality(Calendar!HeldOf(t) \cup {new}) = Cardinality(Calendar!HeldOf(t)) + 1
    <3>1. new \notin Calendar!HeldOf(t)
      BY <1>5 DEF Calendar!HeldOf
    <3>2. IsFiniteSet(Calendar!HeldOf(t))
      BY HeldIsFinite
    <3> QED
      BY <3>1, <3>2, FS_AddElement
  <2> QED
    BY <1>7, <2>1, <2>2, <2>3
<1>17. Calendar!RewardMatchesSessionUnlessMoved'
  <2>1. \A n \in DOMAIN rewards: rewards[n].session \in DOMAIN sessions
    BY DEF CalendarInv, RowsRefer
  <2> QED
    BY <1>1, <1>5, <2>1 DEF CalendarInv, Calendar!RewardMatchesSessionUnlessMoved,
                            Calendar!RewardMatchesSession
<1>18. Calendar!DisputedIsWithheldUnlessMoved'
  <2>1. \A i: Calendar!Disputing(i) => Calendar!Disputing(i)'
    BY <1>1, <1>2 DEF Calendar!Disputing, Calendar!At
  <2>2. \A n \in DOMAIN rewards: ~Calendar!Disputing(rewards[n].session)' => ~Calendar!Disputing(rewards[n].session)
    BY <1>1, <2>1
  <2>3. \A n \in DOMAIN rewards: rewards[n].session \in DOMAIN sessions
    BY DEF CalendarInv, RowsRefer
  <2> QED
    BY <1>1, <1>5, <2>2, <2>3 DEF CalendarInv, Calendar!DisputedIsWithheldUnlessMoved,
                                  Calendar!DisputedIsWithheld
<1> QED
  BY <1>8, <1>9, <1>10, <1>11, <1>12, <1>14, <1>15, <1>16, <1>17, <1>18 DEF CalendarInv

LEMMA SuspendCommitStep ==
    ASSUME CalendarInv, Calendar!SessionsAssumption, NEW c \in Callers, Calendar!SuspendCommit(c)
    PROVE  CalendarInv'
<1>0. PICK found: found = calendarCalls[c].found
  OBVIOUS
<1>1. /\ calendarCalls[c].step = "suspend_commit" /\ calendarCalls' = [calendarCalls EXCEPT ![c] = Calendar!NoCall]
      /\ sessions' = Calendar!CancelFound(found)
      /\ slots' = [s \in DOMAIN slots |-> [slots[s] EXCEPT !.booked = @ - Calendar!Booked(s, found)]]
      /\ moved' = moved \cup (found \ Calendar!Live) /\ active' = FALSE
      /\ UNCHANGED <<caseOpen, rewards, calendarNow, mix, died>>
  BY <1>0 DEF Calendar!SuspendCommit, Calendar!At, Calendar!End, Calendar!Hold, Calendar!Cancelled
<1>2. found \subseteq DOMAIN sessions
  BY <1>0, <1>1 DEF CalendarInv, CallsRefer, CallRefers
<1>3. /\ DOMAIN sessions' = DOMAIN sessions /\ sessions' \in [DOMAIN sessions' -> Calendar!Session]
      /\ \A j \in DOMAIN sessions:
            /\ sessions'[j].disputed = sessions[j].disputed /\ sessions'[j].raced = sessions[j].raced
            /\ sessions'[j].slot = sessions[j].slot
            /\ sessions'[j].status = IF j \in found THEN "cancelled" ELSE sessions[j].status
  BY <1>1 DEF Calendar!CancelFound, CalendarInv, CalendarTypes, Calendar!Session, Calendar!SessionStatus
<1>4. \A s: /\ IsFiniteSet({i \in found: sessions[i].slot = s})
            /\ Calendar!Booked(s, found) = Cardinality({i \in found: sessions[i].slot = s})
            /\ Calendar!Booked(s, found) \in Nat
  <2>1. \A s: IsFiniteSet({i \in found: sessions[i].slot = s})
    BY <1>2, HeldIsFinite, FS_Subset
  <2> QED
    BY <2>1, FS_CardinalityType, CalendarCardinality DEF Calendar!Booked
<1>5. /\ DOMAIN slots' = DOMAIN slots /\ slots' \in [DOMAIN slots' -> Calendar!Slot]
      /\ \A s \in DOMAIN slots: /\ slots[s].booked \in Int /\ slots'[s].hours = slots[s].hours
                                /\ slots'[s].booked = slots[s].booked - Calendar!Booked(s, found)
  <2>1. \A s \in DOMAIN slots: /\ slots[s] \in Calendar!Slot /\ slots[s].booked \in Int
                               /\ slots[s].booked - Calendar!Booked(s, found) \in Int
    <3>1. \A s \in DOMAIN slots: slots[s] \in Calendar!Slot /\ slots[s].booked \in Int
      BY DEF CalendarInv, CalendarTypes, Calendar!Slot
    <3>2. \A s: Calendar!Booked(s, found) \in Nat
      BY <1>4
    <3> HIDE DEF Calendar!Slot
    <3> QED
      BY <3>1, <3>2
  <2>2. \A s \in DOMAIN slots:
           /\ slots'[s] = [slots[s] EXCEPT !.booked = slots[s].booked - Calendar!Booked(s, found)]
           /\ slots'[s] \in Calendar!Slot
    BY <1>1, <2>1 DEF Calendar!Slot
  <2>3. \A s \in DOMAIN slots: /\ slots'[s].hours = slots[s].hours
                               /\ slots'[s].booked = slots[s].booked - Calendar!Booked(s, found)
    BY <2>1, <2>2 DEF Calendar!Slot
  <2> QED
    BY <1>1, <2>1, <2>2, <2>3
<1>6. /\ calendarCalls' \in [Callers -> Calendar!Call]
      /\ CallsRefer' /\ BookingsFit' /\ PlacesFit' /\ MissedIsRaced'
  <2>1. \A s \in DOMAIN slots': s \in DOMAIN slots /\ slots'[s].hours = slots[s].hours
                                /\ slots'[s].booked <= slots[s].booked
    <3> SUFFICES ASSUME NEW s \in DOMAIN slots
                 PROVE  slots'[s].hours = slots[s].hours /\ slots'[s].booked <= slots[s].booked
      BY <1>5
    <3>1. Calendar!Booked(s, found) \in Nat
      BY <1>4
    <3> QED
      BY <1>5, <3>1
  <2>2. \A j \in DOMAIN sessions: sessions'[j].status = "confirmed" =>
             sessions[j].status = "confirmed" /\ (sessions[j].raced => sessions'[j].raced)
    BY <1>3
  <2>3. \A d \in Calendar!Booking: calendarCalls[d].slot \in DOMAIN slots'
    BY <1>5 DEF CalendarInv, BookingsFit
  <2> QED
    BY <1>1, <1>3, <1>5, <2>1, <2>2, <2>3, CalendarEnds
<1>7. CalendarTypes' /\ RowsInOrder' /\ RowsRefer'
  <2>1. moved' \subseteq DOMAIN sessions'
    BY <1>1, <1>2, <1>3 DEF CalendarInv, CalendarTypes
  <2> QED
    BY <1>1, <1>3, <1>5, <1>6, <2>1 DEF CalendarInv, CalendarTypes, RowsInOrder, RowsRefer
<1>8. moved' = {} => /\ moved = {} /\ \A i \in found: sessions[i].status = "confirmed"
  BY <1>1, <1>2 DEF Calendar!Live
<1>9. Calendar!CountIsKeptUnlessMoved'
  <2> SUFFICES ASSUME moved' = {}, NEW s \in DOMAIN slots
               PROVE  slots'[s].booked = Cardinality(Calendar!HeldOf(s)')
    BY <1>5, CalendarCardinality DEF Calendar!CountIsKeptUnlessMoved, Calendar!HeldOf
  <2>0. PICK gone: gone = {i \in found: sessions[i].slot = s}
    OBVIOUS
  <2>1. slots[s].booked = Cardinality(Calendar!HeldOf(s))
    BY <1>8, CalendarCardinality DEF CalendarInv, Calendar!CountIsKeptUnlessMoved
  <2>2. Calendar!HeldOf(s)' = Calendar!HeldOf(s) \ gone
    BY <1>3, <2>0 DEF Calendar!HeldOf
  <2>3. Calendar!HeldOf(s) \cap gone = gone
    BY <1>2, <1>8, <2>0 DEF Calendar!HeldOf
  <2>4. Cardinality(Calendar!HeldOf(s) \ gone) =
           Cardinality(Calendar!HeldOf(s)) - Cardinality(Calendar!HeldOf(s) \cap gone)
    BY HeldIsFinite, FS_Difference, <1>4, <2>0
  <2> QED
    BY <1>4, <1>5, <2>0, <2>1, <2>2, <2>3, <2>4
<1>10. Calendar!RewardMatchesSessionUnlessMoved'
  <2>1. moved' = {} => \A i \in DOMAIN sessions: sessions[i].status \in {"completed", "no_show"} =>
               sessions'[i].status = sessions[i].status
    BY <1>3, <1>8
  <2> QED
    BY <1>1, <1>3, <2>1, RewardsUntouched
<1>11. Calendar!DisputedIsWithheldUnlessMoved'
  BY <1>1, <1>3, DisputesUntouched
<1>12. Calendar!SuspendedHasNoSessionUnlessRaced'
  <2>1. \A i \in Calendar!Live': i \in Calendar!Live \ found /\ sessions'[i].raced = sessions[i].raced
    BY <1>3 DEF Calendar!Live
  <2> QED
    BY <1>0, <1>1, <2>1 DEF CalendarInv, MissedIsRaced, Calendar!SuspendedHasNoSessionUnlessRaced
<1> QED
  BY <1>6, <1>7, <1>9, <1>10, <1>11, <1>12 DEF CalendarInv

LEMMA CalendarInitInv ==
    ASSUME Calendar!SessionsAssumption, Calendar!Init
    PROVE  CalendarInv
<1> USE CalendarNoCall DEF Calendar!Init
<1>1. /\ DOMAIN slots \subseteq 1..MaxSlots /\ slots \in [DOMAIN slots -> Calendar!Slot]
      /\ \A s \in DOMAIN slots: slots[s].booked = 0 /\ slots[s].hours \in Hours
  <2>1. CASE slots = [s \in {} |-> 0]
    BY <2>1
  <2>2. ASSUME NEW h \in Hours, slots = [s \in {1} |-> [hours |-> h, booked |-> 0]]
        PROVE  /\ DOMAIN slots \subseteq 1..MaxSlots /\ slots \in [DOMAIN slots -> Calendar!Slot]
               /\ \A s \in DOMAIN slots: slots[s].booked = 0 /\ slots[s].hours \in Hours
    <3>1. DOMAIN slots = {1} /\ slots[1] = [hours |-> h, booked |-> 0] /\ 1 \in 1..MaxSlots
      BY <2>2 DEF Calendar!SessionsAssumption
    <3>2. slots[1] \in Calendar!Slot /\ slots[1].booked = 0 /\ slots[1].hours \in Hours
      BY <3>1 DEF Calendar!Slot
    <3> QED
      BY <2>2, <3>1, <3>2
  <2> QED
    BY <2>1, <2>2
<1>2. /\ sessions = [i \in {} |-> 0] /\ rewards = [i \in {} |-> 0]
      /\ DOMAIN sessions = {} /\ DOMAIN rewards = {}
  OBVIOUS
<1>3. calendarCalls \in [Callers -> Calendar!Call] /\ \A c \in Callers: calendarCalls[c] = Calendar!NoCall
  OBVIOUS
<1>4. Calendar!Booking = {} /\ \A s: ~Calendar!Locked(s)
  BY <1>3 DEF Calendar!Booking, Calendar!Locked, Calendar!At
<1>5. Cardinality({}) = 0 /\ IsFiniteSet({}) /\ 1..0 = {}
  BY FS_EmptySet
<1>6. CalendarTypes
  <2>0. calendarNow \in 0..CalendarTime
    BY DEF Calendar!SessionsAssumption
  <2>1. active \in BOOLEAN /\ caseOpen \in BOOLEAN /\ calendarNow \in 0..CalendarTime /\ mix \in Mixes
    BY <2>0, Zenon
  <2>2. sessions \in [DOMAIN sessions -> Calendar!Session] /\ rewards \in [DOMAIN rewards -> Calendar!Reward]
    BY <1>2
  <2>3. moved \subseteq DOMAIN sessions /\ died \subseteq CrashSteps
    OBVIOUS
  <2> HIDE DEF Calendar!Init
  <2> QED
    BY <1>1, <1>3, <2>1, <2>2, <2>3 DEF CalendarTypes
<1>7. RowsInOrder /\ RowsRefer /\ CallsRefer
  BY <1>2, <1>3, <1>5 DEF RowsInOrder, RowsRefer, CallsRefer
<1>8. BookingsFit
  BY <1>2, <1>4, <1>5 DEF BookingsFit, Calendar!SessionsAssumption
<1>9. PlacesFit
  BY <1>1, <1>4 DEF PlacesFit, Calendar!SessionsAssumption
<1>10. MissedIsRaced /\ Calendar!SuspendedHasNoSessionUnlessRaced
  BY <1>3 DEF MissedIsRaced, Calendar!SuspendedHasNoSessionUnlessRaced
<1>11. Calendar!CountIsKeptUnlessMoved
  <2>1. \A s: Calendar!HeldOf(s) = {}
    BY <1>2 DEF Calendar!HeldOf
  <2> QED
    BY <1>1, <1>5, <2>1, CalendarCardinality DEF Calendar!CountIsKeptUnlessMoved
<1>12. Calendar!RewardMatchesSessionUnlessMoved /\ Calendar!DisputedIsWithheldUnlessMoved
  BY <1>2 DEF Calendar!RewardMatchesSessionUnlessMoved, Calendar!RewardMatchesSession,
              Calendar!DisputedIsWithheldUnlessMoved, Calendar!DisputedIsWithheld
<1> QED
  BY <1>6, <1>7, <1>8, <1>9, <1>10, <1>11, <1>12 DEF CalendarInv

LEMMA CalendarStep ==
    ASSUME CalendarInv, Calendar!SessionsAssumption, [Calendar!Next]_Calendar!vars
    PROVE  CalendarInv'
<1> USE DEF Calendar!Next
<1>1. ASSUME NEW c \in Callers, \/ Calendar!AddSlotWrite(c) \/ Calendar!RemoveSlotWrite(c)
                                \/ Calendar!BookCommit(c) \/ Calendar!CancelWrite(c)
                                \/ Calendar!CompleteWrite(c) \/ Calendar!DisputeEntries(c)
                                \/ Calendar!SuspendCommit(c)
      PROVE  CalendarInv'
  BY <1>1, AddSlotWriteStep, RemoveSlotWriteStep, BookCommitStep, CancelWriteStep, CompleteWriteStep,
     DisputeEntriesStep, SuspendCommitStep
<1>2. ASSUME NEW c \in Callers, NEW s \in DOMAIN slots, Calendar!BookLock(c, s)
      PROVE  CalendarInv'
  BY <1>2, BookLockStep
<1>3. ASSUME NEW c \in Callers, NEW i \in DOMAIN sessions, Calendar!DisputeSession(c, i)
      PROVE  CalendarInv'
  BY <1>3, DisputeSessionStep
<1>4. ASSUME NEW c \in Callers,
             \/ \E h \in Hours: Calendar!AddSlotRead(c, h)
             \/ \E s \in DOMAIN slots: Calendar!RemoveSlotRead(c, s)
             \/ \E i \in DOMAIN sessions:
                   \/ Calendar!CancelRead(c, i)
                   \/ \E outcome \in {"completed", "no_show"}: Calendar!CompleteRead(c, i, outcome)
             \/ Calendar!SuspendFind(c) \/ Calendar!Dies(c)
      PROVE  CalendarInv'
  BY <1>4, CalendarReadStep
<1>5. CASE Calendar!Reinstate \/ Calendar!CaseMoves \/ Calendar!Tick
  BY <1>5, CalendarTurns
<1>6. CASE UNCHANGED Calendar!vars
  <2>1. UNCHANGED <<active, caseOpen, slots, sessions, rewards, calendarCalls, calendarNow, mix, moved, died>>
    BY <1>6 DEF Calendar!vars
  <2>2. CalendarTypes' /\ RowsInOrder' /\ RowsRefer' /\ CallsRefer'
    BY <2>1 DEF CalendarInv, CalendarTypes, RowsInOrder, RowsRefer, CallsRefer, CallRefers
  <2>3. BookingsFit' /\ PlacesFit' /\ MissedIsRaced'
    BY <2>1 DEF CalendarInv, BookingsFit, PlacesFit, MissedIsRaced, Calendar!Booking, Calendar!Locked,
                Calendar!At, Calendar!Live
  <2>4. Calendar!CountIsKeptUnlessMoved' /\ Calendar!SuspendedHasNoSessionUnlessRaced'
    BY <2>1 DEF CalendarInv, Calendar!CountIsKeptUnlessMoved, Calendar!HeldOf, Calendar!Live,
                Calendar!SuspendedHasNoSessionUnlessRaced
  <2>5. Calendar!RewardMatchesSessionUnlessMoved' /\ Calendar!DisputedIsWithheldUnlessMoved'
    BY <2>1 DEF CalendarInv, Calendar!RewardMatchesSessionUnlessMoved, Calendar!RewardMatchesSession,
                Calendar!DisputedIsWithheldUnlessMoved, Calendar!DisputedIsWithheld, Calendar!Disputing,
                Calendar!At
  <2> QED
    BY <2>2, <2>3, <2>4, <2>5 DEF CalendarInv
<1> QED
  BY <1>1, <1>2, <1>3, <1>4, <1>5, <1>6

THEOREM CalendarInvHolds ==
    ASSUME Calendar!SessionsAssumption
    PROVE  Calendar!Spec => []CalendarInv
<1>1. Calendar!Init => CalendarInv
  BY CalendarInitInv
<1>2. CalendarInv /\ [Calendar!Next]_Calendar!vars => CalendarInv'
  BY CalendarStep
<1> QED
  BY <1>1, <1>2, PTL DEF Calendar!Spec

(* Slots, sessions, ledger and calls keep their shape, and the sessions    *)
(* stay within their number (schema.prisma, the input schemas).            *)
THEOREM CalendarTypeCorrect ==
    ASSUME Calendar!SessionsAssumption
    PROVE  Calendar!Spec => []Calendar!TypeOK
<1>1. CalendarInv => Calendar!TypeOK
  <2> SUFFICES ASSUME CalendarInv
               PROVE  Calendar!TypeOK
    OBVIOUS
  <2>1. DOMAIN sessions \subseteq 1..MaxSessions
    BY CalendarIndex
  <2> QED
    BY <2>1 DEF CalendarInv, CalendarTypes, Calendar!TypeOK
<1> QED
  BY <1>1, CalendarInvHolds, PTL

(* The counter of a slot is the number of its sessions that are live or    *)
(* were held, however bookings, cancellations and a suspension come        *)
(* between each other, as long as no handler wrote over a session that had *)
(* changed (book, cancel, GuidesService.suspend).                          *)
THEOREM CountCorrect ==
    ASSUME Calendar!SessionsAssumption
    PROVE  Calendar!Spec => []Calendar!CountIsKeptUnlessMoved
<1>1. CalendarInv => Calendar!CountIsKeptUnlessMoved
  BY DEF CalendarInv
<1> QED
  BY <1>1, CalendarInvHolds, PTL

(* ... and no slot is overbooked: the lock of the booking keeps the counter*)
(* within the capacity, and the live sessions are among those counted.     *)
THEOREM NoOverbookingCorrect ==
    ASSUME Calendar!SessionsAssumption
    PROVE  Calendar!Spec => []Calendar!NoOverbookingUnlessMoved
<1>1. CalendarInv => Calendar!NoOverbookingUnlessMoved
  <2> SUFFICES ASSUME CalendarInv, moved = {}, NEW s \in DOMAIN slots
               PROVE  Cardinality(Calendar!LiveOf(s)) <= slots[s].hours.capacity
    BY CalendarCardinality DEF Calendar!NoOverbookingUnlessMoved
  <2>1. /\ slots[s].booked = Cardinality(Calendar!HeldOf(s))
        /\ slots[s].booked <= slots[s].hours.capacity
        /\ slots[s].hours.capacity \in Nat
    BY CalendarCardinality DEF CalendarInv, CalendarTypes, PlacesFit, Calendar!CountIsKeptUnlessMoved,
       Calendar!Slot, Calendar!SessionsAssumption
  <2>2. Calendar!LiveOf(s) \subseteq Calendar!HeldOf(s)
    BY DEF Calendar!LiveOf, Calendar!Live, Calendar!HeldOf
  <2>3. /\ Cardinality(Calendar!LiveOf(s)) <= Cardinality(Calendar!HeldOf(s))
        /\ Cardinality(Calendar!LiveOf(s)) \in Nat /\ Cardinality(Calendar!HeldOf(s)) \in Nat
    BY <2>2, HeldIsFinite, FS_Subset, FS_CardinalityType
  <2> QED
    BY <2>1, <2>3
<1> QED
  BY <1>1, CalendarInvHolds, PTL

(* A session has at most one entry in the ledger, and only one that was    *)
(* held or that the student missed (complete).                             *)
THEOREM LedgerMatchesCorrect ==
    ASSUME Calendar!SessionsAssumption
    PROVE  Calendar!Spec => []Calendar!RewardMatchesSessionUnlessMoved
<1>1. CalendarInv => Calendar!RewardMatchesSessionUnlessMoved
  BY DEF CalendarInv
<1> QED
  BY <1>1, CalendarInvHolds, PTL

(* What a student disputed is withheld, before and after the session was   *)
(* held (dispute, rewardStateForSession).                                  *)
THEOREM DisputedCorrect ==
    ASSUME Calendar!SessionsAssumption
    PROVE  Calendar!Spec => []Calendar!DisputedIsWithheldUnlessMoved
<1>1. CalendarInv => Calendar!DisputedIsWithheldUnlessMoved
  BY DEF CalendarInv
<1> QED
  BY <1>1, CalendarInvHolds, PTL

(* A suspended guide has no live session but those booked while the        *)
(* suspension took effect (GuidesService.suspend).                         *)
THEOREM SuspendedCorrect ==
    ASSUME Calendar!SessionsAssumption
    PROVE  Calendar!Spec => []Calendar!SuspendedHasNoSessionUnlessRaced
<1>1. CalendarInv => Calendar!SuspendedHasNoSessionUnlessRaced
  BY DEF CalendarInv
<1> QED
  BY <1>1, CalendarInvHolds, PTL

(***************************************************************************)
(* The inductive invariant of rate limits                                  *)
(***************************************************************************)

LimitTypes ==
    /\ redis \in [Keys -> Limits!Counter \cup {None}]
    /\ limitCalls \in [Instances -> Limits!Call] /\ allowed \in [Keys -> 0..Limits!Cap]
    /\ limitNow \in Limits!Time
    /\ \A i \in Instances: limitCalls[i].step # "idle" => limitCalls[i].key \in Keys

(* A window lets through no more requests than its counter counted.        *)
CountersCount ==
    \A k \in Keys \ switched:
        allowed[k] <= Limit /\ (redis[k] # None => allowed[k] <= redis[k].count)

(* A counter without expiry is about to be given one.                      *)
UnsetIsBeingSet ==
    \A k \in Keys \ switched: redis[k] # None /\ redis[k].expires = None =>
        \E i \in Instances: limitCalls[i].step = "expire" /\ limitCalls[i].key = k

BoundedMap(entries) ==
    /\ Len(entries) \in Nat /\ Len(entries) <= LocalMaxKeys + 1
    /\ DOMAIN entries = 1..Len(entries) /\ entries = [n \in 1..Len(entries) |-> entries[n]]
MapsAreBounded == local = [i \in Instances |-> local[i]] /\ \A i \in Instances: BoundedMap(local[i])

LimitsInv == LimitTypes /\ CountersCount /\ UnsetIsBeingSet

LEMMA LimitsCardinality == \A S: Limits!Cardinality(S) = Cardinality(S)
  BY DEF Limits!Cardinality, Cardinality

(* Another key's counter and calls are not touched.                        *)
LEMMA CounterIsSome ==
    ASSUME Limits!LimitsAssumption
    PROVE  None \notin Limits!Counter /\ None \notin Nat
<1>1. 1..Limits!Cap \subseteq Nat /\ Limits!Later \subseteq Nat
  BY DEF Limits!Cap, Limits!Later, Limits!LimitsAssumption
<1>2. Limits!Counter \subseteq [count: Nat, expires: Nat \cup {None}]
  BY <1>1 DEF Limits!Counter
<1> QED
  BY <1>2 DEF Limits!LimitsAssumption

LEMMA LimitsInitInv ==
    ASSUME Limits!LimitsAssumption, Limits!Init
    PROVE  LimitsInv
<1> USE DEF Limits!Init
<1>1. /\ redis \in [Keys -> Limits!Counter \cup {None}] /\ allowed \in [Keys -> 0..Limits!Cap]
      /\ limitCalls \in [Instances -> Limits!Call]
      /\ limitNow \in Limits!Time /\ \A i \in Instances: limitCalls[i].step = "idle"
  BY DEF Limits!NoCall, Limits!Call, Limits!Cap, Limits!Time, Limits!LimitsAssumption
<1>2. LimitTypes
  BY <1>1 DEF LimitTypes
<1>3. CountersCount
  BY DEF CountersCount, Limits!LimitsAssumption
<1>4. UnsetIsBeingSet
  BY DEF UnsetIsBeingSet
<1> QED
  BY <1>2, <1>3, <1>4 DEF LimitsInv

LEMMA IncrStep ==
    ASSUME LimitsInv, Limits!LimitsAssumption, NEW i \in Instances, NEW k \in Keys, Limits!Incr(i, k)
    PROVE  LimitsInv'
<1> USE DEF LimitsInv
<1>0. PICK used, before: /\ used = IF redis[k] = None THEN 1 ELSE Limits!Up(redis[k].count)
                         /\ before = IF redis[k] = None THEN 0 ELSE allowed[k]
  OBVIOUS
<1>1. /\ limitCalls[i].step = "idle"
      /\ redis' = [redis EXCEPT ![k] = IF @ = None THEN [count |-> 1, expires |-> None]
                                       ELSE [@ EXCEPT !.count = used]]
      /\ limitCalls' = [limitCalls EXCEPT ![i] = [step |-> IF used = 1 THEN "expire" ELSE "ttl",
                                        key |-> k, used |-> used]]
      /\ allowed' = [allowed EXCEPT ![k] = IF Limits!Allows(used) /\ before < Limits!Cap
                                           THEN before + 1 ELSE before]
      /\ UNCHANGED <<limitNow, switched>>
  BY <1>0 DEF Limits!Incr, Limits!At, Limits!Hold
<1>2. /\ Limit \in Nat /\ Limits!Cap = Limit + 2 /\ Limits!Cap \in Nat
      /\ redis[k] # None => redis[k] \in Limits!Counter /\ redis[k].count \in 1..Limits!Cap
      /\ allowed[k] \in 0..Limits!Cap
  BY DEF LimitTypes, Limits!Counter, Limits!LimitsAssumption, Limits!Cap
<1>3. /\ used \in 1..Limits!Cap /\ (used = 1 <=> redis[k] = None)
      /\ redis[k] # None => (used <= Limit => used = redis[k].count + 1) /\ redis[k].count <= used
  BY <1>0, <1>2 DEF Limits!Up
<1>4. /\ redis'[k] # None /\ redis'[k] \in Limits!Counter /\ redis'[k].count = used
      /\ redis[k] = None => redis'[k].expires = None
      /\ redis[k] # None => redis'[k].expires = redis[k].expires
      /\ redis' \in [Keys -> Limits!Counter \cup {None}]
  <2>1. CASE redis[k] = None
    <3>1. redis'[k] = [count |-> 1, expires |-> None] /\ used = 1
      BY <1>1, <1>3, <2>1 DEF LimitTypes
    <3>2. [count |-> 1, expires |-> None] \in Limits!Counter
      BY <1>2 DEF Limits!Counter
    <3>3. redis'[k] # None
      BY <3>1, <3>2, CounterIsSome
    <3> QED
      BY <1>1, <2>1, <3>1, <3>2, <3>3 DEF LimitTypes
  <2>2. CASE redis[k] # None
    <3>1. redis'[k] = [redis[k] EXCEPT !.count = used]
      BY <1>1, <2>2 DEF LimitTypes
    <3>2. redis'[k] \in Limits!Counter /\ redis'[k].count = used /\ redis'[k].expires = redis[k].expires
      BY <1>2, <1>3, <2>2, <3>1 DEF Limits!Counter
    <3>3. redis'[k] # None
      BY <3>2, CounterIsSome
    <3> QED
      BY <1>1, <2>2, <3>1, <3>2, <3>3 DEF LimitTypes
  <2> QED
    BY <2>1, <2>2
<1>5. /\ \A l \in Keys \ {k}: redis'[l] = redis[l] /\ allowed'[l] = allowed[l]
      /\ allowed'[k] = IF used <= Limit /\ before < Limits!Cap THEN before + 1 ELSE before
  BY <1>1 DEF LimitTypes, Limits!Allows
<1>6. /\ limitCalls'[i].step = (IF redis[k] = None THEN "expire" ELSE "ttl") /\ limitCalls'[i].key = k
      /\ \A j \in Instances: j # i => limitCalls'[j] = limitCalls[j]
      /\ limitCalls' \in [Instances -> Limits!Call]
  BY <1>1, <1>3 DEF LimitTypes, Limits!Call
<1>7. (allowed'[k] <= Limit /\ allowed'[k] <= used /\ allowed'[k] \in Nat) \/ k \in switched
  BY <1>0, <1>2, <1>3, <1>5 DEF CountersCount
<1>8. CountersCount'
  BY <1>1, <1>4, <1>5, <1>7 DEF CountersCount
<1>9. UnsetIsBeingSet'
  BY <1>1, <1>4, <1>5, <1>6 DEF UnsetIsBeingSet
<1>10. LimitTypes'
  <2>1. allowed'[k] \in 0..Limits!Cap
    BY <1>0, <1>2, <1>5
  <2> QED
    BY <1>1, <1>4, <1>5, <1>6, <2>1 DEF LimitTypes
<1> QED
  BY <1>8, <1>9, <1>10
(* What else happens to a key that every instance has counted in Redis:    *)
(* its calls and its budget are untouched, and its counter as well.        *)
LEMMA OthersStay ==
    ASSUME LimitsInv, Limits!LimitsAssumption, redis' = redis,
           limitCalls' \in [Instances -> Limits!Call],
           \A j \in Instances: limitCalls'[j].step # "idle" => limitCalls'[j].key \in Keys,
           allowed' \in [Keys -> 0..Limits!Cap], switched \subseteq switched',
           \A k \in Keys \ switched': allowed'[k] = allowed[k],
           \A j \in Instances: limitCalls[j].step = "expire" /\ limitCalls[j].key \notin switched' => limitCalls'[j] = limitCalls[j],
           limitNow' = limitNow
    PROVE  LimitsInv'
<1>1. LimitTypes'
  BY DEF LimitTypes, LimitsInv
<1>2. CountersCount'
  BY DEF CountersCount, LimitsInv
<1>3. UnsetIsBeingSet'
  BY DEF UnsetIsBeingSet, LimitsInv
<1> QED
  BY <1>1, <1>2, <1>3 DEF LimitsInv

LEMMA LocallyCounts ==
    ASSUME LimitsInv, Limits!LimitsAssumption, NEW i \in Instances, NEW k \in Keys, Limits!Locally(i, k)
    PROVE  /\ allowed' \in [Keys -> 0..Limits!Cap] /\ switched' = switched \cup {k}
           /\ \A l \in Keys \ {k}: allowed'[l] = allowed[l]
<1>0. PICK more: more = Limits!Allows(Limits!UsedOf(Limits!Counted(Limits!Swept(local[i]), k), k))
  OBVIOUS
<1>1. /\ allowed' = [allowed EXCEPT ![k] = IF more /\ @ < Limits!Cap THEN @ + 1 ELSE @]
      /\ switched' = switched \cup {k}
  BY <1>0 DEF Limits!Locally
<1>2. allowed \in [Keys -> 0..Limits!Cap] /\ Limits!Cap \in Nat
  BY DEF LimitsInv, LimitTypes, Limits!Cap, Limits!LimitsAssumption
<1> QED
  BY <1>1, <1>2

LEMMA ExpireStep ==
    ASSUME LimitsInv, Limits!LimitsAssumption, NEW i \in Instances, Limits!Expire(i)
    PROVE  LimitsInv'
<1> USE DEF LimitsInv
<1>0. PICK k: k = limitCalls[i].key
  OBVIOUS
<1>1. /\ limitCalls[i].step = "expire" /\ limitCalls' = [limitCalls EXCEPT ![i] = [limitCalls[i] EXCEPT !.step = "ttl"]]
      /\ redis' = [redis EXCEPT ![k] = IF @ = None THEN None ELSE [@ EXCEPT !.expires = limitNow + Window]]
      /\ UNCHANGED <<limitNow, allowed, switched>>
  BY <1>0 DEF Limits!Expire, Limits!At, Limits!Hold
<1>2. k \in Keys
  BY <1>0, <1>1 DEF LimitTypes
<1>3. limitNow + Window \in Limits!Later /\ limitNow + Window # None
  BY CounterIsSome DEF LimitTypes, Limits!Time, Limits!Later, Limits!LimitsAssumption
<1>4. /\ redis' \in [Keys -> Limits!Counter \cup {None}]
      /\ \A l \in Keys \ {k}: redis'[l] = redis[l]
      /\ redis[k] = None <=> redis'[k] = None
      /\ redis'[k] # None => redis'[k].expires # None /\ redis'[k].count = redis[k].count
  <2>1. CASE redis[k] = None
    BY <1>1, <1>2, <2>1 DEF LimitTypes
  <2>2. CASE redis[k] # None
    <3>1. redis'[k] = [redis[k] EXCEPT !.expires = limitNow + Window] /\ redis[k] \in Limits!Counter
      BY <1>1, <1>2, <2>2 DEF LimitTypes
    <3>2. /\ redis'[k] \in Limits!Counter /\ redis'[k].count = redis[k].count
          /\ redis'[k].expires = limitNow + Window
      BY <1>3, <3>1 DEF Limits!Counter
    <3>3. redis'[k] # None
      BY <3>2, CounterIsSome
    <3> QED
      BY <1>1, <1>2, <1>3, <2>2, <3>2, <3>3 DEF LimitTypes
  <2> QED
    BY <2>1, <2>2
<1>5. /\ limitCalls' \in [Instances -> Limits!Call] /\ limitCalls'[i].key = k
      /\ \A j \in Instances: j # i => limitCalls'[j] = limitCalls[j]
  BY <1>0, <1>1 DEF LimitTypes, Limits!Call
<1>6. LimitTypes'
  BY <1>1, <1>2, <1>4, <1>5 DEF LimitTypes
<1>7. CountersCount'
  BY <1>1, <1>4 DEF CountersCount
<1>8. UnsetIsBeingSet'
  BY <1>0, <1>1, <1>2, <1>4, <1>5 DEF UnsetIsBeingSet
<1> QED
  BY <1>6, <1>7, <1>8

LEMMA CallIsOver ==
    ASSUME LimitsInv, Limits!LimitsAssumption, NEW i \in Instances, limitCalls' = [limitCalls EXCEPT ![i] = Limits!NoCall]
    PROVE  /\ limitCalls' \in [Instances -> Limits!Call] /\ limitCalls'[i].step = "idle"
           /\ \A j \in Instances: j # i => limitCalls'[j] = limitCalls[j]
           /\ \A j \in Instances: limitCalls'[j].step # "idle" => limitCalls'[j].key \in Keys
<1>1. Limits!NoCall \in Limits!Call /\ Limits!NoCall.step = "idle"
  <2>1. 0 \in 0..Limits!Cap
    BY DEF Limits!Cap, Limits!LimitsAssumption
  <2> QED
    BY <2>1 DEF Limits!NoCall, Limits!Call
<1> QED
  BY <1>1 DEF LimitsInv, LimitTypes

LEMMA FallbackStep ==
    ASSUME LimitsInv, Limits!LimitsAssumption, NEW i \in Instances,
           Limits!Fails(i) \/ \E k \in Keys: Limits!ConsumeLocally(i, k)
    PROVE  LimitsInv'
<1>1. CASE Limits!Fails(i)
  <2>0. PICK k: k = limitCalls[i].key
    OBVIOUS
  <2>1. /\ limitCalls[i].step # "idle" /\ Limits!Locally(i, k) /\ limitCalls' = [limitCalls EXCEPT ![i] = Limits!NoCall]
        /\ UNCHANGED <<redis, limitNow>>
    BY <1>1, <2>0 DEF Limits!Fails, Limits!At, Limits!End, Limits!Hold
  <2>2. k \in Keys
    BY <2>0, <2>1 DEF LimitsInv, LimitTypes
  <2>3. /\ allowed' \in [Keys -> 0..Limits!Cap] /\ switched' = switched \cup {k}
        /\ \A l \in Keys \ {k}: allowed'[l] = allowed[l]
    BY <2>1, <2>2, LocallyCounts
  <2>4. /\ limitCalls' \in [Instances -> Limits!Call]
        /\ \A j \in Instances: j # i => limitCalls'[j] = limitCalls[j]
        /\ \A j \in Instances: limitCalls'[j].step # "idle" => limitCalls'[j].key \in Keys
    BY <2>1, CallIsOver
  <2>5. \A j \in Instances: limitCalls[j].step = "expire" /\ limitCalls[j].key \notin switched' => limitCalls'[j] = limitCalls[j]
    BY <2>0, <2>3, <2>4
  <2> QED
    BY <2>1, <2>3, <2>4, <2>5, OthersStay
<1>2. ASSUME NEW k \in Keys, Limits!ConsumeLocally(i, k)
      PROVE  LimitsInv'
  <2>1. Limits!Locally(i, k) /\ UNCHANGED <<redis, limitCalls, limitNow>>
    BY <1>2 DEF Limits!ConsumeLocally
  <2>2. /\ allowed' \in [Keys -> 0..Limits!Cap] /\ switched' = switched \cup {k}
        /\ \A l \in Keys \ {k}: allowed'[l] = allowed[l]
    BY <2>1, LocallyCounts
  <2>3. limitCalls \in [Instances -> Limits!Call] /\ \A j \in Instances: limitCalls[j].step # "idle" => limitCalls[j].key \in Keys
    BY DEF LimitsInv, LimitTypes
  <2> QED
    BY <2>1, <2>2, <2>3, OthersStay
<1> QED
  BY <1>1, <1>2

LEMMA TtlStep ==
    ASSUME LimitsInv, Limits!LimitsAssumption, NEW i \in Instances, Limits!Ttl(i)
    PROVE  LimitsInv'
<1>1. /\ limitCalls[i].step = "ttl" /\ limitCalls' = [limitCalls EXCEPT ![i] = Limits!NoCall]
      /\ UNCHANGED <<redis, limitNow, allowed, switched>>
  BY DEF Limits!Ttl, Limits!At, Limits!End, Limits!Hold
<1>2. /\ limitCalls' \in [Instances -> Limits!Call]
      /\ \A j \in Instances: j # i => limitCalls'[j] = limitCalls[j]
      /\ \A j \in Instances: limitCalls'[j].step # "idle" => limitCalls'[j].key \in Keys
  BY <1>1, CallIsOver
<1>3. \A j \in Instances: limitCalls[j].step = "expire" => limitCalls'[j] = limitCalls[j]
  BY <1>1, <1>2
<1> QED
  BY <1>1, <1>2, <1>3, OthersStay DEF LimitsInv, LimitTypes

LEMMA LimitsTickStep ==
    ASSUME LimitsInv, Limits!LimitsAssumption, Limits!Tick
    PROVE  LimitsInv'
<1> USE DEF LimitsInv
<1>1. limitNow < LimitTime /\ limitNow' = limitNow + 1 /\ UNCHANGED <<limitCalls, allowed, switched>>
  BY DEF Limits!Tick
<1>2. redis' \in [Keys -> Limits!Counter \cup {None}] /\ \A k \in Keys: redis'[k] \in {None, redis[k]}
  BY DEF Limits!Tick, LimitTypes
<1>3. limitNow' \in Limits!Time
  BY <1>1 DEF LimitTypes, Limits!Time, Limits!LimitsAssumption
<1>4. LimitTypes'
  BY <1>1, <1>2, <1>3 DEF LimitTypes
<1>5. CountersCount'
  BY <1>1, <1>2 DEF CountersCount
<1>6. UnsetIsBeingSet'
  BY <1>1, <1>2 DEF UnsetIsBeingSet
<1> QED
  BY <1>4, <1>5, <1>6

LEMMA LimitsStep ==
    ASSUME LimitsInv, Limits!LimitsAssumption, [Limits!Next]_Limits!vars
    PROVE  LimitsInv'
<1>1. ASSUME NEW i \in Instances, NEW k \in Keys, Limits!Incr(i, k)
      PROVE  LimitsInv'
  BY <1>1, IncrStep
<1>2. ASSUME NEW i \in Instances, Limits!Fails(i) \/ \E k \in Keys: Limits!ConsumeLocally(i, k)
      PROVE  LimitsInv'
  BY <1>2, FallbackStep
<1>3. ASSUME NEW i \in Instances, Limits!Expire(i) \/ Limits!Ttl(i)
      PROVE  LimitsInv'
  BY <1>3, ExpireStep, TtlStep
<1>4. ASSUME UNCHANGED <<redis, limitCalls, limitNow, allowed, switched>>
      PROVE  LimitsInv'
  BY <1>4 DEF LimitsInv, LimitTypes, CountersCount, UnsetIsBeingSet
<1>5. ASSUME NEW i \in Instances, Limits!Reconnect(i)
      PROVE  LimitsInv'
  BY <1>4, <1>5 DEF Limits!Reconnect
<1>6. CASE Limits!Tick
  BY <1>6, LimitsTickStep
<1>7. CASE UNCHANGED Limits!vars
  BY <1>4, <1>7 DEF Limits!vars
<1> QED
  BY <1>1, <1>2, <1>3, <1>5, <1>6, <1>7 DEF Limits!Next

THEOREM LimitsInvHolds ==
    ASSUME Limits!LimitsAssumption
    PROVE  Limits!Spec => []LimitsInv
<1>1. Limits!Init => LimitsInv
  BY LimitsInitInv
<1>2. LimitsInv /\ [Limits!Next]_Limits!vars => LimitsInv'
  BY LimitsStep
<1> QED
  BY <1>1, <1>2, PTL DEF Limits!Spec

(* A window lets through no more requests than the budget, in whatever     *)
(* order the instances' commands reach Redis, for a key that every         *)
(* instance counted there (RateLimitService.consume).                      *)
THEOREM WithinBudgetCorrect ==
    ASSUME Limits!LimitsAssumption
    PROVE  Limits!Spec => []Limits!WithinBudgetUnlessSwitched
<1>1. LimitsInv => Limits!WithinBudgetUnlessSwitched
  BY DEF LimitsInv, CountersCount, Limits!WithinBudgetUnlessSwitched
<1> QED
  BY <1>1, LimitsInvHolds, PTL

(* ... and a counter no instance is working on expires: EXPIRE follows the *)
(* first INCR unless that instance fails.                                  *)
THEOREM CountersExpireCorrect ==
    ASSUME Limits!LimitsAssumption
    PROVE  Limits!Spec => []Limits!CountersExpireUnlessSwitched
<1>1. LimitsInv => Limits!CountersExpireUnlessSwitched
  BY DEF LimitsInv, UnsetIsBeingSet, Limits!CountersExpireUnlessSwitched
<1> QED
  BY <1>1, LimitsInvHolds, PTL

LEMMA MapIsASequence ==
    ASSUME NEW entries, Len(entries) \in Nat, entries = [n \in 1..Len(entries) |-> entries[n]]
    PROVE  \E X: entries \in Seq(X)
<1>1. PICK X: X = {entries[n]: n \in 1..Len(entries)}
  OBVIOUS
<1>2. entries \in [1..Len(entries) -> X]
  BY <1>1
<1> QED
  BY <1>2, SeqDef

(* The sweep leaves room for one more.                                     *)
LEMMA SweptHasRoom ==
    ASSUME Limits!LimitsAssumption, NEW entries, BoundedMap(entries)
    PROVE  /\ Len(Limits!Swept(entries)) \in Nat /\ Len(Limits!Swept(entries)) <= LocalMaxKeys
           /\ \E X: Limits!Swept(entries) \in Seq(X)
<1> DEFINE some == {m \in DOMAIN entries: entries[m].expires > limitNow}
           live == Limits!Live(entries)
<1>0. /\ Len(entries) \in Nat /\ Len(entries) <= LocalMaxKeys + 1 /\ DOMAIN entries = 1..Len(entries)
      /\ entries = [n \in 1..Len(entries) |-> entries[n]] /\ LocalMaxKeys \in Nat /\ LocalMaxKeys > 0
  BY DEF BoundedMap, Limits!LimitsAssumption
<1>1. Cardinality(some) \in Nat /\ Cardinality(some) <= Len(entries)
  <2>1. IsFiniteSet(1..Len(entries)) /\ Cardinality(1..Len(entries)) = Len(entries)
    BY <1>0, FS_Interval
  <2>2. some \subseteq 1..Len(entries)
    BY <1>0
  <2> HIDE DEF some
  <2> QED
    BY <2>1, <2>2, FS_Subset, FS_CardinalityType
<1>2. \E elem: live = [n \in 1..Cardinality(some) |-> elem[n]]
  <2> DEFINE elem == [n \in 1..Limits!Cardinality(some) |->
                         entries[CHOOSE m \in some: Limits!Cardinality({l \in some: l <= m}) = n]]
  <2>1. live = elem
    BY DEF Limits!Live, Limits!Kept
  <2>2. Limits!Cardinality(some) = Cardinality(some)
    BY LimitsCardinality
  <2>3. elem = [n \in 1..Limits!Cardinality(some) |-> elem[n]]
    OBVIOUS
  <2> HIDE DEF elem
  <2> QED
    BY <2>1, <2>2, <2>3
<1> HIDE DEF some, live
<1>3. /\ Len(live) = Cardinality(some) /\ Len(live) \in Nat /\ Len(live) <= LocalMaxKeys + 1
      /\ live = [n \in 1..Len(live) |-> live[n]]
  BY <1>0, <1>1, <1>2
<1>4. CASE Len(entries) <= LocalMaxKeys
  <2>1. Limits!Swept(entries) = entries
    BY <1>4 DEF Limits!Swept
  <2> QED
    BY <1>0, <1>4, <2>1, MapIsASequence
<1>5. CASE Len(entries) > LocalMaxKeys /\ Len(live) <= LocalMaxKeys
  <2>1. Limits!Swept(entries) = live
    BY <1>0, <1>5 DEF Limits!Swept, live
  <2> QED
    BY <1>3, <1>5, <2>1, MapIsASequence
<1>6. CASE Len(entries) > LocalMaxKeys /\ Len(live) > LocalMaxKeys
  <2>1. Limits!Swept(entries) = SubSeq(live, (Len(live) \div 2) + 1, Len(live))
    BY <1>0, <1>3, <1>6 DEF Limits!Swept, live
  <2>2. PICK X: live \in Seq(X)
    BY <1>3, MapIsASequence
  <2>3. PICK half \in Nat: half = Len(live) \div 2 /\ half >= 1 /\ half < Len(live)
    BY <1>0, <1>3, <1>6
  <2>4. \A n \in (half + 1)..Len(live): live[n] \in X
    BY <1>3, <2>2, <2>3, LenProperties
  <2>5. /\ SubSeq(live, half + 1, Len(live)) \in Seq(X)
        /\ Len(SubSeq(live, half + 1, Len(live))) = Len(live) - half
    <3>1. /\ SubSeq(live, half + 1, Len(live)) \in Seq(X)
          /\ Len(SubSeq(live, half + 1, Len(live))) =
                IF half + 1 <= Len(live) THEN Len(live) - (half + 1) + 1 ELSE 0
      BY <1>3, <2>3, <2>4, SubSeqProperties
    <3> QED
      BY <1>3, <2>3, <3>1
  <2>6. Len(live) - half \in Nat /\ Len(live) - half <= LocalMaxKeys
    BY <1>0, <1>3, <2>3
  <2> QED
    BY <2>1, <2>3, <2>5, <2>6
<1> QED
  BY <1>0, <1>3, <1>4, <1>5, <1>6

LEMMA CountedIsBounded ==
    ASSUME Limits!LimitsAssumption, NEW entries, NEW k, Len(entries) \in Nat, Len(entries) <= LocalMaxKeys,
           \E X: entries \in Seq(X)
    PROVE  BoundedMap(Limits!Counted(entries, k))
<1>0. PICK X: entries \in Seq(X)
  OBVIOUS
<1>1. LocalMaxKeys \in Nat /\ DOMAIN entries = 1..Len(entries)
  BY <1>0 DEF Limits!LimitsAssumption
<1>2. \/ \E n, row: Limits!Counted(entries, k) = [entries EXCEPT ![n] = row]
      \/ \E row: Limits!Counted(entries, k) = Append(entries, row)
  BY DEF Limits!Counted
<1>3. ASSUME NEW n, NEW row, Limits!Counted(entries, k) = [entries EXCEPT ![n] = row]
      PROVE  BoundedMap(Limits!Counted(entries, k))
  <2>1. [entries EXCEPT ![n] = row] = [m \in 1..Len(entries) |-> IF m = n THEN row ELSE entries[m]]
    BY <1>0, <1>1
  <2> QED
    BY <1>1, <1>3, <2>1 DEF BoundedMap
<1>4. ASSUME NEW row, Limits!Counted(entries, k) = Append(entries, row)
      PROVE  BoundedMap(Limits!Counted(entries, k))
  <2>1. entries \in Seq(X \cup {row})
    BY <1>0, SeqDef
  <2>2. /\ Append(entries, row) \in Seq(X \cup {row})
        /\ Len(Append(entries, row)) = Len(entries) + 1
    BY <2>1, AppendProperties
  <2>3. /\ DOMAIN Append(entries, row) = 1..Len(Append(entries, row))
        /\ Append(entries, row) = [m \in 1..Len(Append(entries, row)) |-> Append(entries, row)[m]]
    <3>1. PICK longer: longer = Append(entries, row)
      OBVIOUS
    <3>2. longer \in [1..Len(longer) -> X \cup {row}]
      BY <2>2, <3>1, LenProperties
    <3> QED
      BY <3>1, <3>2
  <2> QED
    BY <1>1, <1>4, <2>2, <2>3 DEF BoundedMap
<1> QED
  BY <1>2, <1>3, <1>4

(* The map of an instance that counts on its own stays within its size,    *)
(* whatever keys it is asked about (sweep).                                *)
THEOREM LocalIsBoundedCorrect ==
    ASSUME Limits!LimitsAssumption
    PROVE  Limits!Spec => []Limits!LocalIsBounded
<1>1. Limits!Init => MapsAreBounded
  BY DEF Limits!Init, MapsAreBounded, BoundedMap, Limits!LimitsAssumption
<1>2. MapsAreBounded /\ [Limits!Next]_Limits!vars => MapsAreBounded'
  <2> SUFFICES ASSUME MapsAreBounded, [Limits!Next]_Limits!vars
               PROVE  MapsAreBounded'
    OBVIOUS
  <2>1. ASSUME NEW i \in Instances, NEW k, Limits!Locally(i, k)
        PROVE  MapsAreBounded'
    <3>1. PICK row: row = Limits!Counted(Limits!Swept(local[i]), k)
      OBVIOUS
    <3>2. local' = [local EXCEPT ![i] = row]
      BY <2>1, <3>1 DEF Limits!Locally
    <3>3. BoundedMap(row)
      BY <3>1, SweptHasRoom, CountedIsBounded DEF MapsAreBounded
    <3>4. /\ local' = [j \in Instances |-> local'[j]] /\ local'[i] = row
          /\ \A j \in Instances: j # i => local'[j] = local[j]
      BY <3>2 DEF MapsAreBounded
    <3> QED
      BY <3>3, <3>4 DEF MapsAreBounded, BoundedMap
  <2>2. ASSUME UNCHANGED local
        PROVE  MapsAreBounded'
    BY <2>2 DEF MapsAreBounded, BoundedMap
  <2>3. ASSUME NEW i \in Instances, \/ \E k \in Keys: Limits!Incr(i, k)
                                    \/ Limits!Expire(i) \/ Limits!Ttl(i) \/ Limits!Reconnect(i)
        PROVE  MapsAreBounded'
    BY <2>2, <2>3 DEF Limits!Incr, Limits!Expire, Limits!Ttl, Limits!Reconnect
  <2>4. ASSUME NEW i \in Instances, Limits!Fails(i) \/ \E k \in Keys: Limits!ConsumeLocally(i, k)
        PROVE  MapsAreBounded'
    BY <2>1, <2>4 DEF Limits!Fails, Limits!ConsumeLocally
  <2>5. CASE Limits!Tick \/ UNCHANGED Limits!vars
    BY <2>2, <2>5 DEF Limits!Tick, Limits!vars
  <2> QED
    BY <2>3, <2>4, <2>5 DEF Limits!Next
<1>3. MapsAreBounded => Limits!LocalIsBounded
  BY DEF MapsAreBounded, BoundedMap, Limits!LocalIsBounded
<1> QED
  BY <1>1, <1>2, <1>3, PTL DEF Limits!Spec

(***************************************************************************)
(* The inductive invariant of the messages of a guide                      *)
(***************************************************************************)

(* What is needed of the rows: their fields.                               *)
IsMessage(m) == {"thread", "sender", "fresh", "over", "state", "rescanned"} \subseteq DOMAIN m
IsCall(call) ==
    {"step", "message", "case", "from", "to", "target", "evidence"} \subseteq DOMAIN call /\ IsMessage(call.message)
TrustTypes ==
    /\ messageCalls = [c \in Callers |-> messageCalls[c]] /\ \A c \in Callers: IsCall(messageCalls[c])
    /\ Len(messages) \in Nat /\ DOMAIN messages = 1..Len(messages)
    /\ messages = [n \in 1..Len(messages) |-> messages[n]]
    /\ \A n \in DOMAIN messages: IsMessage(messages[n])

(* A message of a guide that was counted alone: no other was counted then  *)
(* and not yet stored.                                                     *)
StoresAlone(c) ==
    messageCalls[c].step = "store" /\ messageCalls[c].message.sender = "guide" /\ ~messageCalls[c].message.over
Plain == {n \in Trust!Recent: ~messages[n].over}
OneAlone == \A c, d \in Callers: StoresAlone(c) /\ StoresAlone(d) => c = d
PlainWithin ==
    /\ Cardinality(Plain) <= Rate + 1 /\ Cardinality(Trust!Written(Plain)) <= Recipients + 1
    /\ (\E c \in Callers: StoresAlone(c)) =>
           Cardinality(Plain) <= Rate /\ Cardinality(Trust!Written(Plain)) <= Recipients
RateInv == TrustTypes /\ OneAlone /\ PlainWithin

LEMMA TrustCardinality == \A S: Trust!Cardinality(S) = Cardinality(S)
  BY DEF Trust!Cardinality, Cardinality

LEMMA WrittenIsFinite ==
    ASSUME NEW S, IsFiniteSet(S)
    PROVE  IsFiniteSet(Trust!Written(S))
<1>1. PICK f: f = [n \in S |-> messages[n].thread]
  OBVIOUS
<1>2. f \in Surjection(S, Trust!Written(S))
  BY <1>1 DEF Surjection, Trust!Written
<1> QED
  BY <1>2, FS_Surjection DEF ExistsSurjection

LEMMA PlainIsFinite ==
    ASSUME TrustTypes
    PROVE  IsFiniteSet(Trust!Recent) /\ IsFiniteSet(Plain)
<1>1. Len(messages) \in Nat /\ DOMAIN messages = 1..Len(messages)
  BY DEF TrustTypes
<1>2. IsFiniteSet(DOMAIN messages)
  BY <1>1, FS_Interval
<1>3. Trust!Recent \subseteq DOMAIN messages /\ Plain \subseteq DOMAIN messages
  BY DEF Trust!Recent, Plain
<1> QED
  BY <1>2, <1>3, FS_Subset

(* Fewer plain messages are within what more were within.                  *)
LEMMA FewerWithin ==
    ASSUME NEW S, NEW T, IsFiniteSet(T), S \subseteq T
    PROVE  /\ Cardinality(S) \in Nat /\ Cardinality(T) \in Nat /\ Cardinality(S) <= Cardinality(T)
           /\ Cardinality(Trust!Written(S)) \in Nat /\ Cardinality(Trust!Written(T)) \in Nat
           /\ Cardinality(Trust!Written(S)) <= Cardinality(Trust!Written(T))
<1>1. IsFiniteSet(S) /\ Cardinality(S) <= Cardinality(T)
  BY FS_Subset
<1>2. Trust!Written(S) \subseteq Trust!Written(T) /\ IsFiniteSet(Trust!Written(T))
  BY WrittenIsFinite DEF Trust!Written
<1> QED
  BY <1>1, <1>2, FS_Subset, FS_CardinalityType

(* A step that stores no plain message and counts none alone.              *)
LEMMA StaysWithin ==
    ASSUME RateInv, Trust!CasesAssumption, TrustTypes', Plain' \subseteq Plain,
           \A n \in Plain': messages'[n].thread = messages[n].thread,
           \A c \in Callers: StoresAlone(c)' => StoresAlone(c)
    PROVE  RateInv'
<1>1. Trust!Written(Plain)' \subseteq Trust!Written(Plain)
  BY DEF Trust!Written
<1>2. IsFiniteSet(Plain) /\ IsFiniteSet(Trust!Written(Plain))
  BY PlainIsFinite, WrittenIsFinite DEF RateInv
<1>3. /\ Cardinality(Plain') \in Nat /\ Cardinality(Plain) \in Nat
      /\ Cardinality(Trust!Written(Plain)') \in Nat /\ Cardinality(Trust!Written(Plain)) \in Nat
      /\ Cardinality(Plain') <= Cardinality(Plain)
      /\ Cardinality(Trust!Written(Plain)') <= Cardinality(Trust!Written(Plain))
  BY <1>1, <1>2, FS_Subset, FS_CardinalityType
<1>4. Rate \in Nat /\ Recipients \in Nat
  BY DEF Trust!CasesAssumption
<1>5. PlainWithin'
  BY <1>3, <1>4 DEF RateInv, PlainWithin
<1> QED
  BY <1>5 DEF RateInv, OneAlone

(* One call moves, to a step at which nothing is stored.                   *)
LEMMA OneCallMoves ==
    ASSUME TrustTypes, NEW c \in Callers, NEW call, messageCalls' = [messageCalls EXCEPT ![c] = call]
    PROVE  /\ messageCalls' = [d \in Callers |-> messageCalls'[d]] /\ messageCalls'[c] = call
           /\ \A d \in Callers: d # c => messageCalls'[d] = messageCalls[d]
  BY DEF TrustTypes

LEMMA NoCallIsCall == IsCall(Trust!NoCall) /\ Trust!NoCall.step = "idle" /\ IsMessage(Trust!AnyMessage)
<1>1. IsMessage(Trust!AnyMessage)
  BY DEF Trust!AnyMessage, IsMessage
<1>2. Trust!NoCall.message = Trust!AnyMessage /\ Trust!NoCall.step = "idle"
  BY DEF Trust!NoCall
<1>3. {"step", "message", "case", "from", "to", "target", "evidence"} \subseteq DOMAIN Trust!NoCall
  BY DEF Trust!NoCall
<1> QED
  BY <1>1, <1>2, <1>3 DEF IsCall

LEMMA OtherCallsStep ==
    ASSUME RateInv, Trust!CasesAssumption, NEW c \in Callers, NEW call, IsCall(call),
           call.step = "store" => call.message.sender # "guide",
           messageCalls' = [messageCalls EXCEPT ![c] = call], messages' = messages
    PROVE  RateInv'
<1>1. /\ messageCalls' = [d \in Callers |-> messageCalls'[d]] /\ messageCalls'[c] = call
      /\ \A d \in Callers: d # c => messageCalls'[d] = messageCalls[d]
  BY OneCallMoves DEF RateInv
<1>2. TrustTypes'
  BY <1>1 DEF RateInv, TrustTypes
<1>3. Plain' = Plain
  BY DEF Plain, Trust!Recent
<1>4. \A d \in Callers: StoresAlone(d)' => StoresAlone(d)
  BY <1>1 DEF StoresAlone
<1> QED
  BY <1>2, <1>3, <1>4, StaysWithin

LEMMA CountStep ==
    ASSUME RateInv, Trust!CasesAssumption, NEW c \in Callers, Trust!Count(c)
    PROVE  RateInv'
<1>0. PICK call: call = [messageCalls[c] EXCEPT !.step = "store", !.message.over = Trust!Storing]
  OBVIOUS
<1>1. /\ messageCalls[c].step = "count" /\ ~Trust!ExceedsMessageRate
      /\ messageCalls' = [messageCalls EXCEPT ![c] = call] /\ messages' = messages
  BY <1>0 DEF Trust!Count, Trust!Hold
<1>2. /\ IsCall(call) /\ (call.message.over <=> Trust!Storing)
      /\ call.message.sender = messageCalls[c].message.sender
  BY <1>0 DEF RateInv, TrustTypes, IsCall, IsMessage
<1>3. /\ messageCalls' = [d \in Callers |-> messageCalls'[d]] /\ messageCalls'[c] = call
      /\ \A d \in Callers: d # c => messageCalls'[d] = messageCalls[d]
  BY <1>1, OneCallMoves DEF RateInv
<1>4. TrustTypes'
  BY <1>1, <1>2, <1>3 DEF RateInv, TrustTypes
<1>5. Plain' = Plain /\ Trust!Written(Plain)' = Trust!Written(Plain)
  BY <1>1 DEF Plain, Trust!Recent, Trust!Written
<1>6. CASE Trust!Storing
  <2>1. \A d \in Callers: StoresAlone(d)' => StoresAlone(d)
    BY <1>2, <1>3, <1>6 DEF StoresAlone
  <2> QED
    BY <1>1, <1>4, <1>5, <2>1, StaysWithin
<1>7. CASE ~Trust!Storing
  <2>1. \A d \in Callers: d # c => ~StoresAlone(d)'
    BY <1>3, <1>7 DEF StoresAlone, Trust!Storing
  <2>2. OneAlone'
    BY <2>1 DEF OneAlone
  <2>3. Cardinality(Trust!Recent) <= Rate /\ Cardinality(Trust!Written(Trust!Recent)) <= Recipients
    <3>1. /\ Cardinality(Trust!Recent) \in Nat
          /\ Cardinality(Trust!Written(Trust!Recent)) \in Nat
      BY PlainIsFinite, WrittenIsFinite, FS_CardinalityType DEF RateInv
    <3>2. Rate \in Nat /\ Recipients \in Nat
      BY DEF Trust!CasesAssumption
    <3>3. ~(Cardinality(Trust!Recent) > Rate) /\ ~(Cardinality(Trust!Written(Trust!Recent)) > Recipients)
      BY <1>1, TrustCardinality DEF Trust!ExceedsMessageRate
    <3> QED
      BY <3>1, <3>2, <3>3
  <2>4. Plain \subseteq Trust!Recent
    BY DEF Plain
  <2>5. /\ Cardinality(Plain) <= Rate /\ Cardinality(Trust!Written(Plain)) <= Recipients
        /\ Cardinality(Plain) \in Nat /\ Cardinality(Trust!Written(Plain)) \in Nat
        /\ Rate \in Nat /\ Recipients \in Nat
    <3>1. IsFiniteSet(Trust!Recent)
      BY PlainIsFinite DEF RateInv
    <3>2. Rate \in Nat /\ Recipients \in Nat
      BY DEF Trust!CasesAssumption
    <3>3. /\ Cardinality(Plain) \in Nat /\ Cardinality(Trust!Recent) \in Nat
          /\ Cardinality(Plain) <= Cardinality(Trust!Recent)
          /\ Cardinality(Trust!Written(Plain)) \in Nat /\ Cardinality(Trust!Written(Trust!Recent)) \in Nat
          /\ Cardinality(Trust!Written(Plain)) <= Cardinality(Trust!Written(Trust!Recent))
      BY <2>4, <3>1, FewerWithin
    <3> QED
      BY <2>3, <3>2, <3>3
  <2>6. PlainWithin'
    BY <1>5, <2>5 DEF PlainWithin
  <2> QED
    BY <1>4, <2>2, <2>6 DEF RateInv
<1> QED
  BY <1>6, <1>7

LEMMA OneMoreElement ==
    ASSUME NEW S, NEW x, IsFiniteSet(S)
    PROVE  /\ Cardinality(S) \in Nat /\ IsFiniteSet(S \cup {x})
           /\ Cardinality(S \cup {x}) \in Nat /\ Cardinality(S \cup {x}) <= Cardinality(S) + 1
<1>1. IsFiniteSet(S \cup {x}) /\ (x \in S => S \cup {x} = S)
      /\ (x \notin S => Cardinality(S \cup {x}) = Cardinality(S) + 1)
  BY FS_AddElement
<1>2. Cardinality(S) \in Nat /\ Cardinality(S \cup {x}) \in Nat
  BY <1>1, FS_CardinalityType
<1> QED
  BY <1>1, <1>2

LEMMA StoreStep ==
    ASSUME RateInv, Trust!CasesAssumption, NEW c \in Callers, Trust!Store(c)
    PROVE  RateInv'
<1>0. PICK m, n, row: /\ m = messageCalls[c].message /\ n = Len(messages) + 1
                      /\ row = [m EXCEPT !.state = IF Trust!ScanMessage(m.text, m.sender) = <<>>
                                                   THEN "clean" ELSE "flagged"]
  OBVIOUS
<1>1. /\ messageCalls[c].step = "store" /\ messages' = Append(messages, row)
      /\ messageCalls' = [messageCalls EXCEPT ![c] = Trust!NoCall]
  BY <1>0 DEF Trust!Store, Trust!End, Trust!Hold
<1>2. /\ IsMessage(row) /\ row.over = m.over /\ row.sender = m.sender /\ row.thread = m.thread
      /\ row.fresh = m.fresh
  BY <1>0 DEF RateInv, TrustTypes, IsCall, IsMessage
<1>3. /\ Len(messages') = n /\ n \in Nat /\ n \notin DOMAIN messages /\ DOMAIN messages' = 1..n
      /\ DOMAIN messages' = DOMAIN messages \cup {n}
      /\ messages' = [k \in 1..n |-> messages'[k]]
      /\ messages'[n] = row /\ \A k \in DOMAIN messages: messages'[k] = messages[k]
  <2>1. Len(messages) \in Nat /\ messages = [k \in 1..Len(messages) |-> messages[k]]
    BY DEF RateInv, TrustTypes
  <2>2. PICK X: messages \in Seq(X)
    BY <2>1, MapIsASequence
  <2>3. messages \in Seq(X \cup {row})
    BY <2>2, SeqDef
  <2>4. PICK longer: longer = Append(messages, row)
    OBVIOUS
  <2>5. /\ longer \in Seq(X \cup {row}) /\ Len(longer) = Len(messages) + 1
        /\ \A k \in 1..Len(messages): longer[k] = messages[k]
        /\ longer[Len(messages) + 1] = row
    BY <2>3, <2>4, AppendProperties
  <2>6. longer \in [1..Len(longer) -> X \cup {row}] /\ DOMAIN messages = 1..Len(messages)
    BY <2>1, <2>5, LenProperties
  <2> QED
    BY <1>0, <1>1, <2>1, <2>4, <2>5, <2>6
<1>4. /\ messageCalls' = [d \in Callers |-> messageCalls'[d]] /\ messageCalls'[c] = Trust!NoCall
      /\ \A d \in Callers: d # c => messageCalls'[d] = messageCalls[d]
  BY <1>1, OneCallMoves DEF RateInv
<1>5. TrustTypes'
  BY <1>2, <1>3, <1>4, NoCallIsCall DEF RateInv, TrustTypes
<1>6. \A d \in Callers: StoresAlone(d)' => StoresAlone(d) /\ d # c
  BY <1>4, NoCallIsCall DEF StoresAlone
<1>7. Plain' \subseteq Plain \cup {n} /\ (n \in Plain' => StoresAlone(c))
  BY <1>0, <1>1, <1>2, <1>3 DEF Plain, Trust!Recent, StoresAlone
<1>8. CASE n \notin Plain'
  <2>1. Plain' \subseteq Plain /\ \A k \in Plain': messages'[k].thread = messages[k].thread
    BY <1>3, <1>7, <1>8 DEF Plain, Trust!Recent
  <2> QED
    BY <1>5, <1>6, <2>1, StaysWithin
<1>9. CASE n \in Plain'
  <2>1. \A d \in Callers: ~StoresAlone(d)'
    BY <1>6, <1>7, <1>9 DEF RateInv, OneAlone
  <2>2. /\ Cardinality(Plain) <= Rate /\ Cardinality(Trust!Written(Plain)) <= Recipients
    BY <1>7, <1>9 DEF RateInv, PlainWithin
  <2>3. IsFiniteSet(Plain) /\ IsFiniteSet(Trust!Written(Plain))
    BY PlainIsFinite, WrittenIsFinite DEF RateInv
  <2>4. Trust!Written(Plain)' \subseteq Trust!Written(Plain) \cup {row.thread}
    BY <1>3, <1>7 DEF Trust!Written, Plain, Trust!Recent
  <2>5. /\ Cardinality(Plain) \in Nat /\ IsFiniteSet(Plain \cup {n})
        /\ Cardinality(Plain \cup {n}) \in Nat /\ Cardinality(Plain \cup {n}) <= Cardinality(Plain) + 1
    BY <2>3, OneMoreElement
  <2>6. /\ Cardinality(Trust!Written(Plain)) \in Nat /\ IsFiniteSet(Trust!Written(Plain) \cup {row.thread})
        /\ Cardinality(Trust!Written(Plain) \cup {row.thread}) \in Nat
        /\ Cardinality(Trust!Written(Plain) \cup {row.thread}) <= Cardinality(Trust!Written(Plain)) + 1
    BY <2>3, OneMoreElement
  <2>7. /\ Cardinality(Plain') \in Nat /\ Cardinality(Plain') <= Cardinality(Plain \cup {n})
    BY <1>7, <2>5, FS_Subset, FS_CardinalityType
  <2>8. /\ Cardinality(Trust!Written(Plain)') \in Nat
        /\ Cardinality(Trust!Written(Plain)') <= Cardinality(Trust!Written(Plain) \cup {row.thread})
    BY <2>4, <2>6, FS_Subset, FS_CardinalityType
  <2>9. Rate \in Nat /\ Recipients \in Nat
    BY DEF Trust!CasesAssumption
  <2>10. PlainWithin'
    BY <2>1, <2>2, <2>5, <2>6, <2>7, <2>8, <2>9 DEF PlainWithin
  <2> QED
    BY <1>5, <2>1, <2>10 DEF RateInv, OneAlone
<1> QED
  BY <1>8, <1>9

LEMMA HourPassesStep ==
    ASSUME RateInv, Trust!CasesAssumption, NEW n, Trust!HourPasses(n)
    PROVE  RateInv'
<1>1. /\ messages' = [k \in DOMAIN messages |->
                         IF k <= n THEN [messages[k] EXCEPT !.fresh = FALSE] ELSE messages[k]]
      /\ messageCalls' = messageCalls
  BY DEF Trust!HourPasses
<1>2. /\ Len(messages) \in Nat /\ DOMAIN messages = 1..Len(messages)
      /\ \A k \in DOMAIN messages: IsMessage(messages[k])
  BY DEF RateInv, TrustTypes
<1>3. /\ DOMAIN messages' = 1..Len(messages) /\ Len(messages') = Len(messages)
      /\ messages' = [k \in 1..Len(messages) |-> messages'[k]]
  BY <1>1, <1>2
<1>4. \A k \in DOMAIN messages:
         /\ IsMessage(messages'[k]) /\ messages'[k].over = messages[k].over
         /\ messages'[k].sender = messages[k].sender /\ messages'[k].thread = messages[k].thread
         /\ messages'[k].fresh => messages[k].fresh
  BY <1>1, <1>2 DEF IsMessage
<1>5. TrustTypes'
  BY <1>1, <1>2, <1>3, <1>4 DEF RateInv, TrustTypes
<1>6. Plain' \subseteq Plain /\ \A k \in Plain': messages'[k].thread = messages[k].thread
  BY <1>2, <1>3, <1>4 DEF Plain, Trust!Recent
<1>7. \A d \in Callers: StoresAlone(d)' => StoresAlone(d)
  BY <1>1 DEF StoresAlone
<1> QED
  BY <1>5, <1>6, <1>7, StaysWithin

LEMMA RescanStep ==
    ASSUME RateInv, Trust!CasesAssumption, Trust!Rescan
    PROVE  RateInv'
<1>1. /\ messages' = [k \in DOMAIN messages |-> Trust!Later(messages[k])]
      /\ messageCalls' = [d \in Callers |-> [messageCalls[d] EXCEPT !.message = Trust!Later(@)]]
  BY DEF Trust!Rescan
<1>2. /\ Len(messages) \in Nat /\ DOMAIN messages = 1..Len(messages)
      /\ \A k \in DOMAIN messages: IsMessage(messages[k])
      /\ \A d \in Callers: IsCall(messageCalls[d])
  BY DEF RateInv, TrustTypes
<1>3. /\ DOMAIN messages' = 1..Len(messages) /\ Len(messages') = Len(messages)
      /\ messages' = [k \in 1..Len(messages) |-> messages'[k]]
  BY <1>1, <1>2
<1>4. \A m: IsMessage(m) =>
         /\ IsMessage(Trust!Later(m)) /\ Trust!Later(m).over = m.over
         /\ Trust!Later(m).sender = m.sender /\ Trust!Later(m).thread = m.thread
         /\ Trust!Later(m).fresh = m.fresh
  BY DEF Trust!Later, IsMessage
<1>5. \A d \in Callers: /\ IsCall(messageCalls'[d]) /\ messageCalls'[d].step = messageCalls[d].step
                        /\ messageCalls'[d].message = Trust!Later(messageCalls[d].message)
  BY <1>1, <1>2, <1>4 DEF IsCall
<1>6. TrustTypes'
  BY <1>1, <1>2, <1>3, <1>4, <1>5 DEF RateInv, TrustTypes
<1>7. Plain' \subseteq Plain /\ \A k \in Plain': messages'[k].thread = messages[k].thread
  BY <1>1, <1>2, <1>3, <1>4 DEF Plain, Trust!Recent
<1>8. \A d \in Callers: StoresAlone(d)' => StoresAlone(d)
  BY <1>2, <1>4, <1>5 DEF StoresAlone, IsCall
<1> QED
  BY <1>6, <1>7, <1>8, StaysWithin

LEMMA SendStep ==
    ASSUME RateInv, Trust!CasesAssumption, NEW c \in Callers, NEW thread, NEW sender, NEW text, NEW attached,
           Trust!Send(c, thread, sender, text, attached)
    PROVE  RateInv'
<1>0. PICK m, call:
         /\ m = [Trust!AnyMessage EXCEPT !.thread = thread, !.sender = sender, !.text = text,
                                         !.attached = attached]
         /\ call = [Trust!NoCall EXCEPT !.step = IF sender = "guide" THEN "count" ELSE "store",
                                        !.message = m]
  OBVIOUS
<1>1. messageCalls' = [messageCalls EXCEPT ![c] = call] /\ messages' = messages
  BY <1>0 DEF Trust!Send, Trust!Hold
<1>2. IsMessage(m) /\ m.sender = sender
  BY <1>0 DEF IsMessage, Trust!AnyMessage
<1>3. /\ IsCall(call) /\ call.message = m
      /\ call.step = IF sender = "guide" THEN "count" ELSE "store"
  BY <1>0, <1>2, NoCallIsCall DEF IsCall
<1> QED
  BY <1>1, <1>2, <1>3, OtherCallsStep

LEMMA OpenCaseStep ==
    ASSUME RateInv, Trust!CasesAssumption, NEW c \in Callers, NEW target, NEW type, NEW severity,
           Trust!OpenCase(c, target, type, severity)
    PROVE  RateInv'
<1>0. PICK call: call = [messageCalls[c] EXCEPT !.step = "opened", !.case = Len(cases) + 1, !.target = target]
  OBVIOUS
<1>1. messageCalls' = [messageCalls EXCEPT ![c] = call] /\ messages' = messages
  BY <1>0 DEF Trust!OpenCase, Trust!Hold
<1>2. IsCall(call) /\ call.step = "opened"
  BY <1>0 DEF RateInv, TrustTypes, IsCall, IsMessage
<1> QED
  BY <1>1, <1>2, OtherCallsStep

(* The other steps: a call ends, or goes to a step at which no message is  *)
(* stored.                                                                 *)
LEMMA OtherTrustStep ==
    ASSUME RateInv, Trust!CasesAssumption, NEW c \in Callers,
           \/ Trust!OpenCaseEvent(c) \/ Trust!ReportNotice(c) \/ Trust!OpenCaseDies(c)
           \/ Trust!TransitionWrite(c)
           \/ \E k \in DOMAIN cases, to \in Trust!TrustCaseState: Trust!TransitionRead(c, k, to)
           \/ Trust!ViewEvidence(c) \/ Trust!LogLook(c) \/ Trust!LookFails(c) \/ Trust!ShowEvidence(c)
    PROVE  RateInv'
<1>1. \E call: IsCall(call) /\ call.step # "store" /\ messageCalls' = [messageCalls EXCEPT ![c] = call] /\ messages' = messages
  <2> USE NoCallIsCall DEF Trust!Hold, Trust!End
  <2>1. ASSUME Trust!ReportNotice(c) \/ Trust!OpenCaseDies(c) \/ Trust!TransitionWrite(c)
               \/ Trust!LookFails(c) \/ Trust!ShowEvidence(c)
        PROVE  <1>1!:
    BY <2>1 DEF Trust!ReportNotice, Trust!OpenCaseDies, Trust!TransitionWrite, Trust!LookFails,
                Trust!ShowEvidence, Trust!OnDesk
  <2>2. ASSUME Trust!OpenCaseEvent(c)
        PROVE  <1>1!:
    <3>1. PICK call: call = [messageCalls[c] EXCEPT !.step = "notice"]
      OBVIOUS
    <3>2. IsCall(call) /\ call.step = "notice"
      BY <3>1 DEF RateInv, TrustTypes, IsCall, IsMessage
    <3>3. messageCalls' \in {[messageCalls EXCEPT ![c] = call], [messageCalls EXCEPT ![c] = Trust!NoCall]} /\ messages' = messages
      BY <2>2, <3>1 DEF Trust!OpenCaseEvent
    <3> QED
      BY <3>2, <3>3
  <2>3. ASSUME Trust!LogLook(c)
        PROVE  <1>1!:
    <3>1. PICK call: call = [messageCalls[c] EXCEPT !.step = "logged"]
      OBVIOUS
    <3>2. IsCall(call) /\ call.step = "logged"
      BY <3>1 DEF RateInv, TrustTypes, IsCall, IsMessage
    <3> QED
      BY <2>3, <3>1, <3>2 DEF Trust!LogLook, Trust!OnDesk
  <2>4. ASSUME Trust!ViewEvidence(c)
        PROVE  <1>1!:
    <3>1. PICK call: call = [Trust!NoCall EXCEPT !.step = "view", !.evidence = desk.evidence]
      OBVIOUS
    <3>2. IsCall(call) /\ call.step = "view"
      BY <3>1 DEF IsCall, IsMessage
    <3> QED
      BY <2>4, <3>1, <3>2 DEF Trust!ViewEvidence, Trust!OnDesk
  <2>5. ASSUME NEW k, NEW to, Trust!TransitionRead(c, k, to)
        PROVE  <1>1!:
    <3>1. PICK call: call = [Trust!NoCall EXCEPT !.step = "move", !.case = k, !.from = cases[k].state,
                                                 !.to = to]
      OBVIOUS
    <3>2. IsCall(call) /\ call.step = "move"
      BY <3>1 DEF IsCall, IsMessage
    <3> QED
      BY <2>5, <3>1, <3>2 DEF Trust!TransitionRead
  <2> QED
    BY <2>1, <2>2, <2>3, <2>4, <2>5
<1> QED
  BY <1>1, OtherCallsStep

LEMMA RateStep ==
    ASSUME RateInv, Trust!CasesAssumption, [Trust!Next]_Trust!vars
    PROVE  RateInv'
<1>1. ASSUME NEW c \in Callers, NEW target, NEW type, Trust!Report(c, target, type)
      PROVE  RateInv'
  BY <1>1, OpenCaseStep DEF Trust!Report
<1>2. ASSUME NEW c \in Callers, Trust!RefuseSpam(c)
      PROVE  RateInv'
  BY <1>2, OpenCaseStep DEF Trust!RefuseSpam
<1>3. ASSUME NEW c \in Callers, NEW thread, NEW sender, NEW text, NEW attached,
             Trust!Send(c, thread, sender, text, attached)
      PROVE  RateInv'
  BY <1>3, SendStep
<1>4. ASSUME NEW c \in Callers, Trust!Count(c) \/ Trust!Store(c)
      PROVE  RateInv'
  BY <1>4, CountStep, StoreStep
<1>5. ASSUME NEW c \in Callers,
             \/ Trust!OpenCaseEvent(c) \/ Trust!ReportNotice(c) \/ Trust!OpenCaseDies(c)
             \/ Trust!TransitionWrite(c)
             \/ \E k \in DOMAIN cases, to \in Trust!TrustCaseState: Trust!TransitionRead(c, k, to)
             \/ Trust!ViewEvidence(c) \/ Trust!LogLook(c) \/ Trust!LookFails(c) \/ Trust!ShowEvidence(c)
      PROVE  RateInv'
  BY <1>5, OtherTrustStep
<1>6. ASSUME NEW n, Trust!HourPasses(n)
      PROVE  RateInv'
  BY <1>6, HourPassesStep
<1>7. CASE Trust!Rescan
  BY <1>7, RescanStep
<1>8. ASSUME UNCHANGED <<messageCalls, messages>>
      PROVE  RateInv'
  BY <1>8 DEF RateInv, TrustTypes, OneAlone, StoresAlone, PlainWithin, Plain, Trust!Recent, Trust!Written
<1>9. ASSUME \/ \E r \in Rows: Trust!Waits(r) \/ Trust!Decided(r)
             \/ Trust!Tick \/ Trust!AddEvidence \/ UNCHANGED Trust!vars
      PROVE  RateInv'
  BY <1>8, <1>9 DEF Trust!Waits, Trust!Decided, Trust!Tick, Trust!AddEvidence, Trust!vars
<1> QED
  BY <1>1, <1>2, <1>3, <1>4, <1>5, <1>6, <1>7, <1>9 DEF Trust!Next

(* A guide writes at most one message, and to one student, more in an hour *)
(* than the limits say, however many sends are counted and stored at once; *)
(* unless some were counted together (MessagingService.send).              *)
THEOREM WithinRateCorrect ==
    ASSUME Trust!CasesAssumption
    PROVE  Trust!Spec => []Trust!WithinRateUnlessOverlapped
<1>1. Trust!Init => RateInv
  <2> SUFFICES ASSUME Trust!Init
               PROVE  RateInv
    OBVIOUS
  <2>1. messages = <<>> /\ messageCalls = [c \in Callers |-> Trust!NoCall]
    BY DEF Trust!Init
  <2>2. TrustTypes
    BY <2>1, NoCallIsCall DEF TrustTypes
  <2>3. \A c \in Callers: ~StoresAlone(c)
    BY <2>1, NoCallIsCall DEF StoresAlone
  <2>4. Plain = {} /\ Trust!Written(Plain) = {}
    BY <2>1 DEF Plain, Trust!Recent, Trust!Written
  <2>5. Rate \in Nat /\ Recipients \in Nat
    BY DEF Trust!CasesAssumption
  <2> QED
    BY <2>2, <2>3, <2>4, <2>5, FS_EmptySet DEF RateInv, OneAlone, PlainWithin
<1>2. RateInv /\ [Trust!Next]_Trust!vars => RateInv'
  BY RateStep
<1>3. RateInv => Trust!WithinRateUnlessOverlapped
  <2> SUFFICES ASSUME RateInv, \A n \in Trust!Recent: ~messages[n].over
               PROVE  /\ Cardinality(Trust!Recent) <= Rate + 1
                      /\ Cardinality(Trust!Written(Trust!Recent)) <= Recipients + 1
    BY TrustCardinality DEF Trust!WithinRateUnlessOverlapped
  <2>1. Plain = Trust!Recent
    BY DEF Plain
  <2> QED
    BY <2>1 DEF RateInv, PlainWithin
<1> QED
  BY <1>1, <1>2, <1>3, PTL DEF Trust!Spec

(***************************************************************************)
(* The inductive invariant of status polling                               *)
(***************************************************************************)

IsSweep(sweep) ==
    /\ {"started", "rows"} \subseteq DOMAIN sweep
    /\ sweep.started \in Nat /\ DOMAIN sweep.rows \subseteq Connectors
PollTypes ==
    /\ lastPolled = [k \in Connectors |-> lastPolled[k]]
    /\ enabled \subseteq Connectors
    /\ sweeps = [s \in Sweepers |-> sweeps[s]]
    /\ polls \in [Connectors -> Seq([stamp: Nat, at: Nat])]
    /\ pollNow \in Nat
    /\ \A s \in Sweepers: IsSweep(sweeps[s])

(* What a connector says of its last poll is the stamp of the last claim.  *)
LastIsTheLatest ==
    \A k \in Connectors:
        lastPolled[k] = IF polls[k] = <<>> THEN Never ELSE polls[k][Len(polls[k])].stamp

PollsInv == PollTypes /\ LastIsTheLatest /\ Polls!ClaimsAreApart

(***************************************************************************)
(* Status polling                                                          *)
(***************************************************************************)

(* A claim is as far from the last one as the interval asks.               *)
LEMMA ClaimStep ==
    ASSUME Polls!IntervalAssumption, Polls!NeverAssumption, PollsInv,
           NEW s \in Sweepers, NEW k \in Connectors, Polls!Claim(s, k)
    PROVE  PollsInv'
<1> DEFINE claim == [stamp |-> sweeps[s].started, at |-> pollNow]
           old == polls[k]
<1>1. /\ old \in Seq([stamp: Nat, at: Nat]) /\ claim \in [stamp: Nat, at: Nat]
      /\ Len(old) \in Nat /\ Interval[k] \in Nat
  BY LenProperties DEF PollsInv, PollTypes, IsSweep, Polls!IntervalAssumption
<1>2. polls' = [polls EXCEPT ![k] = Append(old, claim)] /\ UNCHANGED <<enabled, pollNow>>
  BY DEF Polls!Claim
<1>3. /\ Append(old, claim) \in Seq([stamp: Nat, at: Nat])
      /\ Len(Append(old, claim)) = Len(old) + 1
      /\ \A i \in 1..Len(old): Append(old, claim)[i] = old[i]
      /\ Append(old, claim)[Len(old) + 1] = claim
  BY <1>1, AppendProperties
<1>4. polls'[k] = Append(old, claim) /\ \A j \in Connectors \ {k}: polls'[j] = polls[j]
  BY <1>2 DEF PollsInv, PollTypes
<1>5. /\ lastPolled' = [lastPolled EXCEPT ![k] = sweeps[s].started]
      /\ sweeps' = [t \in Sweepers |-> sweeps'[t]]
      /\ \A t \in Sweepers: IsSweep(sweeps'[t])
  BY DEF Polls!Claim, Polls!Without, PollsInv, PollTypes, IsSweep
<1>6. PollTypes'
  BY <1>2, <1>3, <1>5 DEF PollsInv, PollTypes, IsSweep
<1>7. LastIsTheLatest'
  BY <1>1, <1>3, <1>4, <1>5 DEF PollsInv, PollTypes, LastIsTheLatest
<1>8. old # <<>> => sweeps[s].started - old[Len(old)].stamp >= Interval[k]
  <2> SUFFICES ASSUME old # <<>> PROVE sweeps[s].started - old[Len(old)].stamp >= Interval[k]
    OBVIOUS
  <2>1. Len(old) \in 1..Len(old)
    BY <1>1, EmptySeq
  <2>2. old[Len(old)] \in [stamp: Nat, at: Nat]
    BY <2>1, <1>1, ElementOfSeq
  <2>3. lastPolled[k] = old[Len(old)].stamp /\ lastPolled[k] \in Nat
    BY <2>2 DEF PollsInv, LastIsTheLatest
  <2> QED
    BY <2>3 DEF Polls!Claim, Polls!Due, Polls!Unclaimed, Polls!NeverAssumption
<1>9. Polls!ClaimsAreApart'
  <2> SUFFICES ASSUME NEW j \in Connectors, NEW i \in 1..Len(polls'[j]) - 1
               PROVE  polls'[j][i + 1].stamp - polls'[j][i].stamp >= Interval[j]
    BY DEF Polls!ClaimsAreApart
  <2>1. CASE j # k
    BY <2>1, <1>4 DEF PollsInv, Polls!ClaimsAreApart
  <2>2. CASE j = k /\ i < Len(old)
    <3>1. i \in 1..Len(old) - 1 /\ i \in 1..Len(old) /\ i + 1 \in 1..Len(old)
      BY <2>2, <1>1
    <3>2. polls'[j][i] = old[i] /\ polls'[j][i + 1] = old[i + 1]
      BY <2>2, <3>1, <1>3, <1>4
    <3> QED
      BY <2>2, <3>1, <3>2 DEF PollsInv, Polls!ClaimsAreApart
  <2>3. CASE j = k /\ i = Len(old)
    BY <2>3, <1>1, <1>3, <1>4, <1>8
  <2> QED
    BY <2>1, <2>2, <2>3, <1>1, <1>3, <1>4
<1> QED
  BY <1>6, <1>7, <1>9 DEF PollsInv

LEMMA PollsStep ==
    ASSUME Polls!IntervalAssumption, Polls!NeverAssumption, PollsInv, [Polls!Next]_(Polls!vars)
    PROVE  PollsInv'
<1>1. ASSUME NEW s \in Sweepers, NEW k \in Connectors, Polls!Claim(s, k) PROVE PollsInv'
  BY <1>1, ClaimStep
<1>2. ASSUME /\ UNCHANGED <<lastPolled, polls>> /\ enabled' \subseteq Connectors /\ pollNow' \in Nat
             /\ sweeps' = [s \in Sweepers |-> sweeps'[s]]
             /\ \A s \in Sweepers: IsSweep(sweeps'[s])
      PROVE  PollsInv'
  BY <1>2 DEF PollsInv, PollTypes, LastIsTheLatest, Polls!ClaimsAreApart
<1>3. ASSUME NEW s \in Sweepers, Polls!SweepRead(s) PROVE PollsInv'
  BY <1>2, <1>3 DEF Polls!SweepRead, PollsInv, PollTypes, IsSweep
<1>4. ASSUME NEW s \in Sweepers, Polls!Polled(s) PROVE PollsInv'
  BY <1>2, <1>4 DEF Polls!Polled, PollsInv, PollTypes, IsSweep
<1>5. ASSUME NEW s \in Sweepers, Polls!SweepEnds(s) \/ Polls!SweepDies(s) PROVE PollsInv'
  <2>1. IsSweep(Polls!NoSweep)
    BY DEF Polls!NoSweep, IsSweep
  <2>2. /\ sweeps' = [sweeps EXCEPT ![s] = Polls!NoSweep]
        /\ UNCHANGED <<lastPolled, enabled, polls, pollNow>>
    BY <1>5 DEF Polls!SweepEnds, Polls!SweepDies
  <2>3. sweeps' = [t \in Sweepers |-> sweeps'[t]] /\ \A t \in Sweepers: IsSweep(sweeps'[t])
    BY <2>1, <2>2 DEF PollsInv, PollTypes
  <2> QED
    BY <1>2, <2>2, <2>3 DEF PollsInv, PollTypes
<1>6. ASSUME NEW s \in Sweepers, NEW k \in Connectors, Polls!Skip(s, k) PROVE PollsInv'
  BY <1>2, <1>6 DEF Polls!Skip, Polls!Without, PollsInv, PollTypes, IsSweep
<1>7. ASSUME NEW k \in Connectors, Polls!SetConnectorEnabled(k) PROVE PollsInv'
  BY <1>2, <1>7 DEF Polls!SetConnectorEnabled, PollsInv, PollTypes
<1>8. CASE Polls!Tick
  BY <1>2, <1>8 DEF Polls!Tick, PollsInv, PollTypes
<1>9. CASE UNCHANGED Polls!vars
  BY <1>2, <1>9 DEF Polls!vars, PollsInv, PollTypes
<1> QED
  BY <1>1, <1>3, <1>4, <1>5, <1>6, <1>7, <1>8, <1>9 DEF Polls!Next

(* Two sweeps that overlap do not both take a connector for due: by the    *)
(* stamps of its claims a university is polled no more often than its      *)
(* interval allows, however many sweeps there are (StatusPollService).     *)
THEOREM ClaimsApartCorrect ==
    ASSUME Polls!IntervalAssumption, Polls!NeverAssumption
    PROVE  Polls!Spec => []Polls!ClaimsAreApart
<1>1. Polls!Init => PollsInv
  BY DEF Polls!Init, Polls!NoSweep, PollsInv, PollTypes, IsSweep, LastIsTheLatest, Polls!ClaimsAreApart
<1>2. PollsInv /\ [Polls!Next]_(Polls!vars) => PollsInv'
  BY PollsStep
<1>3. PollsInv => Polls!ClaimsAreApart
  BY DEF PollsInv
<1> QED
  BY <1>1, <1>2, <1>3, PTL DEF Polls!Spec

(***************************************************************************)
(* The inductive invariant of imports                                      *)
(***************************************************************************)

IsProgramme(p) == DOMAIN p = {"ref", "prefixed", "status", "source", "columns"}
IsImport(import) ==
    /\ DOMAIN import = {"state", "rows"}
    /\ \E m \in Nat: DOMAIN import.rows = 1..m
IsCommit(call) ==
    /\ DOMAIN call = {"step", "import", "row"}
    /\ call.step # "rows" => call.import = 0
    /\ call.step = "rows" => call.import \in DOMAIN imports /\ call.row \in Nat \ {0}
SheetTypes ==
    /\ Len(programmes) \in Nat /\ programmes = [p \in 1..Len(programmes) |-> programmes[p]]
    /\ \A p \in DOMAIN programmes: IsProgramme(programmes[p])
    /\ Len(imports) \in Nat /\ imports = [n \in 1..Len(imports) |-> imports[n]]
    /\ \A n \in DOMAIN imports: IsImport(imports[n])
    /\ sheetCalls = [c \in Callers |-> sheetCalls[c]] /\ \A c \in Callers: IsCommit(sheetCalls[c])

Creates(n, i) == imports[n].rows[i].kind = "create"

(* Every row that was shown as new has at most one programme, and no other *)
(* has any; one commit at a time works on an import that was not begun     *)
(* again: it has made those of the rows it passed, and no others; and a    *)
(* commit that ended has made them all.                                    *)
OneCommitter ==
    \A c, d \in Callers:
        sheetCalls[c].import = sheetCalls[d].import /\ sheetCalls[c].import \in DOMAIN imports \ again => c = d
MadeOnce ==
    \A n \in DOMAIN imports \ again: \A i \in DOMAIN imports[n].rows:
        /\ ~Creates(n, i) => Sheets!Made(n, i) = {}
        /\ \A p, q \in Sheets!Made(n, i): p = q
MadeSoFar ==
    \A c \in Callers: sheetCalls[c].import \in DOMAIN imports \ again =>
        \A i \in DOMAIN imports[sheetCalls[c].import].rows:
            Creates(sheetCalls[c].import, i) =>
                (Sheets!Made(sheetCalls[c].import, i) # {} <=> i < sheetCalls[c].row)
MadeAll ==
    \A n \in DOMAIN imports \ again: \A i \in DOMAIN imports[n].rows:
        imports[n].state = "committed" /\ Creates(n, i) => Sheets!Made(n, i) # {}

NotYetMade == \A n \in Nat: \A i: n > Len(imports) => Sheets!Made(n, i) = {}

SheetsInv ==
    /\ SheetTypes /\ NotYetMade /\ OneCommitter /\ MadeOnce /\ MadeSoFar /\ MadeAll
    /\ Sheets!KeysAreApart

(***************************************************************************)
(* Imports                                                                 *)
(***************************************************************************)

(* While the programmes keep their sources, so does what was made.         *)
LEMMA MadeStays ==
    ASSUME DOMAIN programmes' = DOMAIN programmes,
           \A p \in DOMAIN programmes: programmes'[p].source = programmes[p].source
    PROVE  \A n, i: Sheets!Made(n, i)' = Sheets!Made(n, i)
BY DEF Sheets!Made

LEMMA SheetsInit ==
    ASSUME Sheets!ImportsAssumption, Sheets!Init
    PROVE  SheetsInv
<1>1. PICK m \in Nat: Known = [p \in 1..m |-> Known[p]]
  BY DEF Sheets!ImportsAssumption
<1>2. Len(programmes) = m /\ programmes = [p \in 1..Len(programmes) |-> programmes[p]]
  BY <1>1 DEF Sheets!Init
<1>3. Len(imports) = 0 /\ DOMAIN imports = {} /\ imports = [n \in 1..Len(imports) |-> imports[n]]
  BY DEF Sheets!Init
<1>4. SheetTypes
  <2>1. \A p \in DOMAIN Known: Known[p] \in Sheets!Programme
    BY DEF Sheets!ImportsAssumption
  <2>2. \A p \in DOMAIN programmes: IsProgramme(programmes[p])
    BY <2>1 DEF IsProgramme, Sheets!Programme, Sheets!Init
  <2>3. /\ sheetCalls = [c \in Callers |-> sheetCalls[c]]
        /\ \A c \in Callers: IsCommit(sheetCalls[c])
    BY DEF IsCommit, Sheets!Init, Sheets!NoCall
  <2> QED
    BY <1>2, <1>3, <2>2, <2>3 DEF SheetTypes
<1>5. NotYetMade
  <2> SUFFICES ASSUME NEW n \in Nat, NEW i, n > Len(imports), NEW p \in DOMAIN programmes
               PROVE  programmes[p].source # <<n, i>>
    BY DEF NotYetMade, Sheets!Made
  <2>1. programmes[p].source = <<0, 0>>
    BY DEF Sheets!Init, Sheets!ImportsAssumption
  <2> QED
    BY <1>3, <2>1
<1> QED
  BY <1>3, <1>4, <1>5 DEF SheetsInv, OneCommitter, MadeOnce, MadeSoFar, MadeAll, Sheets!KeysAreApart

(* Rows of one file that are not refused have different keys.              *)
LEMMA DiffApart ==
    ASSUME NEW sheet, NEW m \in Nat, DOMAIN sheet = 1..m, NEW i \in 1..m, NEW j \in 1..m, i # j,
           Sheets!DiffRow(sheet, i).kind # "error", Sheets!DiffRow(sheet, j).kind # "error"
    PROVE  Sheets!DiffRow(sheet, i).ref # Sheets!DiffRow(sheet, j).ref
<1>1. ~Sheets!SeenBefore(sheet, i) /\ ~Sheets!SeenBefore(sheet, j)
  BY DEF Sheets!DiffRow
<1>2. sheet[i].ref # sheet[j].ref
  BY <1>1 DEF Sheets!SeenBefore
<1> QED
  BY <1>2 DEF Sheets!DiffRow

(* A file is compared with what there is: none of its rows has been made.  *)
LEMMA DryRunStep ==
    ASSUME Sheets!ImportsAssumption, SheetsInv, NEW sheet \in Files, Sheets!DryRun(sheet)
    PROVE  SheetsInv'
<1> DEFINE import == [state |-> "dry_run", rows |-> Sheets!BuildImportDiff(sheet)]
           new == Len(imports) + 1
<1>1. PICK m \in Nat: DOMAIN sheet = 1..m
  BY DEF Sheets!ImportsAssumption
<1>2. imports' = Append(imports, import) /\ UNCHANGED <<programmes, sheetCalls, again>>
  BY DEF Sheets!DryRun
<1>3. /\ Len(imports') = new /\ new \in Nat /\ DOMAIN imports' = 1..new /\ DOMAIN imports = 1..(new - 1)
      /\ imports' = [n \in 1..new |-> imports'[n]]
      /\ \A n \in DOMAIN imports: imports'[n] = imports[n]
      /\ imports'[new] = import
  BY <1>2 DEF SheetsInv, SheetTypes
<1>4. /\ DOMAIN import.rows = 1..m /\ IsImport(import) /\ import.state = "dry_run"
      /\ \A i \in 1..m: import.rows[i] = Sheets!DiffRow(sheet, i)
  BY <1>1 DEF IsImport, Sheets!BuildImportDiff
<1> HIDE DEF import, new
<1>5. SheetTypes'
  BY <1>2, <1>3, <1>4 DEF SheetsInv, SheetTypes, IsCommit
<1>6. \A n, i: Sheets!Made(n, i)' = Sheets!Made(n, i)
  BY <1>2, MadeStays
<1>7. \A i: Sheets!Made(new, i) = {}
  <2>1. Len(imports) < new
    BY DEF SheetsInv, SheetTypes, new
  <2> QED
    BY <2>1, <1>3 DEF SheetsInv, NotYetMade
<1>8. NotYetMade'
  <2> SUFFICES ASSUME NEW n \in Nat, NEW i, n > new PROVE Sheets!Made(n, i) = {}
    BY <1>3, <1>6 DEF NotYetMade
  <2>1. n > Len(imports)
    BY DEF SheetsInv, SheetTypes, new
  <2> QED
    BY <2>1 DEF SheetsInv, NotYetMade
<1>9. \A n \in DOMAIN imports' \ again': n = new \/ n \in DOMAIN imports \ again
  BY <1>2, <1>3
<1>10. \A c \in Callers: sheetCalls[c].import # new
  <2>1. new \notin DOMAIN imports /\ new # 0
    BY DEF SheetsInv, SheetTypes, new
  <2> QED
    BY <2>1 DEF SheetsInv, SheetTypes, IsCommit
<1>15. OneCommitter'
  BY <1>2, <1>9, <1>10 DEF SheetsInv, OneCommitter
<1>11. MadeOnce'
  BY <1>3, <1>6, <1>7, <1>9 DEF SheetsInv, MadeOnce, Creates
<1>12. MadeSoFar'
  BY <1>2, <1>3, <1>6, <1>9, <1>10 DEF SheetsInv, MadeSoFar, Creates
<1>13. MadeAll'
  BY <1>3, <1>4, <1>6, <1>9 DEF SheetsInv, MadeAll, Creates
<1>14. Sheets!KeysAreApart'
  <2> SUFFICES ASSUME NEW n \in DOMAIN imports', NEW i \in DOMAIN imports'[n].rows,
                      NEW j \in DOMAIN imports'[n].rows, i # j,
                      imports'[n].rows[i].kind # "error", imports'[n].rows[j].kind # "error"
               PROVE  imports'[n].rows[i].ref # imports'[n].rows[j].ref
    BY DEF Sheets!KeysAreApart
  <2>1. CASE n = new
    BY <2>1, <1>1, <1>3, <1>4, DiffApart
  <2>2. CASE n \in DOMAIN imports
    BY <2>2, <1>3 DEF SheetsInv, Sheets!KeysAreApart
  <2> QED
    BY <2>1, <2>2, <1>3
<1> QED
  BY <1>5, <1>8, <1>11, <1>12, <1>13, <1>14, <1>15 DEF SheetsInv

(* A commit begins: if another was begun before it, or has made something, *)
(* the import is one that was begun again.                                 *)
LEMMA CommitReadStep ==
    ASSUME SheetsInv, NEW c \in Callers, NEW n \in DOMAIN imports, Sheets!CommitRead(c, n)
    PROVE  SheetsInv'
<1> DEFINE call == [step |-> "rows", import |-> n, row |-> 1]
<1>1. sheetCalls' = [sheetCalls EXCEPT ![c] = call] /\ UNCHANGED <<programmes, imports>>
  BY DEF Sheets!CommitRead
<1>2. sheetCalls[c] = Sheets!NoCall /\ again \subseteq again' /\ n \in Nat \ {0}
  BY DEF Sheets!CommitRead, SheetsInv, SheetTypes
<1>3. /\ sheetCalls'[c] = call /\ \A d \in Callers \ {c}: sheetCalls'[d] = sheetCalls[d]
      /\ sheetCalls' = [d \in Callers |-> sheetCalls'[d]]
  BY <1>1 DEF SheetsInv, SheetTypes
<1>4. call.import = n /\ call.row = 1 /\ IsCommit(call)'
  BY <1>1, <1>2 DEF IsCommit
<1> HIDE DEF call
<1>5. SheetTypes'
  BY <1>1, <1>3, <1>4 DEF SheetsInv, SheetTypes, IsCommit
<1>6. \A k, i: Sheets!Made(k, i)' = Sheets!Made(k, i)
  BY <1>1, MadeStays
<1>7. n \notin again' =>
         (\A d \in Callers: sheetCalls[d].import # n) /\ \A i: Sheets!Made(n, i) = {}
  BY DEF Sheets!CommitRead, Sheets!Made
<1>9. OneCommitter'
  BY <1>1, <1>2, <1>3, <1>4, <1>7 DEF SheetsInv, OneCommitter
<1>10. MadeOnce' /\ MadeAll'
  BY <1>1, <1>2, <1>6 DEF SheetsInv, MadeOnce, MadeAll, Creates
<1>11. MadeSoFar'
  <2> SUFFICES ASSUME NEW d \in Callers, sheetCalls'[d].import \in DOMAIN imports \ again',
                      NEW i \in DOMAIN imports[sheetCalls'[d].import].rows, Creates(sheetCalls'[d].import, i)
               PROVE  Sheets!Made(sheetCalls'[d].import, i) # {} <=> i < sheetCalls'[d].row
    BY <1>1, <1>6 DEF MadeSoFar, Creates
  <2>1. CASE d = c
    <3>1. sheetCalls'[d].row = 1 /\ Sheets!Made(n, i) = {} /\ sheetCalls'[d].import = n
      BY <2>1, <1>3, <1>4, <1>7
    <3>2. i \in Nat /\ ~ (i < 1)
      BY <3>1 DEF SheetsInv, SheetTypes, IsImport
    <3> QED
      BY <3>1, <3>2
  <2>2. CASE d # c
    BY <2>2, <1>2, <1>3 DEF SheetsInv, MadeSoFar
  <2> QED
    BY <2>1, <2>2
<1>12. NotYetMade' /\ Sheets!KeysAreApart'
  BY <1>1, <1>6 DEF SheetsInv, NotYetMade, Sheets!KeysAreApart
<1> QED
  BY <1>5, <1>9, <1>10, <1>11, <1>12 DEF SheetsInv

LEMMA AppendedSequence ==
    ASSUME NEW s, NEW e, Len(s) \in Nat, s = [p \in 1..Len(s) |-> s[p]]
    PROVE  Append(s, e) = [p \in 1..(Len(s) + 1) |-> Append(s, e)[p]]
<1>1. PICK X: s \in Seq(X)
  BY MapIsASequence
<1>2. s \in Seq(X \cup {e})
  BY <1>1, SeqDef
<1>3. PICK longer: longer = Append(s, e)
  OBVIOUS
<1>4. longer \in Seq(X \cup {e}) /\ Len(longer) = Len(s) + 1
  BY <1>2, <1>3, AppendProperties
<1>5. longer \in [1..Len(longer) -> X \cup {e}]
  BY <1>4, LenProperties
<1> QED
  BY <1>3, <1>4, <1>5

(* What the rows of an import made, when one more programme comes from row *)
(* i of import n.                                                          *)
LEMMA MadeGrows ==
    ASSUME SheetTypes, NEW n, NEW i, NEW new, new.source = <<n, i>>, programmes' = Append(programmes, new)
    PROVE  /\ Sheets!Made(n, i)' = Sheets!Made(n, i) \cup {Len(programmes) + 1}
           /\ \A k, j: <<k, j>> # <<n, i>> => Sheets!Made(k, j)' = Sheets!Made(k, j)
<1> PICK m \in Nat: m = Len(programmes)
  BY DEF SheetTypes
<1>1. DOMAIN programmes = 1..m /\ DOMAIN programmes' = 1..(m + 1)
  BY DEF SheetTypes
<1>2. programmes'[m + 1] = new /\ \A p \in 1..m: programmes'[p] = programmes[p]
  BY DEF SheetTypes
<1> QED
  BY <1>1, <1>2 DEF Sheets!Made

(* A row that is not new makes no programme.                               *)
LEMMA UpdatedStays ==
    ASSUME SheetTypes, NEW diff, programmes' \in {programmes, Sheets!Updated(diff)}
    PROVE  /\ DOMAIN programmes' = DOMAIN programmes /\ Len(programmes') = Len(programmes)
           /\ programmes' = [p \in 1..Len(programmes) |-> programmes'[p]]
           /\ \A p \in DOMAIN programmes: /\ DOMAIN programmes'[p] = DOMAIN programmes[p]
                                          /\ programmes'[p].source = programmes[p].source
<1>1. CASE programmes' = programmes
  BY <1>1 DEF SheetTypes
<1>2. CASE programmes' = Sheets!Updated(diff) /\ programmes' # programmes
  <2>1. PICK target, name: programmes' = [programmes EXCEPT ![target].columns.name = name]
    BY <1>2 DEF Sheets!Updated
  <2>2. DOMAIN programmes' = 1..Len(programmes) /\ programmes' = [p \in 1..Len(programmes) |-> programmes'[p]]
    BY <2>1 DEF SheetTypes
  <2>3. ASSUME NEW p \in DOMAIN programmes
        PROVE  DOMAIN programmes'[p] = DOMAIN programmes[p] /\ programmes'[p].source = programmes[p].source
    <3>1. IsProgramme(programmes[p])
      BY DEF SheetTypes
    <3>2. CASE p = target
      <4>1. programmes'[p] = [programmes[p] EXCEPT !.columns.name = name]
        BY <2>1, <3>2
      <4> QED
        BY <3>1, <4>1 DEF IsProgramme
    <3>3. CASE p # target
      BY <2>1, <3>3
    <3> QED
      BY <3>2, <3>3
  <2>4. Len(programmes') = Len(programmes)
    BY <2>2 DEF SheetTypes
  <2> QED
    BY <2>2, <2>3, <2>4 DEF SheetTypes
<1> QED
  BY <1>1, <1>2

LEMMA CommitRowStep ==
    ASSUME SheetsInv, NEW c \in Callers, Sheets!CommitRow(c)
    PROVE  SheetsInv'
<1>1. PICK n \in DOMAIN imports: n = sheetCalls[c].import /\ sheetCalls[c].row \in DOMAIN imports[n].rows
  BY DEF Sheets!CommitRow, SheetsInv, SheetTypes, IsCommit
<1>0. PICK i \in DOMAIN imports[n].rows: i = sheetCalls[c].row
  BY <1>1
<1>2. /\ sheetCalls' = [sheetCalls EXCEPT ![c].row = i + 1] /\ UNCHANGED <<imports, again>>
      /\ sheetCalls[c].step = "rows"
  BY <1>0, <1>1 DEF Sheets!CommitRow
<1>3. n \in Nat \ {0} /\ i \in Nat \ {0}
  BY <1>0, <1>1 DEF SheetsInv, SheetTypes, IsImport
<1>4. /\ sheetCalls' = [d \in Callers |-> sheetCalls'[d]] /\ IsCommit(sheetCalls'[c])
      /\ sheetCalls'[c].import = n /\ sheetCalls'[c].row = i + 1
      /\ \A d \in Callers \ {c}: sheetCalls'[d] = sheetCalls[d]
  <2>1. sheetCalls = [d \in Callers |-> sheetCalls[d]] /\ IsCommit(sheetCalls[c])
    BY DEF SheetsInv, SheetTypes
  <2>2. sheetCalls'[c] = [sheetCalls[c] EXCEPT !.row = i + 1]
    BY <1>2, <2>1
  <2>3. /\ sheetCalls' = [d \in Callers |-> sheetCalls'[d]]
        /\ \A d \in Callers \ {c}: sheetCalls'[d] = sheetCalls[d]
    BY <1>2, <2>1
  <2>4. sheetCalls'[c].import = n /\ sheetCalls'[c].row = i + 1 /\ IsCommit(sheetCalls'[c])
    BY <1>1, <1>3, <2>1, <2>2 DEF IsCommit
  <2> QED
    BY <2>3, <2>4
<1>5. \A d \in Callers \ {c}: sheetCalls[d].import = n => n \in again
  BY <1>0, <1>1 DEF SheetsInv, OneCommitter
<1>6. OneCommitter'
  BY <1>0, <1>1, <1>2, <1>4, <1>5 DEF SheetsInv, OneCommitter
<1>7. Sheets!KeysAreApart'
  BY <1>2 DEF SheetsInv, Sheets!KeysAreApart
<1>8. CASE imports[n].rows[i].kind # "create"
  <2>1. programmes' \in {programmes, Sheets!Updated(imports[n].rows[i])}
    BY <1>0, <1>1, <1>8 DEF Sheets!CommitRow, Sheets!Applicable
  <2>2. /\ DOMAIN programmes' = DOMAIN programmes /\ Len(programmes') = Len(programmes)
        /\ programmes' = [p \in 1..Len(programmes) |-> programmes'[p]]
        /\ \A p \in DOMAIN programmes: /\ DOMAIN programmes'[p] = DOMAIN programmes[p]
                                       /\ programmes'[p].source = programmes[p].source
    BY <2>1, UpdatedStays DEF SheetsInv
  <2>3. \A k, j: Sheets!Made(k, j)' = Sheets!Made(k, j)
    BY <2>2, MadeStays
  <2>4. SheetTypes'
    BY <1>2, <1>4, <2>2 DEF SheetsInv, SheetTypes, IsCommit, IsProgramme
  <2>5. NotYetMade' /\ MadeOnce' /\ MadeAll'
    BY <1>2, <2>3 DEF SheetsInv, NotYetMade, MadeOnce, MadeAll, Creates
  <2>6. MadeSoFar'
    <3> SUFFICES ASSUME NEW d \in Callers, sheetCalls'[d].import \in DOMAIN imports \ again,
                        NEW j \in DOMAIN imports[sheetCalls'[d].import].rows, Creates(sheetCalls'[d].import, j)
                 PROVE  Sheets!Made(sheetCalls'[d].import, j) # {} <=> j < sheetCalls'[d].row
      BY <1>2, <2>3 DEF MadeSoFar, Creates
    <3>1. CASE d = c
      <4>1. j # i /\ j \in Nat
        BY <1>0, <1>1, <1>4, <1>8, <3>1 DEF Creates, SheetsInv, SheetTypes, IsImport
      <4>2. Sheets!Made(n, j) # {} <=> j < i
        BY <1>0, <1>1, <1>4, <3>1 DEF SheetsInv, MadeSoFar
      <4> QED
        BY <1>3, <1>4, <3>1, <4>1, <4>2
    <3>2. CASE d # c
      BY <3>2, <1>4 DEF SheetsInv, MadeSoFar
    <3> QED
      BY <3>1, <3>2
  <2> QED
    BY <1>6, <1>7, <2>4, <2>5, <2>6 DEF SheetsInv
<1>9. CASE imports[n].rows[i].kind = "create"
  <2>1. PICK new: programmes' = Append(programmes, new) /\ IsProgramme(new) /\ new.source = <<n, i>>
    BY <1>0, <1>1, <1>9 DEF Sheets!CommitRow, Sheets!Applicable, Sheets!Created, IsProgramme
  <2>2. /\ Sheets!Made(n, i)' = Sheets!Made(n, i) \cup {Len(programmes) + 1}
        /\ \A k, j: <<k, j>> # <<n, i>> => Sheets!Made(k, j)' = Sheets!Made(k, j)
    BY <2>1, MadeGrows DEF SheetsInv
  <2>3. n \notin again => Sheets!Made(n, i) = {}
    <3>1. ~(i < i) /\ Creates(n, i)
      BY <1>3, <1>9 DEF Creates
    <3> QED
      BY <1>0, <1>1, <3>1 DEF SheetsInv, MadeSoFar
  <2>4. SheetTypes'
    <3>1. /\ Len(programmes') = Len(programmes) + 1 /\ Len(programmes') \in Nat
          /\ programmes' = [p \in 1..Len(programmes') |-> programmes'[p]]
          /\ \A p \in DOMAIN programmes': \/ p \in DOMAIN programmes /\ programmes'[p] = programmes[p]
                                          \/ programmes'[p] = new
      <4> PICK m \in Nat: m = Len(programmes)
        BY DEF SheetsInv, SheetTypes
      <4>1. DOMAIN programmes = 1..m /\ DOMAIN programmes' = 1..(m + 1) /\ Len(programmes') = m + 1
        BY <2>1 DEF SheetsInv, SheetTypes
      <4>2. programmes'[m + 1] = new /\ \A p \in 1..m: programmes'[p] = programmes[p]
        BY <2>1 DEF SheetsInv, SheetTypes
      <4>3. programmes' = [p \in 1..(m + 1) |-> programmes'[p]]
        BY <2>1, <4>1, AppendedSequence DEF SheetsInv, SheetTypes
      <4> QED
        BY <4>1, <4>2, <4>3
    <3> QED
      BY <1>2, <1>4, <2>1, <3>1 DEF SheetsInv, SheetTypes, IsCommit
  <2>5. NotYetMade'
    <3>1. n <= Len(imports)
      BY DEF SheetsInv, SheetTypes
    <3> QED
      BY <1>2, <1>3, <2>2, <3>1 DEF SheetsInv, NotYetMade, SheetTypes
  <2>6. MadeOnce'
    <3> SUFFICES ASSUME NEW k \in DOMAIN imports \ again, NEW j \in DOMAIN imports[k].rows
                 PROVE  /\ ~Creates(k, j) => Sheets!Made(k, j)' = {}
                        /\ \A p, q \in Sheets!Made(k, j)': p = q
      BY <1>2 DEF MadeOnce, Creates
    <3>1. CASE k = n /\ j = i
      BY <3>1, <1>9, <2>2, <2>3 DEF Creates
    <3>2. CASE <<k, j>> # <<n, i>>
      BY <3>2, <2>2 DEF SheetsInv, MadeOnce
    <3> QED
      BY <3>1, <3>2
  <2>7. MadeAll'
    <3> SUFFICES ASSUME NEW k \in DOMAIN imports \ again, NEW j \in DOMAIN imports[k].rows,
                        imports[k].state = "committed", Creates(k, j)
                 PROVE  Sheets!Made(k, j)' # {}
      BY <1>2 DEF MadeAll, Creates
    <3>1. Sheets!Made(k, j) # {}
      BY DEF SheetsInv, MadeAll
    <3> QED
      BY <3>1, <2>2
  <2>8. MadeSoFar'
    <3> SUFFICES ASSUME NEW d \in Callers, NEW k \in DOMAIN imports \ again, sheetCalls'[d].import = k,
                        NEW j \in DOMAIN imports[k].rows, Creates(k, j)
                 PROVE  Sheets!Made(k, j)' # {} <=> j < sheetCalls'[d].row
      BY <1>2 DEF MadeSoFar, Creates
    <3>1. CASE d = c /\ j = i
      <4>1. k = n /\ sheetCalls'[d].row = i + 1 /\ i < i + 1
        BY <3>1, <1>3, <1>4
      <4>2. Sheets!Made(n, i)' # {}
        BY <2>2
      <4> QED
        BY <3>1, <4>1, <4>2
    <3>2. CASE d = c /\ j # i
      <4>1. j \in Nat
        BY <3>2, <1>4 DEF SheetsInv, SheetTypes, IsImport
      <4>2. Sheets!Made(n, j) # {} <=> j < i
        BY <1>0, <1>1, <1>4, <3>2 DEF SheetsInv, MadeSoFar
      <4> QED
        BY <1>3, <1>4, <2>2, <3>2, <4>1, <4>2
    <3>3. CASE d # c
      <4>1. sheetCalls'[d] = sheetCalls[d] /\ sheetCalls[d].import # n
        BY <3>3, <1>4, <1>5
      <4> QED
        BY <4>1, <2>2 DEF SheetsInv, MadeSoFar
    <3> QED
      BY <3>1, <3>2, <3>3
  <2> QED
    BY <1>6, <1>7, <2>4, <2>5, <2>6, <2>7, <2>8 DEF SheetsInv
<1> QED
  BY <1>8, <1>9

(* An import is marked when its last row was passed.                       *)
LEMMA CommitEndStep ==
    ASSUME SheetsInv, NEW c \in Callers, Sheets!CommitEnd(c)
    PROVE  SheetsInv'
<1>1. PICK n \in DOMAIN imports: n = sheetCalls[c].import
  BY DEF Sheets!CommitEnd, SheetsInv, SheetTypes, IsCommit
<1>2. /\ sheetCalls' = [sheetCalls EXCEPT ![c] = Sheets!NoCall] /\ UNCHANGED <<programmes, again>>
      /\ imports' = [imports EXCEPT ![n].state = "committed"]
      /\ sheetCalls[c].row \notin DOMAIN imports[n].rows
  BY <1>1 DEF Sheets!CommitEnd
<1>3. /\ sheetCalls' = [d \in Callers |-> sheetCalls'[d]] /\ sheetCalls'[c] = Sheets!NoCall
      /\ \A d \in Callers \ {c}: sheetCalls'[d] = sheetCalls[d]
  BY <1>2 DEF SheetsInv, SheetTypes
<1>4. /\ DOMAIN imports' = DOMAIN imports /\ Len(imports') = Len(imports)
      /\ imports' = [k \in 1..Len(imports) |-> imports'[k]]
      /\ \A k \in DOMAIN imports: /\ imports'[k].rows = imports[k].rows /\ IsImport(imports'[k])
                                  /\ k # n => imports'[k] = imports[k]
  <2>1. imports = [k \in 1..Len(imports) |-> imports[k]] /\ Len(imports) \in Nat
    BY DEF SheetsInv, SheetTypes
  <2> PICK x: x = [imports[n] EXCEPT !.state = "committed"] /\ imports' = [imports EXCEPT ![n] = x]
    BY <1>2
  <2>2. DOMAIN imports' = 1..Len(imports) /\ imports' = [k \in 1..Len(imports) |-> imports'[k]]
    BY <2>1
  <2>7. Len(imports') = Len(imports)
    BY <2>1, <2>2
  <2>3. imports'[n] = [imports[n] EXCEPT !.state = "committed"] /\ IsImport(imports[n])
    BY <2>1 DEF SheetsInv, SheetTypes
  <2>4. imports'[n].rows = imports[n].rows /\ IsImport(imports'[n])
    BY <2>3 DEF IsImport
  <2>5. \A k \in DOMAIN imports: k # n => imports'[k] = imports[k]
    BY <2>1
  <2>6. \A k \in DOMAIN imports: IsImport(imports[k])
    BY DEF SheetsInv, SheetTypes
  <2> QED
    BY <2>1, <2>2, <2>4, <2>5, <2>6, <2>7
<1>5. \A k, i: Sheets!Made(k, i)' = Sheets!Made(k, i)
  BY <1>2, MadeStays
<1>6. SheetTypes'
  BY <1>2, <1>3, <1>4 DEF SheetsInv, SheetTypes, IsCommit, Sheets!NoCall
<1>7. 0 \notin DOMAIN imports /\ Sheets!NoCall.import = 0
  BY DEF SheetsInv, SheetTypes, Sheets!NoCall
<1>8. OneCommitter'
  BY <1>2, <1>3, <1>4, <1>7 DEF SheetsInv, OneCommitter
<1>11. MadeSoFar'
  <2> SUFFICES ASSUME NEW d \in Callers, NEW k \in DOMAIN imports \ again, sheetCalls'[d].import = k,
                      NEW i \in DOMAIN imports[k].rows, Creates(k, i)
               PROVE  Sheets!Made(k, i) # {} <=> i < sheetCalls'[d].row
    <3>1. /\ again' = again /\ DOMAIN imports' = DOMAIN imports
          /\ \A k \in DOMAIN imports: imports'[k].rows = imports[k].rows
      BY <1>2, <1>4
    <3> QED
      BY <1>5, <3>1 DEF MadeSoFar, Creates
  <2>1. d # c /\ sheetCalls'[d] = sheetCalls[d]
    BY <1>3, <1>7
  <2> QED
    BY <2>1 DEF SheetsInv, MadeSoFar
<1>9. MadeAll'
  <2> SUFFICES ASSUME NEW k \in DOMAIN imports \ again, NEW i \in DOMAIN imports[k].rows,
                      imports'[k].state = "committed", Creates(k, i)
               PROVE  Sheets!Made(k, i) # {}
    BY <1>2, <1>4, <1>5 DEF MadeAll, Creates
  <2>1. CASE k # n
    BY <2>1, <1>4 DEF SheetsInv, MadeAll
  <2>2. CASE k = n
    <3>1. sheetCalls[c].step = "rows" /\ IsCommit(sheetCalls[c]) /\ IsImport(imports[n])
      BY DEF Sheets!CommitEnd, SheetsInv, SheetTypes
    <3>2. i < sheetCalls[c].row
      BY <2>2, <1>2, <3>1 DEF IsCommit, IsImport
    <3> QED
      BY <2>2, <1>1, <3>2 DEF SheetsInv, MadeSoFar
  <2> QED
    BY <2>1, <2>2
<1>10. NotYetMade' /\ MadeOnce' /\ Sheets!KeysAreApart'
  BY <1>2, <1>4, <1>5 DEF SheetsInv, NotYetMade, MadeOnce, Creates, Sheets!KeysAreApart
<1> QED
  BY <1>6, <1>8, <1>9, <1>10, <1>11 DEF SheetsInv

LEMMA SheetsStep ==
    ASSUME Sheets!ImportsAssumption, SheetsInv, [Sheets!Next]_(Sheets!vars)
    PROVE  SheetsInv'
<1>1. ASSUME NEW sheet \in Files, Sheets!DryRun(sheet) PROVE SheetsInv'
  BY <1>1, DryRunStep
<1>2. ASSUME NEW c \in Callers, NEW n \in DOMAIN imports, Sheets!CommitRead(c, n) PROVE SheetsInv'
  BY <1>2, CommitReadStep
<1>3. ASSUME NEW c \in Callers, Sheets!CommitRow(c) PROVE SheetsInv'
  BY <1>3, CommitRowStep
<1>4. ASSUME NEW c \in Callers, Sheets!CommitEnd(c) PROVE SheetsInv'
  BY <1>4, CommitEndStep
<1>5. ASSUME NEW c \in Callers, Sheets!CommitDies(c) PROVE SheetsInv'
  <2>1. /\ sheetCalls' = [sheetCalls EXCEPT ![c] = Sheets!NoCall] /\ UNCHANGED <<programmes, imports, again>>
    BY <1>5 DEF Sheets!CommitDies
  <2>2. /\ sheetCalls' = [d \in Callers |-> sheetCalls'[d]] /\ sheetCalls'[c] = Sheets!NoCall
        /\ \A d \in Callers \ {c}: sheetCalls'[d] = sheetCalls[d]
    BY <2>1 DEF SheetsInv, SheetTypes
  <2>3. 0 \notin DOMAIN imports /\ Sheets!NoCall.import = 0
    BY DEF SheetsInv, SheetTypes, Sheets!NoCall
  <2>4. \A k, i: Sheets!Made(k, i)' = Sheets!Made(k, i)
    BY <2>1, MadeStays
  <2>5. SheetTypes'
    BY <2>1, <2>2 DEF SheetsInv, SheetTypes, IsCommit, Sheets!NoCall
  <2>6. OneCommitter' /\ MadeSoFar'
    BY <2>1, <2>2, <2>3, <2>4 DEF SheetsInv, OneCommitter, MadeSoFar, Creates
  <2>7. NotYetMade' /\ MadeOnce' /\ MadeAll' /\ Sheets!KeysAreApart'
    BY <2>1, <2>4 DEF SheetsInv, NotYetMade, MadeOnce, MadeAll, Creates, Sheets!KeysAreApart
  <2> QED
    BY <2>5, <2>6, <2>7 DEF SheetsInv
<1>6. ASSUME NEW p \in DOMAIN programmes, Sheets!Publish(p) PROVE SheetsInv'
  <2>1. programmes' = [programmes EXCEPT ![p].status = "published"] /\ UNCHANGED <<imports, sheetCalls, again>>
    BY <1>6 DEF Sheets!Publish
  <2>2. /\ DOMAIN programmes' = DOMAIN programmes /\ Len(programmes') = Len(programmes)
        /\ programmes' = [q \in 1..Len(programmes) |-> programmes'[q]]
        /\ \A q \in DOMAIN programmes: /\ DOMAIN programmes'[q] = DOMAIN programmes[q]
                                       /\ programmes'[q].source = programmes[q].source
    <3>1. programmes = [q \in 1..Len(programmes) |-> programmes[q]] /\ Len(programmes) \in Nat
      BY DEF SheetsInv, SheetTypes
    <3> PICK x: x = [programmes[p] EXCEPT !.status = "published"] /\ programmes' = [programmes EXCEPT ![p] = x]
      BY <2>1
    <3>2. DOMAIN programmes' = 1..Len(programmes) /\ programmes' = [q \in 1..Len(programmes) |-> programmes'[q]]
      BY <3>1
    <3>6. Len(programmes') = Len(programmes)
      BY <3>1, <3>2
    <3>3. programmes'[p] = [programmes[p] EXCEPT !.status = "published"] /\ IsProgramme(programmes[p])
      BY <3>1 DEF SheetsInv, SheetTypes
    <3>4. /\ DOMAIN programmes'[p] = DOMAIN programmes[p]
          /\ programmes'[p].source = programmes[p].source
      BY <3>3 DEF IsProgramme
    <3>5. \A q \in DOMAIN programmes: q # p => programmes'[q] = programmes[q]
      BY <3>1
    <3> QED
      BY <3>1, <3>2, <3>4, <3>5, <3>6
  <2>3. \A k, i: Sheets!Made(k, i)' = Sheets!Made(k, i)
    BY <2>2, MadeStays
  <2>4. SheetTypes'
    BY <2>1, <2>2 DEF SheetsInv, SheetTypes, IsCommit, IsProgramme
  <2>5. NotYetMade' /\ OneCommitter' /\ Sheets!KeysAreApart'
    BY <2>1, <2>3 DEF SheetsInv, NotYetMade, OneCommitter, Sheets!KeysAreApart
  <2>6. MadeOnce' /\ MadeAll'
    BY <2>1, <2>3 DEF SheetsInv, MadeOnce, MadeAll, Creates
  <2>7. MadeSoFar'
    BY <2>1, <2>3 DEF SheetsInv, MadeSoFar, Creates
  <2> QED
    BY <2>4, <2>5, <2>6, <2>7 DEF SheetsInv
<1>7. ASSUME UNCHANGED Sheets!vars PROVE SheetsInv'
  <2>1. UNCHANGED <<programmes, imports, sheetCalls, again>>
    BY <1>7 DEF Sheets!vars
  <2>2. \A k, i: Sheets!Made(k, i)' = Sheets!Made(k, i)
    BY <2>1, MadeStays
  <2>3. SheetTypes'
    BY <2>1 DEF SheetsInv, SheetTypes, IsCommit
  <2>4. NotYetMade' /\ OneCommitter' /\ Sheets!KeysAreApart'
    BY <2>1, <2>2 DEF SheetsInv, NotYetMade, OneCommitter, Sheets!KeysAreApart
  <2>5. MadeOnce' /\ MadeAll'
    BY <2>1, <2>2 DEF SheetsInv, MadeOnce, MadeAll, Creates
  <2>6. MadeSoFar'
    BY <2>1, <2>2 DEF SheetsInv, MadeSoFar, Creates
  <2> QED
    BY <2>3, <2>4, <2>5, <2>6 DEF SheetsInv
<1> QED
  BY <1>1, <1>2, <1>3, <1>4, <1>5, <1>6, <1>7 DEF Sheets!Next

(* "A duplicate key in one file is an error, not a last-writer-wins        *)
(* merge": no two rows that a commit applies have the same key.            *)
THEOREM KeysAreApartCorrect ==
    ASSUME Sheets!ImportsAssumption
    PROVE  Sheets!Spec => []Sheets!KeysAreApart
<1>1. Sheets!Init => SheetsInv
  BY SheetsInit
<1>2. SheetsInv /\ [Sheets!Next]_(Sheets!vars) => SheetsInv'
  BY SheetsStep
<1>3. SheetsInv => Sheets!KeysAreApart
  BY DEF SheetsInv
<1> QED
  BY <1>1, <1>2, <1>3, PTL DEF Sheets!Spec

LEMMA SheetsCardinality == \A S: Sheets!Cardinality(S) = Cardinality(S)
BY DEF Sheets!Cardinality, Cardinality

(* "A reviewer approves what they were shown, or nothing happens": a       *)
(* committed import has made the programmes of the rows that were shown as *)
(* new, one each, and none of any other row, unless its commit was begun   *)
(* again over a first one.                                                 *)
THEOREM MadeAsReviewedCorrect ==
    ASSUME Sheets!ImportsAssumption
    PROVE  Sheets!Spec => []Sheets!MadeAsReviewedUnlessAgain
<1>1. Sheets!Init => SheetsInv
  BY SheetsInit
<1>2. SheetsInv /\ [Sheets!Next]_(Sheets!vars) => SheetsInv'
  BY SheetsStep
<1>3. SheetsInv => Sheets!MadeAsReviewedUnlessAgain
  <2> SUFFICES ASSUME SheetsInv, NEW n \in DOMAIN imports \ again, NEW i \in DOMAIN imports[n].rows
               PROVE  LET made == Sheets!Cardinality(Sheets!Made(n, i)) IN
                      /\ imports[n].rows[i].kind # "create" => made = 0
                      /\ made <= 1
                      /\ imports[n].state = "committed" /\ imports[n].rows[i].kind = "create" => made = 1
    BY DEF Sheets!MadeAsReviewedUnlessAgain
  <2>1. CASE Sheets!Made(n, i) = {}
    <3>1. Sheets!Cardinality(Sheets!Made(n, i)) = 0
      BY <2>1, FS_EmptySet, SheetsCardinality
    <3> QED
      BY <2>1, <3>1 DEF SheetsInv, MadeAll, Creates
  <2>2. CASE Sheets!Made(n, i) # {}
    <3> PICK p \in Sheets!Made(n, i): TRUE
      BY <2>2
    <3>1. Sheets!Made(n, i) = {p}
      BY DEF SheetsInv, MadeOnce
    <3>2. Sheets!Cardinality(Sheets!Made(n, i)) = 1
      BY <3>1, FS_Singleton, SheetsCardinality
    <3> QED
      BY <2>2, <3>2 DEF SheetsInv, MadeOnce, Creates
  <2> QED
    BY <2>1, <2>2
<1> QED
  BY <1>1, <1>2, <1>3, PTL DEF Sheets!Spec

(***************************************************************************)
(* The inductive invariant of a programme                                  *)
(***************************************************************************)

IsVersion(row) ==
    /\ DOMAIN row = {"from", "to", "status", "stale", "source", "fees", "requirements"}
    /\ row.from \in Nat
IsHandler(call) ==
    /\ DOMAIN call = {"step", "began", "version", "row", "found", "adds"}
    /\ IsVersion(call.row) /\ call.began \in Nat

(* The versions are numbered without a gap; the last is the one that is    *)
(* open, and each other was closed when the next one opened.               *)
Timeline(n) ==
    /\ DOMAIN versions = 1..n /\ versions[n].to = None
    /\ \A v \in 1..(n - 1): versions[v].to = versions[v + 1].from
    /\ \A v \in 1..n: IsVersion(versions[v])
HasTimeline == \E n \in Nat \ {0}: Timeline(n)

ProgrammeTypes ==
    /\ programmeCalls = [c \in Callers |-> programmeCalls[c]]
    /\ \A c \in Callers: IsHandler(programmeCalls[c])
    /\ builds = [w \in Workers |-> builds[w]]
    /\ \A w \in Workers: DOMAIN builds[w] = {"busy", "document"}
    /\ reindexes \in Nat /\ programmeNow \in Nat
HandlersRefer ==
    \A c \in Callers:
        /\ programmeCalls[c].version \in DOMAIN versions
        /\ Programmes!At(c, "copy") => programmeCalls[c].version + 1 \in DOMAIN versions

(* What one version requires every later one does, or an edit in between   *)
(* has still to copy it.                                                   *)
Copying(v, w) ==
    \E c \in Callers: /\ Programmes!At(c, "copy")
                      /\ v <= programmeCalls[c].version /\ programmeCalls[c].version < w
Inherited ==
    \A v, w \in DOMAIN versions:
        v <= w => versions[v].requirements \subseteq versions[w].requirements \/ Copying(v, w)
InheritedUnlessTorn == torn \cap {"died", "copied"} = {} => Inherited

OpenIsPulled ==
    "raced" \notin torn /\ basis = "revoked" =>
        \A v \in DOMAIN versions: versions[v].to = None => versions[v].status # "published"

(* The document is the current one, or something is under way that will    *)
(* write it again.                                                         *)
Coming ==
    \/ reindexes > 0 \/ \E w \in Workers: builds[w].busy
    \/ \E c \in Callers: Programmes!At(c, "copy") \/ Programmes!At(c, "enqueue")
ComingUnlessTorn ==
    torn \cap {"died", "late", "revoked"} = {} => document = Programmes!Projection \/ Coming

ProgrammeInv ==
    /\ HasTimeline /\ ProgrammeTypes /\ HandlersRefer
    /\ InheritedUnlessTorn /\ OpenIsPulled /\ ComingUnlessTorn

(***************************************************************************)
(* A programme                                                             *)
(***************************************************************************)

LEMMA ProgrammesCardinality == \A S: Programmes!Cardinality(S) = Cardinality(S)
BY DEF Programmes!Cardinality, Cardinality

LEMMA LastIsCurrent ==
    ASSUME Programmes!CatalogueAssumption, NEW n \in Nat \ {0}, Timeline(n)
    PROVE  Programmes!Open = {n} /\ Programmes!Current = n
<1>1. Programmes!Open = {n}
  <2>1. ASSUME NEW v \in 1..(n - 1) PROVE versions[v].to # None
    <3>1. versions[v + 1].from \in Nat
      BY DEF Timeline, IsVersion
    <3> QED
      BY <3>1 DEF Timeline, Programmes!CatalogueAssumption
  <2> QED
    BY <2>1 DEF Programmes!Open, Timeline
<1> QED
  BY <1>1 DEF Programmes!Current

LEMMA ProgrammeInit ==
    ASSUME Programmes!CatalogueAssumption, Programmes!Init
    PROVE  ProgrammeInv
<1>1. DOMAIN versions = {1} /\ versions[1] = Programmes!FirstRow /\ IsVersion(Programmes!FirstRow)
  BY DEF Programmes!Init, Programmes!FirstRow, IsVersion
<1>2. Timeline(1)
  BY <1>1 DEF Timeline, Programmes!FirstRow
<1>3. ProgrammeTypes
  BY <1>1 DEF ProgrammeTypes, IsHandler, Programmes!Init, Programmes!NoCall, Programmes!NoBuild
<1>4. HandlersRefer
  BY <1>1 DEF HandlersRefer, Programmes!Init, Programmes!NoCall, Programmes!At
<1>5. Inherited /\ OpenIsPulled
  BY <1>1 DEF Inherited, OpenIsPulled, Programmes!Init
<1>6. document = Programmes!Projection
  <2>1. Programmes!Open = {1} /\ Programmes!Current = 1
    BY <1>2, LastIsCurrent
  <2> QED
    BY <1>1, <2>1 DEF Programmes!Init, Programmes!Projection, Programmes!Visible, Programmes!FirstRow
<1> QED
  BY <1>2, <1>3, <1>4, <1>5, <1>6 DEF ProgrammeInv, HasTimeline, InheritedUnlessTorn, ComingUnlessTorn

(* A step of a handler that writes no version.                             *)
LEMMA HandlerMoves ==
    ASSUME ProgrammeInv, NEW c \in Callers, NEW call, programmeCalls' = [programmeCalls EXCEPT ![c] = call],
           IsHandler(call), call.version \in DOMAIN versions, call.step # "copy",
           UNCHANGED <<versions, basis, document, builds, programmeNow>>, torn \subseteq torn',
           reindexes' \in Nat, reindexes' >= reindexes,
           \/ "died" \in torn'
           \/ ~Programmes!At(c, "copy") /\ (~Programmes!At(c, "enqueue") \/ reindexes' > 0)
    PROVE  ProgrammeInv'
<1>1. /\ programmeCalls' = [d \in Callers |-> programmeCalls'[d]] /\ programmeCalls'[c] = call
      /\ \A d \in Callers \ {c}: programmeCalls'[d] = programmeCalls[d]
  BY DEF ProgrammeInv, ProgrammeTypes
<1>2. HasTimeline'
  BY DEF ProgrammeInv, HasTimeline, Timeline
<1>3. ProgrammeTypes'
  BY <1>1 DEF ProgrammeInv, ProgrammeTypes
<1>4. HandlersRefer'
  BY <1>1 DEF ProgrammeInv, HandlersRefer, Programmes!At
<1>5. InheritedUnlessTorn'
  BY <1>1 DEF ProgrammeInv, InheritedUnlessTorn, Inherited, Copying, Programmes!At
<1>6. OpenIsPulled'
  BY DEF ProgrammeInv, OpenIsPulled
<1>7. ComingUnlessTorn'
  <2>1. Programmes!Projection' = Programmes!Projection
    BY DEF Programmes!Projection, Programmes!Open, Programmes!Current, Programmes!Visible,
           Programmes!PublicVisibility
  <2>2. "died" \in torn' \/ (Coming => Coming')
    BY <1>1 DEF ProgrammeInv, ProgrammeTypes, Coming, Programmes!At
  <2> QED
    BY <2>1, <2>2 DEF ProgrammeInv, ComingUnlessTorn
<1> QED
  BY <1>2, <1>3, <1>4, <1>5, <1>6, <1>7 DEF ProgrammeInv

(* A version is written by a handler that sees to a reindex afterwards.    *)
LEMMA VersionWritten ==
    ASSUME ProgrammeInv, NEW c \in Callers, NEW v \in DOMAIN versions, NEW row,
           versions' = [versions EXCEPT ![v] = row], IsVersion(row),
           row.from = versions[v].from, row.to = versions[v].to,
           programmeCalls' = [programmeCalls EXCEPT ![c].step = "enqueue"],
           UNCHANGED <<basis, document, reindexes, builds, programmeNow>>, torn \subseteq torn',
           \/ "raced" \in torn' \/ basis # "revoked"
           \/ row.status = "published" => versions[v].status = "published",
           InheritedUnlessTorn'
    PROVE  ProgrammeInv'
<1> PICK call: call = [programmeCalls[c] EXCEPT !.step = "enqueue"] /\ programmeCalls' = [programmeCalls EXCEPT ![c] = call]
  OBVIOUS
<1>1. /\ programmeCalls' = [d \in Callers |-> programmeCalls'[d]] /\ programmeCalls'[c] = call
      /\ \A d \in Callers \ {c}: programmeCalls'[d] = programmeCalls[d]
  BY DEF ProgrammeInv, ProgrammeTypes
<1>2. IsHandler(call) /\ call.step = "enqueue" /\ call.version = programmeCalls[c].version
  BY DEF ProgrammeInv, ProgrammeTypes, IsHandler
<1>3. /\ DOMAIN versions' = DOMAIN versions /\ versions'[v] = row
      /\ \A w \in DOMAIN versions \ {v}: versions'[w] = versions[w]
  BY DEF ProgrammeInv, HasTimeline, Timeline
<1>4. HasTimeline'
  <2> PICK n \in Nat \ {0}: Timeline(n)
    BY DEF ProgrammeInv, HasTimeline
  <2>1. Timeline(n)'
    <3>1. \A w \in 1..n: versions'[w].from = versions[w].from /\ versions'[w].to = versions[w].to
      BY <1>3 DEF Timeline
    <3>2. \A w \in 1..n: IsVersion(versions'[w])
      BY <1>3 DEF Timeline
    <3>3. \A w \in 1..(n - 1): w \in 1..n /\ w + 1 \in 1..n
      OBVIOUS
    <3> QED
      BY <1>3, <3>1, <3>2, <3>3 DEF Timeline
  <2> QED
    BY <2>1 DEF HasTimeline
<1>5. ProgrammeTypes'
  BY <1>1, <1>2 DEF ProgrammeInv, ProgrammeTypes
<1>6. HandlersRefer'
  BY <1>1, <1>2, <1>3 DEF ProgrammeInv, HandlersRefer, Programmes!At
<1>7. OpenIsPulled'
  BY <1>3 DEF ProgrammeInv, OpenIsPulled
<1>8. Coming'
  BY <1>1, <1>2 DEF Coming, Programmes!At
<1> QED
  BY <1>4, <1>5, <1>6, <1>7, <1>8 DEF ProgrammeInv, ComingUnlessTorn

(* What a handler keeps of what it read.                                   *)
LEMMA ReadingIsOne ==
    ASSUME Programmes!CatalogueAssumption, ProgrammeInv, NEW step
    PROVE  LET call == Programmes!Reading(step) IN
           /\ IsHandler(call) /\ call.version \in DOMAIN versions /\ call.step = step
           /\ DOMAIN call = {"step", "began", "version", "row", "found", "adds"}
<1> PICK n \in Nat \ {0}: Timeline(n)
  BY DEF ProgrammeInv, HasTimeline
<1>1. Programmes!Current = n /\ n \in DOMAIN versions /\ IsVersion(versions[n])
  BY LastIsCurrent DEF Timeline
<1> QED
  BY <1>1 DEF Programmes!Reading, Programmes!NoCall, IsHandler, ProgrammeInv, ProgrammeTypes

LEMMA NoCallIsOne ==
    ASSUME ProgrammeInv
    PROVE  /\ IsHandler(Programmes!NoCall) /\ Programmes!NoCall.version \in DOMAIN versions
           /\ Programmes!NoCall.step = "idle"
<1> PICK n \in Nat \ {0}: Timeline(n)
  BY DEF ProgrammeInv, HasTimeline
<1> QED
  BY DEF Programmes!NoCall, Programmes!FirstRow, IsHandler, IsVersion, Timeline

(* The handlers that only read, up to where they write.                    *)
LEMMA ReadStep ==
    ASSUME Programmes!CatalogueAssumption, ProgrammeInv, NEW c \in Callers,
           \/ Programmes!EditRead(c) \/ Programmes!EditRefused(c)
           \/ \E r \in Requirements: Programmes!AddRequirementRead(c, r)
           \/ Programmes!SetFeesRead(c) \/ \E deadline \in Deadlines: Programmes!AddIntake(c, deadline)
           \/ Programmes!PublishRead(c) \/ Programmes!UnpublishRead(c)
           \/ Programmes!SweepRead(c) \/ Programmes!SweepLook(c)
    PROVE  ProgrammeInv'
<1>1. /\ UNCHANGED <<versions, basis, document, builds, programmeNow, torn, reindexes>>
      /\ ~Programmes!At(c, "copy") /\ ~Programmes!At(c, "enqueue")
  BY DEF Programmes!EditRead, Programmes!EditRefused, Programmes!AddRequirementRead, Programmes!SetFeesRead,
         Programmes!AddIntake, Programmes!PublishRead, Programmes!UnpublishRead, Programmes!SweepRead,
         Programmes!SweepLook, Programmes!Begin, Programmes!At
<1>2. reindexes \in Nat
  BY DEF ProgrammeInv, ProgrammeTypes
<1>3. PICK call: /\ programmeCalls' = [programmeCalls EXCEPT ![c] = call]
                 /\ IsHandler(call) /\ call.version \in DOMAIN versions /\ call.step # "copy"
  <2>1. CASE \E step \in {"edit", "fees", "publish", "unpublish", "look", "enqueue"}:
                 programmeCalls' = [programmeCalls EXCEPT ![c] = Programmes!Reading(step)]
    BY <2>1, ReadingIsOne
  <2>2. CASE \E r: programmeCalls' = [programmeCalls EXCEPT ![c] = [Programmes!Reading("require") EXCEPT !.adds = {r}]]
    <3> PICK r, call: call = [Programmes!Reading("require") EXCEPT !.adds = {r}]
                      /\ programmeCalls' = [programmeCalls EXCEPT ![c] = call]
      BY <2>2
    <3>1. /\ IsHandler(Programmes!Reading("require")) /\ Programmes!Reading("require").version \in DOMAIN versions
          /\ Programmes!Reading("require").step = "require"
      BY ReadingIsOne
    <3>2. IsHandler(call) /\ call.version \in DOMAIN versions /\ call.step # "copy"
      BY <3>1 DEF IsHandler
    <3> QED
      BY <3>2
  <2>3. CASE programmeCalls' = [programmeCalls EXCEPT ![c] = Programmes!NoCall]
    BY <2>3, NoCallIsOne
  <2>4. CASE \E found: programmeCalls' = [programmeCalls EXCEPT ![c] = [programmeCalls[c] EXCEPT !.step = "mark", !.found = found]]
    <3> PICK found, call: call = [programmeCalls[c] EXCEPT !.step = "mark", !.found = found]
                          /\ programmeCalls' = [programmeCalls EXCEPT ![c] = call]
      BY <2>4
    <3>1. IsHandler(programmeCalls[c]) /\ programmeCalls[c].version \in DOMAIN versions
      BY DEF ProgrammeInv, ProgrammeTypes, HandlersRefer
    <3>2. IsHandler(call) /\ call.version \in DOMAIN versions /\ call.step # "copy"
      BY <3>1 DEF IsHandler
    <3> QED
      BY <3>2
  <2> QED
    BY <2>1, <2>2, <2>3, <2>4 DEF Programmes!EditRead, Programmes!EditRefused, Programmes!AddRequirementRead,
       Programmes!SetFeesRead, Programmes!AddIntake, Programmes!PublishRead, Programmes!UnpublishRead,
       Programmes!SweepRead, Programmes!SweepLook, Programmes!Hold, Programmes!End
<1> QED
  <2>1. torn \subseteq torn' /\ reindexes' \in Nat /\ reindexes' >= reindexes
    BY <1>1, <1>2
  <2> QED
    BY <1>1, <1>3, <2>1, HandlerMoves

(* The job that is enqueued counts, even if the queue is full.             *)
LEMMA EnqueueStep ==
    ASSUME Programmes!CatalogueAssumption, ProgrammeInv, NEW c \in Callers, Programmes!Enqueue(c)
    PROVE  ProgrammeInv'
<1>1. /\ UNCHANGED <<versions, basis, document, builds, programmeNow, torn>> /\ ~Programmes!At(c, "copy")
      /\ programmeCalls' = [programmeCalls EXCEPT ![c] = Programmes!NoCall]
      /\ reindexes' = IF reindexes < MaxJobs THEN reindexes + 1 ELSE reindexes
  BY DEF Programmes!Enqueue, Programmes!Reindex, Programmes!End, Programmes!Hold, Programmes!At
<1>2. reindexes' \in Nat /\ reindexes' >= reindexes /\ reindexes' > 0
  BY <1>1 DEF ProgrammeInv, ProgrammeTypes, Programmes!CatalogueAssumption
<1> QED
  BY <1>1, <1>2, NoCallIsOne, HandlerMoves

LEMMA DiesStep ==
    ASSUME ProgrammeInv, NEW c \in Callers, Programmes!Crash(c)
    PROVE  ProgrammeInv'
<1>1. /\ UNCHANGED <<versions, basis, document, builds, programmeNow, reindexes>> /\ torn \subseteq torn'
      /\ programmeCalls' = [programmeCalls EXCEPT ![c] = Programmes!NoCall]
      /\ \/ "died" \in torn'
         \/ ~Programmes!At(c, "copy") /\ ~Programmes!At(c, "enqueue")
  BY DEF Programmes!Crash, Programmes!End, Programmes!Hold, Programmes!At
<1>2. reindexes' \in Nat /\ reindexes' >= reindexes
  BY <1>1 DEF ProgrammeInv, ProgrammeTypes
<1> QED
  BY <1>1, <1>2, NoCallIsOne, HandlerMoves

(* A rebuild reads, and what it read is written or found to be late.       *)
LEMMA RebuildStep ==
    ASSUME ProgrammeInv, NEW w \in Workers, Programmes!ReindexRead(w) \/ Programmes!ReindexWrite(w)
    PROVE  ProgrammeInv'
<1>1. UNCHANGED <<versions, basis, programmeCalls, programmeNow>> /\ torn \subseteq torn'
  BY DEF Programmes!ReindexRead, Programmes!ReindexWrite
<1>2. PICK build: builds' = [builds EXCEPT ![w] = build] /\ DOMAIN build = {"busy", "document"}
                  /\ (Programmes!ReindexRead(w) => build.busy)
  <2>1. CASE Programmes!ReindexRead(w)
    <3>1. PICK build: build = [busy |-> TRUE, document |-> Programmes!Projection] /\ builds' = [builds EXCEPT ![w] = build]
      BY <2>1 DEF Programmes!ReindexRead
    <3>2. build.busy /\ DOMAIN build = {"busy", "document"}
      BY <3>1
    <3> QED
      BY <3>1, <3>2
  <2>2. CASE Programmes!ReindexWrite(w) /\ ~Programmes!ReindexRead(w)
    BY <2>2 DEF Programmes!ReindexWrite, Programmes!NoBuild
  <2> QED
    BY <2>1, <2>2
<1>3. reindexes' \in Nat
  BY DEF Programmes!ReindexRead, Programmes!ReindexWrite, ProgrammeInv, ProgrammeTypes
<1>4. HasTimeline' /\ HandlersRefer'
  BY <1>1 DEF ProgrammeInv, HasTimeline, Timeline, HandlersRefer, Programmes!At
<1>5. ProgrammeTypes'
  BY <1>1, <1>2, <1>3 DEF ProgrammeInv, ProgrammeTypes
<1>6. InheritedUnlessTorn' /\ OpenIsPulled'
  BY <1>1 DEF ProgrammeInv, InheritedUnlessTorn, Inherited, Copying, Programmes!At, OpenIsPulled
<1>7. ComingUnlessTorn'
  <2>1. CASE Programmes!ReindexRead(w)
    <3>1. builds'[w].busy
      BY <2>1, <1>2 DEF ProgrammeInv, ProgrammeTypes
    <3> QED
      BY <3>1 DEF ComingUnlessTorn, Coming
  <2>2. CASE Programmes!ReindexWrite(w)
    <3>1. Programmes!Projection' = Programmes!Projection
      BY <1>1 DEF Programmes!Projection, Programmes!Open, Programmes!Current, Programmes!Visible,
                  Programmes!PublicVisibility
    <3>2. "late" \in torn' \/ document' = Programmes!Projection
      BY <2>2 DEF Programmes!ReindexWrite
    <3> QED
      BY <3>1, <3>2 DEF ComingUnlessTorn
  <2> QED
    BY <2>1, <2>2
<1> QED
  BY <1>4, <1>5, <1>6, <1>7 DEF ProgrammeInv

(* Nothing but an edit's copy is waited for by the versions that follow.   *)
LEMMA InheritedStays ==
    ASSUME ProgrammeInv, NEW c \in Callers, ~Programmes!At(c, "copy"),
           programmeCalls' = [programmeCalls EXCEPT ![c].step = "enqueue"],
           DOMAIN versions' = DOMAIN versions, torn \subseteq torn',
           \A v \in DOMAIN versions: versions'[v].requirements = versions[v].requirements
    PROVE  InheritedUnlessTorn'
<1>1. \A d \in Callers \ {c}: programmeCalls'[d] = programmeCalls[d]
  BY DEF ProgrammeInv, ProgrammeTypes
<1>2. \A v, w: Copying(v, w) => Copying(v, w)'
  BY <1>1 DEF Copying, Programmes!At
<1>3. torn \cap {"died", "copied"} = {} => Inherited
  BY DEF ProgrammeInv, InheritedUnlessTorn
<1> QED
  BY <1>2, <1>3 DEF InheritedUnlessTorn, Inherited

(* Fees, publications and the marks of a sweep leave what a version        *)
(* requires, when it opened and when it was closed.                        *)
LEMMA MarkStep ==
    ASSUME ProgrammeInv, NEW c \in Callers,
           Programmes!SetFees(c) \/ Programmes!PublishWrite(c) \/ Programmes!UnpublishWrite(c)
               \/ Programmes!SweepMark(c)
    PROVE  ProgrammeInv'
<1>1. PICK v \in DOMAIN versions: v = programmeCalls[c].version
  BY DEF ProgrammeInv, HandlersRefer
<1>2. IsVersion(versions[v])
  BY DEF ProgrammeInv, HasTimeline, Timeline
<1>3. PICK row: /\ versions' = [versions EXCEPT ![v] = row] /\ IsVersion(row)
                /\ row.from = versions[v].from /\ row.to = versions[v].to
                /\ row.requirements = versions[v].requirements
                /\ \/ "raced" \in torn' \/ basis # "revoked"
                   \/ row.status = "published" => versions[v].status = "published"
  <2>1. CASE Programmes!SetFees(c)
    <3> PICK fees, row: row = [versions[v] EXCEPT !.fees = fees] /\ versions' = [versions EXCEPT ![v] = row]
      BY <1>1, <2>1 DEF Programmes!SetFees
    <3>2. /\ IsVersion(row) /\ row.from = versions[v].from /\ row.to = versions[v].to
          /\ row.requirements = versions[v].requirements /\ row.status = versions[v].status
      BY <1>2 DEF IsVersion
    <3> QED
      BY <3>2
  <2>2. CASE Programmes!PublishWrite(c)
    <3> PICK row: row = [versions[v] EXCEPT !.status = "published"] /\ versions' = [versions EXCEPT ![v] = row]
      BY <1>1, <2>2 DEF Programmes!PublishWrite
    <3>1. "raced" \in torn' \/ basis # "revoked"
      BY <2>2 DEF Programmes!PublishWrite, Programmes!PartnershipIsActive
    <3>2. /\ IsVersion(row) /\ row.from = versions[v].from /\ row.to = versions[v].to
          /\ row.requirements = versions[v].requirements
      BY <1>2 DEF IsVersion
    <3> QED
      BY <3>1, <3>2
  <2>3. CASE Programmes!UnpublishWrite(c)
    <3> PICK row: row = [versions[v] EXCEPT !.status = "unpublished"] /\ versions' = [versions EXCEPT ![v] = row]
      BY <1>1, <2>3 DEF Programmes!UnpublishWrite
    <3>2. /\ IsVersion(row) /\ row.from = versions[v].from /\ row.to = versions[v].to
          /\ row.requirements = versions[v].requirements /\ row.status = "unpublished"
      BY <1>2 DEF IsVersion
    <3> QED
      BY <3>2
  <2>4. CASE Programmes!SweepMark(c)
    <3> PICK marks, status, row:
            /\ row = [versions[v] EXCEPT !.stale = marks, !.status = status]
            /\ versions' = [versions EXCEPT ![v] = row]
            /\ status = "in_review" \/ status = versions[v].status
      <4>1. PICK marks: versions' \in {[versions EXCEPT ![v].stale = marks, ![v].status = "in_review"],
                                     [versions EXCEPT ![v].stale = marks, ![v].status = @]}
        BY <1>1, <2>4 DEF Programmes!SweepMark
      <4> PICK first: first = [versions[v] EXCEPT !.stale = marks]
        OBVIOUS
      <4>2. first.status = versions[v].status
        BY <1>2 DEF IsVersion
      <4>3. versions' \in {[versions EXCEPT ![v] = [first EXCEPT !.status = "in_review"]],
                           [versions EXCEPT ![v] = [first EXCEPT !.status = versions[v].status]]}
        BY <4>1, <4>2
      <4> QED
        BY <4>3
    <3>2. /\ IsVersion(row) /\ row.from = versions[v].from /\ row.to = versions[v].to
          /\ row.requirements = versions[v].requirements
          /\ row.status = status
      BY <1>2 DEF IsVersion
    <3> QED
      BY <3>2
  <2> QED
    BY <2>1, <2>2, <2>3, <2>4
<1>4. /\ programmeCalls' = [programmeCalls EXCEPT ![c].step = "enqueue"]
      /\ UNCHANGED <<basis, document, reindexes, builds, programmeNow>>
      /\ torn \subseteq torn' /\ ~Programmes!At(c, "copy")
  BY DEF Programmes!SetFees, Programmes!PublishWrite, Programmes!UnpublishWrite, Programmes!SweepMark,
         Programmes!Goto, Programmes!At, Programmes!Raced
<1>5. /\ DOMAIN versions' = DOMAIN versions
      /\ \A w \in DOMAIN versions: versions'[w].requirements = versions[w].requirements
  BY <1>3 DEF ProgrammeInv, HasTimeline, Timeline
<1>6. InheritedUnlessTorn'
  BY <1>4, <1>5, InheritedStays
<1> QED
  BY <1>3, <1>4, <1>6, VersionWritten

(* A requirement that is added to the open version is in no later one yet. *)
LEMMA AddRequirementStep ==
    ASSUME Programmes!CatalogueAssumption, ProgrammeInv, NEW c \in Callers, Programmes!AddRequirement(c)
    PROVE  ProgrammeInv'
<1>1. PICK v \in DOMAIN versions: v = programmeCalls[c].version
  BY DEF ProgrammeInv, HandlersRefer
<1>2. IsVersion(versions[v])
  BY DEF ProgrammeInv, HasTimeline, Timeline
<1>3. PICK row: /\ row = [versions[v] EXCEPT !.requirements = @ \cup programmeCalls[c].adds]
                /\ versions' = [versions EXCEPT ![v] = row]
  BY <1>1 DEF Programmes!AddRequirement
<1>4. /\ programmeCalls' = [programmeCalls EXCEPT ![c].step = "enqueue"]
      /\ UNCHANGED <<basis, document, reindexes, builds, programmeNow>>
      /\ torn \subseteq torn' /\ ~Programmes!At(c, "copy")
      /\ "copied" \in torn' \/ versions[v].to = None
  BY <1>1 DEF Programmes!AddRequirement, Programmes!Goto, Programmes!At
<1>5. InheritedUnlessTorn'
  <2> SUFFICES ASSUME versions[v].to = None, Inherited PROVE Inherited'
    BY <1>4 DEF ProgrammeInv, InheritedUnlessTorn
  <2> PICK n \in Nat \ {0}: Timeline(n)
    BY DEF ProgrammeInv, HasTimeline
  <2>1. v = n /\ DOMAIN versions = 1..n
    BY LastIsCurrent DEF Timeline, Programmes!Open
  <2>2. /\ DOMAIN versions' = 1..n /\ versions[n].requirements \subseteq versions'[n].requirements
        /\ \A w \in 1..n: w # n => versions'[w] = versions[w]
    BY <1>2, <1>3, <2>1 DEF IsVersion
  <2>3. \A d \in Callers \ {c}: programmeCalls'[d] = programmeCalls[d]
    BY <1>4 DEF ProgrammeInv, ProgrammeTypes
  <2>4. \A u, w: Copying(u, w) => Copying(u, w)'
    BY <1>4, <2>3 DEF Copying, Programmes!At
  <2>5. ASSUME NEW u \in 1..n, NEW w \in 1..n, u <= w
        PROVE  versions'[u].requirements \subseteq versions'[w].requirements \/ Copying(u, w)'
    <3>1. CASE u = w
      BY <3>1
    <3>2. CASE u # w
      <4>1. u # n
        BY <3>2, <2>5
      <4>2. versions[u].requirements \subseteq versions[w].requirements \/ Copying(u, w)
        BY <2>1, <2>5 DEF Inherited
      <4> QED
        BY <4>1, <4>2, <2>2, <2>4
    <3> QED
      BY <3>1, <3>2
  <2> QED
    BY <2>2, <2>5 DEF Inherited
<1>6. IsVersion(row) /\ row.from = versions[v].from /\ row.to = versions[v].to /\ row.status = versions[v].status
  BY <1>2, <1>3 DEF IsVersion
<1> QED
  BY <1>3, <1>4, <1>5, <1>6, VersionWritten

(* What is copied to the open version is all it was waiting for.           *)
LEMMA CopyStep ==
    ASSUME Programmes!CatalogueAssumption, ProgrammeInv, NEW c \in Callers, Programmes!CopyRequirements(c)
    PROVE  ProgrammeInv'
<1>1. PICK v \in DOMAIN versions: v = programmeCalls[c].version /\ v + 1 \in DOMAIN versions
  BY DEF ProgrammeInv, HandlersRefer, Programmes!CopyRequirements
<1>2. IsVersion(versions[v]) /\ IsVersion(versions[v + 1])
  BY <1>1 DEF ProgrammeInv, HasTimeline, Timeline
<1>3. PICK row: /\ row = [versions[v + 1] EXCEPT !.requirements = @ \cup versions[v].requirements]
                /\ versions' = [versions EXCEPT ![v + 1] = row]
  BY <1>1 DEF Programmes!CopyRequirements, Programmes!Copied
<1>4. /\ programmeCalls' = [programmeCalls EXCEPT ![c].step = "enqueue"]
      /\ UNCHANGED <<basis, document, reindexes, builds, programmeNow>>
      /\ torn \subseteq torn'
      /\ "copied" \in torn' \/ versions[v + 1].to = None
  BY <1>1 DEF Programmes!CopyRequirements, Programmes!Goto
<1>5. InheritedUnlessTorn'
  <2> SUFFICES ASSUME versions[v + 1].to = None, Inherited PROVE Inherited'
    BY <1>4 DEF ProgrammeInv, InheritedUnlessTorn
  <2> PICK n \in Nat \ {0}: Timeline(n)
    BY DEF ProgrammeInv, HasTimeline
  <2>1. v + 1 = n /\ DOMAIN versions = 1..n
    BY <1>1, LastIsCurrent DEF Timeline, Programmes!Open
  <2>2. /\ DOMAIN versions' = 1..n
        /\ versions'[n].requirements = versions[n].requirements \cup versions[v].requirements
        /\ \A w \in 1..n: w # n => versions'[w] = versions[w]
    BY <1>2, <1>3, <2>1 DEF IsVersion
  <2>3. \A d \in Callers \ {c}: programmeCalls'[d] = programmeCalls[d]
    BY <1>4 DEF ProgrammeInv, ProgrammeTypes
  <2>4. ASSUME NEW u \in 1..n, NEW w \in 1..n, w # n, Copying(u, w)
        PROVE  Copying(u, w)'
    <3> PICK d \in Callers: Programmes!At(d, "copy") /\ u <= programmeCalls[d].version /\ programmeCalls[d].version < w
      BY <2>4 DEF Copying
    <3>1. d # c
      BY <1>1, <2>1, <2>4
    <3> QED
      BY <3>1, <2>3 DEF Copying, Programmes!At
  <2>5. ASSUME NEW u \in 1..n, NEW w \in 1..n, u <= w
        PROVE  versions'[u].requirements \subseteq versions'[w].requirements \/ Copying(u, w)'
    <3>1. CASE u = w
      BY <3>1
    <3>2. CASE u # w /\ w # n
      <4>1. u # n
        BY <3>2, <2>5
      <4>2. versions[u].requirements \subseteq versions[w].requirements \/ Copying(u, w)
        BY <2>1, <2>5 DEF Inherited
      <4> QED
        BY <3>2, <4>1, <4>2, <2>2, <2>4
    <3>3. CASE u # w /\ w = n
      <4>1. u <= v /\ v \in 1..n /\ v # n
        BY <3>3, <2>1, <2>5
      <4>2. versions[u].requirements \subseteq versions[v].requirements \/ Copying(u, v)
        BY <2>1, <4>1 DEF Inherited
      <4>3. CASE versions[u].requirements \subseteq versions[v].requirements
        BY <3>3, <4>1, <4>3, <2>2
      <4>4. CASE Copying(u, v)
        <5>1. Copying(u, v)'
          BY <4>1, <4>4, <2>4
        <5>2. \A d \in Callers: programmeCalls'[d].version < v => programmeCalls'[d].version < w \/ ~(programmeCalls'[d].version \in Nat)
          BY <3>3, <2>1
        <5>3. \A d \in Callers: programmeCalls'[d].version \in Nat
          <6>1. \A d \in Callers: programmeCalls'[d].version = programmeCalls[d].version
            BY <1>4 DEF ProgrammeInv, ProgrammeTypes, IsHandler
          <6> QED
            BY <6>1, <2>1 DEF ProgrammeInv, HandlersRefer
        <5> QED
          BY <5>1, <5>2, <5>3 DEF Copying
      <4> QED
        BY <4>2, <4>3, <4>4
    <3> QED
      BY <3>1, <3>2, <3>3
  <2> QED
    BY <2>2, <2>5 DEF Inherited
<1>6. /\ IsVersion(row) /\ row.from = versions[v + 1].from /\ row.to = versions[v + 1].to
      /\ row.status = versions[v + 1].status
  BY <1>2, <1>3 DEF IsVersion
<1> QED
  BY <1>1, <1>3, <1>4, <1>5, <1>6, VersionWritten

(* An edit closes the last version when it opens the next, which requires  *)
(* nothing until the edit has copied it.                                   *)
LEMMA EditStep ==
    ASSUME Programmes!CatalogueAssumption, ProgrammeInv, NEW c \in Callers, Programmes!EditWrite(c)
    PROVE  ProgrammeInv'
<1> PICK n \in Nat \ {0}: Timeline(n)
  BY DEF ProgrammeInv, HasTimeline
<1> PICK began \in Nat: began = programmeCalls[c].began
  BY DEF ProgrammeInv, ProgrammeTypes, IsHandler
<1>1. programmeCalls[c].version = n /\ DOMAIN versions = 1..n /\ \A v \in 1..n: IsVersion(versions[v])
  BY DEF ProgrammeInv, HandlersRefer, Timeline, Programmes!EditWrite, Programmes!NumberIsFree
<1>2. /\ DOMAIN versions' = 1..(n + 1)
      /\ versions' = [v \in 1..(n + 1) |-> versions'[v]]
      /\ versions'[n] = [versions[n] EXCEPT !.to = began]
      /\ versions'[n + 1] = Programmes!Superseded(c)
      /\ \A v \in 1..(n - 1): versions'[v] = versions[v]
  BY <1>1 DEF Programmes!EditWrite
<1>3. /\ versions'[n].to = began /\ IsVersion(versions'[n]) /\ versions'[n].from = versions[n].from
      /\ versions'[n].requirements = versions[n].requirements
  BY <1>1, <1>2 DEF IsVersion
<1>4. /\ versions'[n + 1].from = began /\ versions'[n + 1].to = None /\ IsVersion(versions'[n + 1])
      /\ versions'[n + 1].status = programmeCalls[c].row.status
  <2>1. IsVersion(programmeCalls[c].row)
    BY DEF ProgrammeInv, ProgrammeTypes, IsHandler
  <2> PICK row: row = Programmes!Superseded(c)
    OBVIOUS
  <2>2. row.from = began /\ row.to = None /\ IsVersion(row) /\ row.status = programmeCalls[c].row.status
    BY <2>1 DEF Programmes!Superseded, IsVersion
  <2> QED
    BY <1>2, <2>2
<1>0. \A v \in 1..n: v = n \/ v \in 1..(n - 1)
  OBVIOUS
<1>5. /\ UNCHANGED <<basis, document, reindexes, builds, programmeNow>> /\ torn \subseteq torn'
      /\ "raced" \in torn' \/ versions[n] = programmeCalls[c].row
      /\ programmeCalls' = [programmeCalls EXCEPT ![c].step = "copy"] /\ ~Programmes!At(c, "copy")
  BY <1>1 DEF Programmes!EditWrite, Programmes!Goto, Programmes!Raced, Programmes!At
<1> PICK call: call = [programmeCalls[c] EXCEPT !.step = "copy"] /\ programmeCalls' = [programmeCalls EXCEPT ![c] = call]
  BY <1>5
<1>6. /\ programmeCalls' = [d \in Callers |-> programmeCalls'[d]] /\ programmeCalls'[c] = call
      /\ \A d \in Callers \ {c}: programmeCalls'[d] = programmeCalls[d]
  BY DEF ProgrammeInv, ProgrammeTypes
<1>7. IsHandler(call) /\ call.step = "copy" /\ call.version = n
  BY <1>1 DEF ProgrammeInv, ProgrammeTypes, IsHandler
<1>8. HasTimeline'
  <2>1. \A v \in 1..n: versions'[v].from = versions[v].from /\ IsVersion(versions'[v])
    BY <1>0, <1>1, <1>2, <1>3
  <2>2. \A v \in 1..(n - 1): versions'[v].to = versions'[v + 1].from
    BY <1>2, <2>1 DEF Timeline
  <2>3. \A v \in 1..n: versions'[v].to = versions'[v + 1].from
    BY <1>0, <1>3, <1>4, <2>2
  <2>4. \A v \in 1..(n + 1): IsVersion(versions'[v])
    <3>1. \A v \in 1..(n + 1): v = n + 1 \/ v \in 1..n
      OBVIOUS
    <3> QED
      BY <3>1, <1>4, <2>1
  <2>5. n + 1 \in Nat \ {0} /\ (n + 1) - 1 = n
    OBVIOUS
  <2>6. Timeline(n + 1)'
    BY <1>2, <1>4, <2>3, <2>4, <2>5 DEF Timeline
  <2> QED
    BY <2>5, <2>6 DEF HasTimeline
<1>9. ProgrammeTypes'
  BY <1>5, <1>6, <1>7 DEF ProgrammeInv, ProgrammeTypes
<1>10. HandlersRefer'
  BY <1>1, <1>2, <1>6, <1>7 DEF ProgrammeInv, HandlersRefer, Programmes!At
<1>11. InheritedUnlessTorn'
  <2> SUFFICES ASSUME Inherited PROVE Inherited'
    BY <1>5 DEF ProgrammeInv, InheritedUnlessTorn
  <2>1. \A u, w: Copying(u, w) => Copying(u, w)'
    BY <1>5, <1>6 DEF Copying, Programmes!At
  <2>2. \A v \in 1..n: versions'[v].requirements = versions[v].requirements
    BY <1>0, <1>2, <1>3
  <2>3. ASSUME NEW u \in 1..n PROVE Copying(u, n + 1)'
    <3>1. u <= programmeCalls'[c].version /\ programmeCalls'[c].version < n + 1
      BY <1>6, <1>7
    <3>2. programmeCalls'[c].step = "copy"
      BY <1>6, <1>7
    <3> QED
      BY <3>1, <3>2 DEF Copying, Programmes!At
  <2>4. ASSUME NEW u \in 1..(n + 1), NEW w \in 1..(n + 1), u <= w
        PROVE  versions'[u].requirements \subseteq versions'[w].requirements \/ Copying(u, w)'
    <3>1. CASE u = w
      BY <3>1
    <3>2. CASE u # w /\ w = n + 1
      BY <3>2, <2>3
    <3>3. CASE w # n + 1
      <4>1. u \in 1..n /\ w \in 1..n
        BY <3>3, <2>4
      <4> QED
        BY <4>1, <1>1, <2>1, <2>2, <2>4 DEF Inherited
    <3> QED
      BY <3>1, <3>2, <3>3
  <2> QED
    BY <1>2, <2>4 DEF Inherited
<1>12. OpenIsPulled'
  <2> SUFFICES ASSUME "raced" \notin torn', basis = "revoked", NEW v \in 1..(n + 1), versions'[v].to = None
               PROVE  versions'[v].status # "published"
    BY <1>2, <1>5 DEF OpenIsPulled
  <2>1. v # n
    BY <1>3 DEF Programmes!CatalogueAssumption
  <2>2. CASE v = n + 1
    <3>1. versions[n].status # "published"
      BY <1>1, <1>5 DEF ProgrammeInv, OpenIsPulled, Timeline
    <3> QED
      BY <2>2, <3>1, <1>4, <1>5
  <2>3. CASE v \in 1..(n - 1)
    BY <2>3, <1>1, <1>2, <1>5 DEF ProgrammeInv, OpenIsPulled
  <2> QED
    BY <2>1, <2>2, <2>3
<1>13. Coming'
  BY <1>6, <1>7 DEF Coming, Programmes!At
<1> QED
  BY <1>8, <1>9, <1>10, <1>11, <1>12, <1>13 DEF ProgrammeInv, ComingUnlessTorn

(* A revocation pulls the open version.                                    *)
LEMMA RevokeStep ==
    ASSUME ProgrammeInv, Programmes!RevokePartnership
    PROVE  ProgrammeInv'
<1>1. /\ UNCHANGED <<document, reindexes, builds, programmeCalls, programmeNow>>
      /\ torn' = torn \cup {"revoked"} /\ versions' = Programmes!UnpublishedAll
  BY DEF Programmes!RevokePartnership
<1> PICK n \in Nat \ {0}: Timeline(n)
  BY DEF ProgrammeInv, HasTimeline
<1>2. /\ DOMAIN versions = 1..n /\ DOMAIN versions' = 1..n
      /\ \A v \in 1..n:
            IF versions[v].status = "published" /\ versions[v].to = None
            THEN versions'[v] = [versions[v] EXCEPT !.status = "unpublished"] ELSE versions'[v] = versions[v]
  BY <1>1 DEF Programmes!UnpublishedAll, Timeline
<1>3. \A v \in 1..n:
         /\ IsVersion(versions'[v]) /\ versions'[v].from = versions[v].from /\ versions'[v].to = versions[v].to
         /\ versions'[v].requirements = versions[v].requirements
         /\ versions'[v].to = None => versions'[v].status # "published"
  BY <1>2 DEF Timeline, IsVersion
<1>4. Timeline(n)'
  BY <1>2, <1>3 DEF Timeline
<1>5. HasTimeline' /\ ProgrammeTypes' /\ HandlersRefer'
  BY <1>1, <1>2, <1>4 DEF ProgrammeInv, HasTimeline, ProgrammeTypes, HandlersRefer, Programmes!At
<1>6. InheritedUnlessTorn'
  <2>1. \A u, w: Copying(u, w) <=> Copying(u, w)'
    BY <1>1 DEF Copying, Programmes!At
  <2>2. torn' \cap {"died", "copied"} = {} => torn \cap {"died", "copied"} = {}
    BY <1>1
  <2> QED
    BY <1>2, <1>3, <2>1, <2>2 DEF ProgrammeInv, InheritedUnlessTorn, Inherited
<1>7. OpenIsPulled' /\ ComingUnlessTorn'
  BY <1>1, <1>2, <1>3 DEF OpenIsPulled, ComingUnlessTorn
<1> QED
  BY <1>5, <1>6, <1>7 DEF ProgrammeInv

LEMMA ProgrammeStep ==
    ASSUME Programmes!CatalogueAssumption, ProgrammeInv, [Programmes!Next]_(Programmes!vars)
    PROVE  ProgrammeInv'
<1>1. ASSUME NEW c \in Callers,
             \/ Programmes!EditRead(c) \/ Programmes!EditRefused(c)
             \/ \E r \in Requirements: Programmes!AddRequirementRead(c, r)
             \/ Programmes!SetFeesRead(c) \/ \E deadline \in Deadlines: Programmes!AddIntake(c, deadline)
             \/ Programmes!PublishRead(c) \/ Programmes!UnpublishRead(c)
             \/ Programmes!SweepRead(c) \/ Programmes!SweepLook(c)
      PROVE  ProgrammeInv'
  BY <1>1, ReadStep
<1>2. ASSUME NEW c \in Callers,
             Programmes!SetFees(c) \/ Programmes!PublishWrite(c) \/ Programmes!UnpublishWrite(c)
                 \/ Programmes!SweepMark(c)
      PROVE  ProgrammeInv'
  BY <1>2, MarkStep
<1>3. ASSUME NEW c \in Callers,
             Programmes!EditWrite(c) \/ Programmes!CopyRequirements(c) \/ Programmes!AddRequirement(c)
                 \/ Programmes!Enqueue(c) \/ Programmes!Crash(c)
      PROVE  ProgrammeInv'
  BY <1>3, EditStep, CopyStep, AddRequirementStep, EnqueueStep, DiesStep
<1>4. ASSUME NEW w \in Workers, Programmes!ReindexRead(w) \/ Programmes!ReindexWrite(w)
      PROVE  ProgrammeInv'
  BY <1>4, RebuildStep
<1>5. ASSUME Programmes!RevokePartnership PROVE ProgrammeInv'
  BY <1>5, RevokeStep
<1>6. ASSUME Programmes!Tick \/ UNCHANGED Programmes!vars PROVE ProgrammeInv'
  <2>1. /\ UNCHANGED <<versions, basis, document, reindexes, builds, programmeCalls, torn>>
        /\ programmeNow' \in Nat
    BY <1>6 DEF Programmes!Tick, Programmes!vars, ProgrammeInv, ProgrammeTypes
  <2>2. HasTimeline' /\ ProgrammeTypes' /\ HandlersRefer'
    BY <2>1 DEF ProgrammeInv, HasTimeline, Timeline, ProgrammeTypes, HandlersRefer, Programmes!At
  <2>3. InheritedUnlessTorn' /\ OpenIsPulled'
    BY <2>1 DEF ProgrammeInv, InheritedUnlessTorn, Inherited, Copying, Programmes!At, OpenIsPulled
  <2>4. Programmes!Projection' = Programmes!Projection
    BY <2>1 DEF Programmes!Projection, Programmes!Open, Programmes!Current, Programmes!Visible,
                Programmes!PublicVisibility
  <2>5. ComingUnlessTorn'
    BY <2>1, <2>4 DEF ProgrammeInv, ComingUnlessTorn, Coming, Programmes!At
  <2> QED
    BY <2>2, <2>3, <2>5 DEF ProgrammeInv
<1> QED
  BY <1>1, <1>2, <1>3, <1>4, <1>5, <1>6 DEF Programmes!Next

LEMMA ProgrammeInvHolds ==
    ASSUME Programmes!CatalogueAssumption
    PROVE  Programmes!Spec => []ProgrammeInv
<1>1. Programmes!Init => ProgrammeInv
  BY ProgrammeInit
<1>2. ProgrammeInv /\ [Programmes!Next]_(Programmes!vars) => ProgrammeInv'
  BY ProgrammeStep
<1> QED
  BY <1>1, <1>2, PTL DEF Programmes!Spec

(* However edits overlap, exactly one version is open and each version was *)
(* closed at the moment the next one opened ("no gap in which a reader     *)
(* would find no current record, and no overlap in which two match").      *)
THEOREM TimelineCorrect ==
    ASSUME Programmes!CatalogueAssumption
    PROVE  Programmes!Spec => []Programmes!TimelineHolds
<1>1. ProgrammeInv => Programmes!TimelineHolds
  <2> SUFFICES ASSUME ProgrammeInv PROVE Programmes!TimelineHolds
    OBVIOUS
  <2> PICK n \in Nat \ {0}: Timeline(n)
    BY DEF ProgrammeInv, HasTimeline
  <2>1. Programmes!Cardinality(Programmes!Open) = 1
    BY LastIsCurrent, FS_Singleton, ProgrammesCardinality
  <2>2. \A v \in DOMAIN versions: v + 1 \in DOMAIN versions => versions[v].to = versions[v + 1].from
    BY DEF Timeline
  <2> QED
    BY <2>1, <2>2 DEF Programmes!TimelineHolds
<1> QED
  BY <1>1, ProgrammeInvHolds, PTL

(* A requirement that was added is one of the current version, whatever    *)
(* edits came between, unless a handler died before it had copied them, or *)
(* the version was closed before they arrived (updateProgram,              *)
(* addRequirement).                                                        *)
THEOREM RequirementsSurviveCorrect ==
    ASSUME Programmes!CatalogueAssumption
    PROVE  Programmes!Spec => []Programmes!RequirementsSurviveUnlessTorn
<1>1. ProgrammeInv => Programmes!RequirementsSurviveUnlessTorn
  <2> SUFFICES ASSUME ProgrammeInv, Inherited, \A c \in Callers: ~Programmes!At(c, "copy"),
                      NEW v \in DOMAIN versions
               PROVE  versions[v].requirements \subseteq versions[Programmes!Current].requirements
    BY DEF ProgrammeInv, InheritedUnlessTorn, Programmes!RequirementsSurviveUnlessTorn,
           Programmes!RequirementsSurvive, Programmes!Added
  <2> PICK n \in Nat \ {0}: Timeline(n)
    BY DEF ProgrammeInv, HasTimeline
  <2>1. Programmes!Current = n /\ v <= n /\ n \in DOMAIN versions
    BY LastIsCurrent DEF Timeline
  <2>2. ~Copying(v, n)
    BY DEF Copying
  <2> QED
    BY <2>1, <2>2 DEF Inherited
<1> QED
  BY <1>1, ProgrammeInvHolds, PTL

(* "A revoked partnership must not leave live programmes visible", unless  *)
(* a publication or an edit had read it before.                            *)
THEOREM RevokedIsPulledCorrect ==
    ASSUME Programmes!CatalogueAssumption
    PROVE  Programmes!Spec => []Programmes!RevokedIsPulledUnlessRaced
<1>1. ProgrammeInv => Programmes!RevokedIsPulledUnlessRaced
  <2> SUFFICES ASSUME ProgrammeInv PROVE Programmes!RevokedIsPulledUnlessRaced
    OBVIOUS
  <2> PICK n \in Nat \ {0}: Timeline(n)
    BY DEF ProgrammeInv, HasTimeline
  <2>1. Programmes!Current = n /\ n \in DOMAIN versions /\ versions[n].to = None
    BY LastIsCurrent DEF Timeline
  <2> QED
    BY <2>1 DEF ProgrammeInv, OpenIsPulled, Programmes!RevokedIsPulledUnlessRaced, Programmes!RevokedIsPulled
<1> QED
  BY <1>1, ProgrammeInvHolds, PTL

(* When nothing is in progress, search shows the programme as it is: every *)
(* handler that changes what is public sees to a reindex.  Not if one died *)
(* before it did, if an older rebuild wrote last, or after a revocation,   *)
(* which enqueues none.                                                    *)
THEOREM IndexFollowsCorrect ==
    ASSUME Programmes!CatalogueAssumption
    PROVE  Programmes!Spec => []Programmes!IndexFollowsUnlessTorn
<1>1. ProgrammeInv => Programmes!IndexFollowsUnlessTorn
  <2>1. Programmes!Quiet => ~Coming
    BY DEF Programmes!Quiet, Coming, Programmes!At
  <2> QED
    BY <2>1 DEF ProgrammeInv, ComingUnlessTorn, Programmes!IndexFollowsUnlessTorn, Programmes!IndexFollows
<1> QED
  BY <1>1, ProgrammeInvHolds, PTL
=============================================================================
