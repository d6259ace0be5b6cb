----------------------------- MODULE Institutions -----------------------------
(***************************************************************************)
(* One institution's verification (InstitutionsService, the state machine  *)
(* beside it and DomainVerificationService): five stages entered one at a  *)
(* time on evidence or by an override, a domain confirmed by a record in   *)
(* DNS, and a partnership that follows the last stage and can be revoked.  *)
(***************************************************************************)
EXTENDS Integers, Sequences, FiniteSets

CONSTANTS
    Callers,            \* requests that can be in progress at once
    Roles,              \* who they come from: subset of {"agent", "staff"}
    Ttl,                \* life of a challenge (72 hours)
    MaxAttempts,        \* checks of one challenge (20)
    MaxChallenges, MaxTime      \* bounds

InstitutionsAssumption ==
    /\ Roles \subseteq {"agent", "staff"}
    /\ {Ttl, MaxAttempts, MaxChallenges, MaxTime} \subseteq Nat
    /\ MaxAttempts > 0 /\ IsFiniteSet(Callers)

VARIABLES
    institution,    \* its row: stage and state
    partnership,    \* its newest partnership: status, contract stored, ended
    legal,          \* evidence of the legal entity is recorded
    signatory,      \* a verified signatory on an official domain
    challenges, published,      \* domain challenges; those whose record DNS shows
    calls, now,
    entered, backed, raced      \* stages entered, those on evidence of the domain, and
                                \* whether a write came late (history)

vars == <<institution, partnership, legal, signatory, challenges, published, calls, now, entered, backed, raced>>

Stages == <<"legal_entity_check", "official_domain_confirmation", "partner_contact_confirmation",
            "signed_contract", "active">>
StageIndex == 0..Len(Stages)        \* 0 is no stage, as currentIndex -1 in the code
Active == Len(Stages)
Time == 0..MaxTime
Numbers == 1..MaxChallenges

Institution == [stage: StageIndex, state: {"unverified", "pending", "verified", "revoked"}]
Partnership == [status: {"prospect", "active", "revoked"}, contract: BOOLEAN, ended: BOOLEAN]
Challenge == [expires: 0..(MaxTime + Ttl), attempts: 0..(MaxAttempts + Cardinality(Callers)),
              confirmed: BOOLEAN]
OnDomain == {2, 5}      \* the stages the domain is evidence for

(* A call in progress: its step, the stage it goes to, the one it found,   *)
(* whether on evidence, and the challenge and what DNS said of it.         *)
Call == [step: {"idle", "advance", "activate", "resolve", "answer"}, to: StageIndex, from: Institution,
         onEvidence: BOOLEAN, challenge: 0..MaxChallenges, found: BOOLEAN]
Unread == [stage |-> 0, state |-> "unverified"]
NoCall == [step |-> "idle", to |-> 0, from |-> Unread, onEvidence |-> FALSE, challenge |-> 0, found |-> FALSE]

TypeOK ==
    /\ institution \in Institution /\ partnership \in Partnership
    /\ legal \in BOOLEAN /\ signatory \in BOOLEAN
    /\ challenges \in Seq(Challenge) /\ published \subseteq Numbers
    /\ calls \in [Callers -> Call] /\ now \in Time
    /\ entered \subseteq 1..Active /\ backed \subseteq OnDomain /\ raced \in BOOLEAN

(* No code sets a contact's verifiedAt: who is a verified signatory comes  *)
(* with the data.                                                          *)
Init ==
    /\ institution = Unread
    /\ partnership = [status |-> "prospect", contract |-> FALSE, ended |-> FALSE]
    /\ legal = FALSE /\ signatory \in BOOLEAN
    /\ challenges = <<>> /\ published = {}
    /\ calls = [c \in Callers |-> NoCall] /\ now = 0
    /\ entered = {} /\ backed = {} /\ raced = FALSE

At(c, step) == calls[c].step = step
Hold(c, call) == calls' = [calls EXCEPT ![c] = call]
End(c) == Hold(c, NoCall)

(***************************************************************************)
(* The state machine                                                       *)
(***************************************************************************)

DomainConfirmed == \E k \in DOMAIN challenges: challenges[k].confirmed

(* STAGE_PRECONDITIONS: what must be true before a stage may be entered.   *)
EachAlone(stage) ==
    CASE stage = 1 -> legal [] stage = 2 -> DomainConfirmed [] stage = 3 -> signatory
      [] OTHER -> partnership.contract
Precondition(stage) ==
    CASE stage = 1 -> legal [] stage = 2 -> DomainConfirmed [] stage = 3 -> signatory
      [] stage = 4 -> partnership.contract
      [] stage = 5 -> legal /\ DomainConfirmed /\ signatory /\ partnership.contract

TrustAgentOnly == {1, 4, 5}

(* evaluateTransition: one stage forward, on its evidence, or by a trust   *)
(* agent's override with a justification.                                  *)
AnyStageAhead(from, to) == to > from
EitherWay(from, to) == to \in {from - 1, from + 1}
OneForward(from, to) == to = from + 1

Allowed(to, role, justified) ==
    /\ OneForward(institution.stage, to)
    /\ Precondition(to) \/ (role = "agent" /\ justified)
    /\ to \in TrustAgentOnly => role = "agent"

(***************************************************************************)
(* advanceVerification: everything is read, then three writes              *)
(***************************************************************************)

AdvanceRead(c, to, role, justified) ==
    /\ At(c, "idle") /\ Allowed(to, role, justified)
    /\ Hold(c, [NoCall EXCEPT !.step = "advance", !.to = to, !.from = institution,
                              !.onEvidence = Precondition(to)])
    /\ UNCHANGED <<institution, partnership, legal, signatory, challenges, published, now, entered, backed, raced>>

AlwaysVerified(to) == "verified"
NextState(to) == IF to = Active THEN "verified" ELSE "pending"

AdvanceWrite(c) ==
    LET to == calls[c].to IN
    /\ At(c, "advance")
    /\ institution' = [stage |-> to, state |-> NextState(to)]
    /\ entered' = entered \cup {to}
    /\ backed' = IF calls[c].onEvidence THEN backed \cup ({to} \cap OnDomain) ELSE backed
    /\ raced' = (raced \/ institution # calls[c].from)
    /\ IF to = Active THEN Hold(c, [calls[c] EXCEPT !.step = "activate"]) ELSE End(c)
    /\ UNCHANGED <<partnership, legal, signatory, challenges, published, now>>

(* The partnership's end date, set when it was revoked, is left.           *)
AdvanceActivate(c) ==
    /\ At(c, "activate")
    /\ partnership' = [partnership EXCEPT !.status = "active"]
    /\ raced' = (raced \/ partnership.status = "revoked")
    /\ End(c)
    /\ UNCHANGED <<institution, legal, signatory, challenges, published, now, entered, backed>>

(***************************************************************************)
(* The other operations                                                    *)
(***************************************************************************)

RecordEvidence ==
    /\ ~legal /\ legal' = TRUE
    /\ UNCHANGED <<institution, partnership, signatory, challenges, published, calls, now, entered, backed, raced>>

(* updatePartnership stores a contract reference, or clears it.            *)
UpdatePartnership ==
    /\ partnership' = [partnership EXCEPT !.contract = ~@]
    /\ UNCHANGED <<institution, legal, signatory, challenges, published, calls, now, entered, backed, raced>>

(* In one transaction, with the programmes (Catalogue).  Revoking it again *)
(* changes nothing here.                                                   *)
KeepVerified(row) == row
Revoked(row) == [row EXCEPT !.state = "revoked"]

RevokePartnership ==
    /\ partnership.status # "revoked"
    /\ partnership' = [partnership EXCEPT !.status = "revoked", !.ended = TRUE]
    /\ institution' = Revoked(institution)
    /\ UNCHANGED <<legal, signatory, challenges, published, calls, now, entered, backed, raced>>

IssueChallenge ==
    /\ Len(challenges) < MaxChallenges
    /\ challenges' = Append(challenges, [expires |-> now + Ttl, attempts |-> 0, confirmed |-> FALSE])
    /\ UNCHANGED <<institution, partnership, legal, signatory, published, calls, now, entered, backed, raced>>

(* checkChallenge.  Its last write sets or clears confirmedAt, by what it  *)
(* found when it looked.                                                   *)
Uncapped(challenge) == ~challenge.confirmed /\ now < challenge.expires
Checkable(challenge) == ~challenge.confirmed /\ now < challenge.expires /\ challenge.attempts < MaxAttempts

CheckRead(c, k) ==
    /\ At(c, "idle") /\ Checkable(challenges[k])
    /\ Hold(c, [NoCall EXCEPT !.step = "resolve", !.challenge = k])
    /\ UNCHANGED <<institution, partnership, legal, signatory, challenges, published, now, entered, backed, raced>>

AnyRecord(k) == TRUE
InDns(k) == k \in published

(* The lookup can also fail, which is as if nothing was found.             *)
CheckResolve(c) ==
    /\ At(c, "resolve")
    /\ \E found \in {FALSE, InDns(calls[c].challenge)}:
          Hold(c, [calls[c] EXCEPT !.step = "answer", !.found = found])
    /\ UNCHANGED <<institution, partnership, legal, signatory, challenges, published, now, entered, backed, raced>>

CheckWrite(c) ==
    LET k == calls[c].challenge IN
    /\ At(c, "answer")
    /\ challenges' = [challenges EXCEPT ![k].attempts = @ + 1, ![k].confirmed = calls[c].found]
    /\ raced' = (raced \/ challenges[k].confirmed)
    /\ End(c)
    /\ UNCHANGED <<institution, partnership, legal, signatory, published, now, entered, backed>>

(* The institution puts the token of a challenge in its DNS.  Taking it out*)
(* is as a lookup that fails.                                              *)
PublishRecord(k) ==
    /\ k \notin published /\ published' = published \cup {k}
    /\ UNCHANGED <<institution, partnership, legal, signatory, challenges, calls, now, entered, backed, raced>>

(* Between the institution's row and its partnership's.                    *)
CallDies(c) ==
    /\ At(c, "activate")
    /\ raced' = TRUE
    /\ End(c)
    /\ UNCHANGED <<institution, partnership, legal, signatory, challenges, published, now, entered, backed>>

Tick ==
    /\ now < MaxTime /\ now' = now + 1
    /\ UNCHANGED <<institution, partnership, legal, signatory, challenges, published, calls, entered, backed, raced>>

Next ==
    \/ \E c \in Callers:
        \/ \E to \in 1..Active, role \in Roles, justified \in BOOLEAN: AdvanceRead(c, to, role, justified)
        \/ AdvanceWrite(c) \/ AdvanceActivate(c) \/ CallDies(c)
        \/ \E k \in DOMAIN challenges: CheckRead(c, k)
        \/ CheckResolve(c) \/ CheckWrite(c)
    \/ RecordEvidence \/ UpdatePartnership \/ RevokePartnership \/ IssueChallenge
    \/ \E k \in DOMAIN challenges: PublishRecord(k)
    \/ Tick

Spec == Init /\ [][Next]_vars

(***************************************************************************)
(* Properties.  Those named Unless... end where a write was decided on     *)
(* what had changed by then.                                               *)
(***************************************************************************)

(* canPublishVerifiedBadge.                                                *)
Badge == institution.stage = Active /\ institution.state = "verified"

(* "No stage skipping": an institution at a stage has entered each before  *)
(* it, and whoever shows the badge entered every one.                      *)
EveryStageEntered == 1..institution.stage \subseteq entered

(* "Without a confirmed official domain ... the transition function refuses*)
(* the shortcut": behind a stage entered on evidence the domain is         *)
(* confirmed, for a confirmation is not taken back (checkChallenge).       *)
DomainStaysConfirmed == backed # {} => DomainConfirmed
DomainStaysConfirmedUnlessRaced == raced \/ DomainStaysConfirmed

(* "There is no partial badge": with the badge goes an active partnership, *)
(* unless somebody is about to write it (advanceVerification, revoke).     *)
BadgeHasPartnership ==
    Badge => partnership.status = "active" \/ \E c \in Callers: At(c, "activate")
BadgeHasPartnershipUnlessRaced == raced \/ BadgeHasPartnership

(* "Verification only moves forward" (evaluateTransition).                 *)
ForwardOnly == [][institution'.stage >= institution.stage]_vars
ForwardOnlyStep == ~raced' => institution'.stage >= institution.stage
ForwardOnlyUnlessRaced == [][ForwardOnlyStep]_vars

(* "Forward one stage at a time, or out to failed/revoked": what was       *)
(* revoked is not verified again (evaluateTransition looks at the stage    *)
(* alone).                                                                 *)
RevokedIsOut == [][institution.state = "revoked" => institution'.state = "revoked"]_vars

(* "A later revocation of any single one cannot leave an institution       *)
(* stranded in active": the badge stands on the evidence it was given on.  *)
BadgeIsBacked == Badge /\ 5 \in backed => partnership.contract

(* MAX_ATTEMPTS.  The count is read before DNS is asked and raised after,  *)
(* so requests at once overrun it, each of the others by one check.        *)
ChecksNearCap ==
    \A k \in DOMAIN challenges: challenges[k].attempts < MaxAttempts + Cardinality(Callers)
ChecksAreCapped == \A k \in DOMAIN challenges: challenges[k].attempts <= MaxAttempts
===============================================================================
