--------------------------- MODULE PublicAnswers ---------------------------
(***************************************************************************)
(* Public Q&A (QaService): a guide's answer to a question becomes public   *)
(* when a moderator approves it, the guide agrees and the guide is active. *)
(* A decision is made on the answer as it was read, and written without    *)
(* looking again; what the public sees is read anew by every query.        *)
(***************************************************************************)
EXTENDS Integers, FiniteSets

CONSTANTS
    Callers,        \* requests that can be in progress at once
    MaxAnswers      \* bound: answers to the question

AnswersAssumption == MaxAnswers \in Nat \ {0}

VARIABLES
    active,         \* the guide is active
    answers,        \* the answers to one question, in order
    askerKnown,     \* the question names the student who asked it
    calls,
    stale           \* answers written after the row read had changed (history)

vars == <<active, answers, askerKnown, calls, stale>>

Step == {"idle", "answer_create", "consent_write", "reject_write", "publish_write"}
QaState == {"draft", "pending_moderation", "published", "rejected", "withdrawn"}
Answer == [state: QaState, consented: BOOLEAN, moderated: BOOLEAN]
Call == [step: Step, answer: 0..MaxAnswers, row: Answer, consent: BOOLEAN]
NoAnswer == [state |-> "draft", consented |-> FALSE, moderated |-> FALSE]
NoCall == [step |-> "idle", answer |-> 0, row |-> NoAnswer, consent |-> FALSE]

TypeOK ==
    /\ active \in BOOLEAN /\ askerKnown \in BOOLEAN
    /\ DOMAIN answers \subseteq 1..MaxAnswers /\ answers \in [DOMAIN answers -> Answer]
    /\ calls \in [Callers -> Call] /\ stale \subseteq DOMAIN answers

Init ==
    /\ active = TRUE /\ askerKnown = TRUE
    /\ answers = [a \in {} |-> NoAnswer]
    /\ calls = [c \in Callers |-> NoCall] /\ stale = {}

At(c, step) == calls[c].step = step
Hold(c, call) == calls' = [calls EXCEPT ![c] = call]
End(c) == Hold(c, NoCall)
Reading(step, a) == [NoCall EXCEPT !.step = step, !.answer = a, !.row = answers[a]]
NowStale(c) == LET a == calls[c].answer IN IF answers[a] # calls[c].row THEN stale \cup {a} ELSE stale

(* A guide who is active answers; without consent it stays a draft.        *)
AnswerRead(c, consent) ==
    /\ At(c, "idle") /\ active
    /\ Hold(c, [NoCall EXCEPT !.step = "answer_create", !.consent = consent])
    /\ UNCHANGED <<active, answers, askerKnown, stale>>

AnswerWrite(c) ==
    LET a == Cardinality(DOMAIN answers) + 1  consent == calls[c].consent IN
    /\ At(c, "answer_create") /\ a <= MaxAnswers
    /\ answers' = [b \in 1..a |->
                     IF b < a THEN answers[b]
                     ELSE [NoAnswer EXCEPT !.state = IF consent THEN "pending_moderation" ELSE "draft",
                                           !.consented = consent]]
    /\ End(c)
    /\ UNCHANGED <<active, askerKnown, stale>>

ConsentRead(c, a, consent) ==
    /\ At(c, "idle")
    /\ Hold(c, [Reading("consent_write", a) EXCEPT !.consent = consent])
    /\ UNCHANGED <<active, answers, askerKnown, stale>>

(* Withdrawing consent unpublishes, without a moderator.                   *)
KeptPublic(row) == [row EXCEPT !.consented = FALSE]
Withdrawn(row) == [row EXCEPT !.consented = FALSE, !.state = "withdrawn"]

ConsentWrite(c) ==
    LET a == calls[c].answer
        read == calls[c].row.state
        state == IF read = "draft" THEN "pending_moderation" ELSE read
    IN
    /\ At(c, "consent_write")
    /\ answers' = [answers EXCEPT ![a] = IF calls[c].consent
                                         THEN [@ EXCEPT !.consented = TRUE, !.state = state]
                                         ELSE Withdrawn(@)]
    /\ stale' = NowStale(c)
    /\ End(c)
    /\ UNCHANGED <<active, askerKnown>>

RejectRead(c, a) ==
    /\ At(c, "idle")
    /\ Hold(c, Reading("reject_write", a))
    /\ UNCHANGED <<active, answers, askerKnown, stale>>

Refused(row) == [row EXCEPT !.state = "refused", !.moderated = TRUE]
Rejected(row) == [row EXCEPT !.state = "rejected", !.moderated = TRUE]
RejectWrite(c) ==
    LET a == calls[c].answer IN
    /\ At(c, "reject_write")
    /\ answers' = [answers EXCEPT ![a] = Rejected(@)]
    /\ stale' = NowStale(c)
    /\ End(c)
    /\ UNCHANGED <<active, askerKnown>>

(* The moderation that is being decided counts as done.                    *)
WithoutConsent(row) == row.state # "published" /\ active
CanPublishAnswer(row) == row.state = "pending_moderation" /\ row.consented /\ active

PublishRead(c, a) ==
    /\ At(c, "idle") /\ CanPublishAnswer(answers[a])
    /\ Hold(c, Reading("publish_write", a))
    /\ UNCHANGED <<active, answers, askerKnown, stale>>

(* The question becomes public; the student who asked it does not.         *)
KeepAsker == askerKnown
ForgetAsker == FALSE
PublishWrite(c) ==
    LET a == calls[c].answer IN
    /\ At(c, "publish_write")
    /\ answers' = [answers EXCEPT ![a].state = "published", ![a].moderated = TRUE]
    /\ askerKnown' = ForgetAsker
    /\ stale' = NowStale(c)
    /\ End(c)
    /\ UNCHANGED active

(* The guide is suspended or reinstated (see Guides).                      *)
GuideMoves ==
    /\ active' = ~active
    /\ UNCHANGED <<answers, askerKnown, calls, stale>>

Next ==
    \/ \E c \in Callers:
           \/ AnswerWrite(c) \/ ConsentWrite(c) \/ RejectWrite(c) \/ PublishWrite(c)
           \/ \E consent \in BOOLEAN: AnswerRead(c, consent)
           \/ \E a \in DOMAIN answers:
                  \/ RejectRead(c, a) \/ PublishRead(c, a)
                  \/ \E consent \in BOOLEAN: ConsentRead(c, a, consent)
    \/ GuideMoves

Spec == Init /\ [][Next]_vars

(* What QaService.published answers.                                       *)
Public == IF active THEN {a \in DOMAIN answers: answers[a].state = "published"} ELSE {}

(***************************************************************************)
(* Properties                                                              *)
(***************************************************************************)

(* "Publication needs two independent yeses": what the public sees has the *)
(* guide's consent and a moderator's, unless the decision was made on a    *)
(* row that had changed (setConsent, moderate).                            *)
PublicHasTwoYeses == \A a \in Public: answers[a].consented /\ answers[a].moderated
PublicHasTwoYesesUnlessStale ==
    \A a \in Public \ stale: answers[a].consented /\ answers[a].moderated

(* "The question is public, the student who asked is not": no answer is    *)
(* public while the question names the student, stale decision or not.     *)
AskerStaysPrivate == askerKnown => Public = {}

(* What a moderator rejected or the guide withdrew does not come back      *)
(* (canPublishAnswer, setConsent), unless decided on a row that changed.   *)
Decided(a) == answers[a].state \in {"rejected", "withdrawn"}
DecidedStays ==
    [][\A a \in DOMAIN answers: Decided(a) => answers'[a].state \in {"rejected", "withdrawn"}]_answers
DecidedStaysStep ==
    \A a \in DOMAIN answers: Decided(a) /\ a \notin stale' =>
        answers'[a].state \in {"rejected", "withdrawn"}
DecidedStaysUnlessStale == [][DecidedStaysStep]_answers

(* "The guide changes their mind, in either direction": an answer that has *)
(* consent again is not withdrawn.                                         *)
ConsentedIsNotWithdrawn ==
    \A a \in DOMAIN answers: answers[a].consented => answers[a].state # "withdrawn"
=============================================================================
