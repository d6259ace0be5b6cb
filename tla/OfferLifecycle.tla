--------------------------- MODULE OfferLifecycle ---------------------------
(***************************************************************************)
(* One offer (a scholarship, a discount, a waiver) from its draft to the   *)
(* applications it is attached to: OffersService, OfferExpiryService,      *)
(* OfferIntegrityService and OfferLifecycleService.  The university edits  *)
(* and publishes it, Trust verifies it and checks it against its source,   *)
(* a sweep expires it, students attach it and answer.  Every handler reads *)
(* before it writes, and others run in between.  Of the notifications only *)
(* those of an expiry are kept; the others change nothing here.            *)
(***************************************************************************)
EXTENDS Naturals, FiniteSets, FiniteSetsExt

CONSTANTS
    Callers,        \* requests and jobs that can be in progress at once
    Applications,   \* applications the offer can be attached to
    Mixes,          \* bound: sets of handlers called in one behaviour
    CrashSteps,     \* the steps at which a process may die
    Windows,        \* when the validity windows may close
    MaxVersions,    \* bound: versions of the offer
    MaxTime         \* bound: the clock

OffersAssumption ==
    /\ MaxVersions \in Nat \ {0} /\ MaxTime \in Nat
    /\ Windows \subseteq Nat /\ Windows # {} /\ Applications # {}

VARIABLES
    versions,      \* the rows of the offer: version -> row
    attachments,   \* application -> what it holds of the offer
    told,          \* the notices of an expiry queued: <<application, version>>
    calls,         \* the handlers in progress
    now,
    mix,           \* the handlers called, fixed from the start
    signed,        \* versions Trust stands behind: signed, not revoked since (history)
    disputed,      \* versions with a mismatch case since they were signed (history)
    died           \* the steps a process died at (history)

vars == <<versions, attachments, told, calls, now, mix, signed, disputed, died>>

Operation == {"edit", "verify", "publish", "unpublish", "check", "sweep", "attach", "move"}
Step == {"idle", "edit_write", "verify_write", "publish_write", "unpublish_write",
         "check_pull", "check_case", "check_revoke",
         "sweep_pull", "sweep_notify", "sweep_expire",
         "attach_write", "move_write"}
MixesAssumption == Mixes \subseteq SUBSET Operation /\ CrashSteps \subseteq Step \ {"idle"}

Publication  == {"draft", "in_review", "published", "unpublished", "expired"}
Verification == {"unverified", "verified", "revoked"}
AttachmentState == {"none", "attached", "accepted", "declined", "expired", "realised", "superseded"}

(* complete: the fields the type of the offer needs are all there.  open:  *)
(* effectiveTo is null.  late: attached after the window had closed.       *)
Version == 1..MaxVersions
Time    == 0..MaxTime
Row == [publication: Publication, verification: Verification, complete: BOOLEAN,
        until: Windows, open: BOOLEAN]
Attachment == [state: AttachmentState, version: {0} \cup Version, late: BOOLEAN]
Call == [step: Step, version: {0} \cup Version, app: Applications, seen: AttachmentState,
         to: AttachmentState \cup Verification, todo: SUBSET Version]

NoAttachment == [state |-> "none", version |-> 0, late |-> FALSE]
IdleCall(a) == [step |-> "idle", version |-> 0, app |-> a, seen |-> "none", to |-> "none",
                todo |-> {}]
DraftSwapped(complete, until) ==
    [publication |-> "unverified", verification |-> "draft", complete |-> complete,
     until |-> until, open |-> TRUE]
Draft(complete, until) ==
    [publication |-> "draft", verification |-> "unverified", complete |-> complete,
     until |-> until, open |-> TRUE]

TypeOK ==
    /\ DOMAIN versions \subseteq Version
    /\ versions \in [DOMAIN versions -> Row]
    /\ attachments \in [Applications -> Attachment]
    /\ told \subseteq Applications \X Version
    /\ calls \in [Callers -> Call]
    /\ now \in Time /\ mix \in Mixes
    /\ signed \subseteq DOMAIN versions /\ disputed \subseteq DOMAIN versions
    /\ died \subseteq CrashSteps

AnyApplication == CHOOSE a \in Applications: TRUE
NoCall == IdleCall(AnyApplication)

(* createDraft has run: version 1 is a draft.                              *)
Init ==
    /\ \E complete \in BOOLEAN, until \in Windows: versions = [v \in {1} |-> Draft(complete, until)]
    /\ attachments = [a \in Applications |-> NoAttachment]
    /\ told = {} /\ signed = {} /\ disputed = {} /\ died = {}
    /\ calls = [c \in Callers |-> NoCall]
    /\ now = 0 /\ mix \in Mixes

At(c, step) == calls[c].step = step
V(c) == calls[c].version
Begin(c, op) == At(c, "idle") /\ op \in mix
Goto(c, step) == calls' = [calls EXCEPT ![c].step = step]
End(c) == calls' = [calls EXCEPT ![c] = NoCall]
Open(c, step, v) == calls' = [calls EXCEPT ![c] = [NoCall EXCEPT !.step = step, !.version = v]]

Live(row) == row.publication = "published" /\ row.verification = "verified" /\ row.until > now
Held == {"attached", "accepted"}
Holders(v) == {a \in Applications: attachments[a].version = v /\ attachments[a].state \in Held}
Tell(v) == told' = told \cup (Holders(v) \X {v})

Current(v) == v \in DOMAIN versions /\ versions[v].open

(***************************************************************************)
(* The university edits, and Trust verifies                                *)
(***************************************************************************)

EditRead(c, v) ==
    /\ Begin(c, "edit") /\ Current(v)
    /\ Cardinality(DOMAIN versions) < MaxVersions
    /\ Open(c, "edit_write", v)
    /\ UNCHANGED <<versions, attachments, told, now, mix, signed, disputed, died>>

(* One transaction closes the version read and opens the next, unverified; *)
(* of two editors the second finds it closed.                              *)
AlwaysOpen(v) == TRUE
StillOpen(v) == versions[v].open

NextVersion == Max(DOMAIN versions) + 1
EditWrite(c) ==
    /\ At(c, "edit_write")
    /\ IF StillOpen(V(c)) /\ NextVersion \in Version
       THEN \E complete \in BOOLEAN, until \in Windows:
                versions' = [v \in DOMAIN versions \cup {NextVersion} |->
                    IF v = NextVersion THEN Draft(complete, until)
                    ELSE [versions[v] EXCEPT !.open = @ /\ v # V(c)]]
       ELSE UNCHANGED versions
    /\ End(c)
    /\ UNCHANGED <<attachments, told, now, mix, signed, disputed, died>>

VerifyRead(c, v) ==
    /\ Begin(c, "verify") /\ Current(v)
    /\ \E decision \in {"verified", "unverified"}:
           calls' = [calls EXCEPT ![c] = [NoCall EXCEPT !.step = "verify_write", !.version = v,
                                                        !.to = decision]]
    /\ UNCHANGED <<versions, attachments, told, now, mix, signed, disputed, died>>

VerifyWrite(c) ==
    LET yes == calls[c].to = "verified" IN
    /\ At(c, "verify_write")
    /\ versions' = [versions EXCEPT
           ![V(c)].verification = calls[c].to,
           ![V(c)].publication = IF yes THEN "in_review" ELSE "draft"]
    /\ signed' = IF yes THEN signed \cup {V(c)} ELSE signed \ {V(c)}
    /\ disputed' = IF yes THEN disputed \ {V(c)} ELSE disputed
    /\ End(c)
    /\ UNCHANGED <<attachments, told, now, mix, died>>

(***************************************************************************)
(* Publishing and pulling                                                  *)
(***************************************************************************)

PublishRead(c, v) ==
    /\ Begin(c, "publish") /\ Current(v)
    /\ versions[v].complete /\ versions[v].verification = "verified" /\ versions[v].until > now
    /\ Open(c, "publish_write", v)
    /\ UNCHANGED <<versions, attachments, told, now, mix, signed, disputed, died>>

(* The CHECK constraint of the table: the write throws when the row the    *)
(* service validated has changed under it.                                 *)
AnyRow(row) == TRUE
Publishable(row) == row.complete /\ row.verification = "verified"

PublishWrite(c) ==
    /\ At(c, "publish_write")
    /\ versions' = IF Publishable(versions[V(c)])
                   THEN [versions EXCEPT ![V(c)].publication = "published"] ELSE versions
    /\ End(c)
    /\ UNCHANGED <<attachments, told, now, mix, signed, disputed, died>>

PullAnother(v, to) == versions' = [versions EXCEPT ![v].publication = IF @ = "in_review" THEN to ELSE @]
Pull(v, to) == versions' = [versions EXCEPT ![v].publication = IF @ = "published" THEN to ELSE @]

UnpublishRead(c, v) ==
    /\ Begin(c, "unpublish") /\ Current(v)
    /\ Open(c, "unpublish_write", v)
    /\ UNCHANGED <<versions, attachments, told, now, mix, signed, disputed, died>>

UnpublishWrite(c) ==
    /\ At(c, "unpublish_write")
    /\ Pull(V(c), "unpublished") /\ End(c)
    /\ UNCHANGED <<attachments, told, now, mix, signed, disputed, died>>
(***************************************************************************)
(* A check against the source.  One that matches writes only its date; one *)
(* that does not pulls the offer, opens a case, revokes, and tells.        *)
(***************************************************************************)

CheckRead(c, v) ==
    /\ Begin(c, "check") /\ Current(v)
    /\ Open(c, "check_pull", v)
    /\ UNCHANGED <<versions, attachments, told, now, mix, signed, disputed, died>>

CheckPull(c) ==
    /\ At(c, "check_pull")
    /\ Pull(V(c), "unpublished") /\ Goto(c, "check_case")
    /\ UNCHANGED <<attachments, told, now, mix, signed, disputed, died>>

CheckCase(c) ==
    /\ At(c, "check_case")
    /\ disputed' = disputed \cup {V(c)} /\ Goto(c, "check_revoke")
    /\ UNCHANGED <<versions, attachments, told, now, mix, signed, died>>

(* Revoking a row published again meanwhile breaks the constraint and      *)
(* throws: nobody is told, and the offer stays up.                         *)
CheckRevoke(c) ==
    LET revoked == [versions[V(c)] EXCEPT !.verification = "revoked"] IN
    /\ At(c, "check_revoke")
    /\ IF revoked.publication = "published" /\ ~Publishable(revoked)
       THEN UNCHANGED <<versions, signed>>
       ELSE /\ versions' = [versions EXCEPT ![V(c)] = revoked]
            /\ signed' = signed \ {V(c)}
    /\ End(c)
    /\ UNCHANGED <<attachments, told, now, mix, disputed, died>>

(***************************************************************************)
(* The expiry sweep                                                        *)
(***************************************************************************)

Lapsed == {v \in DOMAIN versions: versions[v].publication = "published" /\ versions[v].until <= now}
(* What the sweep does next, when todo are the versions it has left.       *)
SweepOn(c, todo) ==
    calls' = [calls EXCEPT ![c] = IF todo = {} THEN NoCall
                                  ELSE [NoCall EXCEPT !.step = "sweep_pull", !.todo = todo]]

SweepRead(c) ==
    /\ Begin(c, "sweep") /\ Lapsed # {}
    /\ SweepOn(c, Lapsed)
    /\ UNCHANGED <<versions, attachments, told, now, mix, signed, disputed, died>>

(* A version somebody else pulled is left as it is.                        *)
SweepPull(c) ==
    /\ At(c, "sweep_pull")
    /\ LET v == Min(calls[c].todo) IN
       /\ Pull(v, "expired")
       /\ IF versions[v].publication = "published"
          THEN calls' = [calls EXCEPT ![c].step = "sweep_notify", ![c].version = v]
          ELSE SweepOn(c, calls[c].todo \ {v})
    /\ UNCHANGED <<attachments, told, now, mix, signed, disputed, died>>

ExpireUnanswered(v) == attachments' = [a \in Applications |->
                 IF a \in Holders(v) /\ attachments[a].state = "attached"
                 THEN [attachments[a] EXCEPT !.state = "expired"] ELSE attachments[a]]
Expire(v) == attachments' = [a \in Applications |->
                 IF a \in Holders(v) THEN [attachments[a] EXCEPT !.state = "expired"]
                 ELSE attachments[a]]

(* Who holds the offer is told before the attachments expire, not after.   *)
SweepNotifyAfter(c) ==
    /\ At(c, "sweep_notify")
    /\ Expire(V(c)) /\ Goto(c, "sweep_expire")
    /\ UNCHANGED <<versions, told, now, mix, signed, disputed, died>>
SweepNotify(c) ==
    /\ At(c, "sweep_notify")
    /\ Tell(V(c)) /\ Goto(c, "sweep_expire")
    /\ UNCHANGED <<versions, attachments, now, mix, signed, disputed, died>>

SweepExpire(c) ==
    /\ At(c, "sweep_expire")
    /\ Expire(V(c)) /\ SweepOn(c, calls[c].todo \ {V(c)})
    /\ UNCHANGED <<versions, told, now, mix, signed, disputed, died>>

(***************************************************************************)
(* Attachments                                                             *)
(***************************************************************************)

Moves == [attached |-> {"accepted", "declined", "expired", "superseded"},
          accepted |-> {"realised", "declined", "expired"}]
CanTransitionAttachment(from, to) == from \in DOMAIN Moves /\ to \in Moves[from]

AttachRead(c, a, v) ==
    /\ Begin(c, "attach") /\ Current(v) /\ Live(versions[v])
    /\ calls' = [calls EXCEPT ![c] = [NoCall EXCEPT !.step = "attach_write", !.version = v,
                                                    !.app = a]]
    /\ UNCHANGED <<versions, attachments, told, now, mix, signed, disputed, died>>

(* One attachment of an offer to an application, by a unique index; that   *)
(* the offer is still live is not looked at again.                         *)
AttachWrite(c) ==
    LET a == calls[c].app IN
    /\ At(c, "attach_write")
    /\ attachments' = IF attachments[a].state # "none" THEN attachments
                      ELSE [attachments EXCEPT ![a] = [state |-> "attached", version |-> V(c),
                                                       late |-> versions[V(c)].until <= now]]
    /\ End(c)
    /\ UNCHANGED <<versions, told, now, mix, signed, disputed, died>>

(* The student answers, or the university reports the enrolment.           *)
MoveRead(c, a, to) ==
    /\ Begin(c, "move")
    /\ CanTransitionAttachment(attachments[a].state, to)
    /\ calls' = [calls EXCEPT ![c] = [NoCall EXCEPT !.step = "move_write", !.app = a, !.to = to,
                                                    !.seen = attachments[a].state]]
    /\ UNCHANGED <<versions, attachments, told, now, mix, signed, disputed, died>>

Unmoved(c) == attachments[calls[c].app].state = calls[c].seen
MoveWrite(c) ==
    /\ At(c, "move_write")
    /\ attachments' = IF Unmoved(c)
                      THEN [attachments EXCEPT ![calls[c].app].state = calls[c].to]
                      ELSE attachments
    /\ End(c)
    /\ UNCHANGED <<versions, told, now, mix, signed, disputed, died>>

(***************************************************************************)
(* Time passes, a process dies                                             *)
(***************************************************************************)

Tick ==
    /\ now < MaxTime
    /\ now' = now + 1
    /\ UNCHANGED <<versions, attachments, told, calls, mix, signed, disputed, died>>

Dies(c) ==
    /\ calls[c].step \in CrashSteps \ died
    /\ died' = died \cup {calls[c].step}
    /\ End(c)
    /\ UNCHANGED <<versions, attachments, told, now, mix, signed, disputed>>

SweepStep(c) == SweepPull(c) \/ SweepNotify(c) \/ SweepExpire(c)

Next ==
    \/ \E c \in Callers, v \in DOMAIN versions:
           \/ EditRead(c, v) \/ VerifyRead(c, v) \/ PublishRead(c, v)
           \/ UnpublishRead(c, v) \/ CheckRead(c, v)
           \/ \E a \in Applications: AttachRead(c, a, v)
    \/ \E c \in Callers:
           \/ EditWrite(c) \/ VerifyWrite(c) \/ PublishWrite(c) \/ UnpublishWrite(c)
           \/ CheckPull(c) \/ CheckCase(c) \/ CheckRevoke(c)
           \/ SweepRead(c) \/ SweepStep(c)
           \/ AttachWrite(c) \/ MoveWrite(c) \/ Dies(c)
           \/ \E a \in Applications, to \in {"accepted", "declined", "realised"}: MoveRead(c, a, to)
    \/ Tick

Spec == Init /\ [][Next]_vars

(* A sweep that has started goes on; nothing in the code starts one.       *)
Fairness == \A c \in Callers: WF_vars(SweepStep(c))
FairSpec == Spec /\ Fairness

(***************************************************************************)
(* Properties                                                              *)
(***************************************************************************)

(* Two concurrent edits never leave two current versions, or none (the     *)
(* compare-and-set in OffersService.supersede).                            *)
OneCurrentVersion == \E v \in DOMAIN versions: \A w \in DOMAIN versions: Current(w) <=> w = v

(* However publishing, verifying and checking interleave, a version that   *)
(* is published is one Trust signed and has not revoked since (the gate of *)
(* OffersService.publish and the offers_publishable constraint).           *)
PublishedIsSigned ==
    \A v \in DOMAIN versions:
        versions[v].publication = "published" => v \in signed /\ versions[v].complete

(* Whatever a student, the university and the sweep do to one attachment   *)
(* at the same time, it moves along the table, so an outcome is final and  *)
(* only an accepted award is realised (OfferLifecycleService.transition).  *)
AttachmentStep ==
    \A a \in Applications:
        LET from == attachments[a].state  to == attachments'[a].state
        IN  from \notin {"none", to} => CanTransitionAttachment(from, to)
AttachmentsFollowTable == [][AttachmentStep]_attachments

OnSweep(v) == \E c \in Callers: calls[c].step \in {"sweep_notify", "sweep_expire"} /\ V(c) = v

(* Once the sweep is done with a version, every attachment of it made in   *)
(* time is settled, unless the sweep died halfway                          *)
(* (OfferExpiryService.sweep).                                             *)
ExpiredIsSettled ==
    died = {} =>
        \A v \in DOMAIN versions: versions[v].publication = "expired" /\ ~OnSweep(v) =>
            \A a \in Holders(v): attachments[a].late

(* The same of every attachment, as the comment of the sweep has it.       *)
ExpiredIsSettledAlways ==
    died = {} =>
        \A v \in DOMAIN versions: versions[v].publication = "expired" /\ ~OnSweep(v) =>
            Holders(v) = {}

(* And of a sweep that is run again after it died ("a replayed job").      *)
ExpiredIsSettledByReplay ==
    \A v \in DOMAIN versions:
        /\ versions[v].publication = "expired"
        /\ \A c \in Callers: At(c, "idle")
        => \A a \in Holders(v): attachments[a].late

(* Nobody whose award lapsed was left untold: whoever held it in time when *)
(* it expired has a notice of that version (the order of the writes of     *)
(* OfferExpiryService.sweep).                                              *)
ExpiredWasTold ==
    \A a \in Applications:
        attachments[a].state = "expired" /\ ~attachments[a].late =>
            <<a, attachments[a].version>> \in told

(* A version pulled on a mismatch is not published again before Trust has  *)
(* looked at it (OfferIntegrityService.recordSourceCheck).                 *)
MismatchStaysDown ==
    \A v \in disputed: versions[v].publication # "published"

(* A version the sweep found leaves publication, unless the sweep dies.    *)
FoundLapsed(v) == \E c \in Callers: At(c, "sweep_pull") /\ v \in calls[c].todo
Pulled(v) == v \notin DOMAIN versions \/ versions[v].publication # "published" \/ died # {}
LapsedIsPulled == \A v \in Version: FoundLapsed(v) ~> Pulled(v)
=============================================================================
