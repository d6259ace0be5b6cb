------------------------------- MODULE SignIn -------------------------------
(***************************************************************************)
(* One account and its sessions (AuthService, SessionResolver, the guards, *)
(* and the sign-in pages of the web application): signing in, rotating     *)
(* refresh tokens, enrolling an authenticator, the challenge, step-up, and *)
(* the suspension of the account (SanctionsService).  A session stands for *)
(* its refresh token and the access tokens made out for it.                *)
(***************************************************************************)
EXTENDS Integers, Sequences, FiniteSets

CONSTANTS
    Clients,        \* browsers and devices of the person
    None,           \* a time that is not set
    Ttl,            \* minutes a step-up lasts
    Mixes,          \* the operations of a behaviour
    MaxSessions, MaxSecrets, MaxSuspensions, MaxTime      \* bounds

SignInAssumption ==
    /\ {Ttl, MaxSessions, MaxSecrets, MaxSuspensions, MaxTime} \subseteq Nat
    /\ MaxSecrets > 0 /\ None \notin Nat

VARIABLES
    account,        \* the user row
    phone,          \* secrets in the authenticator of the person
    sessions,       \* session rows, in the order they were made
    calls,          \* what each client waits for
    held,           \* the session whose token each client holds, 0 if none
    shown,          \* the secret on the page of each client, 0 if none
    staff,          \* a suspension between its two writes
    now, mix,
    past            \* what happened (history)

vars == <<account, phone, sessions, calls, held, shown, staff, now, mix, past>>

Numbers == 1..MaxSessions
Secrets == 1..MaxSecrets
Time == 0..MaxTime
Account == [isStaff: BOOLEAN, active: BOOLEAN, secret: 0..MaxSecrets, enrolled: BOOLEAN,
            suspensions: 0..MaxSuspensions]
Session == [family: Numbers, parent: 0..MaxSessions, revoked: BOOLEAN, expired: BOOLEAN,
            mfa: BOOLEAN, stepUp: Time \cup {None}, era: 0..MaxSuspensions]
Steps == {"idle", "consume", "issue", "seal", "enrolled", "find", "upgrade", "stamp"}

(* A call: its step, the session it is about, whether that had cleared the *)
(* second factor, and how many suspensions there were when it looked.      *)
Call == [step: Steps, session: 0..MaxSessions, mfa: BOOLEAN, era: 0..MaxSuspensions]
NoCall == [step |-> "idle", session |-> 0, mfa |-> FALSE, era |-> 0]

(* The sessions on which the second factor was answered, when step-up was  *)
(* last answered on each, the last thing done under step-up (session and   *)
(* time), the families ended because a token came twice, and overlaps.     *)
Past == [challenged: SUBSET Numbers, answered: [Numbers -> Time \cup {None}],
         act: (0..MaxSessions) \X Time, ended: SUBSET Numbers,
         oddities: SUBSET {"enrolment", "late issue", "half suspended"}]

TypeOK ==
    /\ account \in Account
    /\ phone \subseteq Secrets
    /\ sessions \in Seq(Session) /\ Len(sessions) \in 0..MaxSessions
    /\ calls \in [Clients -> Call]
    /\ held \in [Clients -> 0..MaxSessions] /\ shown \in [Clients -> 0..MaxSecrets]
    /\ staff \in {"idle", "sessions"} /\ now \in Time /\ mix \in Mixes
    /\ past \in Past

(* A student, a member of staff provisioned without an authenticator, and  *)
(* one whose authenticator is enrolled.                                    *)
Init ==
    /\ account \in {[isStaff |-> s, active |-> TRUE, secret |-> IF e THEN 1 ELSE 0,
                     enrolled |-> e, suspensions |-> 0] : s \in BOOLEAN, e \in BOOLEAN}
    /\ phone = IF account.enrolled THEN {1} ELSE {}
    /\ sessions = <<>>
    /\ calls = [c \in Clients |-> NoCall]
    /\ held = [c \in Clients |-> 0] /\ shown = [c \in Clients |-> 0]
    /\ staff = "idle" /\ now = 0 /\ mix \in Mixes
    /\ past = [challenged |-> {}, answered |-> [s \in Numbers |-> None], act |-> <<0, 0>>,
               ended |-> {}, oddities |-> {}]

At(c, step) == calls[c].step = step
Hold(c, step, s, mfa) ==
    calls' = [calls EXCEPT ![c] = [step |-> step, session |-> s, mfa |-> mfa,
                                   era |-> account.suspensions]]
Goto(c, step) == calls' = [calls EXCEPT ![c].step = step]
End(c) == calls' = [calls EXCEPT ![c] = NoCall]
Starts(c, operation) == At(c, "idle") /\ operation \in mix
InFlight(steps) == {c \in Clients : calls[c].step \in steps}
Odd(name, condition) == past' = [past EXCEPT !.oddities = IF condition THEN @ \cup {name} ELSE @]

(***************************************************************************)
(* What a request is let through with                                      *)
(***************************************************************************)

RequiresMfa == account.isStaff
Live(s) == s # 0 /\ ~sessions[s].revoked /\ ~sessions[s].expired

(* SessionResolver: the row of the session, then that of the account.      *)
Resolves(s) == Live(s) /\ account.active

(* AuthGuard, except on the routes that clear the second factor.           *)
PassesUnchallenged(s) == Resolves(s)
Passes(s) == Resolves(s) /\ (RequiresMfa => sessions[s].mfa)

EverFresh(s) == sessions[s].stepUp # None
IsStepUpFresh(s) ==
    sessions[s].stepUp # None /\ sessions[s].stepUp <= now /\ now - sessions[s].stepUp <= Ttl

(* The person reads the code off the phone, of the secret the row holds.   *)
CodeVerifies == account.secret \in phone
MayAnswer(s) == account.secret # 0 /\ account.enrolled /\ CodeVerifies

(***************************************************************************)
(* Signing in and rotation                                                 *)
(***************************************************************************)

(* A staff account without an authenticator is refused here.               *)
LoginAllowed == account.active /\ (RequiresMfa => account.enrolled)
Login(c) ==
    /\ Starts(c, "login") /\ LoginAllowed
    /\ Hold(c, "issue", 0, ~RequiresMfa)
    /\ UNCHANGED <<account, phone, sessions, held, shown, staff, now, mix, past>>

OneOfTheFamily(s) == {s}
Family(s) == {k \in DOMAIN sessions : sessions[k].family = sessions[s].family}
Revoked(rows) == [s \in DOMAIN sessions |->
    IF s \in rows THEN [sessions[s] EXCEPT !.revoked = TRUE] ELSE sessions[s]]

(* A token that was used before ends the family of its session.            *)
RefreshReused(c, s) ==
    /\ Starts(c, "refresh") /\ s \in DOMAIN sessions /\ sessions[s].revoked
    /\ sessions' = Revoked(Family(s))
    /\ past' = [past EXCEPT !.ended = @ \cup {sessions[s].family}]
    /\ UNCHANGED <<account, phone, calls, held, shown, staff, now, mix>>

RefreshReads(c, s) ==
    /\ Starts(c, "refresh") /\ s \in DOMAIN sessions /\ Live(s) /\ account.active
    /\ Hold(c, "consume", s, sessions[s].mfa)
    /\ UNCHANGED <<account, phone, sessions, held, shown, staff, now, mix, past>>

NotConsumed(c) == UNCHANGED sessions /\ Goto(c, "issue")
Consume(c) == sessions' = Revoked({calls[c].session}) /\ Goto(c, "issue")
RefreshConsumes(c) ==
    /\ At(c, "consume")
    /\ Consume(c)
    /\ UNCHANGED <<account, phone, held, shown, staff, now, mix, past>>

(* issueSession: the new row, in the family of its parent if it has one,   *)
(* never stepped up.  The answer may be lost.  Late: the family was ended, *)
(* or the account suspended, since the call looked.                        *)
Issued(c) ==
    LET parent == calls[c].session IN
    [family |-> IF parent = 0 THEN Len(sessions) + 1 ELSE sessions[parent].family,
     parent |-> parent, revoked |-> FALSE, expired |-> FALSE, mfa |-> calls[c].mfa,
     stepUp |-> None, era |-> calls[c].era]
IssueSession(c) ==
    LET s == Len(sessions) + 1 IN
    /\ At(c, "issue") /\ s \in Numbers
    /\ sessions' = Append(sessions, Issued(c))
    /\ \E arrives \in BOOLEAN: held' = [held EXCEPT ![c] = IF arrives THEN s ELSE @]
    /\ Odd("late issue", calls[c].era # account.suspensions \/ Issued(c).family \in past.ended)
    /\ End(c)
    /\ UNCHANGED <<account, phone, shown, staff, now, mix>>

RevokeSession(c, s) ==
    /\ Starts(c, "revoke") /\ Passes(held[c]) /\ s \in DOMAIN sessions /\ ~sessions[s].revoked
    /\ sessions' = Revoked({s})
    /\ UNCHANGED <<account, phone, calls, held, shown, staff, now, mix, past>>

(* Signing out of the web application, or its cookie running out, takes    *)
(* the token from the browser and does not reach the API.                  *)
SignOut(c) ==
    /\ Starts(c, "sign out") /\ held[c] # 0
    /\ held' = [held EXCEPT ![c] = 0] /\ shown' = [shown EXCEPT ![c] = 0]
    /\ UNCHANGED <<account, phone, sessions, calls, staff, now, mix, past>>

(***************************************************************************)
(* Enrolling an authenticator                                              *)
(***************************************************************************)

EnrolsAgain(c) == TRUE
NotEnrolled(c) == ~account.enrolled
BeginReads(c) ==
    /\ Starts(c, "enrol") /\ PassesUnchallenged(held[c]) /\ NotEnrolled(c)
    /\ Hold(c, "seal", held[c], FALSE)
    /\ UNCHANGED <<account, phone, sessions, held, shown, staff, now, mix, past>>

(* A new secret is sealed into the row and shown once.  Two of these, or   *)
(* one of these and a confirmation, may overlap.                           *)
BeginWrites(c) ==
    /\ At(c, "seal") /\ account.secret + 1 \in Secrets
    /\ account' = [account EXCEPT !.secret = @ + 1]
    /\ shown' = [shown EXCEPT ![c] = account.secret + 1]
    /\ End(c)
    /\ Odd("enrolment", InFlight({"enrolled"}) # {})
    /\ UNCHANGED <<phone, sessions, held, staff, now, mix>>

(* The person types what the page shows into the authenticator.            *)
Scan(c) ==
    /\ Starts(c, "enrol") /\ shown[c] # 0 /\ shown[c] \notin phone
    /\ phone' = phone \cup {shown[c]}
    /\ UNCHANGED <<account, sessions, calls, held, shown, staff, now, mix, past>>

Reload(c) ==
    /\ Starts(c, "enrol") /\ shown[c] # 0
    /\ shown' = [shown EXCEPT ![c] = 0]
    /\ UNCHANGED <<account, phone, sessions, calls, held, staff, now, mix, past>>

AnyCode == TRUE
ConfirmVerifies == account.secret # 0 /\ CodeVerifies
ConfirmReads(c) ==
    /\ Starts(c, "enrol") /\ PassesUnchallenged(held[c]) /\ ConfirmVerifies
    /\ Hold(c, "enrolled", held[c], FALSE)
    /\ UNCHANGED <<account, phone, sessions, held, shown, staff, now, mix, past>>

ConfirmWrites(c) ==
    /\ At(c, "enrolled")
    /\ account' = [account EXCEPT !.enrolled = TRUE]
    /\ End(c)
    /\ Odd("enrolment", InFlight({"seal"}) # {})
    /\ UNCHANGED <<phone, sessions, held, shown, staff, now, mix>>

(***************************************************************************)
(* The challenge and step-up                                               *)
(***************************************************************************)

ChallengeReads(c) ==
    /\ Starts(c, "challenge") /\ PassesUnchallenged(held[c]) /\ MayAnswer(held[c])
    /\ Hold(c, "find", held[c], FALSE)
    /\ UNCHANGED <<account, phone, sessions, held, shown, staff, now, mix, past>>

(* satisfyMfa looks whether the session was revoked, then writes.          *)
ChallengeFinds(c) ==
    /\ At(c, "find")
    /\ IF sessions[calls[c].session].revoked THEN End(c) ELSE Goto(c, "upgrade")
    /\ UNCHANGED <<account, phone, sessions, held, shown, staff, now, mix, past>>

ChallengeUpgrades(c) ==
    LET s == calls[c].session IN
    /\ At(c, "upgrade")
    /\ sessions' = [sessions EXCEPT ![s].mfa = TRUE]
    /\ past' = [past EXCEPT !.challenged = @ \cup {s}]
    /\ End(c)
    /\ UNCHANGED <<account, phone, held, shown, staff, now, mix>>

StepUpReads(c) ==
    /\ Starts(c, "step up") /\ Passes(held[c]) /\ MayAnswer(held[c])
    /\ Hold(c, "stamp", held[c], FALSE)
    /\ UNCHANGED <<account, phone, sessions, held, shown, staff, now, mix, past>>

StampAll(s) == [k \in DOMAIN sessions |->
    IF sessions[k].revoked THEN sessions[k] ELSE [sessions[k] EXCEPT !.stepUp = now]]
Stamp(s) == [sessions EXCEPT ![s].stepUp = now]
StepUpStamps(c) ==
    LET s == calls[c].session IN
    /\ At(c, "stamp") /\ ~sessions[s].revoked
    /\ sessions' = Stamp(s)
    /\ past' = [past EXCEPT !.answered[s] = now]
    /\ End(c)
    /\ UNCHANGED <<account, phone, held, shown, staff, now, mix>>

StepUpRefused(c) ==
    /\ At(c, "stamp") /\ sessions[calls[c].session].revoked
    /\ End(c)
    /\ UNCHANGED <<account, phone, sessions, held, shown, staff, now, mix, past>>

(* What a console page of the web application renders; readSession has     *)
(* only one answer for every refusal.                                      *)
LoadConsole(s) ==
    IF ~Passes(s) THEN "signed_out" ELSE IF ~IsStepUpFresh(s) THEN "step_up_required" ELSE "ready"

(* A route behind @RequireStepUp, from a console that is shown.            *)
ActElevated(c) ==
    /\ Starts(c, "step up") /\ LoadConsole(held[c]) = "ready"
    /\ past' = [past EXCEPT !.act = <<held[c], now>>]
    /\ UNCHANGED <<account, phone, sessions, calls, held, shown, staff, now, mix>>

(***************************************************************************)
(* Suspension, its end, time and crashes                                   *)
(***************************************************************************)

SuspendAccount ==
    /\ "suspend" \in mix /\ staff = "idle" /\ account.suspensions < MaxSuspensions
    /\ account' = [account EXCEPT !.active = FALSE, !.suspensions = @ + 1]
    /\ staff' = "sessions"
    /\ UNCHANGED <<phone, sessions, calls, held, shown, now, mix, past>>

NoSessions == {}
EverySession == DOMAIN sessions
SuspendSessions ==
    /\ staff = "sessions"
    /\ sessions' = Revoked(EverySession)
    /\ staff' = "idle"
    /\ UNCHANGED <<account, phone, calls, held, shown, now, mix, past>>

SuspendDies ==
    /\ staff = "sessions"
    /\ staff' = "idle" /\ Odd("half suspended", TRUE)
    /\ UNCHANGED <<account, phone, sessions, calls, held, shown, now, mix>>

LiftSuspension ==
    /\ "suspend" \in mix /\ staff = "idle" /\ ~account.active
    /\ account' = [account EXCEPT !.active = TRUE]
    /\ UNCHANGED <<phone, sessions, calls, held, shown, staff, now, mix, past>>

Die(c) ==
    /\ calls[c].step \in {"issue", "seal", "upgrade"} /\ End(c)
    /\ UNCHANGED <<account, phone, sessions, held, shown, staff, now, mix, past>>

Expire(s) ==
    /\ "expire" \in mix /\ s \in DOMAIN sessions /\ ~sessions[s].expired
    /\ sessions' = [sessions EXCEPT ![s].expired = TRUE]
    /\ UNCHANGED <<account, phone, calls, held, shown, staff, now, mix, past>>

Tick ==
    /\ "step up" \in mix /\ now < MaxTime /\ now' = now + 1
    /\ UNCHANGED <<account, phone, sessions, calls, held, shown, staff, mix, past>>

Next ==
    \/ \E c \in Clients:
        \/ Login(c) \/ RefreshConsumes(c) \/ IssueSession(c) \/ SignOut(c)
        \/ BeginReads(c) \/ BeginWrites(c) \/ Scan(c) \/ Reload(c)
        \/ ConfirmReads(c) \/ ConfirmWrites(c)
        \/ ChallengeReads(c) \/ ChallengeFinds(c) \/ ChallengeUpgrades(c)
        \/ StepUpReads(c) \/ StepUpStamps(c) \/ StepUpRefused(c) \/ ActElevated(c) \/ Die(c)
        \/ \E s \in Numbers: RefreshReused(c, s) \/ RefreshReads(c, s) \/ RevokeSession(c, s)
    \/ SuspendAccount \/ SuspendSessions \/ SuspendDies \/ LiftSuspension \/ Tick
    \/ \E s \in Numbers: Expire(s)

Spec == Init /\ [][Next]_vars

(***************************************************************************)
(* Properties                                                              *)
(***************************************************************************)

(* An account marked enrolled holds a secret that is in the authenticator; *)
(* otherwise nobody can answer its challenge (beginMfaEnrolment).          *)
EnrolledIsOnThePhone == account.enrolled => CodeVerifies

(* That holds unless a confirmation and a new secret crossed.              *)
EnrolledIsOnThePhoneUnlessCrossed == "enrolment" \in past.oddities \/ EnrolledIsOnThePhone

(* Rotation: of the sessions of a family, one is live (refresh).           *)
LiveOf(f) == {s \in DOMAIN sessions : sessions[s].family = f /\ ~sessions[s].revoked}
OneLivePerFamily == \A f \in Numbers: Cardinality(LiveOf(f)) <= 1

(* That holds unless two requests used one token at the same time.         *)
Doubled(f) == \E s, k \in DOMAIN sessions:
    s # k /\ sessions[s].family = f /\ sessions[s].parent # 0 /\ sessions[s].parent = sessions[k].parent
OneLivePerFamilyUnlessDoubled ==
    \A f \in Numbers: Doubled(f) \/ Cardinality(LiveOf(f)) <= 1

(* A family in which a token came twice is over: neither holder continues. *)
EndedIsOver == \A f \in past.ended: LiveOf(f) = {}

(* That holds unless a rotation was between its read and its new row.      *)
EndedIsOverUnlessLate == "late issue" \in past.oddities \/ EndedIsOver

(* No session from before a suspension works after it was lifted           *)
(* (SanctionsService: "Every session, not just the current one").          *)
SuspensionEndsSessions ==
    \A s \in DOMAIN sessions: Passes(s) => sessions[s].era = account.suspensions

(* That holds unless the sanction was left half done, or a sign-in or      *)
(* rotation that had looked before it made its row afterwards.             *)
SuspensionEndsSessionsUnlessCut ==
    {"late issue", "half suspended"} \cap past.oddities # {} \/ SuspensionEndsSessions

(* What is done behind step-up is done by a session on which step-up was   *)
(* answered within its time, and for staff by one that descends from a     *)
(* challenged session: rotation carries the challenge and not the step-up. *)
Line[s \in 0..MaxSessions] == IF s = 0 THEN {} ELSE {s} \cup Line[sessions[s].parent]
ActsAreElevated ==
    past.act[1] # 0 =>
        /\ past.answered[past.act[1]] # None
        /\ past.answered[past.act[1]] >= past.act[2] - Ttl
        /\ RequiresMfa => Line[past.act[1]] \cap past.challenged # {}

(* A new member of staff can get to the routes that enrol an authenticator *)
(* (AuthController: "would otherwise be unable to reach the route").       *)
NewStaffCanEnrol == account.active => LoginAllowed

(* A browser that has signed out leaves no session behind it.              *)
SignedOutIsRevoked ==
    \A s \in DOMAIN sessions: Passes(s) => s \in {held[c] : c \in Clients}

(* A session that waits for its second factor is sent to the challenge     *)
(* (loadConsole: "mfa_required: send them to the challenge").              *)
PendingIsChallenged ==
    \A c \in Clients:
        (PassesUnchallenged(held[c]) /\ ~Passes(held[c])) => LoadConsole(held[c]) = "mfa_required"

(* A second factor that was answered gives a session that can be used.     *)
AnsweredIsUsable ==
    \A c \in Clients: At(c, "upgrade") => Live(calls[c].session)
=============================================================================
