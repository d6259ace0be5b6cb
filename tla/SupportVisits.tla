---------------------------- MODULE SupportVisits ----------------------------
(***************************************************************************)
(* Visits of an operator to a subject's account (ImpersonationService):    *)
(* started in four writes, ended by the operator or by the sweep of what   *)
(* has expired, and looked up again at every request (SessionResolver).    *)
(* A trigger lets a grant be closed once and otherwise never change.       *)
(***************************************************************************)
EXTENDS Integers, Sequences, FiniteSets

CONSTANTS
    Callers,        \* requests that can be in progress at once
    Operators,      \* members of the operations team
    Nobody,         \* no operator
    None,           \* a time that is not set
    Window,         \* length of a visit
    MaxVisits, MaxDeaths, MaxTime      \* bounds

VisitsAssumption ==
    /\ {Window, MaxVisits, MaxDeaths, MaxTime} \subseteq Nat
    /\ Nobody \notin Operators /\ None \notin 0..MaxTime

VARIABLES
    consent,        \* the subject's support_access consent is in force
    grants,         \* impersonation_grants
    sessions,       \* the session made for each grant, if it was
    events,         \* audit events of each grant
    calls, sweep, now,
    deaths, spoilt  \* deaths so far, and the grants something happened to (history)

vars == <<consent, grants, sessions, events, calls, sweep, now, deaths, spoilt>>

Time == 0..MaxTime
Numbers == 1..MaxVisits
Grant == [operator: Operators, expires: 0..(MaxTime + Window), ended: Time \cup {None}]
SessionState == {"none", "live", "revoked"}
Event == {"started", "ended", "expired"}

(* A call in progress: its step, operator and grant, and how many grants   *)
(* there were when it looked.                                              *)
Call == [step: {"idle", "grant", "session", "token", "close", "record"},
         operator: Operators \cup {Nobody}, grant: 0..MaxVisits, seen: 0..MaxVisits]
NoCall == [step |-> "idle", operator |-> Nobody, grant |-> 0, seen |-> 0]

(* The grants the sweep has yet to close, and the one it has to record.    *)
Sweep == [began: Time, left: SUBSET Numbers, record: 0..MaxVisits]
NoSweep == [began |-> 0, left |-> {}, record |-> 0]

TypeOK ==
    /\ consent \in BOOLEAN
    /\ grants \in Seq(Grant)
    /\ sessions \in [Numbers -> SessionState]
    /\ events \in [Numbers -> [Event -> 0..2]]
    /\ calls \in [Callers -> Call]
    /\ sweep \in Sweep
    /\ now \in Time /\ deaths \in 0..MaxDeaths /\ spoilt \subseteq Numbers

Init ==
    /\ consent = TRUE /\ grants = <<>>
    /\ sessions = [g \in Numbers |-> "none"]
    /\ events = [g \in Numbers |-> [e \in Event |-> 0]]
    /\ calls = [c \in Callers |-> NoCall] /\ sweep = NoSweep
    /\ now = 0 /\ deaths = 0 /\ spoilt = {}

At(c, step) == calls[c].step = step
Hold(c, call) == calls' = [calls EXCEPT ![c] = call]
Goto(c, step) == calls' = [calls EXCEPT ![c].step = step]
End(c) == Hold(c, NoCall)

IsImpersonationActive(grant) == grant.ended = None /\ now < grant.expires
Unrecorded(g, e) == events' = events
Happened(g, e) == events' = [events EXCEPT ![g][e] = @ + 1]

(***************************************************************************)
(* Starting a visit                                                        *)
(***************************************************************************)

NobodyIsThere == \A g \in DOMAIN grants: ~IsImpersonationActive(grants[g])

AnyTime == TRUE
MayStart == consent /\ NobodyIsThere

StartRead(c, o) ==
    /\ At(c, "idle") /\ MayStart
    /\ Hold(c, [NoCall EXCEPT !.step = "grant", !.operator = o, !.seen = Len(grants)])
    /\ UNCHANGED <<consent, grants, sessions, events, sweep, now, deaths, spoilt>>

(* Spoilt: another one was started since this call looked.                 *)
StartGrant(c) ==
    LET g == Len(grants) + 1 IN
    /\ At(c, "grant") /\ g \in Numbers
    /\ grants' = Append(grants, [operator |-> calls[c].operator, expires |-> now + Window, ended |-> None])
    /\ spoilt' = IF Len(grants) = calls[c].seen THEN spoilt ELSE spoilt \cup {g}
    /\ Hold(c, [calls[c] EXCEPT !.step = "session", !.grant = g])
    /\ UNCHANGED <<consent, sessions, events, sweep, now, deaths>>

StartSession(c) ==
    LET g == calls[c].grant IN
    /\ At(c, "session")
    /\ sessions' = [sessions EXCEPT ![g] = "live"]
    /\ spoilt' = IF grants[g].ended = None THEN spoilt ELSE spoilt \cup {g}
    /\ Goto(c, "token")
    /\ UNCHANGED <<consent, grants, events, sweep, now, deaths>>

(* The event is written, and the token handed over.                        *)
StartRecord(c) ==
    /\ At(c, "token")
    /\ Happened(calls[c].grant, "started")
    /\ End(c)
    /\ UNCHANGED <<consent, grants, sessions, sweep, now, deaths, spoilt>>

(***************************************************************************)
(* Ending a visit                                                          *)
(***************************************************************************)

(* The trigger refuses another endedAt for a grant that has one.           *)
NoTrigger(g, at) == TRUE
Closable(g, at) == grants[g].ended \in {None, at}

Leave(state) == state
Revoked(state) == IF state = "live" THEN "revoked" ELSE state

Close(g, at) ==
    /\ grants' = [grants EXCEPT ![g].ended = at]
    /\ sessions' = [sessions EXCEPT ![g] = Revoked(@)]

EndRead(c, g) ==
    /\ At(c, "idle") /\ grants[g].ended = None
    /\ Hold(c, [NoCall EXCEPT !.step = "close", !.grant = g])
    /\ UNCHANGED <<consent, grants, sessions, events, sweep, now, deaths, spoilt>>

EndClose(c) ==
    LET g == calls[c].grant IN
    /\ At(c, "close")
    /\ IF Closable(g, now) THEN Close(g, now) /\ Goto(c, "record")
       ELSE End(c) /\ UNCHANGED <<grants, sessions>>
    /\ UNCHANGED <<consent, events, sweep, now, deaths, spoilt>>

(* Within a millisecond of each other the two that close it both record.   *)
EndRecord(c) ==
    /\ At(c, "record")
    /\ events[calls[c].grant]["ended"] < 2
    /\ Happened(calls[c].grant, "ended")
    /\ End(c)
    /\ UNCHANGED <<consent, grants, sessions, sweep, now, deaths, spoilt>>

Expired(g) == grants[g].ended = None /\ grants[g].expires <= now

SweepRead ==
    /\ sweep = NoSweep /\ \E g \in DOMAIN grants: Expired(g)
    /\ sweep' = [began |-> now, left |-> {g \in DOMAIN grants: Expired(g)}, record |-> 0]
    /\ UNCHANGED <<consent, grants, sessions, events, calls, now, deaths, spoilt>>

(* The first grant that cannot be closed ends the sweep.                   *)
SweepClose(g) ==
    /\ sweep.record = 0 /\ g \in sweep.left
    /\ IF Closable(g, sweep.began)
       THEN /\ Close(g, sweep.began)
            /\ sweep' = [sweep EXCEPT !.left = @ \ {g}, !.record = g]
       ELSE sweep' = NoSweep /\ UNCHANGED <<grants, sessions>>
    /\ UNCHANGED <<consent, events, calls, now, deaths, spoilt>>

(* With the end event written it goes on to the next one it has found.     *)
AfterOne == NoSweep
Onward == IF sweep.left = {} THEN NoSweep ELSE [sweep EXCEPT !.record = 0]

SweepRecord ==
    /\ sweep.record # 0
    /\ Happened(sweep.record, "expired")
    /\ sweep' = Onward
    /\ UNCHANGED <<consent, grants, sessions, calls, now, deaths, spoilt>>

(***************************************************************************)
(* The subject, and the world                                              *)
(***************************************************************************)

WithdrawConsent ==
    /\ consent /\ consent' = FALSE
    /\ UNCHANGED <<grants, sessions, events, calls, sweep, now, deaths, spoilt>>

(* From the device list.                                                   *)
RevokeSession(g) ==
    /\ sessions[g] = "live" /\ sessions' = [sessions EXCEPT ![g] = "revoked"]
    /\ UNCHANGED <<consent, grants, events, calls, sweep, now, deaths, spoilt>>

CallDies(c) ==
    /\ ~At(c, "idle") /\ deaths < MaxDeaths
    /\ deaths' = deaths + 1
    /\ spoilt' = IF calls[c].grant = 0 THEN spoilt ELSE spoilt \cup {calls[c].grant}
    /\ End(c)
    /\ UNCHANGED <<consent, grants, sessions, events, sweep, now>>

SweepDies ==
    /\ sweep # NoSweep /\ deaths < MaxDeaths
    /\ deaths' = deaths + 1
    /\ spoilt' = IF sweep.record = 0 THEN spoilt ELSE spoilt \cup {sweep.record}
    /\ sweep' = NoSweep
    /\ UNCHANGED <<consent, grants, sessions, events, calls, now>>

Tick ==
    /\ now < MaxTime /\ now' = now + 1
    /\ UNCHANGED <<consent, grants, sessions, events, calls, sweep, deaths, spoilt>>

SweepStep == SweepRecord \/ \E g \in Numbers: SweepClose(g)

Next ==
    \/ \E c \in Callers:
        \/ \E o \in Operators: StartRead(c, o)
        \/ StartGrant(c) \/ StartSession(c) \/ StartRecord(c)
        \/ \E g \in DOMAIN grants: EndRead(c, g)
        \/ EndClose(c) \/ EndRecord(c) \/ CallDies(c)
    \/ SweepRead \/ SweepRecord \/ \E g \in Numbers: SweepClose(g)
    \/ \E g \in DOMAIN grants: RevokeSession(g)
    \/ WithdrawConsent \/ SweepDies \/ Tick

Spec == Init /\ [][Next]_vars

(* A sweep that has started goes on.  Nothing in the code starts one: the  *)
(* queue has a consumer for it and no producer.                            *)
FairSpec == Spec /\ WF_vars(SweepStep)

(***************************************************************************)
(* Properties.  Those named Unless... exclude the grants something happened*)
(* to: a call died over one, was started beside another, or was ended      *)
(* before it had its session.                                              *)
(***************************************************************************)

(* Two operators are never in the account at once (start).                 *)
OneVisitAtATime ==
    \A g, h \in DOMAIN grants: g # h => ~(IsImpersonationActive(grants[g]) /\ IsImpersonationActive(grants[h]))
OneVisitAtATimeUnlessSpoilt ==
    \A g, h \in DOMAIN grants \ spoilt:
        g # h => ~(IsImpersonationActive(grants[g]) /\ IsImpersonationActive(grants[h]))

(* A visit that was ended has no session that still works (end,            *)
(* sweepExpired), unless it was ended before the session was made.         *)
EndedIsRevoked == \A g \in DOMAIN grants: grants[g].ended # None => sessions[g] # "live"
EndedIsRevokedUnlessSpoilt ==
    \A g \in DOMAIN grants \ spoilt: grants[g].ended # None => sessions[g] # "live"

(* "An explicit end event for every start": when nobody is at it, a visit  *)
(* that has ended is on record as ended, one that has not is not.          *)
AtIt(g) == sweep.record = g \/ \E c \in Callers: calls[c].grant = g
EndedIsOnRecord ==
    \A g \in DOMAIN grants: ~AtIt(g) =>
        (grants[g].ended # None <=> events[g]["ended"] + events[g]["expired"] > 0)
EndedIsOnRecordUnlessSpoilt ==
    \A g \in DOMAIN grants \ spoilt: ~AtIt(g) =>
        /\ events[g]["started"] = 1
        /\ grants[g].ended # None <=> events[g]["ended"] + events[g]["expired"] > 0

(* "Closing is one-way": what closed a grant first stays (the trigger).    *)
ClosedStep == \A g \in DOMAIN grants: grants[g].ended # None => grants'[g] = grants[g]
ClosedForGood == [][ClosedStep]_vars

(* "Revoking it ends the visit on the next request": once consent is       *)
(* withdrawn no grant is open.                                             *)
WithdrawnIsEnded == ~consent => \A g \in DOMAIN grants: ~IsImpersonationActive(grants[g])

(* A grant that a sweep has found is closed, unless the sweep dies or ends *)
(* early at another one, which an operator has closed in the meantime      *)
(* (sweepExpired).  Of a grant no sweep finds nothing is promised.         *)
Found(g) == g \in sweep.left
ClosedByHand == \E g \in sweep.left: grants[g].ended \notin {None, sweep.began}
SweepDied == sweep = NoSweep /\ deaths > 0
Closed(g) == g \in DOMAIN grants /\ grants[g].ended # None
FoundIsClosed == \A g \in Numbers: Found(g) ~> (Closed(g) \/ ClosedByHand \/ SweepDied)
=============================================================================
