--------------------------- MODULE GuideSessions ---------------------------
(***************************************************************************)
(* The calendar of one guide: slots, booked sessions and the rewards they  *)
(* earn (SessionsService), with what a suspension of the guide does to     *)
(* them (the other half of GuidesService.suspend, see Guides).  A booking  *)
(* holds the row of its slot locked; every other handler checks a row it   *)
(* read before its transaction, and writes without looking again.          *)
(***************************************************************************)
EXTENDS Integers, FiniteSets

CONSTANTS
    Callers,        \* requests and jobs that can be in progress at once
    Hours,          \* the slots a guide offers: [from, till, capacity]
    Mixes,          \* bound: sets of handlers called in one behaviour
    CrashSteps,     \* the steps at which a process may die
    MaxSlots, MaxSessions, MaxTime     \* bounds

SessionsAssumption ==
    /\ {MaxSlots, MaxSessions, MaxTime} \subseteq Nat /\ MaxSlots > 0 /\ Hours # {}
    /\ \A h \in Hours: {h.from, h.till, h.capacity} \subseteq Nat /\ h.from < h.till /\ h.capacity > 0

VARIABLES
    active,        \* the guide is active
    caseOpen,      \* there is an open trust case against the guide
    slots,         \* the slots there are
    sessions,      \* the sessions, in the order they were booked
    rewards,       \* the ledger, in the order of its entries
    calls, now, mix,
    moved,         \* sessions written after the row read had changed (history)
    died           \* the steps a process died at (history)

vars == <<active, caseOpen, slots, sessions, rewards, calls, now, mix, moved, died>>

Operation == {"slot", "book", "cancel", "complete", "dispute", "suspend", "case"}
Step == {"idle", "slot_create", "slot_delete", "book_commit", "cancel_write", "complete_write",
         "dispute_session", "dispute_entries", "suspend_commit"}

SessionStatus == {"confirmed", "completed", "cancelled", "no_show"}
RewardState == {"not_earned", "earned", "withheld"}       \* what happens later is in Payouts

Slot == [hours: Hours, booked: Int]
(* A slot of 0 is null.  raced: booked while a suspension took effect.     *)
Session == [slot: 0..MaxSlots, status: SessionStatus, disputed: BOOLEAN, reward: RewardState,
            raced: BOOLEAN]
Reward == [session: 1..MaxSessions, state: RewardState]
NoHours == CHOOSE h \in Hours: TRUE
NoRow == [slot |-> 0, status |-> "cancelled", disputed |-> FALSE, reward |-> "not_earned",
          raced |-> FALSE]
Call == [step: Step, slot: 0..MaxSlots, session: 0..MaxSessions, row: Session, hours: Hours,
         outcome: {"completed", "no_show"}, reward: RewardState, found: SUBSET (1..MaxSessions)]
NoCall == [step |-> "idle", slot |-> 0, session |-> 0, row |-> NoRow, hours |-> NoHours,
           outcome |-> "completed", reward |-> "not_earned", found |-> {}]

TypeOK ==
    /\ active \in BOOLEAN /\ caseOpen \in BOOLEAN
    /\ DOMAIN slots \subseteq 1..MaxSlots /\ slots \in [DOMAIN slots -> Slot]
    /\ DOMAIN sessions \subseteq 1..MaxSessions /\ sessions \in [DOMAIN sessions -> Session]
    /\ rewards \in [DOMAIN rewards -> Reward]
    /\ calls \in [Callers -> Call] /\ now \in 0..MaxTime /\ mix \in Mixes
    /\ moved \subseteq DOMAIN sessions /\ died \subseteq CrashSteps

(* The guide is verified; its calendar is empty, or has a slot.            *)
Init ==
    /\ active = TRUE /\ caseOpen = FALSE
    /\ \/ slots = [s \in {} |-> 0]
       \/ \E h \in Hours: slots = [s \in {1} |-> [hours |-> h, booked |-> 0]]
    /\ sessions = [i \in {} |-> 0] /\ rewards = [i \in {} |-> 0]
    /\ calls = [c \in Callers |-> NoCall]
    /\ now = 0 /\ mix \in Mixes /\ moved = {} /\ died = {}

At(c, step) == calls[c].step = step
Begin(c, op) == At(c, "idle") /\ op \in mix
Hold(c, call) == calls' = [calls EXCEPT ![c] = call]
End(c) == Hold(c, NoCall)
Add(rows, row) == [i \in DOMAIN rows \cup {Cardinality(DOMAIN rows) + 1} |->
                      IF i \in DOMAIN rows THEN rows[i] ELSE row]
Live == {i \in DOMAIN sessions: sessions[i].status = "confirmed"}
LiveOf(s) == {i \in Live: sessions[i].slot = s}

(* While a booking is not committed its slot is locked.                    *)
Booking == {c \in Callers: At(c, "book_commit")}
NeverLocked(s) == FALSE
Locked(s) == \E c \in Booking: calls[c].slot = s

(* A session read, of which the handler will write again.                  *)
Reading(step, i) == [NoCall EXCEPT !.step = step, !.session = i, !.row = sessions[i]]
Changed(c) ==
    LET i == calls[c].session IN
    IF sessions[i] # calls[c].row THEN moved \cup {i} ELSE moved

(***************************************************************************)
(* Availability                                                            *)
(***************************************************************************)

SlotsOverlap(g, h) == g.from < h.till /\ h.from < g.till
FreeSlot == CHOOSE s \in 1..MaxSlots: s \notin DOMAIN slots

AddSlotRead(c, h) ==
    /\ Begin(c, "slot") /\ h.from > now /\ DOMAIN slots # 1..MaxSlots
    /\ \A s \in DOMAIN slots: slots[s].hours.from >= now => ~SlotsOverlap(h, slots[s].hours)
    /\ Hold(c, [NoCall EXCEPT !.step = "slot_create", !.hours = h])
    /\ UNCHANGED <<active, caseOpen, slots, sessions, rewards, now, mix, moved, died>>

AddSlotWrite(c) ==
    /\ At(c, "slot_create")
    /\ slots' = IF DOMAIN slots = 1..MaxSlots THEN slots
                ELSE [s \in DOMAIN slots \cup {FreeSlot} |->
                         IF s = FreeSlot THEN [hours |-> calls[c].hours, booked |-> 0] ELSE slots[s]]
    /\ End(c)
    /\ UNCHANGED <<active, caseOpen, sessions, rewards, now, mix, moved, died>>

RemoveSlotRead(c, s) ==
    /\ Begin(c, "slot") /\ slots[s].booked <= 0
    /\ Hold(c, [NoCall EXCEPT !.step = "slot_delete", !.slot = s])
    /\ UNCHANGED <<active, caseOpen, slots, sessions, rewards, now, mix, moved, died>>

(* The foreign key sets the slot of its sessions to null.                  *)
RemoveSlotWrite(c) ==
    LET gone == calls[c].slot IN
    /\ At(c, "slot_delete") /\ ~Locked(gone)
    /\ slots' = [s \in DOMAIN slots \ {gone} |-> slots[s]]
    /\ sessions' = [i \in DOMAIN sessions |->
                       IF sessions[i].slot = gone THEN [sessions[i] EXCEPT !.slot = 0] ELSE sessions[i]]
    /\ End(c)
    /\ UNCHANGED <<active, caseOpen, rewards, now, mix, moved, died>>

(***************************************************************************)
(* Booking, cancellation, delivery                                         *)
(***************************************************************************)

Bookable(slot) == slot.booked < slot.hours.capacity /\ slot.hours.from > now

BookLock(c, s) ==
    /\ Begin(c, "book") /\ Cardinality(DOMAIN sessions) + Cardinality(Booking) < MaxSessions
    /\ ~Locked(s) /\ Bookable(slots[s]) /\ active
    /\ Hold(c, [NoCall EXCEPT !.step = "book_commit", !.slot = s])
    /\ UNCHANGED <<active, caseOpen, slots, sessions, rewards, now, mix, moved, died>>

Suspending == \E c \in Callers: At(c, "suspend_commit")
BookCommit(c) ==
    LET s == calls[c].slot IN
    /\ At(c, "book_commit")
    /\ slots' = [slots EXCEPT ![s].booked = @ + 1]
    /\ sessions' = Add(sessions, [slot |-> s, status |-> "confirmed", disputed |-> FALSE,
                                  reward |-> "not_earned", raced |-> ~active \/ Suspending])
    /\ End(c)
    /\ UNCHANGED <<active, caseOpen, rewards, now, mix, moved, died>>

(* canTransitionSession, as far as the handlers ask: to an outcome, or to  *)
(* cancelled.                                                              *)
FromAnywhere(status) == TRUE
CanTransition(status) == status = "confirmed"

CancelRead(c, i) ==
    /\ Begin(c, "cancel") /\ CanTransition(sessions[i].status)
    /\ Hold(c, Reading("cancel_write", i))
    /\ UNCHANGED <<active, caseOpen, slots, sessions, rewards, now, mix, moved, died>>

(* A place is handed back; there is none if the slot is gone.              *)
KeepPlace(s) == slots
HandBack(s) == IF s \in DOMAIN slots THEN [slots EXCEPT ![s].booked = @ - 1] ELSE slots

(* If the slot read is gone meanwhile the transaction fails.               *)
CancelWrite(c) ==
    LET i == calls[c].session  s == calls[c].row.slot IN
    /\ At(c, "cancel_write") /\ ~Locked(s)
    /\ IF s # 0 /\ s \notin DOMAIN slots THEN UNCHANGED <<slots, sessions, moved>>
       ELSE /\ sessions' = [sessions EXCEPT ![i].status = "cancelled"]
            /\ slots' = HandBack(s)
            /\ moved' = Changed(c)
    /\ End(c)
    /\ UNCHANGED <<active, caseOpen, rewards, now, mix, died>>

(* rewardStateForSession: delivery, the dispute and the case, nothing else *)
ApprovedAtOnce(disputed) == "approved"
AnyDispute(disputed) == IF caseOpen THEN "withheld" ELSE "earned"
RewardStateForSession(disputed) == IF disputed \/ caseOpen THEN "withheld" ELSE "earned"

CompleteRead(c, i, outcome) ==
    /\ Begin(c, "complete") /\ CanTransition(sessions[i].status)
    /\ Hold(c, [Reading("complete_write", i) EXCEPT
                   !.outcome = outcome, !.reward = RewardStateForSession(sessions[i].disputed)])
    /\ UNCHANGED <<active, caseOpen, slots, sessions, rewards, now, mix, moved, died>>

CompleteWrite(c) ==
    LET i == calls[c].session IN
    /\ At(c, "complete_write")
    /\ sessions' = [sessions EXCEPT ![i].status = calls[c].outcome, ![i].reward = calls[c].reward]
    /\ rewards' = Add(rewards, [session |-> i, state |-> calls[c].reward])
    /\ moved' = Changed(c)
    /\ End(c)
    /\ UNCHANGED <<active, caseOpen, slots, now, mix, died>>

(* The student disputes a session, in whatever state it is.                *)
DisputeSession(c, i) ==
    /\ Begin(c, "dispute")
    /\ sessions' = [sessions EXCEPT ![i].disputed = TRUE, ![i].reward = "withheld"]
    /\ Hold(c, [NoCall EXCEPT !.step = "dispute_entries", !.session = i])
    /\ UNCHANGED <<active, caseOpen, slots, rewards, now, mix, moved, died>>

Withhold(i) == [n \in DOMAIN rewards |->
                  IF rewards[n].session = i THEN [rewards[n] EXCEPT !.state = "withheld"] ELSE rewards[n]]
DisputeEntries(c) ==
    /\ At(c, "dispute_entries")
    /\ rewards' = Withhold(calls[c].session)
    /\ End(c)
    /\ UNCHANGED <<active, caseOpen, slots, sessions, now, mix, moved, died>>

(***************************************************************************)
(* A suspension, which others see when it commits; and what else happens   *)
(***************************************************************************)

SuspendFind(c) ==
    /\ Begin(c, "suspend")
    /\ Hold(c, [NoCall EXCEPT !.step = "suspend_commit", !.found = Live])
    /\ UNCHANGED <<active, caseOpen, slots, sessions, rewards, now, mix, moved, died>>

Booked(s, found) == Cardinality({i \in found: sessions[i].slot = s})
CancelFound(found) == [i \in DOMAIN sessions |->
    IF i \in found THEN [sessions[i] EXCEPT !.status = "cancelled"] ELSE sessions[i]]
CancelNone(found) == sessions
Cancelled(found) == CancelFound(found)

SuspendCommit(c) ==
    LET found == calls[c].found IN
    /\ At(c, "suspend_commit") /\ \A i \in found: ~Locked(sessions[i].slot)
    /\ active' = FALSE
    /\ sessions' = Cancelled(found)
    /\ slots' = [s \in DOMAIN slots |-> [slots[s] EXCEPT !.booked = @ - Booked(s, found)]]
    /\ moved' = moved \cup (found \ Live)
    /\ End(c)
    /\ UNCHANGED <<caseOpen, rewards, now, mix, died>>

(* GuidesService.verify, or a sanction lifted.                             *)
Reinstate ==
    /\ "suspend" \in mix /\ ~active /\ active' = TRUE
    /\ UNCHANGED <<caseOpen, slots, sessions, rewards, calls, now, mix, moved, died>>

(* A case is opened or closed (TrustService).                              *)
CaseMoves ==
    /\ "case" \in mix /\ caseOpen' = ~caseOpen
    /\ UNCHANGED <<active, slots, sessions, rewards, calls, now, mix, moved, died>>

Tick ==
    /\ now < MaxTime /\ now' = now + 1
    /\ UNCHANGED <<active, caseOpen, slots, sessions, rewards, calls, mix, moved, died>>

Dies(c) ==
    /\ calls[c].step \in CrashSteps \ died
    /\ died' = died \cup {calls[c].step}
    /\ End(c)
    /\ UNCHANGED <<active, caseOpen, slots, sessions, rewards, now, mix, moved>>

Next ==
    \/ \E c \in Callers:
           \/ AddSlotWrite(c) \/ RemoveSlotWrite(c) \/ BookCommit(c)
           \/ CancelWrite(c) \/ CompleteWrite(c) \/ DisputeEntries(c)
           \/ SuspendFind(c) \/ SuspendCommit(c) \/ Dies(c)
           \/ \E h \in Hours: AddSlotRead(c, h)
           \/ \E s \in DOMAIN slots: RemoveSlotRead(c, s) \/ BookLock(c, s)
           \/ \E i \in DOMAIN sessions:
                  \/ CancelRead(c, i) \/ DisputeSession(c, i)
                  \/ \E outcome \in {"completed", "no_show"}: CompleteRead(c, i, outcome)
    \/ Reinstate \/ CaseMoves \/ Tick

Spec == Init /\ [][Next]_vars

(***************************************************************************)
(* Properties.  Those named Unless... hold while no handler wrote over a   *)
(* session that had changed since it read it; without the condition they   *)
(* do not.                                                                 *)
(***************************************************************************)

(* A slot counts exactly the sessions that are live or were held on it     *)
(* (book, cancel and suspend keep the counter by increments).              *)
HeldOf(s) == {i \in DOMAIN sessions: sessions[i].slot = s /\ sessions[i].status # "cancelled"}
CountIsKeptUnlessMoved ==
    moved = {} => \A s \in DOMAIN slots: slots[s].booked = Cardinality(HeldOf(s))

(* "The platform prevents overbooking": never more live sessions on a slot *)
(* than its capacity, whoever books at the same moment (book).             *)
NoOverbookingUnlessMoved ==
    moved = {} => \A s \in DOMAIN slots: Cardinality(LiveOf(s)) <= slots[s].hours.capacity

(* The same with no condition, as the comment has it ("the guarantee").    *)
NoOverbooking ==
    \A s \in DOMAIN slots: Cardinality(LiveOf(s)) <= slots[s].hours.capacity

(* A session has one entry in the ledger, and only if it was held or the   *)
(* student did not come (complete).                                        *)
RewardMatchesSession ==
    \A n \in DOMAIN rewards:
        /\ sessions[rewards[n].session].status \in {"completed", "no_show"}
        /\ \A m \in DOMAIN rewards: rewards[m].session = rewards[n].session => m = n
RewardMatchesSessionUnlessMoved == moved = {} => RewardMatchesSession

(* What a student disputed is not earned, once the dispute is through      *)
(* (dispute, rewardStateForSession).                                       *)
Disputing(i) == \E c \in Callers: At(c, "dispute_entries") /\ calls[c].session = i
DisputedIsWithheld ==
    \A n \in DOMAIN rewards:
        LET i == rewards[n].session IN
        sessions[i].disputed /\ ~Disputing(i) => rewards[n].state = "withheld"
DisputedIsWithheldUnlessMoved == moved = {} /\ died = {} => DisputedIsWithheld

(* A guide who is suspended has no live session, unless it was booked      *)
(* while the suspension took effect (GuidesService.suspend).               *)
SuspendedHasNoSessionUnlessRaced ==
    ~active => \A i \in Live: sessions[i].raced

(* "out of every scheduled session" (the comment of suspend).              *)
SuspendedHasNoSession == ~active => Live = {}

(* A live session keeps its slot ("A booked slot is somebody's plan").     *)
LiveHasSlot == \A i \in Live: sessions[i].slot # 0

(* A guide's slots do not overlap (addSlot, conflictsWithExisting).        *)
SlotsAreApart ==
    \A s, t \in DOMAIN slots: s # t => ~SlotsOverlap(slots[s].hours, slots[t].hours)

(* Only a confirmed session changes its status (canTransitionSession).     *)
OutcomeIsFinal ==
    [][\A i \in DOMAIN sessions:
          sessions[i].status # "confirmed" => sessions'[i].status = sessions[i].status]_sessions
=============================================================================
