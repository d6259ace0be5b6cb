--------------------------- MODULE StatusPolling ---------------------------
(***************************************************************************)
(* The sweep that asks connectors without webhooks for news                *)
(* (StatusPollService).  A sweep reads the enabled connectors with the     *)
(* time of their last poll, claims those that are due one after the other, *)
(* and talks to a partner for as long as it takes before it goes on to the *)
(* next.  Sweeps overlap: a queue runs four jobs at a time, and a job that *)
(* throws is run again.  What a poll brings goes through InboundStatus.    *)
(***************************************************************************)
EXTENDS Integers, FiniteSets, Sequences

CONSTANTS
    Connectors,     \* enabled connectors whose adapter can poll
    Sweepers,       \* sweeps that can be in progress at once
    Never,          \* a connector that has not been polled
    Interval,       \* the larger of pollIntervalSeconds and the floor, each
    MaxTime         \* bound

BoundsAssumption == MaxTime \in Nat
IntervalAssumption == Interval \in [Connectors -> Nat \ {0}]
NeverAssumption == Never \notin Nat

VARIABLES
    lastPolled,     \* connector_configs.lastPolledAt
    enabled,        \* connector_configs.enabled
    sweeps,         \* the sweeps in progress
    polls,          \* the claims of each connector, in order (history)
    now

vars == <<lastPolled, enabled, sweeps, polls, now>>

Time == 0..MaxTime
LastPolled == Time \cup {Never}

(* started: the `now` a sweep took once, at its start; rows: what it read  *)
(* of the connectors it has not come to yet; polling: the one it is at.    *)
Sweep == [started: Time, rows: UNION {[K -> LastPolled] : K \in SUBSET Connectors},
          polling: SUBSET Connectors, busy: BOOLEAN]
NoSweep == [started |-> 0, rows |-> <<>>, polling |-> {}, busy |-> FALSE]
Claimed == [stamp: Time, at: Time]

TypeOK ==
    /\ lastPolled \in [Connectors -> LastPolled]
    /\ enabled \subseteq Connectors
    /\ sweeps \in [Sweepers -> Sweep]
    /\ polls \in [Connectors -> Seq(Claimed)]
    /\ now \in Time

Init ==
    /\ lastPolled = [k \in Connectors |-> Never]
    /\ enabled = Connectors
    /\ sweeps = [s \in Sweepers |-> NoSweep]
    /\ polls = [k \in Connectors |-> <<>>]
    /\ now = 0

Without(rows, k) == [j \in DOMAIN rows \ {k} |-> rows[j]]
Idle(s) == sweeps[s].polling = {}

SweepRead(s) ==
    /\ ~sweeps[s].busy
    /\ sweeps' = [sweeps EXCEPT ![s] =
           [started |-> now, rows |-> [k \in enabled |-> lastPolled[k]], polling |-> {}, busy |-> TRUE]]
    /\ UNCHANGED <<lastPolled, enabled, polls, now>>

Due(s, k) ==
    LET row == sweeps[s].rows[k] IN
    row # Never => sweeps[s].started - row >= Interval[k]

(* The claim is an update where lastPolledAt is still what was read.       *)
AlwaysUnclaimed(s, k) == TRUE
Unclaimed(s, k) == lastPolled[k] = sweeps[s].rows[k]

Claim(s, k) ==
    /\ sweeps[s].busy /\ Idle(s) /\ k \in DOMAIN sweeps[s].rows
    /\ Due(s, k) /\ Unclaimed(s, k)
    /\ lastPolled' = [lastPolled EXCEPT ![k] = sweeps[s].started]
    /\ polls' = [polls EXCEPT ![k] = Append(@, [stamp |-> sweeps[s].started, at |-> now])]
    /\ sweeps' = [sweeps EXCEPT ![s].rows = Without(@, k), ![s].polling = {k}]
    /\ UNCHANGED <<enabled, now>>

Skip(s, k) ==
    /\ sweeps[s].busy /\ Idle(s) /\ k \in DOMAIN sweeps[s].rows
    /\ ~(Due(s, k) /\ Unclaimed(s, k))
    /\ sweeps' = [sweeps EXCEPT ![s].rows = Without(@, k)]
    /\ UNCHANGED <<lastPolled, enabled, polls, now>>

(* The partner has answered for every application that waits, or failed to *)
Polled(s) ==
    /\ ~Idle(s)
    /\ sweeps' = [sweeps EXCEPT ![s].polling = {}]
    /\ UNCHANGED <<lastPolled, enabled, polls, now>>

SweepEnds(s) ==
    /\ sweeps[s].busy /\ Idle(s) /\ DOMAIN sweeps[s].rows = {}
    /\ sweeps' = [sweeps EXCEPT ![s] = NoSweep]
    /\ UNCHANGED <<lastPolled, enabled, polls, now>>

(* The audit event of a poll cannot be written, or the process dies: the   *)
(* other connectors are left for the next sweep.                           *)
SweepDies(s) ==
    /\ sweeps[s].busy
    /\ sweeps' = [sweeps EXCEPT ![s] = NoSweep]
    /\ UNCHANGED <<lastPolled, enabled, polls, now>>

SetConnectorEnabled(k) ==
    /\ enabled' = IF k \in enabled THEN enabled \ {k} ELSE enabled \cup {k}
    /\ UNCHANGED <<lastPolled, sweeps, polls, now>>

Tick ==
    /\ now < MaxTime /\ now' = now + 1
    /\ UNCHANGED <<lastPolled, enabled, sweeps, polls>>

Next ==
    \/ \E s \in Sweepers:
           \/ SweepRead(s) \/ Polled(s) \/ SweepEnds(s) \/ SweepDies(s)
           \/ \E k \in Connectors: Claim(s, k) \/ Skip(s, k)
    \/ \E k \in Connectors: SetConnectorEnabled(k)
    \/ Tick

Spec == Init /\ [][Next]_vars

(***************************************************************************)
(* Properties                                                              *)
(***************************************************************************)

(* Two sweeps that overlap do not both take a connector for due: by the    *)
(* times the claims are stamped with, a partner is never polled more often *)
(* than its interval and the floor allow (StatusPollService.sweep).        *)
ClaimsAreApart ==
    \A k \in Connectors: \A i \in 1..Len(polls[k]) - 1:
        polls[k][i + 1].stamp - polls[k][i].stamp >= Interval[k]

(* "Floored at a minute so a misconfiguration cannot turn into a           *)
(* denial-of-service against a university": the same by the clock.  A      *)
(* sweep that comes late to a connector stamps it with the time the sweep  *)
(* began, and the next one finds it due too early.                         *)
PollsAreApart ==
    \A k \in Connectors: \A i \in 1..Len(polls[k]) - 1:
        polls[k][i + 1].at - polls[k][i].at >= Interval[k]

(* "A slow partner cannot be polled again by a second sweep running        *)
(* concurrently": it is, once the interval has passed.                     *)
OnePollAtATime ==
    \A s, t \in Sweepers: s # t => sweeps[s].polling \cap sweeps[t].polling = {}
=============================================================================
