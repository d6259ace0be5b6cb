------------------------------- MODULE RateLimits -------------------------------
(***************************************************************************)
(* How often one identity may do one thing (RateLimitService): a counter   *)
(* in Redis with an expiry, shared by the instances of the program, and,   *)
(* for an instance that lost Redis, a bounded map of its own.              *)
(***************************************************************************)
EXTENDS Integers, FiniteSets, Sequences

CONSTANTS
    Instances,      \* instances of the program
    Keys,           \* identities that are counted
    None,           \* no counter, no expiry
    Limit, Window,  \* the budget, and the length of a window
    LocalMaxKeys,   \* size of the map beyond which it is swept
    MaxErrors, MaxTime          \* bounds

LimitsAssumption ==
    /\ {Limit, Window, LocalMaxKeys, MaxErrors, MaxTime} \subseteq Nat
    /\ Window > 0 /\ LocalMaxKeys > 0
    /\ None \notin Nat /\ None \notin [count: Nat, expires: Nat \cup {None}]

VARIABLES
    redis,          \* the counter of each key: count, and when it expires
    healthy,        \* the instances that take Redis to be up
    local,          \* the map of each instance: a sequence of [key, count, expires]
    calls,          \* the request each instance is counting
    now, errors,
    allowed,        \* requests let through for each key since its window began (history)
    switched        \* keys some instance has counted on its own, or lost a counter of (history)

vars == <<redis, healthy, local, calls, now, errors, allowed, switched>>

Time == 0..MaxTime
Cap == Limit + 2                \* counts are only compared with Limit
Later == 0..(MaxTime + Window)
Counter == [count: 1..Cap, expires: Later \cup {None}]
Call == [step: {"idle", "expire", "ttl"}, key: Keys \cup {None}, used: 0..Cap]
NoCall == [step |-> "idle", key |-> None, used |-> 0]

TypeOK ==
    /\ redis \in [Keys -> Counter \cup {None}]
    /\ healthy \subseteq Instances
    /\ \A i \in Instances: \A n \in DOMAIN local[i]:
          local[i][n] \in [key: Keys, count: 1..Cap, expires: Later]
    /\ calls \in [Instances -> Call]
    /\ now \in Time /\ errors \in 0..MaxErrors
    /\ allowed \in [Keys -> 0..Cap] /\ switched \subseteq Keys

Init ==
    /\ redis = [k \in Keys |-> None] /\ healthy = Instances
    /\ local = [i \in Instances |-> <<>>]
    /\ calls = [i \in Instances |-> NoCall]
    /\ now = 0 /\ errors = 0
    /\ allowed = [k \in Keys |-> 0] /\ switched = {}

At(i, step) == calls[i].step = step
Hold(i, call) == calls' = [calls EXCEPT ![i] = call]
End(i) == Hold(i, NoCall)
Up(n) == IF n < Cap THEN n + 1 ELSE n

(* decide.                                                                 *)
OneMore(used) == used <= Limit + 1
Allows(used) == used <= Limit

(***************************************************************************)
(* consume, against Redis: INCR, EXPIRE on first use, TTL                  *)
(***************************************************************************)

Incr(i, k) ==
    /\ At(i, "idle") /\ i \in healthy
    /\ LET used == IF redis[k] = None THEN 1 ELSE Up(redis[k].count) IN
        /\ redis' = [redis EXCEPT ![k] = IF @ = None THEN [count |-> 1, expires |-> None]
                                         ELSE [@ EXCEPT !.count = used]]
        /\ Hold(i, [step |-> IF used = 1 THEN "expire" ELSE "ttl", key |-> k, used |-> used])
        /\ LET before == IF redis[k] = None THEN 0 ELSE allowed[k]
           IN  allowed' = [allowed EXCEPT ![k] = IF Allows(used) /\ before < Cap THEN before + 1 ELSE before]
    /\ UNCHANGED <<healthy, local, now, errors, switched>>

Expire(i) ==
    LET k == calls[i].key IN
    /\ At(i, "expire")
    /\ redis' = [redis EXCEPT ![k] = IF @ = None THEN None ELSE [@ EXCEPT !.expires = now + Window]]
    /\ Hold(i, [calls[i] EXCEPT !.step = "ttl"])
    /\ UNCHANGED <<healthy, local, now, errors, allowed, switched>>

Ttl(i) ==
    /\ At(i, "ttl")
    /\ End(i)
    /\ UNCHANGED <<redis, healthy, local, now, errors, allowed, switched>>

(***************************************************************************)
(* consumeLocally                                                          *)
(***************************************************************************)

Unswept(entries) == entries
Kept(entries, some) ==
    [n \in 1..Cardinality(some) |->
        entries[CHOOSE m \in some: Cardinality({l \in some: l <= m}) = n]]
Live(entries) == Kept(entries, {m \in DOMAIN entries: entries[m].expires > now})
(* sweep: what has expired, then the oldest half if that was not enough.   *)
Swept(entries) ==
    IF Len(entries) <= LocalMaxKeys THEN entries
    ELSE LET live == Live(entries)
         IN  IF Len(live) <= LocalMaxKeys THEN live ELSE SubSeq(live, (Len(live) \div 2) + 1, Len(live))

Counted(entries, k) ==
    LET Mine(n) == entries[n].key = k
        fresh == [key |-> k, count |-> 1, expires |-> now + Window]
    IN  IF \E n \in DOMAIN entries: Mine(n)
        THEN LET n == CHOOSE n \in DOMAIN entries: Mine(n)
             IN  [entries EXCEPT ![n] = IF @.expires <= now THEN fresh ELSE [@ EXCEPT !.count = Up(entries[n].count)]]
        ELSE Append(entries, fresh)
UsedOf(entries, k) == entries[CHOOSE n \in DOMAIN entries: entries[n].key = k].count

Locally(i, k) ==
    LET entries == Counted(Swept(local[i]), k) IN
    /\ local' = [local EXCEPT ![i] = entries]
    /\ allowed' = [allowed EXCEPT ![k] = IF Allows(UsedOf(entries, k)) /\ @ < Cap THEN @ + 1 ELSE @]
    /\ switched' = switched \cup {k}

ConsumeLocally(i, k) ==
    /\ At(i, "idle") /\ i \notin healthy
    /\ Locally(i, k)
    /\ UNCHANGED <<redis, healthy, calls, now, errors>>

(* A command fails: before or after it took effect, which for INCR is a    *)
(* request counted twice.  The request is counted in the map instead.      *)
Fails(i) ==
    /\ ~At(i, "idle") /\ errors < MaxErrors
    /\ errors' = errors + 1
    /\ healthy' = healthy \ {i}
    /\ Locally(i, calls[i].key)
    /\ End(i)
    /\ UNCHANGED <<redis, now>>

Reconnect(i) ==
    /\ i \notin healthy /\ healthy' = healthy \cup {i}
    /\ UNCHANGED <<redis, local, calls, now, errors, allowed, switched>>

(* Redis drops what has expired.                                           *)
Tick ==
    /\ now < MaxTime /\ now' = now + 1
    /\ redis' = [k \in Keys |-> IF redis[k] = None THEN None
                                ELSE IF redis[k].expires # None /\ (redis[k].expires # None => redis[k].expires <= now + 1)
                                     THEN None ELSE redis[k]]
    /\ UNCHANGED <<healthy, local, calls, errors, allowed, switched>>

Next ==
    \/ \E i \in Instances:
        \/ \E k \in Keys: Incr(i, k) \/ ConsumeLocally(i, k)
        \/ Expire(i) \/ Ttl(i) \/ Fails(i) \/ Reconnect(i)
    \/ Tick

Spec == Init /\ [][Next]_vars

(***************************************************************************)
(* Properties.  Those named Unless... are about keys that every instance   *)
(* has counted in Redis.                                                   *)
(***************************************************************************)

(* "Permits exactly the budget and then refuses": whatever the instances   *)
(* and the order of their commands, a window lets Limit requests through.  *)
WithinBudget == \A k \in Keys: allowed[k] <= Limit
WithinBudgetUnlessSwitched == \A k \in Keys \ switched: allowed[k] <= Limit

(* "INCR plus EXPIRE on first use is the whole algorithm": a counter nobody*)
(* is working on expires.                                                  *)
CountersExpire ==
    \A k \in Keys: redis[k] # None /\ (\A i \in Instances: calls[i].key # k) => redis[k].expires # None
CountersExpireUnlessSwitched ==
    \A k \in Keys \ switched:
        redis[k] # None /\ (\A i \in Instances: calls[i].key # k) => redis[k].expires # None

(* "Bounded, so a flood of distinct keys cannot exhaust memory".           *)
LocalIsBounded == \A i \in Instances: Len(local[i]) <= LocalMaxKeys + 1
=================================================================================
