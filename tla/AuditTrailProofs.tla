--------------------------- MODULE AuditTrailProofs ---------------------------
(***************************************************************************)
(* Proofs about the audit trail, for any number of writers and events: a   *)
(* trail committed in order verifies, and a row taken out of it shows.     *)
(***************************************************************************)
EXTENDS AuditTrail, SequenceTheorems, TLAPS

(* Appending a row to the log.                                             *)
LEMMA AppendFacts ==
    ASSUME log \in Seq(Event), NEW e \in Event
    PROVE  /\ Append(log, e) \in Seq(Event)
           /\ DOMAIN Append(log, e) = DOMAIN log \cup {Len(log) + 1}
           /\ DOMAIN log = 1 .. Len(log) /\ Len(log) \in Nat
           /\ \A i \in DOMAIN log: Append(log, e)[i] = log[i]
           /\ Append(log, e)[Len(log) + 1] = e
OBVIOUS

(* Rows are ordered by timestamp and id, strictly and, as ids differ,      *)
(* totally.                                                                *)
LEMMA EventNumbers ==
    ASSUME NEW e \in Event
    PROVE  e.timestamp \in Nat /\ e.id \in Nat
BY IdAssumption DEF Event

LEMMA BeforeOneWay ==
    ASSUME NEW e \in Event, NEW f \in Event, Before(e, f)
    PROVE  ~Before(f, e)
BY EventNumbers DEF Before

LEMMA BeforeTransitive ==
    ASSUME NEW e \in Event, NEW f \in Event, NEW g \in Event, Before(e, f), Before(f, g)
    PROVE  Before(e, g)
BY EventNumbers DEF Before

LEMMA BeforeTotal ==
    ASSUME NEW e \in Event, NEW f \in Event, e.id # f.id
    PROVE  Before(e, f) \/ Before(f, e)
BY EventNumbers DEF Before

(***************************************************************************)
(* Type correctness: it takes the existence of a last row                  *)
(***************************************************************************)

(* A log that is not empty has a row that is last by timestamp and id.     *)
HasTail == log = <<>> \/ \E i \in DOMAIN log: IsTail(i)

LEMMA TailType ==
    ASSUME TypeOK, HasTail
    PROVE  TailReference \in Nat
<1>1. CASE log = <<>>
  BY <1>1 DEF TailReference, Genesis
<1>2. CASE log # <<>>
  <2>1. TailReference \in DOMAIN log
    BY <1>2, Zenon DEF TailReference, HasTail
  <2> QED
    BY <2>1 DEF TypeOK
<1> QED
  BY <1>1, <1>2

(* The row that Record appends.                                            *)
NewRow(w, id) == [timestamp |-> calls[w].timestamp, id |-> id, previous |-> TailReference]

LEMMA NewRowType ==
    ASSUME TypeOK, HasTail, NEW w \in Writers, NEW id \in Ids
    PROVE  NewRow(w, id) \in Event /\ NewRow(w, id).id = id
BY TailType DEF TypeOK, NewRow, Event

LEMMA InitType == Init => TypeOK /\ HasTail
BY DEF Init, TypeOK, HasTail, Resting

LEMMA RecordType ==
    ASSUME TypeOK, HasTail, NEW w \in Writers, NEW id \in Ids, Record(w, id)
    PROVE  TypeOK' /\ HasTail'
<1> DEFINE e == NewRow(w, id)
           n == Len(log) + 1
<1>1. e \in Event /\ e.id = id
  BY NewRowType
<1>2. log' = Append(log, e)
  BY DEF Record, NewRow
<1>3. /\ log' \in Seq(Event)
      /\ DOMAIN log' = DOMAIN log \cup {n}
      /\ \A i \in DOMAIN log: log'[i] = log[i] /\ log[i] \in Event /\ log[i].id # e.id
      /\ log'[n] = e
  BY <1>1, <1>2, AppendFacts DEF TypeOK, Record, IdFree
<1>4. \A i, j \in DOMAIN log': log'[i].id = log'[j].id => i = j
  BY <1>3 DEF TypeOK
<1>5. TypeOK'
  BY <1>3, <1>4 DEF Record, TypeOK, Resting
<1>6. CASE log = <<>>
  <2>1. DOMAIN log' = {n}
    BY <1>3, <1>6
  <2> QED
    BY <1>5, <2>1 DEF HasTail, IsTail
<1>7. ASSUME NEW i \in DOMAIN log, IsTail(i) PROVE HasTail'
  <2>1. CASE Before(log[i], e)
    <3>1. \A j \in DOMAIN log: Before(log'[j], log'[n])
      BY <1>1, <1>3, <1>7, <2>1, BeforeTransitive DEF IsTail
    <3> QED
      BY <1>3, <3>1 DEF HasTail, IsTail
  <2>2. CASE Before(e, log[i])
    <3>1. \A j \in DOMAIN log': j # i => Before(log'[j], log'[i])
      BY <1>3, <1>7, <2>2 DEF IsTail
    <3> QED
      BY <1>3, <3>1 DEF HasTail, IsTail
  <2> QED
    BY <1>1, <1>3, <2>1, <2>2, BeforeTotal
<1> QED
  BY <1>5, <1>6, <1>7 DEF HasTail

LEMMA NextType == TypeOK /\ HasTail /\ [Next]_vars => TypeOK' /\ HasTail'
<1> SUFFICES ASSUME TypeOK, HasTail, [Next]_vars PROVE TypeOK' /\ HasTail'
  OBVIOUS
<1>1. ASSUME UNCHANGED log PROVE HasTail'
  BY <1>1 DEF HasTail, IsTail
<1>2. ASSUME NEW w \in Writers, Stamp(w) PROVE TypeOK' /\ HasTail'
  BY <1>1, <1>2 DEF Stamp, TypeOK
<1>3. ASSUME NEW w \in Writers, SerialisationFailure(w) PROVE TypeOK' /\ HasTail'
  BY <1>1, <1>3 DEF SerialisationFailure, TypeOK, Resting
<1>4. CASE Tick
  BY <1>1, <1>4 DEF Tick, TypeOK
<1>5. CASE UNCHANGED vars
  BY <1>1, <1>5 DEF vars, TypeOK
<1> QED
  BY <1>2, <1>3, <1>4, <1>5, RecordType DEF Next

(* Type correctness of the trail: ids are unique and every row is chained  *)
(* to a row (AuditService.record).                                         *)
THEOREM TypeCorrect == Spec => []TypeOK
BY InitType, NextType, PTL DEF Spec

(***************************************************************************)
(* A trail committed in order                                              *)
(***************************************************************************)

(* In a log committed in order, its last row is also last by timestamp and *)
(* id, so that is the row the next one is chained to.                      *)
LEMMA OrderedTail ==
    ASSUME TypeOK, InOrder
    PROVE  TailReference = Len(log)
<1>1. CASE log = <<>>
  BY <1>1 DEF TailReference, Genesis
<1>2. CASE log # <<>>
  <2>1. DOMAIN log = 1 .. Len(log) /\ Len(log) \in DOMAIN log
    BY <1>2 DEF TypeOK
  <2>2. IsTail(Len(log))
    BY <2>1 DEF IsTail, InOrder, TypeOK
  <2>3. ASSUME NEW i \in DOMAIN log, IsTail(i) PROVE i = Len(log)
    <3>1. log[i] \in Event /\ log[Len(log)] \in Event
      BY <2>1 DEF TypeOK
    <3> QED
      BY <2>1, <2>2, <2>3, <3>1, BeforeOneWay DEF IsTail
  <2> QED
    BY <1>2, <2>1, <2>2, <2>3 DEF TailReference
<1> QED
  BY <1>1, <1>2

LEMMA NextChain == TypeOK /\ HasTail /\ ChainInv /\ [Next]_vars => ChainInv'
<1> SUFFICES ASSUME TypeOK, HasTail, ChainInv, [Next]_vars PROVE ChainInv'
  OBVIOUS
<1>1. ASSUME UNCHANGED log PROVE ChainInv'
  BY <1>1 DEF ChainInv, InOrder
<1>2. ASSUME NEW w \in Writers, NEW id \in Ids, Record(w, id), InOrder'
      PROVE  \A i \in DOMAIN log': log'[i].previous = i - 1
  <2> DEFINE e == NewRow(w, id)
  <2>1. e \in Event /\ log' = Append(log, e) /\ e.previous = TailReference
    BY <1>2, NewRowType DEF Record, NewRow
  <2>2. /\ DOMAIN log' = DOMAIN log \cup {Len(log) + 1}
        /\ \A i \in DOMAIN log: log'[i] = log[i]
        /\ log'[Len(log) + 1] = e
        /\ Len(log) \in Nat
    BY <2>1, AppendFacts DEF TypeOK
  <2>3. InOrder
    BY <1>2, <2>2 DEF InOrder
  <2>4. e.previous = (Len(log) + 1) - 1
    BY <2>1, <2>2, <2>3, OrderedTail
  <2> QED
    BY <2>2, <2>3, <2>4 DEF ChainInv
<1>3. CASE Next
  BY <1>1, <1>2, <1>3 DEF Next, Stamp, SerialisationFailure, Tick, ChainInv
<1>4. CASE UNCHANGED vars
  BY <1>1, <1>4 DEF vars
<1> QED
  BY <1>3, <1>4

(* What verifyChain expects of a row of an ordered log when the rows before*)
(* it are complete up to some other row.                                   *)
LEMMA ExpectedBefore ==
    ASSUME TypeOK, InOrder, NEW rows \in SUBSET DOMAIN log, NEW i \in rows, NEW j \in rows,
           j < i, \A k \in rows: k < i => k =< j
    PROVE  Expected(rows, i) = j
<1>1. DOMAIN log = 1 .. Len(log) /\ Len(log) \in Nat
  BY DEF TypeOK
<1>2. \A k, m \in rows: Before(log[k], log[m]) <=> k < m
  <2> SUFFICES ASSUME NEW k \in rows, NEW m \in rows PROVE Before(log[k], log[m]) <=> k < m
    OBVIOUS
  <2>1. log[k] \in Event /\ log[m] \in Event /\ k \in Nat /\ m \in Nat
    BY <1>1 DEF TypeOK
  <2>2. CASE k < m
    BY <2>2 DEF InOrder
  <2>3. CASE m < k
    BY <2>1, <2>3, BeforeOneWay DEF InOrder
  <2>4. CASE k = m
    BY <2>1, <2>4, BeforeOneWay
  <2> QED
    BY <2>1, <2>2, <2>3, <2>4
<1>3. \A k \in rows: k \in Nat
  BY <1>1
<1> DEFINE IsLast(m) == /\ Before(log[m], log[i])
                       /\ \A k \in rows: Before(log[k], log[i]) => k = m \/ Before(log[k], log[m])
<1>4. IsLast(j)
  BY <1>2, <1>3
<1>5. ASSUME NEW m \in rows, IsLast(m) PROVE m = j
  BY <1>2, <1>3, <1>4, <1>5
<1>6. Expected(rows, i) = CHOOSE m \in rows: IsLast(m)
  BY <1>4 DEF Expected
<1> HIDE DEF IsLast
<1> QED
  BY <1>4, <1>5, <1>6

LEMMA ChainVerifies ==
    ASSUME TypeOK, ChainInv
    PROVE  OrderedTrailVerifies
<1> SUFFICES ASSUME InOrder, NEW i \in DOMAIN log PROVE Holds(DOMAIN log, i)
  BY DEF OrderedTrailVerifies, Verifies
<1>1. DOMAIN log = 1 .. Len(log) /\ Len(log) \in Nat /\ log[i].previous = i - 1
  BY DEF TypeOK, ChainInv
<1>2. CASE i = 1
  <2>1. \A j \in DOMAIN log: ~Before(log[j], log[i])
    <3> SUFFICES ASSUME NEW j \in DOMAIN log PROVE ~Before(log[j], log[i])
      OBVIOUS
    <3>1. log[j] \in Event /\ log[i] \in Event
      BY DEF TypeOK
    <3>2. i < j \/ i = j
      BY <1>1, <1>2
    <3>3. CASE i < j
      BY <3>1, <3>3, BeforeOneWay DEF InOrder
    <3>4. CASE i = j
      BY <3>1, <3>4, BeforeOneWay
    <3> QED
      BY <3>2, <3>3, <3>4
  <2> QED
    BY <1>1, <1>2, <2>1 DEF Holds, Expected, Genesis
<1>3. CASE i # 1
  <2>1. i - 1 \in DOMAIN log /\ i - 1 < i /\ \A k \in DOMAIN log: k < i => k =< i - 1
    BY <1>1, <1>3
  <2>2. Expected(DOMAIN log, i) = i - 1
    BY <2>1, ExpectedBefore
  <2> QED
    BY <1>1, <2>2 DEF Holds
<1> QED
  BY <1>2, <1>3

(* The row after the one that was taken out is still chained to it.        *)
LEMMA GapShows ==
    ASSUME TypeOK, ChainInv
    PROVE  OrderedRemovalIsDetected
<1> SUFFICES ASSUME InOrder, NEW i \in DOMAIN log, i < Len(log)
             PROVE  ~Verifies(DOMAIN log \ {i})
  BY DEF OrderedRemovalIsDetected
<1> DEFINE rows == DOMAIN log \ {i}
<1>1. /\ DOMAIN log = 1 .. Len(log) /\ Len(log) \in Nat /\ i \in Nat \ {0}
      /\ i + 1 \in rows /\ log[i + 1].previous = i
  BY DEF TypeOK, ChainInv
<1>2. CASE i = 1
  <2>1. \A j \in rows: ~Before(log[j], log[i + 1])
    <3> SUFFICES ASSUME NEW j \in rows PROVE ~Before(log[j], log[i + 1])
      OBVIOUS
    <3>1. log[j] \in Event /\ log[i + 1] \in Event
      BY <1>1 DEF TypeOK
    <3>2. i + 1 < j \/ i + 1 = j
      BY <1>1, <1>2
    <3>3. CASE i + 1 < j
      BY <1>1, <3>1, <3>3, BeforeOneWay DEF InOrder
    <3>4. CASE i + 1 = j
      BY <3>1, <3>4, BeforeOneWay
    <3> QED
      BY <3>2, <3>3, <3>4
  <2>2. Expected(rows, i + 1) = 0
    BY <2>1 DEF Expected, Genesis
  <2> QED
    BY <1>1, <2>2 DEF Verifies, Holds
<1>3. CASE i # 1
  <2>1. i - 1 \in rows /\ i - 1 < i + 1 /\ \A k \in rows: k < i + 1 => k =< i - 1
    BY <1>1, <1>3
  <2>2. Expected(rows, i + 1) = i - 1
    BY <1>1, <2>1, ExpectedBefore
  <2> QED
    BY <1>1, <2>2 DEF Verifies, Holds
<1> QED
  BY <1>2, <1>3

LEMMA ChainAlways == Spec => [](TypeOK /\ HasTail /\ ChainInv)
<1>1. Init => ChainInv
  BY DEF Init, ChainInv
<1> QED
  BY <1>1, InitType, NextType, NextChain, PTL DEF Spec

(* A trail whose events were committed in the order of their timestamps    *)
(* and ids verifies (AuditService.verifyIntegrity).                        *)
THEOREM OrderedTrailCorrect == Spec => []OrderedTrailVerifies
BY ChainAlways, ChainVerifies, PTL

(* Whichever row is taken out of such a trail, other than its last one,    *)
(* the trail no longer verifies (verifyChain).                             *)
THEOREM RemovalCorrect == Spec => []OrderedRemovalIsDetected
BY ChainAlways, GapShows, PTL
===============================================================================
