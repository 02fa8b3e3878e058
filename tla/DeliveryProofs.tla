--------------------------- MODULE DeliveryProofs ---------------------------
(* Theorems about Delivery, for every set of rows, sessions and limits. *)
EXTENDS Delivery, WellFoundedInduction, TLAPS

-----------------------------------------------------------------------------
(* Rows of a drain                                                         *)

\* Rows are numbers: a drain that has rows left has an oldest one.
LEMMA OldestProps ==
    ASSUME NEW R \in SUBSET Rows, R # {}
    PROVE  Oldest(R) \in R /\ \A q \in R : Oldest(R) <= q
<1> DEFINE Less == OpToRel(<, Nat)
<1>1. IsWellFoundedOn(Less, Nat)
    BY NatLessThanWellFounded
<1>2. \A x, y \in Nat : x < y => <<x, y>> \in Less
    BY DEF OpToRel
<1> HIDE DEF Less
<1>3. R \subseteq Nat
    BY DeliveryAssumption
<1>4. PICK x \in R : \A y \in R : ~(<<y, x>> \in Less)
    BY <1>1, <1>3, WFMin
<1>5. \A y \in R : x \in Nat /\ y \in Nat /\ ~(y < x)
    BY <1>2, <1>3, <1>4, Zenon
<1>6. \A y \in R : x <= y
    BY <1>5
<1> QED
    BY <1>6 DEF Oldest

\* The row under way is one of those left, and of the drained session.
LEMMA UnderWayIsLeft ==
    ASSUME TypeOK, NEW c \in Callers, Busy(c)
    PROVE  /\ UnderWay(c) \in left[c]
           /\ UnderWay(c) \in Rows
           /\ SessionOf[UnderWay(c)] \in Sessions
           /\ \A q \in left[c] : UnderWay(c) <= q
BY OldestProps, DeliveryAssumption DEF UnderWay, Busy, TypeOK

\* The same for the rows left after a step.
LEMMA UnderWayIsLeftNext ==
    ASSUME TypeOK', NEW c \in Callers, Busy(c)'
    PROVE  /\ UnderWay(c)' \in left'[c]
           /\ UnderWay(c)' \in Rows
           /\ SessionOf[UnderWay(c)'] \in Sessions
           /\ \A q \in left'[c] : UnderWay(c)' <= q
BY OldestProps, DeliveryAssumption DEF UnderWay, Busy, TypeOK

\* A session is marked exactly when a caller has a row of it left.
LEMMA MarkedIffLeft ==
    ASSUME TypeOK, OneDrainPerSession, NEW s \in Sessions
    PROVE  s \in inflight <=> \E c \in Callers : \E r \in left[c] : SessionOf[r] = s
<1>1. ASSUME NEW c \in Callers, NEW r \in left[c], SessionOf[r] = s PROVE s \in inflight
  <2>1. Busy(c)
      BY DEF Busy
  <2>2. SessionOf[UnderWay(c)] = s
      BY <1>1, <2>1, UnderWayIsLeft DEF OneDrainPerSession
  <2> QED
      BY <2>1, <2>2 DEF OneDrainPerSession
<1>2. ASSUME s \in inflight PROVE \E c \in Callers : \E r \in left[c] : SessionOf[r] = s
  <2>1. PICK c \in Callers : Busy(c) /\ s = SessionOf[UnderWay(c)]
      BY <1>2 DEF OneDrainPerSession
  <2> QED
      BY <2>1, UnderWayIsLeft
<1> QED
    BY <1>1, <1>2

\* What has to be shown of the marks after a step.
LEMMA MarksKept ==
    ASSUME TypeOK',
           \A c, d \in Callers : \A q \in left'[c], r \in left'[d] :
              SessionOf[q] = SessionOf[r] <=> c = d,
           \A s \in Sessions :
              s \in inflight' <=> \E c \in Callers : \E r \in left'[c] : SessionOf[r] = s,
           \A s \in Sessions : \A r \in left'[s] : SessionOf[r] = s
    PROVE  OneDrainPerSession'
<1>1. ASSUME NEW s, s \in inflight'
      PROVE  s \in {SessionOf[Oldest(left'[c])] : c \in {d \in Callers : left'[d] # {}}}
  <2>1. s \in Sessions
      BY <1>1 DEF TypeOK
  <2>2. PICK c \in Callers : \E r \in left'[c] : SessionOf[r] = s
      BY <1>1, <2>1
  <2>3. left'[c] # {}
      BY <2>2
  <2>4. SessionOf[Oldest(left'[c])] = s
      BY <2>2, <2>3, UnderWayIsLeftNext DEF UnderWay, Busy
  <2> QED
      BY <2>3, <2>4
<1>2. ASSUME NEW c \in Callers, left'[c] # {} PROVE SessionOf[Oldest(left'[c])] \in inflight'
    BY <1>2, UnderWayIsLeftNext DEF UnderWay, Busy
<1>3. inflight' = {SessionOf[Oldest(left'[c])] : c \in {d \in Callers : left'[d] # {}}}
    BY <1>1, <1>2
<1> QED
    BY <1>3 DEF OneDrainPerSession, UnderWay, Busy

-----------------------------------------------------------------------------
(* Type correctness                                                        *)

LEMMA DrainType ==
    ASSUME TypeOK, NEW c \in Callers, NEW s \in Sessions, NEW R \in SUBSET Rows,
           DrainSession(c, s, R)
    PROVE  /\ left' \in [Callers -> SUBSET Rows]
           /\ inflight' \subseteq Sessions
           /\ sent' \subseteq Callers
           /\ carrying' \subseteq Callers
           /\ notice' \subseteq Sessions
BY DEF DrainSession, TypeOK

LEMMA DeliverType ==
    ASSUME TypeOK, NEW c \in Callers, NEW s \in Sessions, NEW R \in SUBSET Rows,
           DeliverSessionMessages(c, s, R)
    PROVE  /\ left' \in [Callers -> SUBSET Rows]
           /\ inflight' \subseteq Sessions
           /\ sent' \subseteq Callers
           /\ carrying' \subseteq Callers
           /\ notice' \subseteq Sessions
BY DrainType DEF DeliverSessionMessages, TypeOK

LEMMA TypeKept ==
    ASSUME TypeOK, [Next]_vars
    PROVE  TypeOK'
<1> USE DeliveryAssumption DEF TypeOK, dbVars, memoryVars, history
<1>1. ASSUME NEW s \in Sessions,
             ContainerStarts(s) \/ ContainerStops(s) \/ StoreNotice(s) \/ CloseTaskSession(s)
      PROVE  TypeOK'
    BY <1>1 DEF ContainerStarts, ContainerStops, StoreNotice, CloseTaskSession
<1>2. ASSUME NEW r \in Rows, WriteMessageOut(r) PROVE TypeOK'
    BY <1>2 DEF WriteMessageOut
<1>3. ASSUME NEW r \in Rows, WriteOutboundDirect(r) PROVE TypeOK'
  <2>1. /\ SessionOf[r] \in Sessions /\ SessionOf[r] \in Callers
        /\ Undelivered(SessionOf[r]) \cup {r} \in SUBSET Rows
      BY DEF Undelivered, Callers
  <2>2. /\ left' \in [Callers -> SUBSET Rows] /\ inflight' \subseteq Sessions
        /\ sent' \subseteq Callers /\ carrying' \subseteq Callers /\ notice' \subseteq Sessions
      BY <1>3, <2>1, DeliverType DEF WriteOutboundDirect
  <2> QED
      BY <1>3, <2>2 DEF WriteOutboundDirect
<1>4. ASSUME NEW c \in Chains, Tick(c) PROVE TypeOK'
    BY <1>4 DEF Tick
<1>5. ASSUME NEW c \in Chains, NEW s \in Sessions, Visit(c, s) PROVE TypeOK'
  <2>1. c \in Callers /\ Undelivered(s) \in SUBSET Rows
      BY DEF Undelivered, Callers
  <2>2. /\ left' \in [Callers -> SUBSET Rows] /\ inflight' \subseteq Sessions
        /\ sent' \subseteq Callers /\ carrying' \subseteq Callers /\ notice' \subseteq Sessions
      BY <1>5, <2>1, DeliverType DEF Visit
  <2> QED
      BY <1>5, <2>2 DEF Visit
<1>6. ASSUME NEW c \in Chains, NEW s \in Sessions, VisitFails(c, s) PROVE TypeOK'
    BY <1>6 DEF VisitFails
<1>7. ASSUME NEW c \in Callers, Accept(c) PROVE TypeOK'
  <2> DEFINE r == UnderWay(c)
  <2>1. r \in Rows
      BY <1>7, UnderWayIsLeft DEF Accept
  <2>5. shown' = [shown EXCEPT ![r] = @ + 1]
      BY <1>7 DEF Accept
  <2> HIDE DEF r
  <2>2. shown' \in [Rows -> Nat]
      BY <2>1, <2>5
  <2>3. sent' \subseteq Callers
      BY <1>7 DEF Accept
  <2>4. untold' \subseteq Sessions
      BY <1>7 DEF Accept
  <2> QED
      BY <1>7, <2>2, <2>3, <2>4 DEF Accept
<1>8. ASSUME NEW c \in Callers, Returned(c) \/ Throws(c) PROVE TypeOK'
  <2> DEFINE r == UnderWay(c)
  <2>1. r \in Rows /\ SessionOf[r] \in Sessions /\ left[c] \ {r} \in SUBSET Rows
      BY <1>8, UnderWayIsLeft DEF Returned, Throws
  <2>2. DrainSession(c, SessionOf[r], left[c] \ {r})
      BY <1>8 DEF Returned, Throws
  <2>3. /\ left' \in [Callers -> SUBSET Rows] /\ inflight' \subseteq Sessions
        /\ sent' \subseteq Callers /\ carrying' \subseteq Callers /\ notice' \subseteq Sessions
      BY <2>1, <2>2, DrainType
  <2> HIDE DEF r
  <2>4. recorded' \in [Rows -> {"none", "delivered", "failed"}]
      BY <1>8, <2>1 DEF Returned, Throws, Record, r
  <2>5. attempts' \in [Rows -> 0..(MaxAttempts - 1)]
      BY <1>8, <2>1 DEF Returned, Throws, r
  <2>6. unheard' \in [Rows -> Nat]
      BY <1>8, <2>1 DEF Returned, Throws, r
  <2> QED
      BY <1>8, <2>3, <2>4, <2>5, <2>6 DEF Returned, Throws
<1>9. CASE HostCrash
    BY <1>9 DEF HostCrash
<1>10. CASE UNCHANGED vars
    BY <1>10 DEF vars
<1> QED
    BY <1>1, <1>2, <1>3, <1>4, <1>5, <1>6, <1>7, <1>8, <1>9, <1>10 DEF Next

-----------------------------------------------------------------------------
(* The inductive invariant                                                 *)

\* A row is awaited after its effect by the caller that drains its session.
LEMMA AwaitedByDrainer ==
    ASSUME RowInv, NEW c \in Callers, Busy(c)
    PROVE  AwaitedAfterEffect(UnderWay(c)) <=> c \in sent
<1>1. ASSUME NEW d \in sent, UnderWay(d) = UnderWay(c) PROVE d = c
  <2>1. d \in Callers /\ Busy(d)
      BY DEF RowInv, TypeOK, SentIsBusy
  <2>2. UnderWay(d) \in left[d] /\ UnderWay(c) \in left[c]
      BY <2>1, UnderWayIsLeft DEF RowInv
  <2> QED
      BY <1>1, <2>1, <2>2 DEF RowInv, OneDrainPerSession
<1> QED
    BY <1>1 DEF AwaitedAfterEffect

\* Steps that only concern sessions, the notice and the chains' lists.
LEMMA Undisturbed ==
    ASSUME RowInv, TypeOK',
           UNCHANGED <<written, recorded, attempts, inflight, left, sent, shown, unheard>>
    PROVE  RowInv'
<1>1. OneDrainPerSession'
    BY DEF RowInv, OneDrainPerSession, UnderWay, Busy
<1>2. ShowingsAccounted'
    BY DEF RowInv, ShowingsAccounted, AwaitedAfterEffect, UnderWay
<1>3. SnapshotIsFresh' /\ OlderWasTried' /\ WrittenInOrder' /\ SentIsBusy' /\ OnlyWrittenRecorded'
    BY DEF RowInv, SnapshotIsFresh, OlderWasTried, WrittenInOrder, SentIsBusy, OnlyWrittenRecorded, Busy
<1> QED
    BY <1>1, <1>2, <1>3 DEF RowInv

\* A row written next is newer than all of its session.
LEMMA NewRow ==
    ASSUME RowInv, NEW r \in Rows, InOrder(r), written' = written \cup {r}, UNCHANGED recorded
    PROVE  /\ WrittenInOrder'
           /\ OnlyWrittenRecorded'
           /\ \A q \in written : SessionOf[q] = SessionOf[r] => q < r
<1> USE DeliveryAssumption
<1>1. WrittenInOrder'
    BY DEF RowInv, TypeOK, InOrder, WrittenInOrder
<1>2. OnlyWrittenRecorded'
    BY DEF RowInv, OnlyWrittenRecorded
<1>3. \A q \in written : SessionOf[q] = SessionOf[r] => q < r
    BY DEF RowInv, TypeOK, InOrder, WrittenInOrder
<1> QED
    BY <1>1, <1>2, <1>3

LEMMA RowIsWritten ==
    ASSUME RowInv, TypeOK', NEW r \in Rows, InOrder(r), written' = written \cup {r},
           UNCHANGED <<recorded, attempts, inflight, left, sent, shown, unheard>>
    PROVE  RowInv'
<1>1. OneDrainPerSession'
    BY DEF RowInv, OneDrainPerSession, UnderWay, Busy
<1>2. ShowingsAccounted'
    BY DEF RowInv, ShowingsAccounted, AwaitedAfterEffect, UnderWay
<1>3. SnapshotIsFresh' /\ SentIsBusy'
    BY DEF RowInv, SnapshotIsFresh, SentIsBusy, Busy
<1>4. WrittenInOrder' /\ OnlyWrittenRecorded'
    BY NewRow
<1>5. OlderWasTried'
  <2>1. ASSUME NEW c \in Callers, NEW x \in left[c], SessionOf[r] = SessionOf[x], r < x PROVE FALSE
    <3>1. x \in written /\ x < r
        BY <2>1, NewRow DEF RowInv, SnapshotIsFresh
    <3> QED
        BY <2>1, <3>1, DeliveryAssumption DEF RowInv, TypeOK
  <2> QED
      BY <2>1 DEF RowInv, OlderWasTried
<1> QED
    BY <1>1, <1>2, <1>3, <1>4, <1>5 DEF RowInv

\* An idle caller begins a drain of a session nobody drains.
LEMMA DrainStarts ==
    ASSUME RowInv, TypeOK', NEW c \in Callers, NEW s \in Sessions,
           left[c] = {}, s \notin inflight, c \in Sessions => c = s,
           DrainSession(c, s, Undelivered(s)'),
           written \subseteq written', WrittenInOrder', OnlyWrittenRecorded',
           \A q \in written' \ written : SessionOf[q] = s,
           UNCHANGED <<recorded, attempts, shown, unheard>>
    PROVE  RowInv'
<1> DEFINE R == Undelivered(s)'
<1>1. /\ left' = [left EXCEPT ![c] = R]
      /\ inflight' = IF R = {} THEN inflight \ {s} ELSE inflight \cup {s}
      /\ sent' = sent \ {c}
    BY DEF DrainSession
<1>2. \A q : q \in R <=> q \in written' /\ SessionOf[q] = s /\ recorded[q] = "none"
    BY DEF Undelivered
<1> HIDE DEF R
<1>3. c \notin sent /\ sent' = sent
    BY <1>1 DEF RowInv, SentIsBusy, Busy
<1>4. left'[c] = R /\ \A d \in Callers \ {c} : left'[d] = left[d]
    BY <1>1 DEF RowInv, TypeOK
<1>5. \A d \in Callers : \A q \in left[d] : SessionOf[q] # s
    BY MarkedIffLeft DEF RowInv
<1>6. OneDrainPerSession'
  <2>1. \A d, e \in Callers : \A x \in left'[d], y \in left'[e] : SessionOf[x] = SessionOf[y] <=> d = e
      BY <1>2, <1>4, <1>5 DEF RowInv, OneDrainPerSession
  <2>2. ASSUME NEW t \in Sessions
        PROVE  t \in inflight' <=> \E d \in Callers : \E x \in left'[d] : SessionOf[x] = t
    <3>1. CASE t = s
      <4>1. CASE R = {}
          BY <1>1, <1>4, <1>5, <3>1, <4>1
      <4>2. CASE R # {}
          BY <1>1, <1>2, <1>4, <3>1, <4>2
      <4> QED
          BY <4>1, <4>2
    <3>2. CASE t # s
      <4>1. t \in inflight' <=> t \in inflight
          BY <1>1, <3>2
      <4>2. t \in inflight <=> \E d \in Callers : \E x \in left[d] : SessionOf[x] = t
          BY MarkedIffLeft DEF RowInv
      <4> QED
          BY <1>2, <1>4, <3>2, <4>1, <4>2
    <3> QED
        BY <3>1, <3>2
  <2>3. \A t \in Sessions : \A x \in left'[t] : SessionOf[x] = t
      BY <1>2, <1>4 DEF RowInv, OneDrainPerSession, Callers
  <2> QED
      BY <2>1, <2>2, <2>3, MarksKept
<1>7. SnapshotIsFresh'
    BY <1>2, <1>4 DEF RowInv, SnapshotIsFresh
<1>8. ShowingsAccounted'
  <2>1. \A d \in sent : d \in Callers /\ left'[d] = left[d]
      BY <1>3, <1>4 DEF RowInv, TypeOK
  <2>2. \A q \in Rows : AwaitedAfterEffect(q)' <=> AwaitedAfterEffect(q)
      BY <1>3, <2>1 DEF AwaitedAfterEffect, UnderWay
  <2> QED
      BY <2>2 DEF RowInv, ShowingsAccounted
<1>9. OlderWasTried'
  <2>1. ASSUME NEW d \in Callers, NEW x \in left'[d], NEW q \in written',
               SessionOf[q] = SessionOf[x], q < x, recorded[q] = "none"
        PROVE  q \in left'[d] \/ attempts[q] > 0
    <3>1. CASE d = c
        BY <1>2, <1>4, <2>1, <3>1
    <3>2. CASE d # c
      <4>1. x \in left[d] /\ SessionOf[x] # s /\ left'[d] = left[d]
          BY <1>4, <1>5, <3>2
      <4>2. q \in written
          BY <2>1, <4>1
      <4> QED
          BY <2>1, <4>1, <4>2 DEF RowInv, OlderWasTried
    <3> QED
        BY <3>1, <3>2
  <2> QED
      BY <2>1 DEF OlderWasTried
<1>10. SentIsBusy'
    BY <1>3, <1>4 DEF RowInv, TypeOK, SentIsBusy, Busy
<1> QED
    BY <1>6, <1>7, <1>8, <1>9, <1>10 DEF RowInv

\* The row under way reaches the platform.
LEMMA RowIsAccepted ==
    ASSUME RowInv, TypeOK', NEW c \in Callers, Accept(c)
    PROVE  RowInv'
<1> DEFINE r == UnderWay(c)
<1>1. /\ Busy(c) /\ c \notin sent /\ sent' = sent \cup {c}
      /\ shown' = [shown EXCEPT ![r] = @ + 1]
      /\ UNCHANGED <<written, recorded, attempts, inflight, left, unheard>>
    BY DEF Accept, dbVars
<1>2. r \in Rows /\ r \in left[c]
    BY <1>1, UnderWayIsLeft DEF RowInv
<1>3. ~AwaitedAfterEffect(r)
    BY <1>1, AwaitedByDrainer
<1>4. \A q \in Rows : AwaitedAfterEffect(q)' <=> AwaitedAfterEffect(q) \/ q = r
    BY <1>1 DEF AwaitedAfterEffect, UnderWay
<1> HIDE DEF r
<1>5. ShowingsAccounted'
  <2>1. ASSUME NEW q \in Rows
        PROVE  shown'[q] = unheard'[q] + (IF recorded'[q] = "delivered" THEN 1 ELSE 0)
                                       + (IF AwaitedAfterEffect(q)' THEN 1 ELSE 0)
    <3>1. shown[q] = unheard[q] + (IF recorded[q] = "delivered" THEN 1 ELSE 0)
                                + (IF AwaitedAfterEffect(q) THEN 1 ELSE 0)
        BY DEF RowInv, ShowingsAccounted
    <3>2. unheard[q] \in Nat /\ shown[q] \in Nat
        BY DEF RowInv, TypeOK
    <3>3. CASE q = r
      <4>1. shown'[q] = shown[q] + 1
          BY <1>1, <1>2, <3>3 DEF RowInv, TypeOK
      <4>2. ~AwaitedAfterEffect(q) /\ AwaitedAfterEffect(q)'
          BY <1>3, <1>4, <3>3
      <4> QED
          BY <1>1, <3>1, <3>2, <4>1, <4>2
    <3>4. CASE q # r
      <4>1. shown'[q] = shown[q]
          BY <1>1, <3>4 DEF RowInv, TypeOK
      <4> QED
          BY <1>1, <1>4, <3>1, <3>4, <4>1
    <3> QED
        BY <3>3, <3>4
  <2> QED
      BY <2>1 DEF ShowingsAccounted
<1>6. OneDrainPerSession'
    BY <1>1 DEF RowInv, OneDrainPerSession, UnderWay, Busy
<1>7. SnapshotIsFresh' /\ OlderWasTried' /\ WrittenInOrder' /\ SentIsBusy' /\ OnlyWrittenRecorded'
    BY <1>1 DEF RowInv, SnapshotIsFresh, OlderWasTried, WrittenInOrder, SentIsBusy, OnlyWrittenRecorded, Busy
<1> QED
    BY <1>5, <1>6, <1>7 DEF RowInv

\* The platform answers and the drain goes on to the next row.
LEMMA DrainAdvances ==
    ASSUME RowInv, TypeOK', NEW c \in Callers, Returned(c) \/ Throws(c)
    PROVE  RowInv'
<1> DEFINE r == UnderWay(c)
           s == SessionOf[UnderWay(c)]
<1>1. /\ Busy(c) /\ UNCHANGED <<written, shown>>
      /\ left' = [left EXCEPT ![c] = left[c] \ {r}]
      /\ inflight' = IF left[c] \ {r} = {} THEN inflight \ {s} ELSE inflight \cup {s}
      /\ sent' = sent \ {c}
    BY DEF Returned, Throws, DrainSession, history
<1>2. r \in Rows /\ r \in left[c] /\ s \in Sessions /\ recorded[r] = "none" /\ r \in written
    BY <1>1, UnderWayIsLeft DEF RowInv, SnapshotIsFresh
<1>3. AwaitedAfterEffect(r) <=> c \in sent
    BY <1>1, AwaitedByDrainer
<1>4. left'[c] = left[c] \ {r} /\ \A d \in Callers \ {c} : left'[d] = left[d]
    BY <1>1 DEF RowInv, TypeOK
<1>5. \A d \in Callers \ {c} : \A q \in left[d] : SessionOf[q] # s
    BY <1>2 DEF RowInv, OneDrainPerSession
<1>6. \A q \in left[c] : SessionOf[q] = s
    BY <1>2 DEF RowInv, OneDrainPerSession
<1>7. \A q \in Rows \ {r} : recorded'[q] = recorded[q] /\ attempts'[q] = attempts[q] /\ unheard'[q] = unheard[q]
    BY DEF Returned, Throws, Record, RowInv, TypeOK, history
<1>8. \/ c \in sent /\ recorded'[r] = "delivered" /\ unheard'[r] = unheard[r]
      \/ /\ recorded'[r] = "failed" \/ (recorded'[r] = "none" /\ attempts'[r] > 0)
         /\ unheard'[r] = IF c \in sent THEN unheard[r] + 1 ELSE unheard[r]
  <2>1. /\ recorded \in [Rows -> {"none", "delivered", "failed"}] /\ unheard \in [Rows -> Nat]
        /\ attempts \in [Rows -> 0..(MaxAttempts - 1)]
      BY DEF RowInv, TypeOK
  <2>2. CASE Returned(c)
    <3>1. /\ c \in sent /\ unheard' = unheard
          /\ recorded' = [recorded EXCEPT ![r] = IF @ = "none" THEN "delivered" ELSE @]
        BY <2>2 DEF Returned, Record, history
    <3> HIDE DEF r
    <3> QED
        BY <1>2, <2>1, <3>1
  <2>3. CASE Throws(c)
    <3>1. /\ recorded' = IF attempts[r] + 1 >= MaxAttempts
                         THEN [recorded EXCEPT ![r] = IF @ = "none" THEN "failed" ELSE @] ELSE recorded
          /\ attempts' = [attempts EXCEPT ![r] = IF attempts[r] + 1 >= MaxAttempts THEN 0 ELSE @ + 1]
          /\ unheard' = IF c \in sent THEN [unheard EXCEPT ![r] = @ + 1] ELSE unheard
        BY <2>3 DEF Throws, Record
    <3> HIDE DEF r
    <3>2. recorded'[r] = "failed" \/ (recorded'[r] = "none" /\ attempts'[r] > 0)
      <4>1. CASE attempts[r] + 1 >= MaxAttempts
        <5>1. recorded' = [recorded EXCEPT ![r] = IF @ = "none" THEN "failed" ELSE @]
            BY <3>1, <4>1
        <5>2. recorded'[r] = "failed"
            BY <1>2, <2>1, <5>1
        <5> QED
            BY <5>2
      <4>2. CASE ~(attempts[r] + 1 >= MaxAttempts)
          BY <1>2, <2>1, <3>1, <4>2
      <4> QED
          BY <4>1, <4>2
    <3>3. unheard'[r] = IF c \in sent THEN unheard[r] + 1 ELSE unheard[r]
        BY <1>2, <2>1, <3>1
    <3> QED
        BY <3>2, <3>3
  <2> QED
      BY <2>2, <2>3
<1>9. \A q \in Rows : AwaitedAfterEffect(q)' <=> AwaitedAfterEffect(q) /\ q # r
  <2>1. \A d \in sent : d \in Callers /\ Busy(d)
      BY DEF RowInv, TypeOK, SentIsBusy
  <2>2. \A d \in sent \ {c} : UnderWay(d)' = UnderWay(d) /\ UnderWay(d) # r
    <3>1. ASSUME NEW d \in sent \ {c} PROVE UnderWay(d)' = UnderWay(d) /\ UnderWay(d) # r
      <4>1. UnderWay(d) \in left[d]
          BY <2>1, UnderWayIsLeft DEF RowInv
      <4>2. UnderWay(d) # r
          BY <1>5, <2>1, <4>1
      <4> QED
          BY <1>4, <2>1, <4>2 DEF UnderWay
    <3> QED
        BY <3>1
  <2> QED
      BY <1>1, <2>2 DEF AwaitedAfterEffect
<1> HIDE DEF r, s
<1>10. OneDrainPerSession'
  <2>1. \A d \in Callers : left'[d] \subseteq left[d]
      BY <1>4
  <2>2. \A d, e \in Callers : \A x \in left'[d], y \in left'[e] : SessionOf[x] = SessionOf[y] <=> d = e
      BY <2>1 DEF RowInv, OneDrainPerSession
  <2>3. ASSUME NEW t \in Sessions
        PROVE  t \in inflight' <=> \E d \in Callers : \E x \in left'[d] : SessionOf[x] = t
    <3>1. t \in inflight <=> \E d \in Callers : \E x \in left[d] : SessionOf[x] = t
        BY MarkedIffLeft DEF RowInv
    <3>2. CASE t = s
      <4>1. CASE left[c] \ {r} = {}
          BY <1>1, <1>4, <1>5, <3>2, <4>1
      <4>2. CASE left[c] \ {r} # {}
          BY <1>1, <1>4, <1>6, <3>2, <4>2
      <4> QED
          BY <4>1, <4>2
    <3>3. CASE t # s
      <4>1. t \in inflight' <=> t \in inflight
          BY <1>1, <3>3
      <4> QED
          BY <1>4, <1>6, <3>1, <3>3, <4>1
    <3> QED
        BY <3>2, <3>3
  <2>4. \A t \in Sessions : \A x \in left'[t] : SessionOf[x] = t
      BY <2>1 DEF RowInv, OneDrainPerSession, Callers
  <2> QED
      BY <2>2, <2>3, <2>4, MarksKept
<1>11. SnapshotIsFresh'
  <2>1. ASSUME NEW d \in Callers, NEW q \in left'[d] PROVE q \in written' /\ recorded'[q] = "none"
    <3>1. q \in left[d] /\ q # r
        BY <1>2, <1>4, <1>5, <1>6
    <3> QED
        BY <1>1, <1>7, <3>1 DEF RowInv, TypeOK, SnapshotIsFresh
  <2> QED
      BY <2>1 DEF SnapshotIsFresh
<1>12. ShowingsAccounted'
  <2>1. ASSUME NEW q \in Rows
        PROVE  shown'[q] = unheard'[q] + (IF recorded'[q] = "delivered" THEN 1 ELSE 0)
                                       + (IF AwaitedAfterEffect(q)' THEN 1 ELSE 0)
    <3>1. shown[q] = unheard[q] + (IF recorded[q] = "delivered" THEN 1 ELSE 0)
                                + (IF AwaitedAfterEffect(q) THEN 1 ELSE 0)
        BY DEF RowInv, ShowingsAccounted
    <3>2. unheard[q] \in Nat /\ shown[q] \in Nat /\ shown'[q] = shown[q]
        BY <1>1 DEF RowInv, TypeOK
    <3>3. CASE q = r
      <4>1. ~AwaitedAfterEffect(q)' /\ (AwaitedAfterEffect(q) <=> c \in sent)
          BY <1>3, <1>9, <3>3 DEF r
      <4> QED
          BY <1>2, <1>8, <3>1, <3>2, <3>3, <4>1
    <3>4. CASE q # r
        BY <1>7, <1>9, <3>1, <3>2, <3>4
    <3> QED
        BY <3>3, <3>4
  <2> QED
      BY <2>1 DEF ShowingsAccounted
<1>13. OlderWasTried'
  <2>1. ASSUME NEW d \in Callers, NEW x \in left'[d], NEW q \in written',
               SessionOf[q] = SessionOf[x], q < x, recorded'[q] = "none"
        PROVE  q \in left'[d] \/ attempts'[q] > 0
    <3>1. q \in written /\ q \in Rows /\ x \in left[d]
        BY <1>1, <1>4 DEF RowInv, TypeOK
    <3>2. CASE q = r
        BY <1>8, <2>1, <3>2
    <3>3. CASE q # r
      <4>1. recorded[q] = "none" /\ attempts'[q] = attempts[q]
          BY <1>7, <2>1, <3>1, <3>3
      <4>2. q \in left[d] \/ attempts[q] > 0
          BY <2>1, <3>1, <4>1 DEF RowInv, OlderWasTried
      <4> QED
          BY <1>4, <3>3, <4>1, <4>2
    <3> QED
        BY <3>2, <3>3
  <2> QED
      BY <2>1 DEF OlderWasTried
<1>14. SentIsBusy'
    BY <1>1, <1>4 DEF RowInv, TypeOK, SentIsBusy, Busy
<1>15. WrittenInOrder' /\ OnlyWrittenRecorded'
    BY <1>1, <1>2, <1>7 DEF RowInv, WrittenInOrder, OnlyWrittenRecorded
<1> QED
    BY <1>10, <1>11, <1>12, <1>13, <1>14, <1>15 DEF RowInv

\* A crash forgets every drain.
LEMMA DrainsForgotten ==
    ASSUME RowInv, TypeOK', HostCrash
    PROVE  RowInv'
<1>1. /\ inflight' = {} /\ sent' = {}
      /\ \A c \in Callers : left'[c] = {}
      /\ UNCHANGED <<written, recorded, shown>>
    BY DEF HostCrash
<1>2. OneDrainPerSession'
  <2>1. \A s \in Sessions : s \in Callers
      BY DEF Callers
  <2> QED
      BY <1>1, <2>1, MarksKept
<1>3. ShowingsAccounted'
  <2>1. \A q \in Rows : ~AwaitedAfterEffect(q)'
      BY <1>1 DEF AwaitedAfterEffect
  <2>2. ASSUME NEW q \in Rows
        PROVE  shown'[q] = unheard'[q] + (IF recorded'[q] = "delivered" THEN 1 ELSE 0)
    <3>1. shown[q] = unheard[q] + (IF recorded[q] = "delivered" THEN 1 ELSE 0)
                                + (IF AwaitedAfterEffect(q) THEN 1 ELSE 0)
        BY DEF RowInv, ShowingsAccounted
    <3>2. unheard'[q] = IF AwaitedAfterEffect(q) THEN unheard[q] + 1 ELSE unheard[q]
        BY DEF HostCrash
    <3>3. unheard[q] \in Nat /\ shown[q] \in Nat
        BY DEF RowInv, TypeOK
    <3> QED
        BY <1>1, <3>1, <3>2, <3>3
  <2> QED
      BY <2>1, <2>2 DEF ShowingsAccounted, TypeOK
<1>4. SnapshotIsFresh' /\ OlderWasTried' /\ SentIsBusy'
    BY <1>1 DEF SnapshotIsFresh, OlderWasTried, SentIsBusy
<1>5. WrittenInOrder' /\ OnlyWrittenRecorded'
    BY <1>1 DEF RowInv, WrittenInOrder, OnlyWrittenRecorded
<1> QED
    BY <1>2, <1>3, <1>4, <1>5 DEF RowInv

LEMMA RowInvKept ==
    ASSUME RowInv, [Next]_vars
    PROVE  RowInv'
<1>1. TypeOK'
    BY TypeKept DEF RowInv
<1> USE DEF dbVars, memoryVars, history
<1>2. ASSUME NEW s \in Sessions,
             ContainerStarts(s) \/ ContainerStops(s) \/ StoreNotice(s) \/ CloseTaskSession(s)
      PROVE  RowInv'
    BY <1>1, <1>2, Undisturbed DEF ContainerStarts, ContainerStops, StoreNotice, CloseTaskSession
<1>3. ASSUME NEW r \in Rows, WriteMessageOut(r) PROVE RowInv'
    BY <1>1, <1>3, RowIsWritten DEF WriteMessageOut
<1>4. ASSUME NEW r \in Rows, WriteOutboundDirect(r) PROVE RowInv'
  <2> DEFINE s == SessionOf[r]
  <2>1. /\ InOrder(r) /\ written' = written \cup {r}
        /\ UNCHANGED <<recorded, attempts, shown, unheard>>
      BY <1>4 DEF WriteOutboundDirect
  <2>2. CASE UNCHANGED <<left, inflight, sent, carrying, notice>>
      BY <1>1, <2>1, <2>2, RowIsWritten
  <2>3. CASE DeliverSessionMessages(s, s, Undelivered(s) \cup {r}) /\ s \notin inflight
    <3>1. s \in Sessions /\ s \in Callers
        BY DeliveryAssumption DEF Callers
    <3>2. r \notin written /\ recorded[r] = "none"
        BY <2>1 DEF InOrder, RowInv, OnlyWrittenRecorded
    <3>3. Undelivered(s)' = Undelivered(s) \cup {r}
        BY <2>1, <3>2 DEF Undelivered
    <3>4. DrainSession(s, s, Undelivered(s)')
        BY <2>3, <3>3 DEF DeliverSessionMessages
    <3>5. left[s] = {}
        BY <2>3, <3>1, MarkedIffLeft DEF RowInv, OneDrainPerSession
    <3>6. WrittenInOrder' /\ OnlyWrittenRecorded'
        BY <2>1, NewRow
    <3>7. \A q \in written' \ written : SessionOf[q] = s
        BY <2>1
    <3> HIDE DEF s
    <3> QED
        BY <1>1, <2>1, <2>3, <3>1, <3>4, <3>5, <3>6, <3>7, DrainStarts
  <2> QED
      BY <1>4, <2>2, <2>3 DEF WriteOutboundDirect, DeliverSessionMessages
<1>5. ASSUME NEW c \in Chains, Tick(c) PROVE RowInv'
    BY <1>1, <1>5, Undisturbed DEF Tick
<1>6. ASSUME NEW c \in Chains, NEW s \in Sessions, Visit(c, s) PROVE RowInv'
  <2>1. /\ UNCHANGED <<written, recorded, attempts, shown, unheard>>
        /\ left[c] = {} /\ DeliverSessionMessages(c, s, Undelivered(s))
      BY <1>6 DEF Visit, Busy
  <2>2. CASE s \in inflight
      BY <1>1, <2>1, <2>2, Undisturbed DEF DeliverSessionMessages
  <2>3. CASE s \notin inflight
    <3>1. c \in Callers /\ c \notin Sessions
        BY DeliveryAssumption DEF Callers, Chains
    <3>2. Undelivered(s)' = Undelivered(s)
        BY <2>1 DEF Undelivered
    <3>3. DrainSession(c, s, Undelivered(s)')
        BY <2>1, <2>3, <3>2 DEF DeliverSessionMessages
    <3>4. WrittenInOrder' /\ OnlyWrittenRecorded'
        BY <2>1 DEF RowInv, WrittenInOrder, OnlyWrittenRecorded
    <3> QED
        BY <1>1, <2>1, <2>3, <3>1, <3>3, <3>4, DrainStarts
  <2> QED
      BY <2>2, <2>3
<1>7. ASSUME NEW c \in Chains, NEW s \in Sessions, VisitFails(c, s) PROVE RowInv'
    BY <1>1, <1>7, Undisturbed DEF VisitFails
<1>8. ASSUME NEW c \in Callers, Accept(c) \/ Returned(c) \/ Throws(c) PROVE RowInv'
    BY <1>1, <1>8, RowIsAccepted, DrainAdvances
<1>9. CASE HostCrash
    BY <1>1, <1>9, DrainsForgotten
<1>10. CASE UNCHANGED vars
    BY <1>1, <1>10, Undisturbed DEF vars
<1> QED
    BY <1>2, <1>3, <1>4, <1>5, <1>6, <1>7, <1>8, <1>9, <1>10 DEF Next

LEMMA RowInvInitially ==
    ASSUME Init
    PROVE  RowInv
<1> USE DeliveryAssumption
<1>1. TypeOK
    BY DEF Init, TypeOK
<1>2. OneDrainPerSession
  <2>1. \A c \in Callers : left[c] = {}
      BY DEF Init
  <2>2. \A s \in Sessions : s \in Callers
      BY DEF Callers
  <2> QED
      BY <2>1, <2>2 DEF Init, OneDrainPerSession, Busy
<1>3. ShowingsAccounted
  <2>1. \A r \in Rows : ~AwaitedAfterEffect(r)
      BY DEF Init, AwaitedAfterEffect
  <2>2. ASSUME NEW r \in Rows
        PROVE  shown[r] = unheard[r] + (IF recorded[r] = "delivered" THEN 1 ELSE 0)
                                     + (IF AwaitedAfterEffect(r) THEN 1 ELSE 0)
    <3>1. shown[r] = 0 /\ unheard[r] = 0 /\ recorded[r] = "none"
        BY DEF Init
    <3>2. ~AwaitedAfterEffect(r)
        BY <2>1
    <3> QED
        BY <3>1, <3>2
  <2> QED
      BY <2>2 DEF ShowingsAccounted
<1>4. SnapshotIsFresh /\ OlderWasTried /\ WrittenInOrder /\ SentIsBusy /\ OnlyWrittenRecorded
    BY DEF Init, SnapshotIsFresh, OlderWasTried, WrittenInOrder, SentIsBusy, OnlyWrittenRecorded
<1> QED
    BY <1>1, <1>2, <1>3, <1>4 DEF RowInv

\* A row under way is waiting.
LEMMA UnderWayWaits ==
    ASSUME RowInv, NEW c \in Callers, Busy(c)
    PROVE  /\ UnderWay(c) \in Rows /\ UnderWay(c) \in written
           /\ recorded[UnderWay(c)] = "none"
           /\ fate[UnderWay(c)] = "waiting"
BY UnderWayIsLeft DEF RowInv, SnapshotIsFresh, fate

-----------------------------------------------------------------------------
(* The notice of a switch                                                  *)

\* A drain that looks at a row takes the notice of its own session only, and
\* leaves what other callers carry alone.
LEMMA DrainMovesNotice ==
    ASSUME RowInv, NoticeInv, NEW c \in Callers, NEW s \in Sessions, NEW R \in SUBSET Rows,
           \A r \in R : SessionOf[r] = s,
           s \notin inflight \/ (Busy(c) /\ SessionOf[UnderWay(c)] = s),
           DrainSession(c, s, R),
           untold' = untold
    PROVE  /\ NoticeInv'
           /\ \A t \in notice : HasNotice(t)'
           /\ \A d \in carrying \ {c} : d \in carrying' /\ UnderWay(d)' = UnderWay(d)
<1> DEFINE prefixed == R # {} /\ Oldest(R) \in Chats \ Unroutable /\ s \in notice
<1>1. /\ left' = [left EXCEPT ![c] = R]
      /\ sent' = sent \ {c}
      /\ carrying' = IF prefixed THEN carrying \cup {c} ELSE carrying \ {c}
      /\ notice' = IF prefixed THEN notice \ {s} ELSE notice
    BY DEF DrainSession
<1>2. prefixed => R # {} /\ SessionOf[Oldest(R)] = s
    BY OldestProps
<1> HIDE DEF prefixed
<1>3. left'[c] = R /\ \A d \in Callers \ {c} : left'[d] = left[d]
    BY <1>1 DEF RowInv, TypeOK
<1>4. carrying \subseteq Callers
    BY DEF RowInv, TypeOK
<1>5. \A d \in Callers \ {c} : UnderWay(d)' = UnderWay(d) /\ (Busy(d)' <=> Busy(d))
    BY <1>3 DEF UnderWay, Busy
<1>6. ASSUME NEW d \in Callers \ {c}, Busy(d) PROVE SessionOf[UnderWay(d)] # s
  <2>1. CASE s \notin inflight
      BY <1>6, <2>1 DEF RowInv, OneDrainPerSession
  <2>2. CASE Busy(c) /\ SessionOf[UnderWay(c)] = s
      BY <1>6, <2>2, UnderWayIsLeft DEF RowInv, OneDrainPerSession
  <2> QED
      BY <2>1, <2>2
<1>7. NoticeInv'
  <2>1. \A d \in carrying' : Busy(d)'
      BY <1>1, <1>2, <1>3, <1>4, <1>5 DEF NoticeInv, Busy
  <2>2. ASSUME NEW d \in carrying' \cap sent', SessionOf[UnderWay(d)'] \in untold
        PROVE  SessionOf[UnderWay(d)'] \in notice'
    <3>1. d \in Callers \ {c} /\ d \in carrying \cap sent
        BY <1>1, <1>4
    <3>2. Busy(d) /\ UnderWay(d)' = UnderWay(d) /\ SessionOf[UnderWay(d)] # s
        BY <1>5, <1>6, <3>1 DEF NoticeInv
    <3> QED
        BY <1>1, <2>2, <3>1, <3>2 DEF NoticeInv
  <2> QED
      BY <2>1, <2>2 DEF NoticeInv
<1>8. ASSUME NEW t \in notice PROVE HasNotice(t)'
  <2>1. CASE t \in notice'
      BY <2>1 DEF HasNotice
  <2>2. CASE t \notin notice'
    <3>1. t = s /\ prefixed /\ c \in carrying'
        BY <1>1, <2>2
    <3>2. SessionOf[UnderWay(c)'] = t
        BY <1>2, <1>3, <3>1 DEF UnderWay
    <3> QED
        BY <3>1, <3>2 DEF HasNotice
  <2> QED
      BY <2>1, <2>2
<1>9. \A d \in carrying \ {c} : d \in carrying' /\ UnderWay(d)' = UnderWay(d)
    BY <1>1, <1>4, <1>5
<1> QED
    BY <1>7, <1>8, <1>9

\* The steps that leave the notices, the drains and what was told alone.
LEMMA NoticeUndisturbed ==
    ASSUME NoticeInv, UNCHANGED <<notice, left, sent, carrying, untold>>
    PROVE  NoticeInv' /\ \A s \in Sessions : HasNotice(s) => HasNotice(s)'
BY DEF NoticeInv, HasNotice, UnderWay, Busy

\* A caller that starts a drain carries nothing: every notice is kept.
LEMMA StartKeepsNotices ==
    ASSUME RowInv, NoticeInv, NEW c \in Callers, NEW s \in Sessions, NEW R \in SUBSET Rows,
           \A r \in R : SessionOf[r] = s,
           left[c] = {} \/ c = s,
           DeliverSessionMessages(c, s, R),
           untold' = untold
    PROVE  NoticeInv' /\ \A t \in Sessions : HasNotice(t) => HasNotice(t)'
<1>1. CASE s \in inflight
    BY <1>1, NoticeUndisturbed DEF DeliverSessionMessages
<1>2. CASE s \notin inflight
  <2>1. DrainSession(c, s, R)
      BY <1>2 DEF DeliverSessionMessages
  <2>2. NoticeInv'
      BY <1>2, <2>1, DrainMovesNotice
  <2>3. \A t \in notice : HasNotice(t)'
      BY <1>2, <2>1, DrainMovesNotice
  <2>4. \A d \in carrying \ {c} : d \in carrying' /\ UnderWay(d)' = UnderWay(d)
      BY <1>2, <2>1, DrainMovesNotice
  <2>5. left[c] = {}
    <3>1. c = s => left[c] = {}
        BY <1>2, MarkedIffLeft DEF RowInv, OneDrainPerSession
    <3> QED
        BY <3>1
  <2>6. c \notin carrying
      BY <2>5 DEF NoticeInv, Busy
  <2> QED
      BY <2>2, <2>3, <2>4, <2>6 DEF HasNotice
<1> QED
    BY <1>1, <1>2

\* The end of a row: another caller's notice is kept, and its own if the row
\* was delivered.
LEMMA AnswerMovesNotice ==
    ASSUME RowInv, NoticeInv, NEW c \in Callers, Returned(c) \/ Throws(c)
    PROVE  /\ NoticeInv'
           /\ \A t \in untold : HasNotice(t) =>
                 HasNotice(t)' \/ (Throws(c) /\ c \in carrying /\ SessionOf[UnderWay(c)] = t)
<1> DEFINE s == SessionOf[UnderWay(c)]
           R == left[c] \ {UnderWay(c)}
<1>1. Busy(c) /\ DrainSession(c, s, R) /\ untold' = untold
    BY DEF Returned, Throws, history
<1>2. s \in Sessions /\ R \in SUBSET Rows
    BY <1>1, UnderWayIsLeft DEF RowInv, TypeOK
<1>3. \A r \in R : SessionOf[r] = s
    BY <1>1, UnderWayIsLeft DEF RowInv, OneDrainPerSession
<1>4. s \notin inflight \/ (Busy(c) /\ SessionOf[UnderWay(c)] = s)
    BY <1>1
<1> HIDE DEF R
<1>5. /\ NoticeInv'
      /\ \A t \in notice : HasNotice(t)'
      /\ \A d \in carrying \ {c} : d \in carrying' /\ UnderWay(d)' = UnderWay(d)
    BY <1>1, <1>2, <1>3, <1>4, DrainMovesNotice
<1>6. ASSUME NEW t \in untold, HasNotice(t), t \notin notice, ~(c \in carrying /\ s = t)
      PROVE  HasNotice(t)'
    BY <1>5, <1>6 DEF HasNotice
<1>7. Returned(c) /\ c \in carrying /\ s \in untold => s \in notice
    BY DEF NoticeInv, Returned
<1> QED
    BY <1>5, <1>6, <1>7

\* The invariant of the notices is kept, and a notice that was not told is
\* lost only by a failure.
LEMMA NoticeStep ==
    ASSUME RowInv, NoticeInv, [Next]_vars
    PROVE  /\ NoticeInv'
           /\ \A s \in untold :
                 HasNotice(s) =>
                   \/ HasNotice(s)' \/ s \notin untold'
                   \/ faults' # faults
                   \/ \E c \in carrying : /\ SessionOf[UnderWay(c)] = s
                                          /\ \/ attempts'[UnderWay(c)] > attempts[UnderWay(c)]
                                             \/ recorded'[UnderWay(c)] = "failed"
<1> USE DEF dbVars, memoryVars, history
<1> DEFINE Kept == NoticeInv' /\ \A s \in Sessions : HasNotice(s) => HasNotice(s)'
           LostWith(s) == \E c \in carrying :
                             /\ SessionOf[UnderWay(c)] = s
                             /\ \/ attempts'[UnderWay(c)] > attempts[UnderWay(c)]
                                \/ recorded'[UnderWay(c)] = "failed"
<1>0. untold \subseteq Sessions
    BY DEF RowInv, TypeOK
<1>1. ASSUME NEW s \in Sessions, ContainerStarts(s) \/ ContainerStops(s) \/ CloseTaskSession(s)
      PROVE  Kept
    BY <1>1, NoticeUndisturbed DEF ContainerStarts, ContainerStops, CloseTaskSession
<1>2. ASSUME NEW s \in Sessions, StoreNotice(s) PROVE Kept
    BY <1>2 DEF StoreNotice, NoticeInv, HasNotice, UnderWay, Busy
<1>3. ASSUME NEW r \in Rows, WriteMessageOut(r) PROVE Kept
    BY <1>3, NoticeUndisturbed DEF WriteMessageOut
<1>4. ASSUME NEW r \in Rows, WriteOutboundDirect(r) PROVE Kept
  <2> DEFINE s == SessionOf[r]
             R == Undelivered(s) \cup {r}
  <2>1. untold' = untold
      BY <1>4 DEF WriteOutboundDirect
  <2>2. CASE UNCHANGED <<left, inflight, sent, carrying, notice>>
      BY <2>1, <2>2, NoticeUndisturbed
  <2>3. CASE DeliverSessionMessages(s, s, R)
    <3>1. s \in Sessions /\ s \in Callers
        BY DeliveryAssumption DEF Callers
    <3>2. R \in SUBSET Rows /\ \A q \in R : SessionOf[q] = s
        BY DEF Undelivered, RowInv, TypeOK
    <3> HIDE DEF s, R
    <3> QED
        BY <2>1, <2>3, <3>1, <3>2, StartKeepsNotices
  <2> QED
      BY <1>4, <2>2, <2>3 DEF WriteOutboundDirect
<1>5. ASSUME NEW c \in Chains, Tick(c) PROVE Kept
    BY <1>5, NoticeUndisturbed DEF Tick
<1>6. ASSUME NEW c \in Chains, NEW s \in Sessions, Visit(c, s) PROVE Kept
  <2>1. c \in Callers /\ Undelivered(s) \in SUBSET Rows /\ \A q \in Undelivered(s) : SessionOf[q] = s
      BY DEF Undelivered, Callers, RowInv, TypeOK
  <2>2. left[c] = {} /\ DeliverSessionMessages(c, s, Undelivered(s)) /\ untold' = untold
      BY <1>6 DEF Visit, Busy
  <2> QED
      BY <2>1, <2>2, StartKeepsNotices
<1>7. ASSUME NEW c \in Chains, NEW s \in Sessions, VisitFails(c, s) PROVE Kept
    BY <1>7, NoticeUndisturbed DEF VisitFails
<1>8. ASSUME NEW c \in Callers, Accept(c) PROVE Kept
  <2> DEFINE s == SessionOf[UnderWay(c)]
  <2>1. /\ Busy(c) /\ sent' = sent \cup {c}
        /\ untold' = IF c \in carrying /\ s \notin notice THEN untold \ {s} ELSE untold
        /\ UNCHANGED <<notice, left, carrying>>
      BY <1>8 DEF Accept
  <2>2. \A d \in Callers : UnderWay(d)' = UnderWay(d)
      BY <2>1 DEF UnderWay
  <2>3. carrying \subseteq Callers
      BY DEF RowInv, TypeOK
  <2> HIDE DEF s
  <2>4. ASSUME NEW d \in carrying \cap sent', SessionOf[UnderWay(d)] \in untold'
        PROVE  SessionOf[UnderWay(d)] \in notice
    <3>1. CASE d = c
        BY <2>1, <2>4, <3>1 DEF s
    <3>2. CASE d # c
        BY <2>1, <2>4, <3>2 DEF NoticeInv
    <3> QED
        BY <3>1, <3>2
  <2>5. NoticeInv'
      BY <2>1, <2>2, <2>3, <2>4 DEF NoticeInv, Busy
  <2> QED
      BY <2>1, <2>2, <2>3, <2>5 DEF HasNotice
<1>9. ASSUME NEW c \in Callers, Returned(c) \/ Throws(c)
      PROVE  /\ NoticeInv'
             /\ \A s \in untold : HasNotice(s) => HasNotice(s)' \/ LostWith(s)
  <2>1. c \in carrying /\ Throws(c) => LostWith(SessionOf[UnderWay(c)])
    <3> DEFINE r == UnderWay(c)
    <3>1. ASSUME c \in carrying, Throws(c)
          PROVE  attempts'[r] > attempts[r] \/ recorded'[r] = "failed"
      <4>1. r \in Rows /\ recorded[r] = "none"
          BY <3>1, UnderWayWaits DEF Throws
      <4> HIDE DEF r
      <4>2. CASE attempts[r] + 1 >= MaxAttempts
          BY <3>1, <4>1, <4>2 DEF Throws, Record, RowInv, TypeOK, r
      <4>3. CASE ~(attempts[r] + 1 >= MaxAttempts)
        <5>1. attempts' = [attempts EXCEPT ![r] = @ + 1]
            BY <3>1, <4>3 DEF Throws, r
        <5>2. attempts[r] \in Nat
            BY <4>1, DeliveryAssumption DEF RowInv, TypeOK
        <5> QED
            BY <4>1, <5>1, <5>2 DEF RowInv, TypeOK
      <4> QED
          BY <4>2, <4>3
    <3> QED
        BY <3>1
  <2> HIDE DEF LostWith
  <2> QED
      BY <1>9, <2>1, AnswerMovesNotice
<1>10. ASSUME HostCrash PROVE NoticeInv' /\ faults' # faults
  <2>1. carrying' = {} /\ faults' = faults + 1 /\ faults \in Nat
      BY <1>10 DEF HostCrash, RowInv, TypeOK
  <2> QED
      BY <2>1 DEF NoticeInv
<1>11. ASSUME UNCHANGED vars PROVE Kept
    BY <1>11, NoticeUndisturbed DEF vars
<1> HIDE DEF LostWith
<1>12. /\ NoticeInv'
       /\ \A s \in untold : HasNotice(s) => HasNotice(s)' \/ faults' # faults \/ LostWith(s)
  <2>1. CASE Kept
      BY <1>0, <2>1
  <2>2. CASE HostCrash
      BY <1>10, <2>2
  <2>3. CASE \E c \in Callers : Returned(c) \/ Throws(c)
      BY <1>9, <2>3
  <2> HIDE DEF Kept
  <2> QED
      BY <1>1, <1>2, <1>3, <1>4, <1>5, <1>6, <1>7, <1>8, <1>11, <2>1, <2>2, <2>3 DEF Next
<1> QED
    BY <1>12 DEF LostWith

-----------------------------------------------------------------------------
(* The theorems                                                            *)

\* IInv holds always.
THEOREM DeliveryInvariance == Spec => []IInv
<1>1. Init => IInv
    BY RowInvInitially DEF Init, IInv, NoticeInv
<1>2. IInv /\ [Next]_vars => IInv'
    BY RowInvKept, NoticeStep DEF IInv
<1> QED
    BY <1>1, <1>2, PTL DEF Spec

LEMMA RowsAlways == Spec => []RowInv
<1>1. IInv => RowInv
    BY DEF IInv
<1> QED
    BY <1>1, DeliveryInvariance, PTL

\* A row that was shown twice was shown the first time without the host being
\* told: overlapping drains never repeat one.
THEOREM SeenOnce == Spec => []SeenOnceUnlessUnheard
<1>1. RowInv => SeenOnceUnlessUnheard
  <2>1. ASSUME RowInv, NEW r \in Rows PROVE shown[r] <= unheard[r] + 1
    <3>1. shown[r] = unheard[r] + (IF recorded[r] = "delivered" THEN 1 ELSE 0)
                                + (IF AwaitedAfterEffect(r) THEN 1 ELSE 0)
        BY <2>1 DEF RowInv, ShowingsAccounted
    <3>2. ASSUME AwaitedAfterEffect(r) PROVE recorded[r] = "none"
      <4>1. PICK c \in sent : UnderWay(c) = r
          BY <3>2 DEF AwaitedAfterEffect
      <4>2. r \in left[c] /\ c \in Callers
          BY <2>1, <4>1, UnderWayIsLeft DEF RowInv, SentIsBusy, TypeOK
      <4> QED
          BY <2>1, <4>2 DEF RowInv, SnapshotIsFresh
    <3>3. shown[r] \in Nat /\ unheard[r] \in Nat
        BY <2>1 DEF RowInv, TypeOK
    <3> QED
        BY <3>1, <3>2, <3>3
  <2> QED
      BY <2>1 DEF SeenOnceUnlessUnheard
<1> QED
    BY <1>1, RowsAlways, PTL

\* A notice that has not been told is lost only by a failure of the row it
\* precedes or by a crash.
THEOREM NoticeSurvives == Spec => NoticeLostOnlyByFailure
<1>1. IInv /\ [Next]_vars =>
        [\A s \in untold :
          HasNotice(s) =>
             \/ HasNotice(s)' \/ s \notin untold'
             \/ faults' # faults
             \/ \E c \in carrying : /\ SessionOf[UnderWay(c)] = s
                                    /\ \/ attempts'[UnderWay(c)] > attempts[UnderWay(c)]
                                       \/ recorded'[UnderWay(c)] = "failed"]_vars
    BY NoticeStep DEF IInv
<1> QED
    BY <1>1, DeliveryInvariance, PTL DEF Spec, NoticeLostOnlyByFailure

\* A row overtakes an older one of its session only if that one has failed.
THEOREM Overtaking == Spec => OvertakesOnlyFailed
<1>1. ASSUME RowInv, [Next]_vars, NEW q \in Rows, NEW r \in Rows,
             shown'[r] > shown[r], SessionOf[q] = SessionOf[r], q < r, recorded[q] = "none"
      PROVE  attempts[q] > 0
  <2>1. shown' # shown
      BY <1>1 DEF RowInv, TypeOK
  <2>2. PICK c \in Callers : Accept(c)
      BY <1>1, <2>1 DEF Next, vars, history, ContainerStarts, ContainerStops, StoreNotice, CloseTaskSession,
         WriteMessageOut, WriteOutboundDirect, Tick, Visit, VisitFails, Returned, Throws, HostCrash
  <2> DEFINE u == UnderWay(c)
  <2>3. Busy(c) /\ shown' = [shown EXCEPT ![u] = @ + 1]
      BY <2>2 DEF Accept
  <2>4. u \in left[c] /\ \A x \in left[c] : u <= x
      BY <1>1, <2>3, UnderWayIsLeft DEF RowInv
  <2> HIDE DEF u
  <2>5. u = r
      BY <1>1, <2>3 DEF RowInv, TypeOK
  <2>6. r \in left[c] /\ r \in written /\ q \notin left[c]
      BY <1>1, <2>4, <2>5, DeliveryAssumption DEF RowInv, SnapshotIsFresh
  <2>7. q \in written
      BY <1>1, <2>6 DEF RowInv, WrittenInOrder
  <2> QED
      BY <1>1, <2>6, <2>7 DEF RowInv, OlderWasTried
<1>2. RowInv /\ [Next]_vars =>
        [\A q, r \in Rows :
           /\ shown'[r] > shown[r]
           /\ SessionOf[q] = SessionOf[r] /\ q < r /\ recorded[q] = "none"
           => attempts[q] > 0]_vars
    BY <1>1
<1> QED
    BY <1>2, RowsAlways, PTL DEF Spec, OvertakesOnlyFailed

\* A step that leaves the rows, their record and their showings alone.
LEMMA OutboxStutters ==
    ASSUME UNCHANGED <<written, recorded, shown>>
    PROVE  UNCHANGED Outgoing!outboxVars
BY DEF Outgoing!outboxVars, fate

\* Writing a row submits it.
LEMMA WritingSubmits ==
    ASSUME RowInv, NEW r \in Rows, InOrder(r), written' = written \cup {r},
           UNCHANGED <<recorded, shown>>
    PROVE  Outgoing!Submit(r)
<1>1. r \notin written /\ recorded[r] = "none"
    BY DEF InOrder, RowInv, OnlyWrittenRecorded
<1>2. fate[r] = "absent"
    BY <1>1 DEF fate
<1>3. fate' = [fate EXCEPT ![r] = "waiting"]
    BY <1>1 DEF fate
<1> QED
    BY <1>2, <1>3 DEF Outgoing!Submit

\* An answer settles its row or leaves it waiting, and what is recorded as
\* delivered was shown.
LEMMA AnswerSettles ==
    ASSUME RowInv, NEW c \in Callers, Returned(c) \/ Throws(c)
    PROVE  Outgoing!Settle(UnderWay(c)) \/ UNCHANGED Outgoing!outboxVars
<1> DEFINE r == UnderWay(c)
<1>1. Busy(c) /\ UNCHANGED <<written, shown>>
    BY DEF Returned, Throws, history
<1>2. r \in Rows /\ r \in written /\ recorded[r] = "none" /\ fate[r] = "waiting"
    BY <1>1, UnderWayWaits
<1>3. CASE Returned(c)
  <2>1. c \in sent /\ recorded' = [recorded EXCEPT ![r] = IF @ = "none" THEN "delivered" ELSE @]
      BY <1>3 DEF Returned, Record
  <2>2. AwaitedAfterEffect(r)
      BY <1>1, <2>1, AwaitedByDrainer
  <2> HIDE DEF r
  <2>3. recorded \in [Rows -> {"none", "delivered", "failed"}]
      BY DEF RowInv, TypeOK
  <2>4. shown[r] > 0
    <3>1. shown[r] = unheard[r] + (IF recorded[r] = "delivered" THEN 1 ELSE 0) + 1
        BY <1>2, <2>2 DEF RowInv, ShowingsAccounted
    <3>2. unheard[r] \in Nat /\ shown[r] \in Nat
        BY <1>2 DEF RowInv, TypeOK
    <3> QED
        BY <1>2, <3>1, <3>2
  <2>5. fate' = [fate EXCEPT ![r] = "delivered"]
      BY <1>1, <1>2, <2>1, <2>3 DEF fate
  <2> QED
      BY <1>1, <1>2, <2>4, <2>5 DEF Outgoing!Settle, r
<1>4. CASE Throws(c)
  <2>1. \/ recorded' = [recorded EXCEPT ![r] = IF @ = "none" THEN "failed" ELSE @]
        \/ recorded' = recorded
      BY <1>4 DEF Throws, Record
  <2> HIDE DEF r
  <2>2. recorded \in [Rows -> {"none", "delivered", "failed"}]
      BY DEF RowInv, TypeOK
  <2>3. CASE recorded' = [recorded EXCEPT ![r] = IF @ = "none" THEN "failed" ELSE @]
    <3>1. fate' = [fate EXCEPT ![r] = "failed"]
        BY <1>1, <1>2, <2>2, <2>3 DEF fate
    <3> QED
        BY <1>1, <1>2, <3>1 DEF Outgoing!Settle, r
  <2>4. CASE recorded' = recorded
      BY <1>1, <2>4, OutboxStutters
  <2> QED
      BY <2>1, <2>3, <2>4
<1> QED
    BY <1>3, <1>4

LEMMA OutboxStep ==
    ASSUME RowInv, [Next]_vars
    PROVE  [Outgoing!Next]_(Outgoing!outboxVars)
<1> USE DEF dbVars, memoryVars, history
<1>1. ASSUME NEW s \in Sessions,
             ContainerStarts(s) \/ ContainerStops(s) \/ StoreNotice(s) \/ CloseTaskSession(s)
      PROVE  UNCHANGED Outgoing!outboxVars
    BY <1>1, OutboxStutters DEF ContainerStarts, ContainerStops, StoreNotice, CloseTaskSession
<1>2. ASSUME NEW r \in Rows, WriteMessageOut(r) \/ WriteOutboundDirect(r)
      PROVE  Outgoing!Next
  <2>1. Outgoing!Submit(r)
      BY <1>2, WritingSubmits DEF WriteMessageOut, WriteOutboundDirect
  <2> QED
      BY <2>1 DEF Outgoing!Next
<1>3. ASSUME NEW c \in Chains,
             Tick(c) \/ \E s \in Sessions : Visit(c, s) \/ VisitFails(c, s)
      PROVE  UNCHANGED Outgoing!outboxVars
    BY <1>3, OutboxStutters DEF Tick, Visit, VisitFails
<1>4. ASSUME NEW c \in Callers, Accept(c)
      PROVE  Outgoing!Next
  <2>1. /\ Busy(c) /\ shown' = [shown EXCEPT ![UnderWay(c)] = @ + 1]
        /\ UNCHANGED <<written, recorded>>
      BY <1>4 DEF Accept
  <2>2. UnderWay(c) \in Rows /\ fate[UnderWay(c)] = "waiting"
      BY <2>1, UnderWayWaits
  <2>3. fate' = fate
      BY <2>1 DEF fate
  <2>4. Outgoing!Show(UnderWay(c))
      BY <2>1, <2>2, <2>3 DEF Outgoing!Show
  <2> QED
      BY <2>2, <2>4 DEF Outgoing!Next
<1>5. ASSUME NEW c \in Callers, Returned(c) \/ Throws(c)
      PROVE  Outgoing!Next \/ UNCHANGED Outgoing!outboxVars
  <2>1. UnderWay(c) \in Rows
      BY <1>5, UnderWayWaits DEF Returned, Throws
  <2> QED
      BY <1>5, <2>1, AnswerSettles DEF Outgoing!Next
<1>6. CASE HostCrash
    BY <1>6, OutboxStutters DEF HostCrash
<1>7. CASE UNCHANGED vars
    BY <1>7, OutboxStutters DEF vars
<1> QED
    BY <1>1, <1>2, <1>3, <1>4, <1>5, <1>6, <1>7 DEF Next

\* Every row is shown before it is recorded as delivered, and is not touched
\* after it is recorded.
THEOREM OutboxRefinement == Spec => ImplementsOutbox
<1>1. Init => Outgoing!Init
    BY DEF Init, Outgoing!Init, fate
<1>2. RowInv /\ [Next]_vars => [Outgoing!Next]_(Outgoing!outboxVars)
    BY OutboxStep
<1> QED
    BY <1>1, <1>2, RowsAlways, PTL DEF Spec, Outgoing!Spec, ImplementsOutbox
=============================================================================
