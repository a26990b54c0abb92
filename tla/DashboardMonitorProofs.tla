------------------------ MODULE DashboardMonitorProofs ------------------------
(* What DashboardMonitor promises for any points, values and bounds.       *)
EXTENDS DashboardMonitor, FiniteSetTheorems, SequenceTheorems, TLAPS

-----------------------------------------------------------------------------
(* The invariant.                                                          *)

Entries     == [value : 0..NaN, status : {"Waiting", "Good", "Uncertain"}]
Notices     == [point : Points, entry : Entries] \cup [point : {RCalData}, good : BOOLEAN]
CacheEntry  == [value : 0..MaxWrite, status : Statuses, session : Nat]
Calibration == [rows : BOOLEAN, status : {"Waiting", "Good", "Uncertain", "Bad"}, session : Nat]
Places      ==
  {"apart", "probe", "seed", "seeded", "subscribe", "join", "up", "refreshed", "leaving"}

TypeInv ==
  /\ exists \subseteq Points /\ served \in [Points -> Entries]
  /\ serverUp \in BOOLEAN /\ alive \in BOOLEAN /\ table \in BOOLEAN
  /\ sent \in Seq(Notices)
  /\ pc \in Places /\ nodes \subseteq Points
  /\ connected \in BOOLEAN /\ subscribed \in BOOLEAN
  /\ written \in 0..MaxWrite /\ losses \in 0..MaxLoss /\ session \in Nat

CacheInv ==
  /\ cache \in [Points -> CacheEntry]
  /\ \A p \in Points : cache[p].session <= session
  /\ pc \in {"seeded", "refreshed"} => seen \in [nodes -> Entries]

(* Where the thread is tells what the session has.                         *)
ThreadInv ==
  /\ connected => pc \in {"join", "up", "refreshed"}
  /\ subscribed => pc \in {"up", "refreshed", "leaving"}
  /\ ~subscribed => sent = <<>>
  /\ pc \in {"apart", "leaving"} => ~alive

(* Each session but the first was preceded by a loss.                      *)
SessionInv ==
  /\ alive => session <= losses + 1
  /\ ~alive => session <= losses

(* Point by point, what the cache holds becomes that of the session.       *)
OfSession(p) == cache[p].session = session

FreshInv ==
  /\ pc \in {"seed", "seeded"} => \A p \in Points \ nodes : OfSession(p)
  /\ pc \in {"subscribe", "join", "up", "refreshed"} => \A p \in Points : OfSession(p)

(* A good table is of the session at work, or of the last one.             *)
TableInv ==
  /\ calibration \in Calibration /\ calibration.session <= session
  /\ calibration.status = "Good" => calibration.session = session

MonitorInv == TypeInv /\ CacheInv /\ ThreadInv /\ SessionInv /\ FreshInv /\ TableInv

LEMMA InvInit == Init => MonitorInv
<1> SUFFICES ASSUME Init PROVE MonitorInv
  OBVIOUS
<1>1. TypeInv
  <2>1. served \in [Points -> Entries]
    BY Bounds DEF Init, Entries, Waiting, Entry, NaN
  <2>2. exists \subseteq Points /\ table \in BOOLEAN /\ pc \in Places /\ sent \in Seq(Notices)
    BY DEF Init, Places
  <2>3. written \in 0..MaxWrite /\ losses \in 0..MaxLoss /\ session \in Nat /\ nodes \subseteq Points
    BY Bounds DEF Init
  <2>4. serverUp \in BOOLEAN /\ alive \in BOOLEAN /\ connected \in BOOLEAN /\ subscribed \in BOOLEAN
    BY DEF Init
  <2>5. QED
    BY <2>1, <2>2, <2>3, <2>4 DEF TypeInv
<1>2. CacheInv
  BY Bounds DEF Init, CacheInv, CacheEntry, Statuses, None
<1>3. ThreadInv /\ SessionInv /\ FreshInv
  BY DEF Init, ThreadInv, SessionInv, FreshInv
<1>4. TableInv
  BY DEF Init, TableInv, Calibration
<1>5. QED
  BY <1>1, <1>2, <1>3, <1>4 DEF MonitorInv

-----------------------------------------------------------------------------
(* What the server does touches neither the thread nor the cache.          *)

LEMMA NotifiedType ==
  ASSUME TypeInv, NEW n \in Notices, Notified(n)
  PROVE  sent' \in Seq(Notices) /\ (~subscribed => sent' = sent)
BY DEF TypeInv, Notified

LEMMA NotifiedValueType ==
  ASSUME TypeInv, NEW p \in Points, NEW e \in Entries, NotifiedValue(p, e)
  PROVE  sent' \in Seq(Notices) /\ (~subscribed => sent' = sent)
<1>1. [point |-> p, entry |-> e] \in Notices
  BY DEF Notices
<1>2. QED
  BY <1>1, NotifiedType DEF NotifiedValue

LEMMA ServerStep ==
  ASSUME MonitorInv, UNCHANGED <<thread, shown, subscribed, session>>, TypeInv',
         ~subscribed => sent' = sent, losses' = losses, alive' = alive
  PROVE  MonitorInv'
<1>1. CacheInv' /\ FreshInv' /\ TableInv' /\ ThreadInv' /\ SessionInv'
  BY DEF MonitorInv, thread, shown, CacheInv, FreshInv, OfSession, TableInv, ThreadInv, SessionInv
<1>2. QED
  BY <1>1 DEF MonitorInv

LEMMA PublishStep ==
  ASSUME MonitorInv, NEW p \in Points, Publish(p)
  PROVE  MonitorInv'
<1>1. PICK e \in {Entry(written', "Good"), Entry(NaN, "Good"), Entry(NaN, "Uncertain")} :
        served' = [served EXCEPT ![p] = e] /\ NotifiedValue(p, e)
  BY DEF Publish
<1>2. written' \in 0..MaxWrite
  BY Bounds DEF Publish, MonitorInv, TypeInv
<1>3. e \in Entries
  BY <1>2, Bounds DEF Entry, Entries, NaN
<1>4. sent' \in Seq(Notices) /\ (~subscribed => sent' = sent)
  BY <1>1, <1>3, NotifiedValueType DEF MonitorInv
<1>5. TypeInv'
  BY <1>1, <1>2, <1>3, <1>4 DEF Publish, MonitorInv, TypeInv, thread, shown
<1>6. QED
  BY <1>4, <1>5, ServerStep DEF Publish

LEMMA LoseSourceStep ==
  ASSUME MonitorInv, NEW p \in Points, LoseSource(p)
  PROVE  MonitorInv'
<1>1. served[p] \in Entries /\ served' \in [Points -> Entries]
  BY DEF LoseSource, MonitorInv, TypeInv, Entries
<1>2. sent' \in Seq(Notices) /\ (~subscribed => sent' = sent)
  <2>1. CASE sent' = sent
    BY <2>1 DEF MonitorInv, TypeInv
  <2>2. ASSUME NEW v \in {served[p].value, None}, NotifiedValue(p, Entry(v, "Uncertain"))
        PROVE  sent' \in Seq(Notices) /\ (~subscribed => sent' = sent)
    <3>1. Entry(v, "Uncertain") \in Entries
      BY <1>1, Bounds DEF Entry, Entries, None, NaN
    <3>2. QED
      BY <2>2, <3>1, NotifiedValueType DEF MonitorInv
  <2>3. QED
    BY <2>1, <2>2 DEF LoseSource
<1>3. TypeInv'
  BY <1>1, <1>2 DEF LoseSource, MonitorInv, TypeInv, thread, shown
<1>4. QED
  BY <1>2, <1>3, ServerStep DEF LoseSource

LEMMA ServerStartsStep == ASSUME MonitorInv, ServerStarts PROVE MonitorInv'
<1>1. served' \in [Points -> Entries]
  <2>1. Waiting \in Entries
    BY Bounds DEF Waiting, Entry, Entries, NaN
  <2>2. QED
    BY <2>1 DEF ServerStarts
<1>2. TypeInv'
  BY <1>1 DEF ServerStarts, MonitorInv, TypeInv, thread, shown
<1>3. QED
  BY <1>2, ServerStep DEF ServerStarts

(* A session is lost: the thread finds out later.                          *)
LEMMA LossStep == ASSUME MonitorInv, ServerStops \/ SessionBreaks PROVE MonitorInv'
<1>1. TypeInv'
  <2>1. losses' \in 0..MaxLoss
    BY Bounds DEF ServerStops, SessionBreaks, MonitorInv, TypeInv
  <2>2. CASE ServerStops
    BY <2>1, <2>2 DEF ServerStops, MonitorInv, TypeInv, thread, shown
  <2>3. CASE SessionBreaks
    BY <2>1, <2>3 DEF SessionBreaks, MonitorInv, TypeInv, server, thread, shown
  <2>4. QED
    BY <2>2, <2>3
<1>2. SessionInv'
  BY DEF ServerStops, SessionBreaks, MonitorInv, TypeInv, SessionInv
<1>3. CacheInv' /\ FreshInv' /\ TableInv' /\ ThreadInv'
  BY DEF ServerStops, SessionBreaks, MonitorInv, thread, shown, CacheInv, FreshInv, OfSession,
         TableInv, ThreadInv
<1>4. QED
  BY <1>1, <1>2, <1>3 DEF MonitorInv

-----------------------------------------------------------------------------
(* The thread.                                                             *)

LEMMA RecordedType ==
  ASSUME calibration \in Calibration, NEW good \in BOOLEAN, NEW now \in Nat,
         calibration.session <= now
  PROVE  /\ Recorded(good, now) \in Calibration /\ Recorded(good, now).session <= now
         /\ Recorded(good, now).status = "Good" => Recorded(good, now).session = now
<1>1. CASE good
  BY <1>1 DEF Recorded, Calibration
<1>2. CASE ~good
  <2> DEFINE status == IF calibration.rows THEN "Uncertain" ELSE "Bad"
  <2>1. Recorded(good, now) = [calibration EXCEPT !.status = status] /\ status \in {"Uncertain", "Bad"}
    BY <1>2 DEF Recorded
  <2> HIDE DEF status
  <2>2. QED
    BY <2>1 DEF Calibration
<1>3. QED
  BY <1>1, <1>2

LEMMA ConnectStep == ASSUME MonitorInv, Connect PROVE MonitorInv'
<1>1. TypeInv'
  BY DEF Connect, MonitorInv, TypeInv, server, Places
<1>2. CacheInv' /\ FreshInv'
  BY DEF Connect, MonitorInv, TypeInv, CacheInv, FreshInv, CacheEntry
<1>3. ThreadInv' /\ SessionInv'
  BY DEF Connect, MonitorInv, TypeInv, ThreadInv, SessionInv
<1>4. TableInv'
  <2>1. /\ calibration' = Recorded(table, session') /\ table \in BOOLEAN
        /\ session \in Nat /\ session' = session + 1
    BY DEF Connect, MonitorInv, TypeInv
  <2>2. calibration \in Calibration /\ calibration.session <= session
    BY DEF MonitorInv, TableInv
  <2>3. calibration.session \in Nat
    BY <2>2 DEF Calibration
  <2>4. calibration.session <= session'
    BY <2>1, <2>2, <2>3
  <2>5. QED
    BY <2>1, <2>2, <2>4, RecordedType DEF TableInv
<1>5. QED
  BY <1>1, <1>2, <1>3, <1>4 DEF MonitorInv

LEMMA ProbeStep == ASSUME MonitorInv, Probe PROVE MonitorInv'
<1>1. TypeInv'
  BY DEF Probe, MonitorInv, TypeInv, server, Places
<1>2. \A p \in Points : Probed(p) \in CacheEntry /\ Probed(p).session <= session
                        /\ (p \notin exists => Probed(p).session = session)
  BY Bounds DEF MonitorInv, TypeInv, CacheInv, Probed, CacheEntry, Statuses, None
<1>3. CacheInv'
  BY <1>2 DEF Probe, CacheInv
<1>4. FreshInv'
  BY <1>2 DEF Probe, FreshInv, OfSession
<1>5. ThreadInv' /\ SessionInv' /\ TableInv'
  BY DEF Probe, MonitorInv, ThreadInv, SessionInv, TableInv
<1>6. QED
  BY <1>1, <1>3, <1>4, <1>5 DEF MonitorInv

LEMMA ReadValuesStep == ASSUME MonitorInv, ReadValues PROVE MonitorInv'
<1>1. TypeInv'
  BY DEF ReadValues, MonitorInv, TypeInv, server, shown, Places
<1>2. CacheInv'
  BY DEF ReadValues, MonitorInv, TypeInv, CacheInv, shown
<1>3. FreshInv' /\ ThreadInv' /\ SessionInv' /\ TableInv'
  BY DEF ReadValues, MonitorInv, FreshInv, OfSession, ThreadInv, SessionInv, TableInv, shown
<1>4. QED
  BY <1>1, <1>2, <1>3 DEF MonitorInv

LEMMA ReceivedType ==
  ASSUME MonitorInv, NEW p \in Points, NEW e \in Entries
  PROVE  /\ Received(p, e) \in CacheEntry /\ Received(p, e).session = session
         /\ Read(p, e) \in CacheEntry /\ Read(p, e).session = session
<1>1. /\ e.value \in 0..NaN /\ e.status \in Statuses /\ session \in Nat
      /\ cache[p].value \in 0..MaxWrite
  BY DEF MonitorInv, TypeInv, CacheInv, CacheEntry, Entries, Statuses
<1>2. \A v \in 0..NaN : JsonValue(v) \in 0..MaxWrite
  BY Bounds DEF JsonValue, NaN, None
<1>3. \A v \in 0..NaN : Kept(p, v, e.status) \in {v, cache[p].value}
  BY DEF Kept
<1>4. 0..MaxWrite \subseteq 0..NaN
  BY Bounds DEF NaN
<1>5. JsonValue(Kept(p, e.value, e.status)) \in 0..MaxWrite
  BY <1>1, <1>2, <1>3, <1>4
<1>6. Kept(p, JsonValue(e.value), e.status) \in 0..MaxWrite
  BY <1>1, <1>2, <1>3, <1>4
<1>7. QED
  BY <1>1, <1>5, <1>6 DEF Received, Read, CacheEntry

LEMMA ApplyValuesStep == ASSUME MonitorInv, ApplyValues PROVE MonitorInv'
<1>1. TypeInv'
  BY DEF ApplyValues, MonitorInv, TypeInv, server, Places
<1>2. ASSUME NEW p \in Points
      PROVE  /\ Refreshed(p) \in CacheEntry /\ Refreshed(p).session <= session
             /\ Refreshed(p).session = session
  <2>1. CASE p \in nodes
    <3>1. seen[p] \in Entries
      BY <2>1 DEF ApplyValues, MonitorInv, CacheInv
    <3>2. QED
      BY <2>1, <3>1, ReceivedType DEF Refreshed, MonitorInv, TypeInv
  <2>2. CASE p \notin nodes
    BY <2>2 DEF Refreshed, ApplyValues, MonitorInv, CacheInv, FreshInv, OfSession
  <2>3. QED
    BY <2>1, <2>2
<1>3. CacheInv'
  BY <1>2 DEF ApplyValues, CacheInv
<1>4. FreshInv'
  BY <1>2 DEF ApplyValues, FreshInv, OfSession
<1>5. ThreadInv' /\ SessionInv' /\ TableInv'
  BY DEF ApplyValues, MonitorInv, ThreadInv, SessionInv, TableInv
<1>6. QED
  BY <1>1, <1>3, <1>4, <1>5 DEF MonitorInv

LEMMA CreateSubscriptionStep == ASSUME MonitorInv, CreateSubscription PROVE MonitorInv'
<1>1. TypeInv'
  BY DEF CreateSubscription, MonitorInv, TypeInv, server, Places
<1>2. CacheInv' /\ FreshInv' /\ ThreadInv' /\ SessionInv' /\ TableInv'
  BY DEF CreateSubscription, MonitorInv, CacheInv, FreshInv, OfSession, ThreadInv, SessionInv,
         TableInv
<1>3. QED
  BY <1>1, <1>2 DEF MonitorInv

LEMMA SetToSeqType ==
  ASSUME NEW S, IsFiniteSet(S)
  PROVE  SetToSeq(S) \in Seq(S)
<1>1. Cardinality(S) \in Nat /\ Bijection(1..Cardinality(S), S) # {}
  BY FS_CardinalityType DEF ExistsBijection
<1>2. \E f \in [1..Cardinality(S) -> S] : IsInjective(f)
  BY <1>1 DEF Bijection, Injection
<1>3. SetToSeq(S) \in [1..Cardinality(S) -> S]
  BY <1>2 DEF SetToSeq
<1>4. QED
  BY <1>1, <1>3, SeqDef

LEMMA SubscribeStep == ASSUME MonitorInv, SubscribeDataChange PROVE MonitorInv'
<1> DEFINE S == {[point |-> p, entry |-> served[p]] : p \in nodes}
           t == [point |-> RCalData, good |-> table]
<1>1. S \subseteq Notices
  BY DEF MonitorInv, TypeInv, Notices
<1>2. IsFiniteSet(S)
  <2>1. IsFiniteSet(nodes)
    BY Bounds, FS_Subset DEF MonitorInv, TypeInv
  <2> DEFINE f == [p \in nodes |-> [point |-> p, entry |-> served[p]]]
  <2>2. f \in Surjection(nodes, S)
    BY DEF Surjection
  <2>3. QED
    BY <2>1, <2>2, FS_Surjection DEF ExistsSurjection
<1>3. sent' \in Seq(Notices)
  <2> HIDE DEF S
  <2>1. SetToSeq(S) \in Seq(S)
    BY <1>2, SetToSeqType
  <2>2. SetToSeq(S) \in Seq(Notices)
    BY <1>1, <2>1
  <2>3. t \in Notices
    BY DEF MonitorInv, TypeInv, Notices
  <2> HIDE DEF t
  <2>4. Append(SetToSeq(S), t) \in Seq(Notices)
    BY <2>2, <2>3
  <2>5. QED
    BY <2>4 DEF SubscribeDataChange, S, t
<1>4. TypeInv'
  BY <1>3 DEF SubscribeDataChange, MonitorInv, TypeInv, server, shown, Places
<1>5. CacheInv' /\ FreshInv' /\ ThreadInv' /\ SessionInv' /\ TableInv'
  BY DEF SubscribeDataChange, MonitorInv, CacheInv, FreshInv, OfSession, ThreadInv, SessionInv,
         TableInv, shown
<1>6. QED
  BY <1>4, <1>5 DEF MonitorInv

LEMMA MarkDisconnectedStep == ASSUME MonitorInv, MarkDisconnected PROVE MonitorInv'
<1>1. TypeInv'
  BY DEF MarkDisconnected, MonitorInv, TypeInv, server, Places
<1>2. CacheInv' /\ FreshInv' /\ ThreadInv' /\ SessionInv'
  BY DEF MarkDisconnected, MonitorInv, CacheInv, FreshInv, ThreadInv, SessionInv
<1>3. TableInv'
  <2>1. /\ TableApart \in Calibration /\ TableApart.session = calibration.session
        /\ TableApart.status = "Good" => calibration.status = "Good"
    BY DEF TableApart, MonitorInv, TableInv, Calibration
  <2>2. QED
    BY <2>1 DEF MarkDisconnected, MonitorInv, TableInv
<1>4. QED
  BY <1>1, <1>2, <1>3 DEF MonitorInv

LEMMA DisconnectStep == ASSUME MonitorInv, Disconnect PROVE MonitorInv'
<1>1. TypeInv'
  <2>1. sent' \in Seq(Notices)
    BY DEF Disconnect
  <2>2. QED
    BY <2>1 DEF Disconnect, MonitorInv, TypeInv, server, shown, Places
<1>2. CacheInv' /\ FreshInv' /\ ThreadInv' /\ SessionInv' /\ TableInv'
  BY DEF Disconnect, MonitorInv, CacheInv, FreshInv, ThreadInv, SessionInv, TableInv, shown
<1>3. QED
  BY <1>1, <1>2 DEF MonitorInv

-----------------------------------------------------------------------------
(* Notifications.                                                          *)

LEMMA DeliverValueStep == ASSUME MonitorInv, DeliverValue PROVE MonitorInv'
<1> DEFINE n == Head(sent)
<1>1. n \in Notices /\ Tail(sent) \in Seq(Notices)
  BY DEF DeliverValue, MonitorInv, TypeInv
<1>2. cache' = [cache EXCEPT ![n.point] = Received(n.point, n.entry)] /\ sent' = Tail(sent)
  BY DEF DeliverValue
<1>3. n.point # RCalData
  BY DEF DeliverValue
<1> HIDE DEF n
<1>4. n.point \in Points /\ n.entry \in Entries
  BY <1>1, <1>3 DEF Notices
<1>5. Received(n.point, n.entry) \in CacheEntry /\ Received(n.point, n.entry).session = session
  BY <1>4, ReceivedType
<1>6. TypeInv'
  BY <1>1, <1>2 DEF DeliverValue, MonitorInv, TypeInv, server, thread
<1>7. CacheInv'
  <2>1. cache \in [Points -> CacheEntry] /\ session' = session /\ pc' = pc /\ nodes' = nodes
        /\ seen' = seen /\ session \in Nat /\ \A p \in Points : cache[p].session <= session
    BY DEF DeliverValue, MonitorInv, TypeInv, CacheInv, thread
  <2>2. cache' \in [Points -> CacheEntry]
    BY <1>2, <1>4, <1>5, <2>1
  <2>3. \A p \in Points : cache'[p] = cache[p] \/ cache'[p].session = session
    BY <1>2, <1>4, <1>5, <2>1
  <2>4. QED
    BY <2>1, <2>2, <2>3 DEF MonitorInv, CacheInv
<1>8. FreshInv'
  BY <1>2, <1>4, <1>5 DEF DeliverValue, MonitorInv, CacheInv, FreshInv, OfSession, thread
<1>9. ThreadInv' /\ SessionInv' /\ TableInv'
  <2>1. subscribed
    BY DEF DeliverValue, MonitorInv, ThreadInv
  <2>2. QED
    BY <2>1 DEF DeliverValue, MonitorInv, ThreadInv, SessionInv, TableInv, thread
<1>10. QED
  BY <1>6, <1>7, <1>8, <1>9 DEF MonitorInv

LEMMA DeliverTableStep == ASSUME MonitorInv, DeliverTable PROVE MonitorInv'
<1> DEFINE n == Head(sent)
<1>1. n \in Notices /\ Tail(sent) \in Seq(Notices)
  BY DEF DeliverTable, MonitorInv, TypeInv
<1>2. n.point = RCalData /\ calibration' = Recorded(n.good, session) /\ sent' = Tail(sent)
  BY DEF DeliverTable
<1> HIDE DEF n
<1>3. n.good \in BOOLEAN
  BY <1>1, <1>2, Bounds DEF Notices, RCalData
<1>4. TypeInv'
  BY <1>1, <1>2 DEF DeliverTable, MonitorInv, TypeInv, server, thread
<1>5. CacheInv' /\ FreshInv' /\ SessionInv'
  BY DEF DeliverTable, MonitorInv, CacheInv, FreshInv, OfSession, SessionInv, thread
<1>6. ThreadInv'
  <2>1. subscribed
    BY DEF DeliverTable, MonitorInv, ThreadInv
  <2>2. QED
    BY <2>1 DEF DeliverTable, MonitorInv, ThreadInv, thread
<1>7. TableInv'
  <2>1. session' = session /\ session \in Nat
    BY DEF DeliverTable, MonitorInv, TypeInv
  <2>2. QED
    BY <1>2, <1>3, <2>1, RecordedType DEF MonitorInv, TableInv
<1>8. QED
  BY <1>4, <1>5, <1>6, <1>7 DEF MonitorInv

LEMMA WriteTableStep == ASSUME MonitorInv, WriteTable PROVE MonitorInv'
<1>1. table' \in BOOLEAN /\ losses' \in 0..MaxLoss /\ losses' = losses + 1
  BY Bounds DEF WriteTable, MonitorInv, TypeInv
<1>2. sent' \in Seq(Notices) /\ (~subscribed => sent' = sent)
  <2> DEFINE t == [point |-> RCalData, good |-> table']
  <2>1. t \in Notices
    BY <1>1 DEF Notices
  <2>2. Notified(t)
    BY DEF WriteTable
  <2> HIDE DEF t
  <2>3. QED
    BY <2>1, <2>2, NotifiedType DEF MonitorInv
<1>3. TypeInv'
  BY <1>1, <1>2 DEF WriteTable, MonitorInv, TypeInv, thread, shown
<1>4. SessionInv'
  BY <1>1 DEF WriteTable, MonitorInv, TypeInv, SessionInv
<1>5. CacheInv' /\ FreshInv' /\ TableInv' /\ ThreadInv'
  BY <1>2 DEF WriteTable, MonitorInv, thread, shown, CacheInv, FreshInv, OfSession, TableInv,
              ThreadInv
<1>6. QED
  BY <1>3, <1>4, <1>5 DEF MonitorInv

LEMMA InvStep == MonitorInv /\ [Next]_vars => MonitorInv'
<1> SUFFICES ASSUME MonitorInv, [Next]_vars PROVE MonitorInv'
  OBVIOUS
<1>1. CASE Monitor
  BY <1>1, ConnectStep, ProbeStep, ReadValuesStep, ApplyValuesStep, CreateSubscriptionStep,
     SubscribeStep, MarkDisconnectedStep, DisconnectStep DEF Monitor
<1>2. CASE \E p \in Points : Publish(p) \/ LoseSource(p)
  BY <1>2, PublishStep, LoseSourceStep
<1>3. CASE Deliver \/ ServerStops \/ ServerStarts \/ SessionBreaks \/ WriteTable
  BY <1>3, DeliverValueStep, DeliverTableStep, LossStep, ServerStartsStep, WriteTableStep
  DEF Deliver
<1>4. CASE UNCHANGED vars
  BY <1>4 DEF vars, server, thread, shown, MonitorInv, TypeInv, CacheInv, ThreadInv, SessionInv,
              FreshInv, OfSession, TableInv
<1>5. QED
  BY <1>1, <1>2, <1>3, <1>4 DEF Next

LEMMA InvAlways == Spec => []MonitorInv
BY InvInit, InvStep, PTL DEF Spec

-----------------------------------------------------------------------------
(* Type correctness, and that a monitor that is apart has no connection,   *)
(* no subscription and nothing under way.                                  *)
THEOREM TypeCorrect == Spec => []TypeOK
<1>1. ASSUME MonitorInv PROVE TypeOK
  <2>1. session <= losses + 1 /\ losses <= MaxLoss /\ session \in Nat /\ losses \in Nat
    BY <1>1, Bounds DEF MonitorInv, TypeInv, SessionInv
  <2>2. \A p \in Points :
          cache[p] \in [value : 0..MaxWrite, status : Statuses, session : 0..(MaxLoss + 1)]
    BY <1>1, <2>1, Bounds DEF MonitorInv, CacheInv, CacheEntry
  <2>3. cache \in [Points -> [value : 0..MaxWrite, status : Statuses, session : 0..(MaxLoss + 1)]]
    BY <1>1, <2>2 DEF MonitorInv, CacheInv
  <2>4. pc = "apart" => ~connected /\ ~subscribed /\ sent = <<>>
    BY <1>1 DEF MonitorInv, ThreadInv
  <2>5. calibration \in [rows : BOOLEAN, status : {"Waiting", "Good", "Uncertain", "Bad"},
                         session : 0..(MaxLoss + 1)]
    BY <1>1, <2>1, Bounds DEF MonitorInv, TableInv, Calibration
  <2>6. QED
    BY <1>1, <2>1, <2>3, <2>4, <2>5 DEF TypeOK, MonitorInv, TypeInv, Places
<1>2. QED
  BY <1>1, InvAlways, PTL

(* What shows as connected was received in the session at work, and so    *)
(* was a table that shows as good.                                         *)
THEOREM ShownOfSession == Spec => []ShownIsOfSession
<1>1. MonitorInv => ShownIsOfSession
  BY DEF MonitorInv, ThreadInv, FreshInv, OfSession, TableInv, ShownIsOfSession
<1>2. QED
  BY <1>1, InvAlways, PTL
=============================================================================
