-------------------------- MODULE DashboardMonitor --------------------------
(***************************************************************************)
(* OpcUaMonitor (gizmo_dashboard.py), which the dashboard and the          *)
(* historian each run: one OPC UA session that keeps the last value of     *)
(* every variable.  A thread connects, reads everything, subscribes, and   *)
(* then reads everything again every five seconds; another thread delivers *)
(* what the server notifies.                                               *)
(*                                                                         *)
(* The server (gizmo_opcua.py and its library) writes one point at a time. *)
(* A notification may be missing when only the status changed, and one of  *)
(* an uncertain point may come without its value.  The server may stop and *)
(* come back with other points, and a session may break: the thread marks  *)
(* what it shows and then closes it, and what is under way is delivered    *)
(* until then.                                                             *)
(***************************************************************************)
EXTENDS Naturals, Sequences, SequencesExt, FiniteSets

CONSTANTS
  Points,         \* VARIABLES of the dashboard
  MaxWrite,       \* bound on the values the server publishes
  MaxLoss,        \* bound on lost sessions and rewritten tables
  MaxSent         \* bound on the notifications under way

ASSUME Bounds ==
  IsFiniteSet(Points) /\ "RCalData" \notin Points /\ MaxWrite \in Nat /\ MaxLoss \in Nat /\ MaxSent \in Nat

VARIABLES
  exists,         \* points the server has
  served,         \* what it serves: value and status
  table,          \* RCalData is a table that parses
  serverUp, alive,\* ... and the session of the monitor with it
  sent,           \* notifications under way
  pc,             \* where the thread of the monitor is
  nodes,          \* _nodes: the points that exist
  seen,           \* what the read at work found
  cache,          \* _values, each with the session it was received in
  connected,
  subscribed,
  calibration,    \* _resistance_calibration: its rows are there, its status, its session
  session, written, losses

server  == <<exists, served, table, serverUp, written>>
thread  == <<pc, nodes, seen>>
shown   == <<cache, connected, calibration>>
vars    == <<server, alive, sent, thread, shown, subscribed, session, losses>>

(* No value, and a value that is no number.                                *)
None == 0
NaN  == MaxWrite + 1

(* json_value.                                                             *)
JsonValue(v) == IF v = NaN THEN None ELSE v

Entry(value, status) == [value |-> value, status |-> status]
Waiting == Entry(NaN, "Waiting")

(* The node of the calibration table.                                      *)
RCalData == "RCalData"

-----------------------------------------------------------------------------
(* The server.                                                             *)

(* A notification, when there is a subscription.                           *)
Notified(n) == sent' = IF subscribed /\ alive THEN Append(sent, n) ELSE sent

NotifiedValue(p, e) == Notified([point |-> p, entry |-> e])

(* A good value, or no number: HIGH Z is good and has none.  A snapshot    *)
(* that is uncertain may lack the number too.                              *)
Publish(p) ==
  /\ serverUp /\ p \in exists /\ written < MaxWrite /\ Len(sent) < MaxSent
  /\ written' = written + 1
  /\ \E e \in {Entry(written', "Good"), Entry(NaN, "Good"), Entry(NaN, "Uncertain")} :
       served' = [served EXCEPT ![p] = e] /\ NotifiedValue(p, e)
  /\ UNCHANGED <<exists, table, serverUp, alive, thread, shown, subscribed, session, losses>>

(* The source is gone: the value stays, and the status alone changes.      *)
LoseSource(p) ==
  /\ serverUp /\ p \in exists /\ served[p].status = "Good" /\ Len(sent) < MaxSent
  /\ served' = [served EXCEPT ![p].status = "Uncertain"]
  /\ \/ sent' = sent
     \/ \E v \in {served[p].value, None} : NotifiedValue(p, Entry(v, "Uncertain"))
  /\ UNCHANGED <<exists, table, serverUp, written, alive, thread, shown, subscribed, session,
                 losses>>

ServerStops ==
  /\ serverUp /\ losses < MaxLoss /\ losses' = losses + 1
  /\ serverUp' = FALSE /\ alive' = FALSE
  /\ UNCHANGED <<exists, served, table, written, sent, thread, shown, subscribed, session>>

(* It comes back with the points of its version, and nothing collected: no *)
(* table either.                                                           *)
ServerStarts ==
  /\ ~serverUp /\ serverUp' = TRUE
  /\ exists' \in SUBSET Points \ {{}}
  /\ served' = [p \in Points |-> Waiting]
  /\ table' = FALSE
  /\ UNCHANGED <<written, alive, sent, thread, shown, subscribed, session, losses>>

(* The table is calibrated anew, or written so that it does not parse.     *)
WriteTable ==
  /\ serverUp /\ losses < MaxLoss /\ Len(sent) < MaxSent
  /\ losses' = losses + 1
  /\ table' = ~table
  /\ Notified([point |-> RCalData, good |-> table'])
  /\ UNCHANGED <<exists, served, serverUp, written, alive, thread, shown, subscribed, session>>

SessionBreaks ==
  /\ alive /\ losses < MaxLoss /\ losses' = losses + 1
  /\ alive' = FALSE
  /\ UNCHANGED <<server, sent, thread, shown, subscribed, session>>

-----------------------------------------------------------------------------
(* The thread of the monitor.                                              *)

(* _record_resistance_calibration and _record_resistance_calibration_error.*)
Recorded(good, now) ==
  IF good THEN [rows |-> TRUE, status |-> "Good", session |-> now]
  ELSE [calibration EXCEPT !.status = IF calibration.rows THEN "Uncertain" ELSE "Bad"]

(* _connect: a session, and the calibration table.                         *)
Connect ==
  /\ pc = "apart" /\ serverUp
  /\ alive' = TRUE /\ session' = session + 1
  /\ calibration' = Recorded(table, session')
  /\ pc' = "probe"
  /\ UNCHANGED <<server, sent, nodes, seen, cache, connected, subscribed, losses>>

(* A bug for ShownIsOfSession to catch: a point that is gone keeps its     *)
(* value.                                                                  *)
ProbedKept(p) == cache[p]

Probed(p) ==
  IF p \in exists THEN cache[p]
  ELSE [value |-> None, status |-> "NodeIdUnknown", session |-> session]

Probe ==
  /\ pc = "probe" /\ alive
  /\ nodes' = exists
  /\ cache' = [p \in Points |-> Probed(p)]
  /\ pc' = "seed"
  /\ UNCHANGED <<server, alive, sent, seen, connected, calibration, subscribed, session, losses>>

(* The read of _refresh_values, first and then every five seconds.         *)
ReadValues ==
  /\ pc \in {"seed", "up"} /\ alive
  /\ seen' = [p \in nodes |-> served[p]]
  /\ pc' = IF pc = "seed" THEN "seeded" ELSE "refreshed"
  /\ UNCHANGED <<server, alive, sent, nodes, shown, subscribed, session, losses>>

(* An entry that comes without a value keeps the last one when uncertain.  *)
(* A read has made no number of NaN by then, a notification has not.       *)
Kept(p, v, status) == IF v = None /\ status = "Uncertain" THEN cache[p].value ELSE v

Read(p, e) ==
  [value |-> Kept(p, JsonValue(e.value), e.status), status |-> e.status, session |-> session]

Received(p, e) ==
  [value |-> JsonValue(Kept(p, e.value, e.status)), status |-> e.status, session |-> session]

(* A bug for CacheCatchesUp to catch: the read only keeps the session open.*)
RefreshedFirst(p) == IF pc = "seeded" /\ p \in nodes THEN Read(p, seen[p]) ELSE cache[p]

Refreshed(p) == IF p \in nodes THEN Read(p, seen[p]) ELSE cache[p]

ApplyValues ==
  /\ pc \in {"seeded", "refreshed"}
  /\ cache' = [p \in Points |-> Refreshed(p)]
  /\ pc' = IF pc = "seeded" THEN "subscribe" ELSE "up"
  /\ seen' = <<>>
  /\ UNCHANGED <<server, alive, sent, nodes, connected, calibration, subscribed, session, losses>>

CreateSubscription ==
  /\ pc = "subscribe" /\ alive
  /\ connected' = TRUE
  /\ pc' = "join"
  /\ UNCHANGED <<server, alive, sent, nodes, seen, cache, calibration, subscribed, session, losses>>

(* subscribe_data_change: the server notifies each item once.              *)
SubscribeDataChange ==
  /\ pc = "join" /\ alive
  /\ subscribed' = TRUE
  /\ sent' = Append(SetToSeq({[point |-> p, entry |-> served[p]] : p \in nodes}),
                    [point |-> RCalData, good |-> table])
  /\ pc' = "up"
  /\ UNCHANGED <<server, alive, nodes, seen, shown, session, losses>>

TableApart == IF calibration.rows THEN [calibration EXCEPT !.status = "Uncertain"] ELSE calibration

(* A request of a dead session raises: _mark_disconnected ...              *)
MarkDisconnected ==
  /\ pc \in {"probe", "seed", "subscribe", "join", "up"} /\ ~alive
  /\ connected' = FALSE /\ calibration' = TableApart
  /\ pc' = "leaving"
  /\ UNCHANGED <<server, alive, sent, nodes, seen, cache, subscribed, session, losses>>

(* ... and _disconnect, after which the client delivers nothing.           *)
Disconnect ==
  /\ pc = "leaving"
  /\ subscribed' = FALSE /\ sent' = <<>>
  /\ nodes' = {} /\ pc' = "apart"
  /\ UNCHANGED <<server, alive, seen, shown, session, losses>>

(* record_datachange, of a value and of the calibration table.             *)
DeliverValue ==
  /\ sent # <<>> /\ Head(sent).point # RCalData
  /\ LET n == Head(sent) IN
       cache' = [cache EXCEPT ![n.point] = Received(n.point, n.entry)]
  /\ sent' = Tail(sent)
  /\ UNCHANGED <<server, alive, thread, connected, calibration, subscribed, session, losses>>

DeliverTable ==
  /\ sent # <<>> /\ Head(sent).point = RCalData
  /\ calibration' = Recorded(Head(sent).good, session)
  /\ sent' = Tail(sent)
  /\ UNCHANGED <<server, alive, thread, cache, connected, subscribed, session, losses>>

Deliver == DeliverValue \/ DeliverTable

-----------------------------------------------------------------------------
Init ==
  /\ exists \in SUBSET Points \ {{}} /\ served = [p \in Points |-> Waiting]
  /\ table \in BOOLEAN /\ serverUp = TRUE /\ alive = FALSE
  /\ sent = <<>> /\ pc = "apart" /\ nodes = {} /\ seen = <<>>
  /\ cache = [p \in Points |-> [value |-> None, status |-> "Waiting", session |-> 0]]
  /\ connected = FALSE /\ subscribed = FALSE
  /\ calibration = [rows |-> FALSE, status |-> "Waiting", session |-> 0]
  /\ session = 0 /\ written = 0 /\ losses = 0

Monitor ==
  Connect \/ Probe \/ ReadValues \/ ApplyValues \/ CreateSubscription
    \/ SubscribeDataChange \/ MarkDisconnected \/ Disconnect

Next ==
  \/ Monitor \/ Deliver
  \/ \E p \in Points : Publish(p) \/ LoseSource(p)
  \/ ServerStops \/ ServerStarts \/ SessionBreaks \/ WriteTable

Spec == Init /\ [][Next]_vars

(* The thread tries again after at most 15 seconds and reads every five;   *)
(* requests time out; systemd restarts the server.                         *)
FairSpec == Spec /\ WF_vars(Monitor) /\ WF_vars(Deliver) /\ WF_vars(ServerStarts)

-----------------------------------------------------------------------------
Statuses == {"Waiting", "Good", "Uncertain", "NodeIdUnknown"}

(* Types; and a monitor that is apart has neither a connection nor a       *)
(* subscription nor notifications under way.                               *)
TypeOK ==
  /\ nodes \subseteq Points /\ exists \subseteq Points
  /\ cache \in [Points -> [value : 0..MaxWrite, status : Statuses, session : 0..(MaxLoss + 1)]]
  /\ pc \in {"apart", "probe", "seed", "seeded", "subscribe", "join", "up", "refreshed", "leaving"}
  /\ connected \in BOOLEAN /\ subscribed \in BOOLEAN /\ session <= losses + 1
  /\ pc = "apart" => ~connected /\ ~subscribed /\ sent = <<>>
  /\ calibration \in [rows : BOOLEAN, status : {"Waiting", "Good", "Uncertain", "Bad"},
                      session : 0..(MaxLoss + 1)]

(* While a snapshot says connected, all of it was received in the session  *)
(* at work: nothing of an earlier server shows as current, and no          *)
(* calibration table of an earlier one as good, also when the last         *)
(* notifications of that one came after it was marked.                     *)
ShownIsOfSession ==
  connected =>
    /\ \A p \in Points : cache[p].session = session
    /\ calibration.status = "Good" => calibration.session = session

(* When the server settles, the cache agrees with it in the end: statuses  *)
(* that were never notified and values that a slow read wrote over included.*)
Agrees(p) ==
  /\ cache[p].status = served[p].status
  /\ \/ cache[p].value = JsonValue(served[p].value)
     \/ served[p] = Entry(NaN, "Uncertain")
CacheCatchesUp == <>[](connected /\ \A p \in exists : Agrees(p))
=============================================================================
