---------------------- MODULE HistorianReplicationProofs ----------------------
(* What HistorianReplication promises for any number of rows, streams and  *)
(* faults, any batch size, retention and clock.                            *)
EXTENDS HistorianReplication, FiniteSetTheorems, SequenceTheorems, TLAPS

-----------------------------------------------------------------------------
(* Positions.                                                              *)

LEMMA PositionOrder ==
  ASSUME NEW p \in Position, NEW q \in Position, NEW r \in Position
  PROVE  /\ AtMost(p, p) /\ AtMost(Start, p)
         /\ AtMost(p, q) /\ AtMost(q, r) => AtMost(p, r)
         /\ Before(p, q) => AtMost(p, q)
         /\ AtMost(p, q) /\ Before(q, r) => Before(p, r)
         /\ Later(p, q) \in Position
         /\ AtMost(p, Later(p, q)) /\ AtMost(q, Later(p, q))
         /\ Later(p, q) \in {p, q}
BY DEF Position, AtMost, Before, Later, Start

LEMMA AtMostTransitive ==
  ASSUME NEW p \in Position, NEW q \in Position, NEW r \in Position,
         AtMost(p, q), AtMost(q, r)
  PROVE  AtMost(p, r)
BY DEF Position, AtMost, Before

LEMMA RowPosition ==
  ASSUME NEW r \in Row
  PROVE  /\ Pos(r) \in Position
         /\ \A p : Before(p, r) <=> Before(p, Pos(r))
BY DEF Row, Position, Pos, Before

LEMMA LocalizedRow ==
  ASSUME NEW r \in Row, NEW S
  PROVE  /\ Localized(r, S).key = r.key /\ Localized(r, S).tie = r.tie
         /\ Localized(r, S).id = r.id /\ Localized(r, S).time = r.time
BY DEF Row, Localized

-----------------------------------------------------------------------------
(* The invariant.                                                          *)

Entry == [table : Table, row : Row]
Batch == [source : Sources \cup {NoSource}, table : Table, rows : SUBSET Row,
          streams : SUBSET SentStream, cursor : Position, more : BOOLEAN]
Store == [rows : [Table -> SUBSET Row], cursor : [Sources -> [Table -> Position]],
          sources : SUBSET Sources, streams : SUBSET LocalStream]
Places == {"disk", "fetch", "import", "upkeep", "dead", "down"}

TypeInv ==
  /\ clock \in 1..MaxClock
  /\ edge \in [Table -> SUBSET Row]
  /\ ended \in Seq(BOOLEAN) /\ Len(ended) > 0
  /\ log \in Seq(Entry) /\ Len(log) <= MaxWrite
  /\ late \subseteq Id
  /\ top \in [Table -> Position]
  /\ store \in Store
  /\ thread \in [at : Places, table : 1..4]
  /\ batch \in Batch
  /\ pinned \in Sources \cup {NoSource}
  /\ connected \in {"unknown", "yes", "no"}
  /\ inserts \in [Id -> Nat]
  /\ stepsBack \in 0..MaxStepBack /\ faults \in 0..MaxFault /\ replays \in 0..MaxReplay

(* A row that was committed to a table.                                    *)
Written(t, r) == r.id \in 1..Len(log) /\ log[r.id] = [table |-> t, row |-> r]

(* The edge holds, and sends, what it has written, behind no later row but *)
(* those that were stamped late.                                           *)
LogInv ==
  /\ \A t \in Table : \A r \in edge[t] : Written(t, r) /\ AtMost(Pos(r), top[t])
  /\ \A r \in batch.rows : Written(batch.table, r)
  /\ late \subseteq 1..Len(log)
  /\ \A i \in 1..Len(log) :
       /\ log[i].row.id = i
       /\ log[i].row.key >= 1
       /\ log[i].table # "fast_sample" <=> log[i].row.stream = 0

(* What the replica has taken lies at or before its cursor, once.          *)
TakenInv ==
  /\ \A i \in Id : inserts[i] \in {0, 1}
  /\ \A i \in Id : inserts[i] = 1 =>
       /\ i \in 1..Len(log)
       /\ AtMost(Pos(log[i].row), Cursor("edge", log[i].table))
  /\ \A t \in Table : \A q \in store.rows[t] :
       /\ q.id \in 1..Len(log) /\ inserts[q.id] = 1
       /\ log[q.id].table = t
       /\ log[q.id].row.key = q.key /\ log[q.id].row.tie = q.tie

CursorInv == \A t \in Table : AtMost(Cursor("edge", t), top[t])

(* A batch that can still be imported covers all up to its cursor.         *)
BatchInv ==
  /\ batch.rows # {} => batch.source = "edge"
  /\ At("import") => batch.source \in Sources
  /\ At("down") => batch.source = NoSource /\ pinned = NoSource
  /\ batch.source = "edge" /\ pinned \in {NoSource, "edge"} =>
       /\ \A r \in edge[batch.table] :
            r.id \notin late /\ AtMost(Pos(r), batch.cursor) =>
              r \in batch.rows \/ AtMost(Pos(r), Cursor("edge", batch.table))
       /\ AtMost(batch.cursor, top[batch.table])

(* The database knows the source that the process is pinned to, or none.   *)
SourceInv ==
  /\ store.sources \subseteq {"edge"} \/ store.sources \subseteq {"other"}
  /\ ~At("down") => store.sources \subseteq {pinned}
  /\ ExpectedSource # NoSource =>
       /\ store.sources \subseteq {ExpectedSource}
       /\ ~At("down") => pinned = ExpectedSource

(* Of a bucket, the edge holds one rollup, and the replica none that is    *)
(* younger.                                                                *)
RollupInv ==
  LET R == "minute_rollup" IN
  /\ \A q, r \in edge[R] : q.tie = r.tie => q = r
  /\ batch.table = R =>
       /\ \A q, r \in batch.rows : q.tie = r.tie => q = r
       /\ \A q \in batch.rows : \A r \in edge[R] : q.tie = r.tie => q.id <= r.id
       /\ \A q \in store.rows[R] : \A r \in batch.rows : q.tie = r.tie => q.id <= r.id
  /\ \A q \in store.rows[R] : \A r \in edge[R] : q.tie = r.tie => q.id <= r.id

(* The replica numbers its streams without a gap, each stream of the edge  *)
(* once.                                                                   *)
StreamInv ==
  /\ IsFiniteSet(store.streams) /\ IsFiniteSet(batch.streams)
  /\ \A m \in store.streams : m.local \in 1..Cardinality(store.streams)
  /\ \A m, n \in store.streams : m.local = n.local \/ m.of = n.of => m = n
  /\ \A s, u \in batch.streams : s.id = u.id => s = u

MirrorInv ==
  /\ TypeInv /\ LogInv /\ TakenInv /\ CursorInv /\ BatchInv /\ SourceInv /\ RollupInv
  /\ StreamInv /\ NothingSkipped /\ StreamsAreKept

LEMMA NoBatchType == NoBatch \in Batch /\ NoBatch.rows = {} /\ NoBatch.source = NoSource
                     /\ NoBatch.table = "event" /\ NoBatch.streams = {}
BY DEF NoBatch, Batch, Table, Start, Position

LEMMA InvInit == Init => MirrorInv
<1> SUFFICES ASSUME Init PROVE MirrorInv
  OBVIOUS
<1>1. Start \in Position
  BY DEF Start, Position
<1>2. store \in Store
  BY <1>1 DEF Init, Store
<1>3. TypeInv
  <2>1. clock \in 1..MaxClock /\ late \subseteq Id /\ inserts \in [Id -> Nat]
        /\ stepsBack \in 0..MaxStepBack /\ faults \in 0..MaxFault /\ replays \in 0..MaxReplay
    BY Bounds DEF Init
  <2>2. edge \in [Table -> SUBSET Row] /\ top \in [Table -> Position]
    BY <1>1 DEF Init
  <2>3. ended \in Seq(BOOLEAN) /\ Len(ended) > 0
    BY DEF Init
  <2>4. log \in Seq(Entry) /\ Len(log) <= MaxWrite
    BY Bounds DEF Init
  <2>5. thread \in [at : Places, table : 1..4] /\ batch \in Batch
        /\ pinned \in Sources \cup {NoSource} /\ connected \in {"unknown", "yes", "no"}
    BY NoBatchType, Bounds DEF Init, Places, Sources
  <2>6. QED
    BY <1>2, <2>1, <2>2, <2>3, <2>4, <2>5 DEF TypeInv
<1>4. Len(log) = 0 /\ log = <<>> /\ \A t \in Table : edge[t] = {} /\ store.rows[t] = {}
  BY DEF Init
<1>5. LogInv
  BY <1>4, NoBatchType DEF Init, LogInv
<1>6. TakenInv
  BY <1>4 DEF Init, TakenInv
<1>7. CursorInv
  BY <1>1, PositionOrder DEF Init, CursorInv, Cursor, Sources
<1>8. BatchInv
  BY NoBatchType DEF Init, BatchInv, At, NoSource
<1>9. SourceInv
  BY DEF Init, SourceInv, At
<1>10. RollupInv
  BY <1>4, NoBatchType DEF Init, RollupInv, Table
<1>11. NothingSkipped
  BY <1>4 DEF NothingSkipped
<1>12. StreamInv /\ StreamsAreKept
  BY <1>4, NoBatchType, FS_EmptySet DEF Init, StreamInv, StreamsAreKept, Table
<1>13. QED
  BY <1>3, <1>5, <1>6, <1>7, <1>8, <1>9, <1>10, <1>11, <1>12 DEF MirrorInv

-----------------------------------------------------------------------------
(* The edge.                                                               *)

LEMMA NewRow ==
  ASSUME TypeInv, NEW t \in Table, NEW now \in 1..MaxClock, Len(log) < MaxWrite,
         NEW r \in NewRows(t, Len(log) + 1, now)
  PROVE  /\ r \in Row /\ r.id = Len(log) + 1 /\ r.key >= 1
         /\ t # "fast_sample" <=> r.stream = 0
<1>1. Len(log) + 1 \in Id /\ Len(log) \in Nat /\ Len(ended) \in Nat \ {0}
  BY Bounds DEF TypeInv, Id
<1>2. \A b \in MinutesWritten(now) : b \in Nat
  <2>1. now \in Nat /\ Minute \in Nat \ {0}
    BY Bounds
  <2>2. now \div Minute \in Nat
    BY <2>1
  <2>3. \A x, y \in Nat : x * y \in Nat
    OBVIOUS
  <2>4. Bucket(now) \in Nat
    BY <2>1, <2>2, <2>3 DEF Bucket
  <2>5. QED
    BY <2>1, <2>4 DEF MinutesWritten
<1>3. \A k \in FreeTimes(t, now) : k \in Nat /\ k >= 1
  BY Bounds DEF FreeTimes
<1>4. CASE t = "minute_rollup"
  BY <1>1, <1>2, <1>4 DEF NewRows, Row
<1>5. CASE t = "event"
  BY <1>1, <1>5 DEF NewRows, Row
<1>6. CASE t = "fast_sample"
  BY <1>1, <1>3, <1>6 DEF NewRows, Row
<1>7. CASE t = "platform_sample"
  BY <1>1, <1>3, <1>7 DEF NewRows, Row
<1>8. QED
  BY <1>4, <1>5, <1>6, <1>7 DEF Table

LEMMA PutRows ==
  ASSUME NEW t, NEW rows, NEW new, NEW r
  PROVE  /\ r \in Put(t, rows, new) => r \in rows \/ r \in new
         /\ r \in Put("minute_rollup", rows, new) /\ r \notin new => \A n \in new : n.tie # r.tie
         /\ r \in new => r \in Put(t, rows, new)
         /\ r \in rows /\ t # "minute_rollup" => r \in Put(t, rows, new)
BY DEF Put

LEMMA WriteStep ==
  ASSUME MirrorInv, NEW t \in Table, EdgeWrite(t)
  PROVE  MirrorInv'
<1> USE DEF edgeVars, replica, memory
<1>1. PICK r \in NewRows(t, Len(log) + 1, clock') :
        /\ log' = Append(log, [table |-> t, row |-> r])
        /\ edge' = [edge EXCEPT ![t] = Put(t, @, {r})]
        /\ late' = IF AtMost(Pos(r), top[t]) THEN late \cup {r.id} ELSE late
        /\ top' = [top EXCEPT ![t] = Later(@, Pos(r))]
  BY DEF EdgeWrite
<1>2. /\ TypeInv /\ LogInv /\ TakenInv /\ CursorInv /\ BatchInv /\ SourceInv /\ RollupInv
      /\ StreamInv /\ NothingSkipped /\ StreamsAreKept
  BY DEF MirrorInv
<1>3. /\ Len(log) < MaxWrite /\ clock' \in 1..MaxClock /\ ClockMoves
      /\ UNCHANGED <<ended, store, thread, batch, pinned, connected, inserts, faults, replays>>
  BY DEF EdgeWrite
<1>4. r \in Row /\ r.id = Len(log) + 1 /\ r.key >= 1 /\ (t # "fast_sample" <=> r.stream = 0)
  BY <1>1, <1>2, <1>3, NewRow
<1>5. Pos(r) \in Position /\ Len(log) \in Nat
  BY <1>2, <1>4, RowPosition DEF TypeInv
<1>6. /\ log' \in Seq(Entry) /\ Len(log') = Len(log) + 1
      /\ \A i \in 1..Len(log) : log'[i] = log[i]
      /\ log'[Len(log) + 1] = [table |-> t, row |-> r]
  BY <1>1, <1>2, <1>4 DEF TypeInv, Entry
<1>7. /\ \A u \in Table : \A q \in edge'[u] : q \in edge[u] \/ (q = r /\ u = t)
      /\ \A q \in edge'["minute_rollup"] :
           q # r /\ t = "minute_rollup" => q.tie # r.tie
  BY <1>1, <1>2, PutRows DEF TypeInv, Table
<1>8. \A u \in Table : top'[u] \in Position /\ AtMost(top[u], top'[u])
  BY <1>1, <1>2, <1>5, PositionOrder DEF TypeInv
<1>9. AtMost(Pos(r), top'[t]) /\ (Len(log) + 1 \notin late' => ~AtMost(Pos(r), top[t]))
  BY <1>1, <1>2, <1>4, <1>5, PositionOrder DEF TypeInv
<1>10. late \subseteq late' /\ late' \subseteq late \cup {Len(log) + 1}
  BY <1>1, <1>4
<1>11. TypeInv'
  <2>1. stepsBack' \in 0..MaxStepBack
    BY <1>2, <1>3, Bounds DEF TypeInv, ClockMoves
  <2>2. edge' \in [Table -> SUBSET Row]
    BY <1>1, <1>2, <1>4, <1>7 DEF TypeInv
  <2>3. top' \in [Table -> Position]
    BY <1>1, <1>2, <1>8 DEF TypeInv
  <2>4. late' \subseteq Id
    BY <1>2, <1>3, <1>5, <1>10, Bounds DEF TypeInv, Id
  <2>5. log' \in Seq(Entry) /\ Len(log') <= MaxWrite
    BY <1>3, <1>5, <1>6, Bounds
  <2>6. QED
    BY <1>2, <1>3, <2>1, <2>2, <2>3, <2>4, <2>5 DEF TypeInv
<1>12. LogInv'
  <2>1. \A u \in Table : \A q \in edge'[u] : Written(u, q)' /\ AtMost(Pos(q), top'[u])
    <3> SUFFICES ASSUME NEW u \in Table, NEW q \in edge'[u]
                 PROVE  Written(u, q)' /\ AtMost(Pos(q), top'[u])
      OBVIOUS
    <3>1. CASE q \in edge[u]
      <4>1. Written(u, q) /\ AtMost(Pos(q), top[u])
        BY <1>2, <3>1 DEF LogInv
      <4>2. Written(u, q)'
        BY <1>5, <1>6, <4>1 DEF Written
      <4>3. Pos(q) \in Position /\ top[u] \in Position
        BY <1>2, <3>1, RowPosition DEF TypeInv
      <4>4. QED
        BY <1>8, <4>1, <4>2, <4>3, PositionOrder
    <3>2. CASE q = r /\ u = t
      BY <1>4, <1>5, <1>6, <1>9, <3>2 DEF Written
    <3>3. QED
      BY <1>7, <3>1, <3>2
  <2>2. \A q \in batch'.rows : Written(batch.table, q)'
    BY <1>2, <1>3, <1>5, <1>6 DEF LogInv, Written
  <2>3. late' \subseteq 1..Len(log')
    <3>1. 1..Len(log') = 1..Len(log) \cup {Len(log) + 1}
      BY <1>5, <1>6
    <3>2. late \subseteq 1..Len(log)
      BY <1>2 DEF LogInv
    <3>3. QED
      BY <1>10, <3>1, <3>2
  <2>4. \A i \in 1..Len(log') :
          /\ log'[i].row.id = i
          /\ log'[i].row.key >= 1
          /\ log'[i].table # "fast_sample" <=> log'[i].row.stream = 0
    <3> SUFFICES ASSUME NEW i \in 1..Len(log')
                 PROVE  /\ log'[i].row.id = i
                        /\ log'[i].row.key >= 1
                        /\ log'[i].table # "fast_sample" <=> log'[i].row.stream = 0
      OBVIOUS
    <3>1. CASE i \in 1..Len(log)
      BY <1>2, <1>6, <3>1 DEF LogInv
    <3>2. CASE i = Len(log) + 1
      BY <1>4, <1>6, <3>2
    <3>3. QED
      BY <1>5, <1>6, <3>1, <3>2
  <2>5. QED
    BY <1>3, <2>1, <2>2, <2>3, <2>4 DEF LogInv
<1>13. TakenInv'
  <2>1. \A i \in Id : inserts'[i] = 1 =>
          /\ i \in 1..Len(log')
          /\ AtMost(Pos(log'[i].row), store'.cursor["edge"][log'[i].table])
    <3> SUFFICES ASSUME NEW i \in Id, inserts[i] = 1
                 PROVE  /\ i \in 1..Len(log')
                        /\ AtMost(Pos(log'[i].row), store'.cursor["edge"][log'[i].table])
      BY <1>3
    <3>1. i \in 1..Len(log) /\ AtMost(Pos(log[i].row), store.cursor["edge"][log[i].table])
      BY <1>2 DEF TakenInv, Cursor
    <3>2. QED
      BY <1>3, <1>5, <1>6, <3>1
  <2>2. \A u \in Table : \A q \in store'.rows[u] :
          /\ q.id \in 1..Len(log') /\ inserts'[q.id] = 1
          /\ log'[q.id].table = u
          /\ log'[q.id].row.key = q.key /\ log'[q.id].row.tie = q.tie
    BY <1>2, <1>3, <1>5, <1>6 DEF TakenInv
  <2>3. \A i \in Id : inserts'[i] \in {0, 1}
    BY <1>2, <1>3 DEF TakenInv
  <2>4. QED
    BY <2>1, <2>2, <2>3 DEF TakenInv, Cursor
<1>14. \A u \in Table : Cursor("edge", u)' = Cursor("edge", u) /\ Cursor("edge", u) \in Position
  BY <1>2, <1>3 DEF Cursor, TypeInv, Store, Sources
<1>15. CursorInv'
  <2> SUFFICES ASSUME NEW u \in Table PROVE AtMost(Cursor("edge", u), top'[u])
    BY <1>14 DEF CursorInv
  <2>1. AtMost(Cursor("edge", u), top[u]) /\ top[u] \in Position
    BY <1>2 DEF CursorInv, TypeInv
  <2>2. QED
    BY <1>8, <1>14, <2>1, AtMostTransitive
<1>16. BatchInv'
  <2>1. batch.table \in Table /\ batch.cursor \in Position
    BY <1>2 DEF TypeInv, Batch
  <2> DEFINE B == batch.table
  <2>2. ASSUME batch.source = "edge", pinned \in {NoSource, "edge"}
        PROVE  /\ \A q \in edge'[B] :
                    q.id \notin late' /\ AtMost(Pos(q), batch.cursor) =>
                      q \in batch.rows \/ AtMost(Pos(q), Cursor("edge", B))
               /\ AtMost(batch.cursor, top'[B])
    <3>1. AtMost(batch.cursor, top[B]) /\ top[B] \in Position
      BY <1>2, <2>1, <2>2 DEF BatchInv, TypeInv
    <3>2. AtMost(batch.cursor, top'[B])
      BY <1>8, <2>1, <3>1, AtMostTransitive
    <3>3. ASSUME NEW q \in edge'[B], q.id \notin late', AtMost(Pos(q), batch.cursor)
          PROVE  q \in batch.rows \/ AtMost(Pos(q), Cursor("edge", B))
      <4>1. CASE q \in edge[B]
        BY <1>2, <1>10, <2>2, <3>3, <4>1 DEF BatchInv
      <4>2. CASE q = r /\ B = t
        <5>1. ~AtMost(Pos(r), top[t])
          BY <1>4, <1>9, <3>3, <4>2
        <5>2. AtMost(Pos(r), top[t])
          BY <1>5, <2>1, <3>1, <3>3, <4>2, PositionOrder
        <5>3. QED
          BY <5>1, <5>2
      <4>3. QED
        BY <1>7, <2>1, <4>1, <4>2
    <3>4. QED
      BY <3>2, <3>3
  <2>3. QED
    BY <1>2, <1>3, <1>14, <2>1, <2>2 DEF BatchInv, At
<1>17. SourceInv'
  BY <1>2, <1>3 DEF SourceInv, At
<1>18. RollupInv'
  <2> DEFINE R == "minute_rollup"
  <2>1. \A q, p \in edge'[R] : q.tie = p.tie => q = p
    BY <1>2, <1>7 DEF RollupInv, Table
  <2>2. batch.table = R => \A q \in batch.rows : \A p \in edge'[R] : q.tie = p.tie => q.id <= p.id
    <3> SUFFICES ASSUME batch.table = R, NEW q \in batch.rows, NEW p \in edge'[R], q.tie = p.tie
                 PROVE  q.id <= p.id
      OBVIOUS
    <3>1. q.id \in 1..Len(log)
      BY <1>2 DEF LogInv, Written
    <3>2. p \in edge[R] \/ p = r
      BY <1>7 DEF Table
    <3>3. p \in edge[R] => q.id <= p.id
      BY <1>2 DEF RollupInv
    <3>4. QED
      BY <1>4, <1>5, <3>1, <3>2, <3>3
  <2>3. \A q \in store.rows[R] : \A p \in edge'[R] : q.tie = p.tie => q.id <= p.id
    BY <1>2, <1>4, <1>5, <1>7 DEF RollupInv, TakenInv, Table
  <2>4. QED
    BY <1>2, <1>3, <2>1, <2>2, <2>3 DEF RollupInv
<1>19. NothingSkipped'
  <2> SUFFICES ASSUME NEW u \in Table, NEW q \in edge'[u],
                      q.id \notin late', AtMost(Pos(q), Cursor("edge", u))
               PROVE  inserts[q.id] = 1
    BY <1>3, <1>14 DEF NothingSkipped
  <2>1. CASE q \in edge[u]
    BY <1>2, <1>10, <2>1 DEF NothingSkipped
  <2>2. CASE q = r /\ u = t
    <3>1. AtMost(Pos(r), top[t])
      BY <1>2, <1>5, <1>14, <2>2, PositionOrder DEF CursorInv, TypeInv
    <3>2. QED
      BY <1>4, <1>9, <2>2, <3>1
  <2>3. QED
    BY <1>7, <2>1, <2>2
<1>20. StreamInv' /\ StreamsAreKept'
  <2>1. \A q \in store.rows["fast_sample"] : log'[q.id] = log[q.id]
    BY <1>2, <1>6 DEF TakenInv, Table
  <2>2. QED
    BY <1>2, <1>3, <2>1 DEF StreamInv, StreamsAreKept
<1>21. QED
  BY <1>11, <1>12, <1>13, <1>15, <1>16, <1>17, <1>18, <1>19, <1>20 DEF MirrorInv

(* A new stream, retention at the edge, and every step of the replica that *)
(* drops the batch and takes no row.                                       *)
LEMMA QuietStep ==
  ASSUME MirrorInv,
         UNCHANGED <<clock, log, late, top, inserts>>,
         edge' \in [Table -> SUBSET Row], \A t \in Table : edge'[t] \subseteq edge[t],
         ended' \in Seq(BOOLEAN), Len(ended') > 0,
         store' = [store EXCEPT !.rows = store'.rows],
         store'.rows \in [Table -> SUBSET Row],
         \A t \in Table : store'.rows[t] \subseteq store.rows[t],
         batch' \in {batch, NoBatch},
         thread' \in [at : Places, table : 1..4],
         pinned' \in Sources \cup {NoSource},
         pinned' = pinned \/ batch'.source = NoSource,
         connected' \in {"unknown", "yes", "no"},
         At("import")' => At("import") /\ batch' = batch,
         At("down")' => batch'.source = NoSource /\ pinned' = NoSource,
         SourceInv',
         stepsBack' \in 0..MaxStepBack, faults' \in 0..MaxFault, replays' \in 0..MaxReplay
  PROVE  MirrorInv'
<1>1. /\ TypeInv /\ LogInv /\ TakenInv /\ CursorInv /\ BatchInv /\ SourceInv /\ RollupInv
      /\ StreamInv /\ NothingSkipped /\ StreamsAreKept
  BY DEF MirrorInv
<1>2. /\ store' \in Store /\ store'.cursor = store.cursor /\ store'.streams = store.streams
  BY <1>1 DEF TypeInv, Store
<1>3. /\ batch' \in Batch /\ batch'.rows \subseteq batch.rows
      /\ batch'.rows # {} \/ batch'.source = "edge" => batch' = batch
      /\ batch'.streams \in {batch.streams, {}}
  BY <1>1, NoBatchType DEF TypeInv, NoSource
<1>4. TypeInv'
  BY <1>1, <1>2, <1>3 DEF TypeInv
<1>5. \A t \in Table : \A r : Written(t, r)' <=> Written(t, r)
  BY DEF Written
<1>6. \A t \in Table : Cursor("edge", t)' = Cursor("edge", t)
  BY <1>2 DEF Cursor
<1>7. LogInv'
  <2>1. \A t \in Table : \A r \in edge'[t] : Written(t, r)' /\ AtMost(Pos(r), top'[t])
    BY <1>1, <1>5 DEF LogInv
  <2>2. \A r \in batch'.rows : Written(batch.table, r)'
    BY <1>1, <1>3 DEF LogInv, Written
  <2>3. late' \subseteq 1..Len(log')
    BY <1>1 DEF LogInv
  <2>4. \A i \in 1..Len(log') :
          /\ log'[i].row.id = i
          /\ log'[i].row.key >= 1
          /\ log'[i].table # "fast_sample" <=> log'[i].row.stream = 0
    BY <1>1 DEF LogInv
  <2>5. QED
    BY <2>1, <2>2, <2>3, <2>4 DEF LogInv
<1>8. TakenInv'
  <2>1. \A i \in Id : inserts'[i] \in {0, 1}
    BY <1>1 DEF TakenInv
  <2>2. \A i \in Id : inserts'[i] = 1 =>
          /\ i \in 1..Len(log')
          /\ AtMost(Pos(log'[i].row), store'.cursor["edge"][log'[i].table])
    BY <1>1, <1>2 DEF TakenInv, Cursor
  <2>3. \A t \in Table : \A q \in store'.rows[t] :
          /\ q.id \in 1..Len(log') /\ inserts'[q.id] = 1
          /\ log'[q.id].table = t
          /\ log'[q.id].row.key = q.key /\ log'[q.id].row.tie = q.tie
    BY <1>1 DEF TakenInv
  <2>4. QED
    BY <2>1, <2>2, <2>3 DEF TakenInv, Cursor
<1>9. CursorInv'
  BY <1>1, <1>6 DEF CursorInv
<1>10. BatchInv'
  <2>1. batch'.rows # {} => batch'.source = "edge"
    BY <1>1, <1>3 DEF BatchInv
  <2>2. At("import")' => batch'.source \in Sources
    BY <1>1 DEF BatchInv
  <2>3. ASSUME batch'.source = "edge", pinned' \in {NoSource, "edge"}
        PROVE  /\ \A r \in edge'[batch'.table] :
                    r.id \notin late' /\ AtMost(Pos(r), batch'.cursor) =>
                      r \in batch'.rows \/ AtMost(Pos(r), Cursor("edge", batch'.table))
               /\ AtMost(batch'.cursor, top'[batch'.table])
    <3>1. batch' = batch /\ pinned' = pinned /\ batch.table \in Table
      BY <1>1, <1>3, <2>3 DEF NoSource, TypeInv, Batch
    <3>2. QED
      BY <1>1, <2>3, <3>1 DEF BatchInv
  <2>4. QED
    BY <1>2, <2>1, <2>2, <2>3 DEF BatchInv, Cursor
<1>11. RollupInv'
  <2> DEFINE R == "minute_rollup"
  <2>1. batch'.table = R => batch' = batch \/ batch'.rows = {}
    BY NoBatchType
  <2>2. R \in Table
    BY DEF Table
  <2>3. \A q, r \in edge'[R] : q.tie = r.tie => q = r
    BY <1>1, <2>2 DEF RollupInv
  <2>4. \A q \in store'.rows[R] : \A r \in edge'[R] : q.tie = r.tie => q.id <= r.id
    BY <1>1, <2>2 DEF RollupInv
  <2>5. batch'.table = R =>
          /\ \A q, r \in batch'.rows : q.tie = r.tie => q = r
          /\ \A q \in batch'.rows : \A r \in edge'[R] : q.tie = r.tie => q.id <= r.id
          /\ \A q \in store'.rows[R] : \A r \in batch'.rows : q.tie = r.tie => q.id <= r.id
    BY <1>1, <2>1, <2>2 DEF RollupInv
  <2>6. QED
    BY <2>3, <2>4, <2>5 DEF RollupInv
<1>12. StreamInv'
  BY <1>1, <1>2, <1>3, FS_EmptySet DEF StreamInv
<1>13. NothingSkipped' /\ StreamsAreKept'
  <2>1. NothingSkipped'
    BY <1>1, <1>6 DEF NothingSkipped
  <2>2. StreamsAreKept'
    BY <1>1, <1>2 DEF StreamsAreKept, Table
  <2>3. QED
    BY <2>1, <2>2
<1>14. QED
  BY <1>4, <1>7, <1>8, <1>9, <1>10, <1>11, <1>12, <1>13 DEF MirrorInv

LEMMA EdgeStep ==
  ASSUME MirrorInv, EdgeStream \/ EdgeRetention
  PROVE  MirrorInv'
<1>1. TypeInv /\ SourceInv /\ BatchInv
  BY DEF MirrorInv
<1>2. /\ UNCHANGED <<clock, log, late, top, store, thread, batch, pinned, connected, inserts>>
      /\ UNCHANGED <<stepsBack, faults, replays>>
  BY DEF EdgeStream, EdgeRetention, replica, memory, bounds
<1>3. edge' \in [Table -> SUBSET Row] /\ \A t \in Table : edge'[t] \subseteq edge[t]
  BY <1>1 DEF EdgeStream, EdgeRetention, TypeInv
<1>4. ended' \in Seq(BOOLEAN) /\ Len(ended') > 0
  <2>1. CASE EdgeStream
    <3>1. PICK e \in BOOLEAN : ended' = Append([ended EXCEPT ![Len(ended)] = e], FALSE)
      BY <2>1 DEF EdgeStream
    <3>2. [ended EXCEPT ![Len(ended)] = e] \in Seq(BOOLEAN)
      BY <1>1 DEF TypeInv
    <3>3. QED
      BY <3>1, <3>2
  <2>2. CASE EdgeRetention
    BY <1>1, <2>2 DEF EdgeRetention, TypeInv
  <2>3. QED
    BY <2>1, <2>2
<1>5. /\ store = [store EXCEPT !.rows = store.rows] /\ store.rows \in [Table -> SUBSET Row]
  BY <1>1 DEF TypeInv, Store
<1>6. SourceInv' /\ (At("down")' => batch'.source = NoSource /\ pinned' = NoSource)
  BY <1>1, <1>2 DEF SourceInv, BatchInv, At
<1>7. At("import")' => At("import") /\ batch' = batch
  BY <1>2 DEF At
<1>8. QED
  BY <1>1, <1>2, <1>3, <1>4, <1>5, <1>6, <1>7, QuietStep DEF TypeInv

-----------------------------------------------------------------------------
(* Batches.                                                                *)

LEMMA SentStreams ==
  ASSUME TypeInv, NEW rows \in SUBSET Row
  PROVE  /\ StreamsOf(rows) \subseteq SentStream /\ IsFiniteSet(StreamsOf(rows))
         /\ \A s, u \in StreamsOf(rows) : s.id = u.id => s = u
<1> DEFINE S == {r.stream : r \in rows} \cap DOMAIN ended
           f == [s \in S |-> [id |-> s, ended |-> ended[s]]]
<1>1. /\ DOMAIN ended = 1..Len(ended) /\ Len(ended) \in Nat
      /\ \A s \in DOMAIN ended : ended[s] \in BOOLEAN
  BY DEF TypeInv
<1>2. IsFiniteSet(S)
  <2>1. IsFiniteSet(1..Len(ended))
    BY <1>1, FS_Interval
  <2>2. S \in SUBSET (1..Len(ended))
    BY <1>1
  <2>3. QED
    BY <2>1, <2>2, FS_Subset
<1>3. f \in Surjection(S, StreamsOf(rows))
  BY DEF StreamsOf, Surjection
<1>4. IsFiniteSet(StreamsOf(rows))
  BY <1>2, <1>3, FS_Surjection
<1>5. StreamsOf(rows) \subseteq SentStream
  BY <1>1 DEF StreamsOf, SentStream
<1>6. \A s, u \in StreamsOf(rows) : s.id = u.id => s = u
  BY DEF StreamsOf
<1>7. QED
  BY <1>4, <1>5, <1>6

(* A step that takes an answer into the batch.                             *)
LEMMA AnswerStep ==
  ASSUME MirrorInv, At("fetch"),
         UNCHANGED <<edgeVars, store, pinned, connected, inserts>>,
         Goto("import", thread.table),
         faults' \in 0..MaxFault, UNCHANGED <<stepsBack, replays>>,
         batch' \in Batch, batch'.source \in Sources,
         \A r \in batch'.rows : Written(batch'.table, r),
         BatchInv', RollupInv', IsFiniteSet(batch'.streams),
         \A s, u \in batch'.streams : s.id = u.id => s = u
  PROVE  MirrorInv'
<1> USE DEF edgeVars
<1>1. /\ TypeInv /\ LogInv /\ TakenInv /\ CursorInv /\ BatchInv /\ SourceInv /\ RollupInv
      /\ StreamInv /\ NothingSkipped /\ StreamsAreKept
  BY DEF MirrorInv
<1>2. thread' \in [at : Places, table : 1..4] /\ thread'.at = "import"
  BY <1>1 DEF TypeInv, Goto, Places
<1>3. TypeInv'
  BY <1>1, <1>2 DEF TypeInv
<1>4. LogInv'
  <2>1. \A t \in Table : \A r \in edge'[t] : Written(t, r)' /\ AtMost(Pos(r), top'[t])
    BY <1>1 DEF LogInv, Written
  <2>2. \A r \in batch'.rows : Written(batch.table, r)'
    BY DEF Written
  <2>3. late' \subseteq 1..Len(log')
    BY <1>1 DEF LogInv
  <2>4. \A i \in 1..Len(log') :
          /\ log'[i].row.id = i
          /\ log'[i].row.key >= 1
          /\ log'[i].table # "fast_sample" <=> log'[i].row.stream = 0
    BY <1>1 DEF LogInv
  <2>5. QED
    BY <2>1, <2>2, <2>3, <2>4 DEF LogInv
<1>5. TakenInv' /\ CursorInv'
  BY <1>1 DEF TakenInv, CursorInv, Cursor
<1>6. SourceInv'
  BY <1>1, <1>2 DEF SourceInv, At
<1>7. StreamInv' /\ StreamsAreKept' /\ NothingSkipped'
  BY <1>1 DEF StreamInv, StreamsAreKept, NothingSkipped, Cursor
<1>8. QED
  BY <1>3, <1>4, <1>5, <1>6, <1>7 DEF MirrorInv

LEMMA FetchStep ==
  ASSUME MirrorInv, Fetch
  PROVE  MirrorInv'
<1> USE DEF edgeVars, bounds
<1>1. /\ TypeInv /\ LogInv /\ TakenInv /\ CursorInv /\ BatchInv /\ SourceInv /\ RollupInv
      /\ StreamInv /\ NothingSkipped /\ StreamsAreKept
  BY DEF MirrorInv
<1> DEFINE t == Tables[thread.table]
           after == RequestCursor(t)
<1>2. PICK rows \in SUBSET Behind(t, after) :
        \E cursor \in {after} \cup {Pos(r) : r \in rows} :
          LET b == [source |-> "edge", table |-> t, rows |-> rows,
                    streams |-> StreamsOf(rows), cursor |-> cursor,
                    more |-> rows # Behind(t, after)]
          IN  IsAnswer(b, t, after) /\ batch' = b
  BY DEF Fetch
<1>3. PICK cursor \in {after} \cup {Pos(r) : r \in rows} :
          LET b == [source |-> "edge", table |-> t, rows |-> rows,
                    streams |-> StreamsOf(rows), cursor |-> cursor,
                    more |-> rows # Behind(t, after)]
          IN  IsAnswer(b, t, after) /\ batch' = b
  BY <1>2
<1>4. /\ batch' = [source |-> "edge", table |-> t, rows |-> rows,
                   streams |-> StreamsOf(rows), cursor |-> cursor,
                   more |-> rows # Behind(t, after)]
      /\ IsBatch(rows, Behind(t, after)) /\ IsCursor(cursor, rows, after)
  BY <1>3 DEF IsAnswer
<1>5. t \in Table /\ thread.table \in 1..4
  <2>1. thread.table \in 1..4
    BY <1>1 DEF TypeInv
  <2>2. QED
    BY <2>1 DEF Tables, Table
<1>6. Behind(t, after) \subseteq edge[t] /\ rows \subseteq edge[t] /\ edge[t] \subseteq Row
  BY <1>1, <1>2, <1>5 DEF Behind, TypeInv
<1>7. after \in Position /\ (pinned = "edge" => after = Cursor("edge", t))
      /\ (pinned = NoSource => after = Start)
  <2>1. Start \in Position
    BY DEF Start, Position
  <2>2. pinned \in Sources => Cursor(pinned, t) \in Position
    BY <1>1, <1>5 DEF TypeInv, Store, Cursor
  <2>3. QED
    BY <1>1, <2>1, <2>2 DEF RequestCursor, TypeInv, Sources, NoSource
<1>8. cursor \in Position
  BY <1>3, <1>6, <1>7, RowPosition
<1> HIDE DEF t, after
<1>9. \A r \in rows : Written(t, r)
  BY <1>1, <1>5, <1>6 DEF LogInv
<1>10. StreamsOf(rows) \subseteq SentStream /\ IsFiniteSet(StreamsOf(rows))
       /\ \A s, u \in StreamsOf(rows) : s.id = u.id => s = u
  BY <1>1, <1>6, SentStreams
<1>11. batch' \in Batch /\ batch'.source \in Sources
  BY <1>4, <1>5, <1>6, <1>8, <1>10 DEF Batch, Sources
<1>12. /\ UNCHANGED <<edgeVars, store, pinned, connected, inserts, bounds>>
       /\ Goto("import", thread.table) /\ At("fetch")
  BY DEF Fetch
<1>13. ASSUME pinned \in {NoSource, "edge"}
       PROVE  /\ AtMost(cursor, top[t])
              /\ \A r \in edge[t] : AtMost(Pos(r), cursor) =>
                     r \in rows \/ AtMost(Pos(r), Cursor("edge", t))
  <2>1. Cursor("edge", t) \in Position /\ top[t] \in Position /\ AtMost(Cursor("edge", t), top[t])
    BY <1>1, <1>5 DEF TypeInv, Store, Cursor, Sources, CursorInv
  <2>2. \A r \in edge[t] : AtMost(Pos(r), after) => AtMost(Pos(r), Cursor("edge", t))
    <3>1. CASE pinned = "edge"
      BY <1>7, <3>1
    <3>2. CASE pinned = NoSource
      <4> SUFFICES ASSUME NEW r \in edge[t] PROVE ~AtMost(Pos(r), Start)
        BY <1>7, <3>2
      <4>1. r \in Row /\ r.key >= 1
        <5>1. Written(t, r)
          BY <1>1, <1>5 DEF LogInv
        <5>2. log[r.id].row = r /\ r.id \in 1..Len(log)
          BY <5>1 DEF Written
        <5>3. QED
          BY <1>1, <1>6, <5>2 DEF LogInv
      <4>2. QED
        BY <4>1 DEF Row, AtMost, Before, Pos, Start
    <3>3. QED
      BY <1>13, <3>1, <3>2
  <2>3. AtMost(after, top[t])
    BY <1>7, <1>13, <2>1, PositionOrder
  <2>4. CASE rows = {}
    <3>1. cursor = after
      BY <1>4, <2>4 DEF IsCursor
    <3>2. QED
      BY <2>2, <2>3, <3>1
  <2>5. CASE rows # {}
    <3>1. PICK last \in rows : cursor = Pos(last) /\ \A q \in rows : AtMost(Pos(q), cursor)
      BY <1>4, <2>5 DEF IsCursor, AtMost, Before, Pos
    <3>2. AtMost(cursor, top[t])
      BY <1>1, <1>5, <1>6, <3>1 DEF LogInv
    <3>3. ASSUME NEW r \in edge[t], AtMost(Pos(r), cursor), r \notin rows
          PROVE  AtMost(Pos(r), Cursor("edge", t))
      <4>1. ~Before(last, r)
        BY <3>1, <3>3 DEF AtMost, Before, Pos
      <4>2. r \notin Behind(t, after)
        BY <1>4, <3>1, <3>3, <4>1 DEF IsBatch
      <4>3. AtMost(Pos(r), after)
        BY <3>3, <4>2 DEF Behind, AtMost, Before, Pos
      <4>4. QED
        BY <2>2, <3>3, <4>3
    <3>4. QED
      BY <3>2, <3>3
  <2>6. QED
    BY <2>4, <2>5
<1>14. thread'.at = "import"
  BY <1>12 DEF Goto
<1>15. BatchInv'
  <2>1. batch'.source = "edge" /\ batch'.table = t /\ batch'.rows = rows /\ batch'.cursor = cursor
    BY <1>4
  <2>2. At("import")' => batch'.source \in Sources
    BY <1>11
  <2>3. ~At("down")'
    BY <1>14 DEF At
  <2>4. batch'.source = "edge" /\ pinned' \in {NoSource, "edge"} =>
       /\ \A r \in edge'[batch'.table] :
            r.id \notin late' /\ AtMost(Pos(r), batch'.cursor) =>
              r \in batch'.rows \/ AtMost(Pos(r), store'.cursor["edge"][batch'.table])
       /\ AtMost(batch'.cursor, top'[batch'.table])
    BY <1>12, <1>13, <2>1 DEF Cursor
  <2>5. QED
    BY <2>1, <2>2, <2>3, <2>4 DEF BatchInv, Cursor
<1>16. RollupInv'
  <2> DEFINE R == "minute_rollup"
  <2>1. t = R => rows \subseteq edge[R]
    BY <1>6
  <2>2. batch'.table = t /\ batch'.rows = rows
    BY <1>4
  <2>3. \A q, r \in edge[R] : q.tie = r.tie => q = r
    BY <1>1 DEF RollupInv
  <2>4. \A q \in store.rows[R] : \A r \in edge[R] : q.tie = r.tie => q.id <= r.id
    BY <1>1 DEF RollupInv
  <2>5. \A r \in edge[R] : r.id \in Nat
    BY <1>1 DEF TypeInv, Row, Id, Table
  <2>6. batch'.table = R =>
          /\ \A q, r \in batch'.rows : q.tie = r.tie => q = r
          /\ \A q \in batch'.rows : \A r \in edge'[R] : q.tie = r.tie => q.id <= r.id
          /\ \A q \in store'.rows[R] : \A r \in batch'.rows : q.tie = r.tie => q.id <= r.id
    <3> SUFFICES ASSUME t = R
                 PROVE  /\ \A q, r \in rows : q.tie = r.tie => q = r
                        /\ \A q \in rows : \A r \in edge[R] : q.tie = r.tie => q.id <= r.id
                        /\ \A q \in store.rows[R] : \A r \in rows : q.tie = r.tie => q.id <= r.id
      BY <1>12, <2>2
    <3>1. \A q \in rows : \A r \in edge[R] : q.tie = r.tie => q.id <= r.id
      <4> SUFFICES ASSUME NEW q \in rows, NEW r \in edge[R], q.tie = r.tie PROVE q.id <= r.id
        OBVIOUS
      <4>1. q = r /\ q.id \in Nat
        BY <2>1, <2>3, <2>5
      <4>2. QED
        BY <4>1
    <3>2. QED
      BY <2>1, <2>3, <2>4, <3>1
  <2>7. QED
    BY <1>12, <2>3, <2>4, <2>6 DEF RollupInv
<1>17. \A r \in batch'.rows : Written(batch'.table, r)
  BY <1>4, <1>9
<1>18. IsFiniteSet(batch'.streams) /\ \A s, u \in batch'.streams : s.id = u.id => s = u
  BY <1>4, <1>10
<1>19. faults' \in 0..MaxFault /\ UNCHANGED <<stepsBack, replays>>
  BY <1>1, <1>12 DEF TypeInv
<1>20. QED
  BY <1>11, <1>12, <1>15, <1>16, <1>17, <1>18, <1>19, AnswerStep

LEMMA FetchFromOtherStep ==
  ASSUME MirrorInv, FetchFromOther
  PROVE  MirrorInv'
<1> USE DEF edgeVars
<1>1. TypeInv /\ BatchInv /\ RollupInv
  BY DEF MirrorInv
<1> DEFINE t == Tables[thread.table]
<1>2. t \in Table
  <2>1. thread.table \in 1..4
    BY <1>1 DEF TypeInv
  <2>2. QED
    BY <2>1 DEF Tables, Table
<1>3. RequestCursor(t) \in Position
  <2>1. Start \in Position
    BY DEF Start, Position
  <2>2. pinned \in Sources => Cursor(pinned, t) \in Position
    BY <1>1, <1>2 DEF TypeInv, Store, Cursor
  <2>3. QED
    BY <1>1, <2>1, <2>2 DEF RequestCursor, TypeInv
<1> DEFINE c == RequestCursor(t)
<1>4. batch' = [NoBatch EXCEPT !.source = "other", !.table = t, !.cursor = c]
  BY DEF FetchFromOther
<1> HIDE DEF t, c
<1>5. /\ batch' = [source |-> "other", table |-> t, rows |-> {}, streams |-> {}, cursor |-> c,
                   more |-> FALSE]
  BY <1>4 DEF NoBatch
<1>6. batch' \in Batch /\ batch'.source \in Sources
  BY <1>2, <1>3, <1>5 DEF Batch, Sources, c
<1>7. /\ UNCHANGED <<edgeVars, store, pinned, connected, inserts, stepsBack, replays>>
      /\ Goto("import", thread.table) /\ At("fetch") /\ Fault
  BY DEF FetchFromOther
<1>8. faults' \in 0..MaxFault
  BY <1>1, <1>7, Bounds DEF TypeInv, Fault
<1>9. thread'.at = "import"
  BY <1>7 DEF Goto
<1>10. BatchInv'
  BY <1>5, <1>6, <1>9 DEF BatchInv, At
<1>11. RollupInv'
  BY <1>1, <1>5, <1>7 DEF RollupInv
<1>12. IsFiniteSet(batch'.streams)
  BY <1>5, FS_EmptySet
<1>13. batch'.rows = {} /\ batch'.streams = {}
  BY <1>5
<1>14. QED
  BY <1>6, <1>7, <1>8, <1>10, <1>11, <1>12, <1>13, AnswerStep

-----------------------------------------------------------------------------
(* The import.                                                             *)

LEMMA KnownStream ==
  ASSUME TypeInv, NEW m \in store.streams
  PROVE  /\ BroughtUpToDate(m, batch).local = m.local /\ BroughtUpToDate(m, batch).of = m.of
         /\ BroughtUpToDate(m, batch) \in LocalStream
<1>1. m \in LocalStream /\ batch.streams \subseteq SentStream
  BY DEF TypeInv, Store, Batch
<1> DEFINE e == IF \E s \in batch.streams : s.id = m.of
                THEN (CHOOSE s \in batch.streams : s.id = m.of).ended ELSE m.ended
<1>2. e \in BOOLEAN
  <2>1. CASE \E s \in batch.streams : s.id = m.of
    <3>1. (CHOOSE s \in batch.streams : s.id = m.of) \in batch.streams
      BY <2>1
    <3>2. QED
      BY <1>1, <2>1, <3>1 DEF SentStream
  <2>2. CASE ~ \E s \in batch.streams : s.id = m.of
    BY <1>1, <2>2 DEF LocalStream
  <2>3. QED
    BY <2>1, <2>2
<1>3. BroughtUpToDate(m, batch) = [m EXCEPT !.ended = e]
  BY <1>1 DEF BroughtUpToDate, LocalStream
<1> HIDE DEF e
<1>4. QED
  BY <1>1, <1>2, <1>3 DEF LocalStream

(* The streams after an import: no number twice, and none changes.         *)
LEMMA StreamsStep ==
  ASSUME TypeInv, StreamInv
  PROVE  LET I == ImportedStreams(batch) IN
         /\ I \subseteq LocalStream /\ IsFiniteSet(I)
         /\ \A m \in I : m.local \in 1..Cardinality(I)
         /\ \A m, n \in I : m.local = n.local \/ m.of = n.of => m = n
         /\ \A m \in store.streams : \E n \in I : n.local = m.local /\ n.of = m.of
<1> DEFINE I == ImportedStreams(batch)
           old == store.streams
           U == UnknownStreams(batch)
           upTo(s) == {q \in U : q.id <= s.id}
           K == {BroughtUpToDate(m, batch) : m \in old}
           new(s) == [local |-> LocalNumber(s, batch), of |-> s.id, ended |-> s.ended]
           N == {new(s) : s \in U}
           c == Cardinality(old)
           k == Cardinality(U)
<1>1. I = K \cup N
  BY DEF ImportedStreams
<1>2. IsFiniteSet(old) /\ c \in Nat
  BY FS_CardinalityType DEF StreamInv
<1>3. /\ IsFiniteSet(U) /\ k \in Nat /\ U \subseteq SentStream
      /\ \A s, u \in U : s.id = u.id => s = u
  <2>1. U \in SUBSET batch.streams /\ batch.streams \subseteq SentStream
    BY DEF UnknownStreams, TypeInv, Batch
  <2>2. IsFiniteSet(U)
    BY <2>1, FS_Subset DEF StreamInv
  <2>3. QED
    BY <2>1, <2>2, FS_CardinalityType DEF StreamInv
<1>4. \A m \in old : /\ BroughtUpToDate(m, batch).local = m.local
                     /\ BroughtUpToDate(m, batch).of = m.of
                     /\ BroughtUpToDate(m, batch) \in LocalStream
  BY KnownStream
<1>5. /\ \A m \in old : m.local \in 1..c
      /\ \A m, n \in old : m.local = n.local \/ m.of = n.of => m = n
  BY DEF StreamInv
<1>6. IsFiniteSet(K) /\ Cardinality(K) = c
  <2> DEFINE f == [m \in old |-> BroughtUpToDate(m, batch)]
  <2>1. f \in Surjection(old, K)
    BY DEF Surjection
  <2>2. f \in Injection(old, K)
    BY <1>4, <1>5 DEF Injection, IsInjective
  <2>3. ExistsBijection(old, K)
    BY <2>1, <2>2 DEF ExistsBijection, Bijection
  <2>4. QED
    BY <1>2, <2>3, FS_Bijection
<1>7. \A s \in U : IsFiniteSet(upTo(s)) /\ Cardinality(upTo(s)) \in 1..k
  <2> SUFFICES ASSUME NEW s \in U
               PROVE  IsFiniteSet(upTo(s)) /\ Cardinality(upTo(s)) \in 1..k
    OBVIOUS
  <2>1. upTo(s) \in SUBSET U
    OBVIOUS
  <2>2. IsFiniteSet(upTo(s)) /\ Cardinality(upTo(s)) <= k /\ Cardinality(upTo(s)) \in Nat
    BY <1>3, <2>1, FS_Subset, FS_CardinalityType
  <2>3. s \in upTo(s)
    BY <1>3 DEF SentStream
  <2>4. Cardinality(upTo(s)) # 0
    BY <2>2, <2>3, FS_EmptySet
  <2>5. QED
    BY <1>3, <2>2, <2>4
<1>8. \A s, u \in U : s.id < u.id => Cardinality(upTo(s)) < Cardinality(upTo(u))
  <2> SUFFICES ASSUME NEW s \in U, NEW u \in U, s.id < u.id
               PROVE  Cardinality(upTo(s)) < Cardinality(upTo(u))
    OBVIOUS
  <2>1. s.id \in Nat /\ u.id \in Nat /\ \A q \in U : q.id \in Nat
    BY <1>3 DEF SentStream
  <2>2. upTo(s) \in SUBSET upTo(u)
    BY <2>1
  <2>3. u \in upTo(u) /\ u \notin upTo(s)
    BY <2>1
  <2>4. Cardinality(upTo(s)) <= Cardinality(upTo(u)) /\ Cardinality(upTo(s)) # Cardinality(upTo(u))
    BY <1>7, <2>2, <2>3, FS_Subset
  <2>5. Cardinality(upTo(s)) \in Nat /\ Cardinality(upTo(u)) \in Nat
    BY <1>7, FS_CardinalityType
  <2>6. QED
    BY <2>4, <2>5
<1>9. \A s \in U : LocalNumber(s, batch) = c + Cardinality(upTo(s))
  BY DEF LocalNumber
<1>10. \A s, u \in U : LocalNumber(s, batch) = LocalNumber(u, batch) => s = u
  <2> SUFFICES ASSUME NEW s \in U, NEW u \in U, s # u
               PROVE  LocalNumber(s, batch) # LocalNumber(u, batch)
    OBVIOUS
  <2>1. s.id \in Nat /\ u.id \in Nat /\ s.id # u.id
    BY <1>3 DEF SentStream
  <2>2. s.id < u.id \/ u.id < s.id
    BY <2>1
  <2>3. Cardinality(upTo(s)) \in Nat /\ Cardinality(upTo(u)) \in Nat
    BY <1>7, FS_CardinalityType
  <2>4. Cardinality(upTo(s)) # Cardinality(upTo(u))
    BY <1>8, <2>2, <2>3
  <2> HIDE DEF c, upTo
  <2>5. QED
    BY <1>2, <1>9, <2>3, <2>4
<1>11. \A s \in U : LocalNumber(s, batch) \in (c + 1)..(c + k)
  <2> HIDE DEF c, upTo, k
  <2>1. QED
    BY <1>2, <1>3, <1>7, <1>9
<1>12. IsFiniteSet(N) /\ Cardinality(N) = k
  <2> DEFINE g == [s \in U |-> new(s)]
  <2>1. g \in Surjection(U, N)
    BY DEF Surjection
  <2>2. \A s, u \in U : g[s] = g[u] => s = u
    <3> SUFFICES ASSUME NEW s \in U, NEW u \in U, g[s] = g[u] PROVE s = u
      OBVIOUS
    <3>1. new(s) = new(u)
      OBVIOUS
    <3>2. s.id = u.id
      BY <3>1
    <3>3. QED
      BY <1>3, <3>2
  <2>3. g \in Injection(U, N)
    BY <2>2 DEF Injection, IsInjective
  <2>4. ExistsBijection(U, N)
    BY <2>1, <2>3 DEF ExistsBijection, Bijection
  <2>5. QED
    BY <1>3, <2>4, FS_Bijection
<1>13. /\ \A m \in K : m.local \in 1..c /\ \E n \in old : n.local = m.local /\ n.of = m.of
       /\ \A m \in N : m.local \in (c + 1)..(c + k) /\ \A n \in old : n.of # m.of
  <2>1. \A m \in K : m.local \in 1..c /\ \E n \in old : n.local = m.local /\ n.of = m.of
    BY <1>4, <1>5
  <2>2. \A s \in U : new(s).local = LocalNumber(s, batch) /\ new(s).of = s.id
    OBVIOUS
  <2>3. \A s \in U : \A n \in old : n.of # s.id
    BY DEF UnknownStreams
  <2>4. QED
    BY <1>11, <2>1, <2>2, <2>3
<1> DEFINE both == K \cup N
<1>14. IsFiniteSet(both) /\ Cardinality(both) = c + k
  <2>1. K \cap N = {}
    <3>1. \A m \in K : m.local <= c
      BY <1>2, <1>13
    <3>2. \A m \in N : m.local > c
      BY <1>2, <1>3, <1>13
    <3>3. \A m \in K : m.local \in Nat
      BY <1>2, <1>13
    <3> HIDE DEF c, K, N
    <3>4. QED
      BY <1>2, <3>1, <3>2, <3>3
  <2>2. Cardinality(K \cap N) = 0
    BY <2>1, FS_EmptySet
  <2>3. IsFiniteSet(both) /\ Cardinality(both) = Cardinality(K) + Cardinality(N) - Cardinality(K \cap N)
    BY <1>6, <1>12, FS_Union
  <2> HIDE DEF c, K, N, k
  <2>4. QED
    BY <1>2, <1>3, <1>6, <1>12, <2>2, <2>3
<1>15. \A m \in both : m.local \in 1..(c + k)
  <2> HIDE DEF c, K, N, k
  <2>1. QED
    BY <1>2, <1>3, <1>13
<1>16. \A m, n \in both : m.local = n.local \/ m.of = n.of => m = n
  <2>1. \A m, n \in K : m.local = n.local \/ m.of = n.of => m = n
    BY <1>4, <1>5
  <2>2. \A m, n \in N : m.local = n.local \/ m.of = n.of => m = n
    <3> SUFFICES ASSUME NEW s \in U, NEW u \in U,
                        new(s).local = new(u).local \/ new(s).of = new(u).of
                 PROVE  s = u
      OBVIOUS
    <3>1. LocalNumber(s, batch) = LocalNumber(u, batch) \/ s.id = u.id
      OBVIOUS
    <3>2. QED
      BY <1>3, <1>10, <3>1
  <2>3. \A m \in K, n \in N : m.local # n.local /\ m.of # n.of
    <3> HIDE DEF c, K, N, k
    <3>1. QED
      BY <1>2, <1>3, <1>13
  <2> HIDE DEF K, N
  <2>4. QED
    BY <2>1, <2>2, <2>3
<1>17. both \subseteq LocalStream
  <2>1. K \subseteq LocalStream
    BY <1>4
  <2>2. \A s \in U : LocalNumber(s, batch) \in Nat /\ s.id \in Nat /\ s.ended \in BOOLEAN
    BY <1>2, <1>3, <1>11 DEF SentStream
  <2>3. N \subseteq LocalStream
    BY <2>2 DEF LocalStream
  <2>4. QED
    BY <2>1, <2>3
<1>18. \A m \in old : \E n \in both : n.local = m.local /\ n.of = m.of
  BY <1>4
<1> HIDE DEF both, old, c, k
<1>19. I = both
  BY <1>1 DEF both
<1> HIDE DEF I
<1>20. QED
  BY <1>14, <1>15, <1>16, <1>17, <1>18, <1>19 DEF I, old

(* A fresh row of an importable batch was never taken, and lies at or      *)
(* before the cursor the import leaves.                                    *)
LEMMA FreshRow ==
  ASSUME MirrorInv, Importable(batch), NEW r \in Fresh(batch)
  PROVE  /\ r \in batch.rows /\ r \in Row /\ batch.source = "edge" /\ batch.table \in Table
         /\ Written(batch.table, r) /\ inserts[r.id] = 0
         /\ Before(Cursor("edge", batch.table), r) /\ AtMost(Pos(r), batch.cursor)
<1>1. TypeInv /\ LogInv /\ TakenInv /\ BatchInv
  BY DEF MirrorInv
<1>2. r \in batch.rows /\ r \in Row /\ batch.table \in Table
  BY <1>1 DEF Fresh, TypeInv, Batch
<1>3. batch.source = "edge"
  BY <1>1, <1>2 DEF BatchInv
<1>4. Before(Cursor("edge", batch.table), r)
  BY <1>3 DEF Fresh
<1>5. Written(batch.table, r)
  BY <1>1, <1>2 DEF LogInv
<1>6. inserts[r.id] # 1
  <2>1. log[r.id].row = r /\ log[r.id].table = batch.table /\ r.id \in Id
    BY <1>2, <1>5 DEF Written, Row
  <2>2. inserts[r.id] = 1 => AtMost(Pos(r), Cursor("edge", batch.table))
    BY <1>1, <2>1 DEF TakenInv
  <2>3. QED
    BY <1>4, <2>2 DEF AtMost, Before, Pos
<1>7. inserts[r.id] = 0
  BY <1>1, <1>2, <1>6 DEF TakenInv, Row
<1>8. AtMost(Pos(r), batch.cursor)
  BY <1>2 DEF Importable, IsCursor, AtMost, Before, Pos
<1>9. QED
  BY <1>2, <1>3, <1>4, <1>5, <1>7, <1>8

LEMMA ImportStep ==
  ASSUME MirrorInv, At("import"), Importable(batch), Import(batch),
         UNCHANGED edgeVars, pinned' = batch.source,
         \/ batch' = NoBatch /\ ~At("import")'
         \/ batch' = batch,
         ~At("down")',
         thread' \in [at : Places, table : 1..4],
         connected' \in {"unknown", "yes", "no"},
         stepsBack' \in 0..MaxStepBack, faults' \in 0..MaxFault, replays' \in 0..MaxReplay
  PROVE  MirrorInv'
<1> USE DEF edgeVars
<1>1. /\ TypeInv /\ LogInv /\ TakenInv /\ CursorInv /\ BatchInv /\ SourceInv /\ RollupInv
      /\ StreamInv /\ NothingSkipped /\ StreamsAreKept
  BY DEF MirrorInv
<1> DEFINE T == batch.table
           I == ImportedStreams(batch)
           taken == {Localized(r, I) : r \in Fresh(batch)}
<1>2. /\ batch \in Batch /\ T \in Table /\ batch.source \in Sources
      /\ pinned \in {NoSource, batch.source} /\ batch.cursor \in Position
  BY <1>1 DEF TypeInv, Batch, BatchInv, Importable
<1>3. /\ I \subseteq LocalStream /\ IsFiniteSet(I)
      /\ \A m \in I : m.local \in 1..Cardinality(I)
      /\ \A m, n \in I : m.local = n.local \/ m.of = n.of => m = n
      /\ \A m \in store.streams : \E n \in I : n.local = m.local /\ n.of = m.of
  BY <1>1, StreamsStep
<1>4. \A r \in Fresh(batch) :
        /\ r \in batch.rows /\ r \in Row /\ batch.source = "edge"
        /\ Written(T, r) /\ inserts[r.id] = 0
        /\ Before(Cursor("edge", T), r) /\ AtMost(Pos(r), batch.cursor)
  BY FreshRow
<1>5. \A r \in Fresh(batch) :
        /\ Localized(r, I).key = r.key /\ Localized(r, I).tie = r.tie
        /\ Localized(r, I).id = r.id /\ Localized(r, I).time = r.time
  BY <1>4, LocalizedRow
<1>6. \A r \in Fresh(batch) : r.stream # 0 =>
        \E m \in I : m.of = r.stream /\ Localized(r, I).stream = m.local
  <2> SUFFICES ASSUME NEW r \in Fresh(batch), r.stream # 0
               PROVE  \E m \in I : m.of = r.stream /\ Localized(r, I).stream = m.local
    OBVIOUS
  <2>1. T = "fast_sample" /\ r \in Row
    <3>1. r.id \in 1..Len(log) /\ log[r.id] = [table |-> T, row |-> r] /\ r \in Row
      BY <1>4 DEF Written
    <3>2. QED
      BY <1>1, <3>1 DEF LogInv
  <2>2. \E m \in I : m.of = r.stream
    BY <2>1 DEF Importable, Fresh
  <2> DEFINE m == CHOOSE m \in I : m.of = r.stream
  <2>3. m \in I /\ m.of = r.stream
    BY <2>2
  <2>4. Localized(r, I).stream = m.local
    BY <2>1 DEF Localized, Row
  <2> HIDE DEF m
  <2>5. QED
    BY <2>3, <2>4
<1>7. \A r \in Fresh(batch) : Localized(r, I) \in Row
  <2> SUFFICES ASSUME NEW r \in Fresh(batch) PROVE Localized(r, I) \in Row
    OBVIOUS
  <2>1. CASE r.stream = 0
    BY <1>4, <2>1 DEF Localized
  <2>2. CASE r.stream # 0
    <3>1. PICK m \in I : m.of = r.stream /\ Localized(r, I).stream = m.local
      BY <1>6, <2>2
    <3>2. m.local \in Nat
      BY <1>3, <3>1 DEF LocalStream
    <3>3. Localized(r, I) = [r EXCEPT !.stream = Localized(r, I).stream]
      BY <1>4, <2>2 DEF Localized, Row
    <3>4. QED
      BY <1>4, <3>1, <3>2, <3>3 DEF Row
  <2>3. QED
    BY <2>1, <2>2
<1>8. /\ store'.rows = [store.rows EXCEPT ![T] = Put(T, @, taken)]
      /\ store'.cursor = [store.cursor EXCEPT ![batch.source][T] = Later(@, batch.cursor)]
      /\ store'.sources = store.sources \cup {batch.source}
      /\ store'.streams = I
      /\ store' = [rows |-> store'.rows, cursor |-> store'.cursor,
                   sources |-> store'.sources, streams |-> store'.streams]
  BY DEF Import, Imported
<1>9. inserts' = [i \in Id |-> IF \E r \in Fresh(batch) : r.id = i
                               THEN inserts[i] + 1 ELSE inserts[i]]
  BY DEF Import
<1>10. /\ store.rows \in [Table -> SUBSET Row] /\ store.sources \subseteq Sources
       /\ store.cursor \in [Sources -> [Table -> Position]]
  BY <1>1 DEF TypeInv, Store
<1> HIDE DEF I
<1>11. /\ \A t \in Table : \A q \in store'.rows[t] :
            q \in store.rows[t] \/ (t = T /\ \E r \in Fresh(batch) : q = Localized(r, I))
  BY <1>2, <1>8, <1>10, PutRows
<1>12. \A q \in store'.rows["minute_rollup"] :
          (\E r \in Fresh(batch) : T = "minute_rollup" /\ q = Localized(r, I))
          \/ (q \in store.rows["minute_rollup"] /\ (T = "minute_rollup" =>
                \A r \in Fresh(batch) : Localized(r, I).tie # q.tie))
  <2>1. "minute_rollup" \in Table
    BY DEF Table
  <2>2. QED
    BY <1>8, <1>10, <1>11, <2>1, PutRows
<1>13. \A t \in Table : store.cursor["edge"][t] \in Position
  BY <1>10 DEF Sources
<1>14. ASSUME batch.source = "edge"
       PROVE  /\ store'.cursor["edge"][T] = Later(store.cursor["edge"][T], batch.cursor)
              /\ \A t \in Table \ {T} : store'.cursor["edge"][t] = store.cursor["edge"][t]
  BY <1>2, <1>8, <1>10, <1>14 DEF Sources
<1>15. ASSUME batch.source # "edge"
       PROVE  \A t \in Table : store'.cursor["edge"][t] = store.cursor["edge"][t]
  BY <1>2, <1>8, <1>10, <1>15 DEF Sources
<1>16. /\ AtMost(store.cursor["edge"][T], Later(store.cursor["edge"][T], batch.cursor))
       /\ AtMost(batch.cursor, Later(store.cursor["edge"][T], batch.cursor))
       /\ Later(store.cursor["edge"][T], batch.cursor) \in {store.cursor["edge"][T], batch.cursor}
  BY <1>2, <1>13, PositionOrder
<1>17. batch.source = "edge" => AtMost(batch.cursor, store'.cursor["edge"][T])
  BY <1>14, <1>16
<1>18. \A t \in Table : AtMost(store.cursor["edge"][t], store'.cursor["edge"][t])
  <2> SUFFICES ASSUME NEW t \in Table
               PROVE  AtMost(store.cursor["edge"][t], store'.cursor["edge"][t])
    OBVIOUS
  <2>1. AtMost(store.cursor["edge"][t], store.cursor["edge"][t])
    BY <1>13, PositionOrder
  <2>2. CASE batch.source = "edge" /\ t = T
    BY <1>14, <1>16, <2>2
  <2>3. CASE ~(batch.source = "edge" /\ t = T)
    <3>1. store'.cursor["edge"][t] = store.cursor["edge"][t]
      BY <1>14, <1>15, <2>3
    <3>2. QED
      BY <2>1, <3>1
  <2>4. QED
    BY <2>2, <2>3
<1>19. \A t \in Table : store'.cursor["edge"][t] # store.cursor["edge"][t] =>
          batch.source = "edge" /\ t = T /\ store'.cursor["edge"][t] = batch.cursor
  <2> SUFFICES ASSUME NEW t \in Table, store'.cursor["edge"][t] # store.cursor["edge"][t]
               PROVE  batch.source = "edge" /\ t = T /\ store'.cursor["edge"][t] = batch.cursor
    OBVIOUS
  <2>1. batch.source = "edge" /\ t = T
    BY <1>14, <1>15
  <2>2. QED
    BY <1>14, <1>16, <2>1
<1>20. \A t \in Table : store'.cursor["edge"][t] \in Position
  BY <1>2, <1>13, <1>19
<1>21. store' \in Store
  <2>1. store'.rows \in [Table -> SUBSET Row]
    BY <1>2, <1>7, <1>8, <1>10, <1>11
  <2>2. store'.cursor \in [Sources -> [Table -> Position]]
    BY <1>2, <1>8, <1>10, PositionOrder
  <2>3. store'.sources \subseteq Sources /\ store'.streams \subseteq LocalStream
    BY <1>2, <1>3, <1>8, <1>10
  <2>4. QED
    BY <1>8, <2>1, <2>2, <2>3 DEF Store
<1>22. inserts' \in [Id -> Nat] /\ \A i \in Id : inserts'[i] \in {0, 1}
  BY <1>1, <1>4, <1>9 DEF TypeInv, TakenInv
<1>23. batch' \in Batch /\ (batch' = NoBatch \/ batch' = batch)
  BY <1>2, NoBatchType
<1>24. TypeInv'
  BY <1>1, <1>2, <1>21, <1>22, <1>23 DEF TypeInv
<1>25. LogInv'
  <2>1. \A t \in Table : \A r \in edge'[t] : Written(t, r)' /\ AtMost(Pos(r), top'[t])
    BY <1>1 DEF LogInv, Written
  <2>2. \A r \in batch'.rows : Written(batch.table, r)'
    BY <1>1, <1>23, NoBatchType DEF LogInv, Written
  <2>3. late' \subseteq 1..Len(log')
    BY <1>1 DEF LogInv
  <2>4. \A i \in 1..Len(log') :
          /\ log'[i].row.id = i
          /\ log'[i].row.key >= 1
          /\ log'[i].table # "fast_sample" <=> log'[i].row.stream = 0
    BY <1>1 DEF LogInv
  <2>5. QED
    BY <2>1, <2>2, <2>3, <2>4 DEF LogInv
<1>26. \A i \in Id : inserts[i] = 1 => inserts'[i] = 1
  <2> SUFFICES ASSUME NEW i \in Id, inserts[i] = 1 PROVE inserts'[i] = 1
    OBVIOUS
  <2>1. inserts'[i] = 1 \/ inserts'[i] = 2
    BY <1>9
  <2>2. inserts'[i] \in {0, 1}
    BY <1>22
  <2>3. QED
    BY <2>1, <2>2
<1>27. \A r \in Fresh(batch) : inserts'[r.id] = 1
  BY <1>4, <1>9 DEF Row
<1>28. TakenInv'
  <2>1. ASSUME NEW i \in Id, inserts'[i] = 1
        PROVE  /\ i \in 1..Len(log')
               /\ AtMost(Pos(log'[i].row), store'.cursor["edge"][log'[i].table])
    <3>1. CASE \E r \in Fresh(batch) : r.id = i
      <4>1. PICK r \in Fresh(batch) : r.id = i
        BY <3>1
      <4>2. i \in 1..Len(log) /\ log[i] = [table |-> T, row |-> r]
        BY <1>4, <4>1 DEF Written
      <4>3. AtMost(Pos(r), batch.cursor) /\ AtMost(batch.cursor, store'.cursor["edge"][T])
        BY <1>4, <1>17, <4>1
      <4>4. AtMost(Pos(r), store'.cursor["edge"][T])
        BY <1>2, <1>4, <1>20, <4>1, <4>3, AtMostTransitive, RowPosition
      <4>5. QED
        BY <4>2, <4>4
    <3>2. CASE ~ \E r \in Fresh(batch) : r.id = i
      <4>1. inserts[i] = 1
        BY <1>9, <2>1, <3>2
      <4>2. i \in 1..Len(log) /\ AtMost(Pos(log[i].row), store.cursor["edge"][log[i].table])
        BY <1>1, <4>1 DEF TakenInv, Cursor
      <4>3. log[i].row \in Row /\ log[i].table \in Table
        <5>1. log[i] \in Entry
          BY <1>1, <4>2 DEF TypeInv
        <5>2. QED
          BY <5>1 DEF Entry
      <4>4. store.cursor["edge"][log[i].table] \in Position
        BY <1>10, <4>3 DEF Sources
      <4>5. QED
        BY <1>18, <1>20, <4>2, <4>3, <4>4, AtMostTransitive, RowPosition
    <3>3. QED
      BY <3>1, <3>2
  <2>2. ASSUME NEW t \in Table, NEW q \in store'.rows[t]
        PROVE  /\ q.id \in 1..Len(log) /\ inserts'[q.id] = 1
               /\ log[q.id].table = t
               /\ log[q.id].row.key = q.key /\ log[q.id].row.tie = q.tie
    <3>1. CASE q \in store.rows[t]
      <4>1. /\ q.id \in 1..Len(log) /\ inserts[q.id] = 1
            /\ log[q.id].table = t
            /\ log[q.id].row.key = q.key /\ log[q.id].row.tie = q.tie
        BY <1>1, <3>1 DEF TakenInv
      <4>2. q.id \in Id
        BY <1>10, <3>1 DEF Row
      <4>3. QED
        BY <1>26, <4>1, <4>2
    <3>2. CASE t = T /\ \E r \in Fresh(batch) : q = Localized(r, I)
      <4>1. PICK r \in Fresh(batch) : q = Localized(r, I)
        BY <3>2
      <4>2. q.id = r.id /\ q.key = r.key /\ q.tie = r.tie
        BY <1>5, <4>1
      <4>3. r.id \in 1..Len(log) /\ log[r.id] = [table |-> T, row |-> r]
        BY <1>4, <4>1 DEF Written
      <4>4. QED
        BY <1>27, <3>2, <4>1, <4>2, <4>3
    <3>3. QED
      BY <1>11, <3>1, <3>2
  <2>3. QED
    BY <1>22, <2>1, <2>2 DEF TakenInv, Cursor
<1>29. CursorInv'
  <2> SUFFICES ASSUME NEW t \in Table PROVE AtMost(store'.cursor["edge"][t], top[t])
    BY DEF CursorInv, Cursor
  <2>1. AtMost(store.cursor["edge"][t], top[t])
    BY <1>1 DEF CursorInv, Cursor
  <2>2. batch.source = "edge" => AtMost(batch.cursor, top[T])
    BY <1>1, <1>2 DEF BatchInv
  <2>3. QED
    BY <1>19, <2>1, <2>2
<1>30. BatchInv'
  <2>1. batch'.rows # {} => batch'.source = "edge"
    BY <1>1, <1>23, NoBatchType DEF BatchInv
  <2>2. At("import")' => batch'.source \in Sources
    BY <1>2
  <2>3. ASSUME batch'.source = "edge"
        PROVE  /\ \A r \in edge'[batch'.table] :
                    r.id \notin late' /\ AtMost(Pos(r), batch'.cursor) =>
                      r \in batch'.rows \/ AtMost(Pos(r), store'.cursor["edge"][batch'.table])
               /\ AtMost(batch'.cursor, top'[batch'.table])
    <3>1. batch' = batch /\ batch.source = "edge"
      BY <1>23, <2>3, NoBatchType DEF NoSource
    <3>2. /\ \A r \in edge[T] :
               r.id \notin late /\ AtMost(Pos(r), batch.cursor) =>
                      r \in batch.rows \/ AtMost(Pos(r), store.cursor["edge"][T])
          /\ AtMost(batch.cursor, top[T])
      BY <1>1, <1>2, <3>1 DEF BatchInv, Cursor
    <3>3. \A r \in edge[T] : r \in Row
      BY <1>1, <1>2 DEF TypeInv
    <3>4. \A r \in edge[T] : AtMost(Pos(r), store.cursor["edge"][T]) =>
                                AtMost(Pos(r), store'.cursor["edge"][T])
      BY <1>2, <1>13, <1>18, <1>20, <3>3, AtMostTransitive, RowPosition
    <3>5. QED
      BY <3>1, <3>2, <3>4
  <2>4. QED
    BY <2>1, <2>2, <2>3 DEF BatchInv, Cursor
<1>31. SourceInv'
  <2>1. store.sources \subseteq {batch.source}
    BY <1>1, <1>2 DEF SourceInv, At, NoSource, Sources
  <2>2. ExpectedSource # NoSource => batch.source = ExpectedSource
    BY <1>1, <1>2 DEF SourceInv, At
  <2>3. QED
    BY <1>2, <1>8, <2>1, <2>2 DEF SourceInv, Sources
<1>32. RollupInv'
  <2> DEFINE R == "minute_rollup"
  <2>1. R \in Table
    BY DEF Table
  <2>2. \A q, r \in edge[R] : q.tie = r.tie => q = r
    BY <1>1 DEF RollupInv
  <2>3. \A q \in store'.rows[R] : \A r \in edge[R] : q.tie = r.tie => q.id <= r.id
    <3> SUFFICES ASSUME NEW q \in store'.rows[R], NEW r \in edge[R], q.tie = r.tie
                 PROVE  q.id <= r.id
      OBVIOUS
    <3>1. CASE q \in store.rows[R]
      BY <1>1, <3>1 DEF RollupInv
    <3>2. CASE T = R /\ \E n \in Fresh(batch) : q = Localized(n, I)
      <4>1. PICK n \in Fresh(batch) : q = Localized(n, I)
        BY <3>2
      <4>2. n \in batch.rows /\ n.tie = r.tie /\ q.id = n.id
        BY <1>4, <1>5, <4>1
      <4>3. QED
        BY <1>1, <3>2, <4>2 DEF RollupInv
    <3>3. QED
      BY <1>11, <2>1, <3>1, <3>2
  <2>4. ASSUME T = R
        PROVE  \A q \in store'.rows[R] : \A r \in batch.rows : q.tie = r.tie => q.id <= r.id
    <3> SUFFICES ASSUME NEW q \in store'.rows[R], NEW r \in batch.rows, q.tie = r.tie
                 PROVE  q.id <= r.id
      OBVIOUS
    <3>1. CASE q \in store.rows[R]
      BY <1>1, <2>4, <3>1 DEF RollupInv
    <3>2. CASE \E n \in Fresh(batch) : q = Localized(n, I)
      <4>1. PICK n \in Fresh(batch) : q = Localized(n, I)
        BY <3>2
      <4>2. n \in batch.rows /\ n.tie = r.tie /\ q.id = n.id /\ n.id \in Nat
        BY <1>4, <1>5, <4>1 DEF Row, Id
      <4>3. n = r
        BY <1>1, <2>4, <4>2 DEF RollupInv
      <4>4. QED
        BY <4>2, <4>3
    <3>3. QED
      BY <1>11, <2>1, <3>1, <3>2
  <2>5. T = R =>
          /\ \A q, r \in batch.rows : q.tie = r.tie => q = r
          /\ \A q \in batch.rows : \A r \in edge[R] : q.tie = r.tie => q.id <= r.id
    BY <1>1 DEF RollupInv
  <2>6. batch'.table = R =>
          /\ \A q, r \in batch'.rows : q.tie = r.tie => q = r
          /\ \A q \in batch'.rows : \A r \in edge[R] : q.tie = r.tie => q.id <= r.id
          /\ \A q \in store'.rows[R] : \A r \in batch'.rows : q.tie = r.tie => q.id <= r.id
    BY <1>23, <2>4, <2>5, NoBatchType
  <2>7. QED
    BY <2>2, <2>3, <2>6 DEF RollupInv
<1>33. StreamInv'
  <2>1. IsFiniteSet(batch'.streams) /\ \A s, u \in batch'.streams : s.id = u.id => s = u
    BY <1>1, <1>23, NoBatchType, FS_EmptySet DEF StreamInv
  <2>2. QED
    BY <1>3, <1>8, <2>1 DEF StreamInv
<1>34. NothingSkipped'
  <2> SUFFICES ASSUME NEW t \in Table, NEW r \in edge[t],
                      r.id \notin late, AtMost(Pos(r), store'.cursor["edge"][t])
               PROVE  inserts'[r.id] = 1
    BY DEF NothingSkipped, Cursor
  <2>1. r \in Row /\ r.id \in Id /\ Written(t, r)
    BY <1>1 DEF TypeInv, LogInv, Row
  <2>2. CASE AtMost(Pos(r), store.cursor["edge"][t])
    BY <1>1, <1>26, <2>1, <2>2 DEF NothingSkipped, Cursor
  <2>3. CASE ~AtMost(Pos(r), store.cursor["edge"][t])
    <3>1. batch.source = "edge" /\ t = T /\ AtMost(Pos(r), batch.cursor)
      BY <1>19, <2>3
    <3>2. r \in batch.rows
      BY <1>1, <1>2, <2>3, <3>1 DEF BatchInv, Cursor
    <3>3. Before(Cursor(batch.source, T), r)
      BY <2>3, <3>1 DEF Cursor, AtMost, Before, Pos
    <3>4. CASE r \in Fresh(batch)
      BY <1>27, <3>4
    <3>5. CASE r \notin Fresh(batch)
      <4>1. PICK q \in store.rows[T] : q.key = r.key /\ T \in {"fast_sample", "platform_sample"}
        BY <3>2, <3>3, <3>5 DEF Fresh
      <4>2. q.id = r.id
        BY <3>2, <3>3, <4>1 DEF Importable
      <4>3. inserts[q.id] = 1
        BY <1>1, <1>2, <4>1 DEF TakenInv
      <4>4. QED
        BY <1>26, <2>1, <4>2, <4>3
    <3>6. QED
      BY <3>4, <3>5
  <2>4. QED
    BY <2>2, <2>3
<1>35. StreamsAreKept'
  <2> SUFFICES ASSUME NEW q \in store'.rows["fast_sample"]
               PROVE  \E m \in I : /\ m.local = q.stream
                                   /\ m.of = log[q.id].row.stream
                                   /\ \A n \in I : n.local = m.local => n = m
    BY <1>8 DEF StreamsAreKept
  <2>1. CASE q \in store.rows["fast_sample"]
    <3>1. PICK m \in store.streams : m.local = q.stream /\ m.of = log[q.id].row.stream
      BY <1>1, <2>1 DEF StreamsAreKept
    <3>2. PICK n \in I : n.local = m.local /\ n.of = m.of
      BY <1>3, <3>1
    <3>3. QED
      BY <1>3, <3>1, <3>2
  <2>2. CASE T = "fast_sample" /\ \E r \in Fresh(batch) : q = Localized(r, I)
    <3>1. PICK r \in Fresh(batch) : q = Localized(r, I)
      BY <2>2
    <3>2. q.id = r.id /\ r.id \in 1..Len(log) /\ log[r.id] = [table |-> T, row |-> r]
      BY <1>4, <1>5, <3>1 DEF Written
    <3>3. r.stream # 0
      BY <1>1, <2>2, <3>2 DEF LogInv
    <3>4. PICK m \in I : m.of = r.stream /\ q.stream = m.local
      BY <1>6, <3>1, <3>3
    <3>5. QED
      BY <1>3, <3>2, <3>4
  <2>3. QED
    BY <1>11, <2>1, <2>2 DEF Table
<1>36. QED
  BY <1>24, <1>25, <1>28, <1>29, <1>30, <1>31, <1>32, <1>33, <1>34, <1>35 DEF MirrorInv

-----------------------------------------------------------------------------
(* The steps of the thread that take no row.                               *)

LEMMA ThreadStep ==
  ASSUME MirrorInv,
         CheckDisk \/ FetchFails \/ FetchGarbled \/ ImportFails \/ Upkeep \/ Kill \/ Restart
  PROVE  MirrorInv'
<1> USE DEF edgeVars, bounds
<1>1. TypeInv /\ SourceInv /\ BatchInv
  BY DEF MirrorInv
<1>2. /\ UNCHANGED <<edgeVars, inserts>> /\ UNCHANGED <<stepsBack, replays>>
      /\ store.rows \in [Table -> SUBSET Row] /\ store = [store EXCEPT !.rows = store.rows]
  BY <1>1 DEF CheckDisk, FetchFails, FetchGarbled, ImportFails, Upkeep, Kill, Restart, Fail,
              TypeInv, Store
<1>3. /\ faults' \in 0..MaxFault
      /\ thread' \in [at : Places, table : 1..4] /\ ~At("import")'
      /\ connected' \in {"unknown", "yes", "no"}
  <2>1. Fault => faults' \in 0..MaxFault
    BY <1>1, Bounds DEF TypeInv, Fault
  <2>2. \A place \in Places : \A n \in 1..4 :
          Goto(place, n) => thread' \in [at : Places, table : 1..4] /\ thread'.at = place
    BY DEF Goto
  <2>3. thread.table \in 1..4 /\ {"disk", "fetch", "dead", "down"} \subseteq Places /\ 1 \in 1..4
    BY <1>1 DEF TypeInv, Places
  <2>4. \/ Goto("disk", 1) \/ Goto("fetch", 1) \/ Goto("dead", thread.table) \/ Goto("down", 1)
    BY DEF CheckDisk, FetchFails, FetchGarbled, ImportFails, Upkeep, Kill, Restart, Fail
  <2>5. thread' \in [at : Places, table : 1..4] /\ ~At("import")'
    BY <2>2, <2>3, <2>4 DEF At
  <2>6. faults' \in 0..MaxFault /\ connected' \in {"unknown", "yes", "no"}
    BY <1>1, <2>1 DEF CheckDisk, FetchFails, FetchGarbled, ImportFails, Upkeep, Kill, Restart,
                      Fail, TypeInv
  <2>7. QED
    BY <2>5, <2>6
<1>4. /\ store' = [store EXCEPT !.rows = store'.rows]
      /\ store'.rows \in [Table -> SUBSET Row]
      /\ \A t \in Table : store'.rows[t] \subseteq store.rows[t]
  <2>1. CASE store' = store
    BY <1>2, <2>1
  <2>2. CASE Upkeep
    <3>1. Kept \in [Table -> SUBSET Row] /\ \A t \in Table : Kept[t] \subseteq store.rows[t]
      BY <1>2 DEF Kept
    <3>2. store' = [store EXCEPT !.rows = Kept] /\ store'.rows = Kept
      BY <1>1, <2>2 DEF Upkeep, TypeInv, Store
    <3>3. QED
      BY <3>1, <3>2
  <2>3. QED
    BY <2>1, <2>2 DEF CheckDisk, FetchFails, FetchGarbled, ImportFails, Kill, Restart, Fail
<1>5. CASE CheckDisk \/ FetchFails \/ FetchGarbled \/ ImportFails \/ Upkeep
  <2>1. batch' \in {batch, NoBatch} /\ pinned' = pinned /\ store'.sources = store.sources
    <3>1. batch' \in {batch, NoBatch} /\ pinned' = pinned
      BY <1>5 DEF CheckDisk, FetchFails, FetchGarbled, ImportFails, Upkeep, Fail
    <3>2. store'.sources = store.sources
      BY <1>1, <1>4 DEF TypeInv, Store
    <3>3. QED
      BY <3>1, <3>2
  <2>2. ~At("down") /\ ~At("down")'
    BY <1>5 DEF CheckDisk, FetchFails, FetchGarbled, ImportFails, Upkeep, Fail, At, Goto
  <2>3. SourceInv'
    BY <1>1, <2>1, <2>2 DEF SourceInv
  <2>4. pinned' \in Sources \cup {NoSource}
    BY <1>1, <2>1 DEF TypeInv
  <2>5. edge' \in [Table -> SUBSET Row] /\ ended' \in Seq(BOOLEAN) /\ Len(ended') > 0
        /\ stepsBack' \in 0..MaxStepBack /\ replays' \in 0..MaxReplay
        /\ \A t \in Table : edge'[t] \subseteq edge[t]
    BY <1>1, <1>2 DEF TypeInv
  <2>6. QED
    BY <1>2, <1>3, <1>4, <2>1, <2>2, <2>3, <2>4, <2>5, QuietStep
<1>6. CASE Kill
  <2>1. batch' = NoBatch /\ pinned' = NoSource /\ store' = store
    BY <1>6 DEF Kill
  <2>2. At("down")'
    BY <1>6 DEF Kill, At, Goto
  <2>3. SourceInv'
    BY <1>1, <2>1, <2>2 DEF SourceInv
  <2>4. edge' \in [Table -> SUBSET Row] /\ ended' \in Seq(BOOLEAN) /\ Len(ended') > 0
        /\ stepsBack' \in 0..MaxStepBack /\ replays' \in 0..MaxReplay
        /\ \A t \in Table : edge'[t] \subseteq edge[t]
    BY <1>1, <1>2 DEF TypeInv
  <2>5. QED
    BY <1>2, <1>3, <1>4, <2>1, <2>3, <2>4, NoBatchType, QuietStep
<1>7. CASE Restart
  <2>1. batch' = batch /\ batch.source = NoSource /\ store' = store /\ connected' = connected
    BY <1>1, <1>7 DEF Restart, BatchInv
  <2>2. ~At("down")'
    BY <1>7 DEF Restart, At, Goto
  <2>3. pinned' \in PinnedAtStart
    BY <1>7 DEF Restart
  <2>4. store.sources \subseteq Sources /\ IsFiniteSet(store.sources)
    <3>1. store.sources \in SUBSET {"edge", "other"}
      BY <1>1 DEF TypeInv, Store, Sources
    <3>2. {"edge", "other"} = {"edge"} \cup {"other"}
      OBVIOUS
    <3>3. IsFiniteSet({"edge", "other"})
      <4>1. IsFiniteSet({"edge"}) /\ IsFiniteSet({"other"})
        BY FS_Singleton
      <4>2. IsFiniteSet({"edge"} \cup {"other"})
        BY <4>1, FS_Union
      <4>3. QED
        BY <3>2, <4>2
    <3>4. QED
      BY <3>1, <3>3, FS_Subset DEF Sources
  <2>5. pinned' \in Sources \cup {NoSource} /\ store.sources \subseteq {pinned'}
        /\ (ExpectedSource # NoSource => pinned' = ExpectedSource)
    <3>1. CASE ExpectedSource # NoSource
      BY <1>1, <2>3, <3>1, Bounds DEF PinnedAtStart, SourceInv, Sources
    <3>2. CASE ExpectedSource = NoSource /\ Cardinality(store.sources) = 1
      <4>1. PICK x : store.sources = {x}
        BY <2>4, <3>2, FS_Singleton
      <4>2. pinned' \in store.sources
        BY <2>3, <3>2 DEF PinnedAtStart
      <4>3. QED
        BY <2>4, <3>2, <4>1, <4>2
    <3>3. CASE ExpectedSource = NoSource /\ Cardinality(store.sources) # 1
      <4>1. pinned' = NoSource
        BY <2>3, <3>3 DEF PinnedAtStart
      <4>2. store.sources # {"edge"} /\ store.sources # {"other"}
        BY <3>3, FS_Singleton
      <4>3. store.sources = {}
        BY <1>1, <4>2 DEF SourceInv
      <4>4. QED
        BY <3>3, <4>1, <4>3
    <3>4. QED
      BY <3>1, <3>2, <3>3
  <2>6. SourceInv'
    BY <1>1, <2>1, <2>5 DEF SourceInv
  <2>7. edge' \in [Table -> SUBSET Row] /\ ended' \in Seq(BOOLEAN) /\ Len(ended') > 0
        /\ stepsBack' \in 0..MaxStepBack /\ replays' \in 0..MaxReplay
        /\ \A t \in Table : edge'[t] \subseteq edge[t]
    BY <1>1, <1>2 DEF TypeInv
  <2>8. QED
    BY <1>2, <1>3, <1>4, <2>1, <2>2, <2>5, <2>6, <2>7, QuietStep
<1>8. QED
  BY <1>5, <1>6, <1>7

(* Both imports: that of the thread, and that of a second process.         *)
LEMMA TakeStep ==
  ASSUME MirrorInv, ImportBatch \/ Replay
  PROVE  MirrorInv'
<1> USE DEF edgeVars, bounds
<1>1. TypeInv
  BY DEF MirrorInv
<1>2. At("import") /\ Importable(batch) /\ Import(batch) /\ UNCHANGED edgeVars
      /\ pinned' = batch.source
  BY DEF ImportBatch, Replay, memory
<1>3. stepsBack' \in 0..MaxStepBack /\ faults' \in 0..MaxFault /\ replays' \in 0..MaxReplay
      /\ connected' \in {"unknown", "yes", "no"}
  BY <1>1, Bounds DEF ImportBatch, Replay, memory, TypeInv
<1>4. CASE ImportBatch
  <2>1. batch' = NoBatch
    BY <1>4 DEF ImportBatch
  <2>2. thread' \in [at : Places, table : 1..4] /\ ~At("import")' /\ ~At("down")'
    <3>1. thread.table \in 1..4 /\ Len(Tables) = 4
      BY <1>1 DEF TypeInv, Tables
    <3>2. \/ Goto("fetch", thread.table) \/ Goto("upkeep", 1)
          \/ thread.table < 4 /\ Goto("fetch", thread.table + 1)
      BY <1>4, <3>1 DEF ImportBatch, GoOn
    <3>3. QED
      BY <3>1, <3>2 DEF Goto, Places, At
  <2>3. QED
    BY <1>2, <1>3, <2>1, <2>2, ImportStep
<1>5. CASE Replay
  <2>1. batch' = batch /\ thread' = thread
    BY <1>5 DEF Replay, memory
  <2>2. thread' \in [at : Places, table : 1..4] /\ ~At("down")'
    BY <1>1, <1>2, <2>1 DEF TypeInv, At
  <2>3. QED
    BY <1>2, <1>3, <2>1, <2>2, ImportStep
<1>6. QED
  BY <1>4, <1>5

LEMMA InvNext == MirrorInv /\ [Next]_vars => MirrorInv'
<1> SUFFICES ASSUME MirrorInv, [Next]_vars PROVE MirrorInv'
  OBVIOUS
<1>1. CASE Edge
  BY <1>1, WriteStep, EdgeStep DEF Edge
<1>2. CASE CheckDisk \/ FetchFails \/ FetchGarbled \/ ImportFails \/ Upkeep \/ Kill \/ Restart
  BY <1>2, ThreadStep
<1>3. CASE Fetch
  BY <1>3, FetchStep
<1>4. CASE FetchFromOther
  BY <1>4, FetchFromOtherStep
<1>5. CASE ImportBatch \/ Replay
  BY <1>5, TakeStep
<1>6. CASE UNCHANGED vars
  <2> USE DEF vars, edgeVars, replica, memory, bounds
  <2>1. TypeInv' /\ BatchInv' /\ SourceInv' /\ StreamInv'
    BY <1>6 DEF MirrorInv, TypeInv, BatchInv, SourceInv, StreamInv, At, Cursor
  <2>2. LogInv' /\ TakenInv' /\ CursorInv' /\ RollupInv'
    BY <1>6 DEF MirrorInv, LogInv, TakenInv, CursorInv, RollupInv, Written, Cursor
  <2>3. NothingSkipped' /\ StreamsAreKept'
    BY <1>6 DEF MirrorInv, NothingSkipped, StreamsAreKept, Cursor
  <2>4. QED
    BY <2>1, <2>2, <2>3 DEF MirrorInv
<1>7. QED
  BY <1>1, <1>2, <1>3, <1>4, <1>5, <1>6 DEF Next, Replica

(* Of every reachable state of the historian's mirror.                     *)
LEMMA InvHolds == Spec => []MirrorInv
BY InvInit, InvNext, PTL DEF Spec

-----------------------------------------------------------------------------
(* The results.                                                            *)

(* Every variable of the edge and of the replica has its type.             *)
THEOREM TypeCorrect == Spec => []TypeOK
<1>1. MirrorInv => TypeOK
  BY DEF MirrorInv, TypeInv, TypeOK, Store, Entry, Places
<1>2. QED
  BY <1>1, InvHolds, PTL

(* No cursor passes over a row that was not stamped late: whatever was     *)
(* lost, killed, refused, pruned or imported twice, what lies at or before *)
(* the cursor was taken.                                                   *)
THEOREM NoRowSkipped == Spec => []NothingSkipped
<1>1. MirrorInv => NothingSkipped
  BY DEF MirrorInv
<1>2. QED
  BY <1>1, InvHolds, PTL

(* A sample of the replica belongs to the local number of its own stream,  *)
(* and no number stands for two streams.                                   *)
THEOREM StreamsKept == Spec => []StreamsAreKept
<1>1. MirrorInv => StreamsAreKept
  BY DEF MirrorInv
<1>2. QED
  BY <1>1, InvHolds, PTL

(* The database of a replica never holds the history of two boards.        *)
THEOREM OneSourceOnly == Spec => []OneSource
<1>1. MirrorInv => OneSource
  <2> SUFFICES ASSUME MirrorInv PROVE OneSource
    OBVIOUS
  <2>1. store.sources \subseteq {"edge"} \/ store.sources \subseteq {"other"}
    BY DEF MirrorInv, SourceInv
  <2>2. \A x : IsFiniteSet({x}) /\ Cardinality({x}) = 1
    BY FS_Singleton
  <2>3. ASSUME NEW x, store.sources \subseteq {x} PROVE Cardinality(store.sources) <= 1
    <3>1. store.sources \in SUBSET {x}
      BY <2>3
    <3>2. IsFiniteSet({x}) /\ Cardinality({x}) = 1
      BY <2>2
    <3>3. Cardinality(store.sources) <= Cardinality({x})
      BY <3>1, <3>2, FS_Subset
    <3>4. QED
      BY <3>2, <3>3
  <2>4. QED
    BY <2>1, <2>3 DEF OneSource
<1>2. QED
  BY <1>1, InvHolds, PTL

(* Everything but a write and an import leaves both sides of the mirror.   *)
LEMMA OtherSteps ==
  ASSUME \/ EdgeStream \/ EdgeRetention \/ CheckDisk \/ Fetch \/ FetchFromOther \/ FetchFails
         \/ FetchGarbled \/ ImportFails \/ Upkeep \/ Kill \/ Restart \/ UNCHANGED vars
  PROVE  log' = log /\ inserts' = inserts
BY DEF EdgeStream, EdgeRetention, CheckDisk, Fetch, FetchFromOther, FetchFails, FetchGarbled,
       ImportFails, Upkeep, Kill, Restart, Fail, vars, edgeVars, replica, memory

LEMMA MirrorNext ==
  ASSUME MirrorInv, [Next]_vars
  PROVE  [M!Write \/ M!Take]_<<1..Len(log), inserts>>
<1>1. TypeInv
  BY DEF MirrorInv
<1>2. ASSUME NEW t \in Table, EdgeWrite(t)
      PROVE  M!Write
  <2>1. /\ Len(log') = Len(log) + 1 /\ Len(log) \in Nat /\ Len(log) < MaxWrite
        /\ inserts' = inserts
    <3>1. Len(log) < MaxWrite /\ inserts' = inserts /\ \E x : log' = Append(log, x)
      BY <1>2 DEF EdgeWrite, replica
    <3>2. QED
      BY <1>1, <3>1 DEF TypeInv
  <2>2. 1..Len(log') = (1..Len(log)) \cup {Len(log) + 1}
    BY <2>1
  <2>3. Len(log) + 1 \in Id \ (1..Len(log))
    BY <2>1, Bounds DEF Id
  <2>4. QED
    BY <2>1, <2>2, <2>3 DEF M!Write
<1>3. ASSUME ImportBatch \/ Replay
      PROVE  M!Take
  <2>1. Importable(batch) /\ Import(batch) /\ log' = log
    BY <1>3 DEF ImportBatch, Replay, edgeVars
  <2> DEFINE new == {r.id : r \in Fresh(batch)}
  <2>2. \A r \in Fresh(batch) : r.id \in 1..Len(log) /\ inserts[r.id] = 0
    BY <2>1, FreshRow DEF Written
  <2>3. new \in SUBSET {i \in 1..Len(log) : inserts[i] = 0}
    BY <2>2
  <2>4. inserts' = [i \in Id |-> IF i \in new THEN 1 ELSE inserts[i]]
    <3>1. inserts' = [i \in Id |-> IF \E r \in Fresh(batch) : r.id = i
                                   THEN inserts[i] + 1 ELSE inserts[i]]
      BY <2>1 DEF Import
    <3>2. \A i \in Id : (\E r \in Fresh(batch) : r.id = i) <=> i \in new
      OBVIOUS
    <3>3. \A i \in new : inserts[i] + 1 = 1
      BY <2>3
    <3> HIDE DEF new
    <3>4. QED
      BY <3>1, <3>2, <3>3
  <2> HIDE DEF new
  <2>5. QED
    BY <2>1, <2>3, <2>4 DEF M!Take
<1>4. ASSUME \/ EdgeStream \/ EdgeRetention \/ CheckDisk \/ Fetch \/ FetchFromOther
             \/ FetchFails \/ FetchGarbled \/ ImportFails \/ Upkeep \/ Kill \/ Restart
             \/ UNCHANGED vars
      PROVE  UNCHANGED <<1..Len(log), inserts>>
  <2>1. log' = log /\ inserts' = inserts
    BY <1>4, OtherSteps
  <2>2. QED
    BY <2>1
<1>5. QED
  BY <1>2, <1>3, <1>4 DEF Next, Edge, Replica

(* The replica implements the mirror: only what was written is taken, and  *)
(* no row more than once, also when a batch is imported again after its    *)
(* acknowledgement was lost.                                               *)
THEOREM ReplicaImplementsMirror == Spec => MirrorSpec
<1>1. Init => M!Init
  BY DEF Init, M!Init
<1>2. MirrorInv /\ [Next]_vars => [M!Write \/ M!Take]_<<1..Len(log), inserts>>
  BY MirrorNext
<1>3. QED
  BY <1>1, <1>2, InvHolds, PTL DEF Spec, MirrorSpec, M!Spec

(* What a permanent replica has taken.                                     *)
Keeps ==
  ~RetentionEnabled =>
    \A t \in Table : \A q \in store.rows[t] :
      \E r \in store'.rows[t] : r = q \/ (t = "minute_rollup" /\ r.tie = q.tie /\ r.id > q.id)

LEMMA KeepsStep ==
  ASSUME MirrorInv, [Next]_vars
  PROVE  Keeps
<1> SUFFICES ASSUME ~RetentionEnabled, NEW t \in Table, NEW q \in store.rows[t]
             PROVE  \E r \in store'.rows[t] :
                      r = q \/ (t = "minute_rollup" /\ r.tie = q.tie /\ r.id > q.id)
  BY DEF Keeps
<1>1. TypeInv /\ TakenInv /\ RollupInv
  BY DEF MirrorInv
<1>2. ASSUME ImportBatch \/ Replay
      PROVE  \E r \in store'.rows[t] :
               r = q \/ (t = "minute_rollup" /\ r.tie = q.tie /\ r.id > q.id)
  <2>1. Importable(batch) /\ Import(batch)
    BY <1>2 DEF ImportBatch, Replay
  <2> DEFINE taken == {Localized(r, ImportedStreams(batch)) : r \in Fresh(batch)}
  <2>2. store'.rows = [store.rows EXCEPT ![batch.table] = Put(batch.table, @, taken)]
    BY <2>1 DEF Import, Imported
  <2>3. store.rows \in [Table -> SUBSET Row]
    BY <1>1 DEF TypeInv, Store
  <2> HIDE DEF taken
  <2>4. CASE t # batch.table
    BY <2>2, <2>3, <2>4
  <2>5. CASE t = batch.table
    <3>1. store'.rows[t] = Put(t, store.rows[t], taken)
      BY <2>2, <2>3, <2>5
    <3>2. CASE q \in Put(t, store.rows[t], taken)
      BY <3>1, <3>2
    <3>3. CASE q \notin Put(t, store.rows[t], taken)
      <4>1. t = "minute_rollup" /\ \E r \in taken : q.tie = r.tie
        BY <3>3 DEF Put
      <4>2. PICK n \in Fresh(batch) : q.tie = Localized(n, ImportedStreams(batch)).tie
        BY <4>1 DEF taken
      <4> DEFINE r == Localized(n, ImportedStreams(batch))
      <4>3. r \in taken
        BY DEF taken
      <4>4. /\ n \in batch.rows /\ n \in Row /\ inserts[n.id] = 0
        BY <2>1, FreshRow
      <4>5. r.tie = n.tie /\ r.id = n.id
        BY <4>4, LocalizedRow
      <4> HIDE DEF r
      <4>6. q.id <= n.id
        BY <1>1, <2>5, <4>1, <4>2, <4>4, <4>5 DEF RollupInv, r
      <4>7. inserts[q.id] = 1
        BY <1>1 DEF TakenInv
      <4>8. q.id \in Nat /\ n.id \in Nat
        BY <2>3, <4>4 DEF Row, Id
      <4>9. r.id > q.id
        BY <4>4, <4>5, <4>6, <4>7, <4>8
      <4>10. r \in store'.rows[t]
        BY <3>1, <4>3, PutRows
      <4>11. r.tie = q.tie
        BY <4>2 DEF r
      <4>12. QED
        BY <4>1, <4>9, <4>10, <4>11
    <3>4. QED
      BY <3>2, <3>3
  <2>6. QED
    BY <2>4, <2>5
<1>3. ASSUME ~(ImportBatch \/ Replay)
      PROVE  store'.rows = store.rows
  <2>1. CASE Upkeep
    BY <1>1, <2>1 DEF Upkeep, Kept, TypeInv, Store
  <2>2. CASE ~Upkeep
    <3>1. store' = store
      BY <1>3, <2>2 DEF Next, Edge, Replica, EdgeWrite, EdgeStream, EdgeRetention, CheckDisk,
        Fetch, FetchFromOther, FetchFails, FetchGarbled, ImportFails, Kill, Restart, Fail,
        vars, replica
    <3>2. QED
      BY <3>1
  <2>3. QED
    BY <2>1, <2>2
<1>4. QED
  BY <1>2, <1>3

(* A row of a replica that keeps everything is never lost, and a rollup    *)
(* gives way only to a later state of its minute.                          *)
THEOREM NothingLost == Spec => KeepsWhatItTook
<1>1. MirrorInv /\ [Next]_vars => [Keeps]_vars
  BY KeepsStep
<1>2. Spec => [][Keeps]_vars
  BY <1>1, InvHolds, PTL DEF Spec
<1>3. QED
  BY <1>2 DEF KeepsWhatItTook, Keeps
=============================================================================
