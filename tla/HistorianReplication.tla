------------------------ MODULE HistorianReplication ------------------------
(***************************************************************************)
(* The mirror of an edge historian (gizmo_historian.py): the four tables   *)
(* the edge writes and prunes, the batches it answers with, and the thread *)
(* of ReplicaRecorder that reads its cursor, fetches a batch over HTTP and *)
(* imports it in one SQLite transaction.                                   *)
(*                                                                         *)
(* What a row says is the number of the write that made it.  Time is that  *)
(* of the edge's clock, which may be set back; each commit of the edge     *)
(* takes at least one tick.  Requests may fail, be answered by another     *)
(* board or with what is not HTTP; the replica may be killed at any time.  *)
(***************************************************************************)
EXTENDS Naturals, FiniteSets, Sequences, FiniteSetsExt

CONSTANTS
  MaxWrite,        \* bound on the rows the edge commits
  MaxClock,        \* bound on the edge's clock
  MaxStepBack,     \* bound on how often that clock is set back
  MaxStream,       \* bound on the streams of the edge
  MaxFault,        \* bound on lost replies, failed imports and kills
  MaxReplay,       \* bound on batches that are imported once more
  BatchSize,       \* GIZMO_HISTORIAN_REPLICA_BATCH_SIZE
  Minute,          \* ticks in a bucket
  Retain,          \* Retain[t]: ticks a row of table t is kept at the edge
  RetentionEnabled,\* GIZMO_HISTORIAN_RETENTION_ENABLED of the replica
  ExpectedSource,  \* GIZMO_HISTORIAN_REPLICA_SOURCE_ID, or NoSource
  Poison           \* writes whose payload the replica's catalog cannot decode

Tables == <<"fast_sample", "platform_sample", "minute_rollup", "event">>
Table  == {"fast_sample", "platform_sample", "minute_rollup", "event"}
Sources  == {"edge", "other"}
NoSource == "none"
Id       == 1..MaxWrite

ASSUME Bounds ==
  /\ MaxWrite \in Nat /\ MaxClock \in Nat \ {0} /\ MaxStepBack \in Nat
  /\ MaxStream \in Nat \ {0} /\ MaxFault \in Nat /\ MaxReplay \in Nat
  /\ BatchSize \in Nat \ {0} /\ Minute \in Nat \ {0}
  /\ Retain \in [Table -> Nat]
  /\ RetentionEnabled \in BOOLEAN
  /\ ExpectedSource \in {NoSource, "edge"}
  /\ Poison \subseteq Id

VARIABLES
  clock,      \* now_us() at the edge
  edge,       \* edge[t]: the rows of table t of the edge's database
  ended,      \* ended[s]: whether stream s of the edge has an end; its length
              \* is the number of streams
  log,        \* every row the edge has committed, by the number of its write
  late,       \* the writes that were stamped behind an earlier row
  top,        \* top[t]: the greatest position table t has ever given
  store,      \* the replica's database
  thread,     \* where the replica's thread is, and in which table
  batch,      \* the answer that is to be imported
  pinned,     \* _source_id, in memory
  connected,  \* _last_connection_state
  inserts,    \* how many rows the replica has inserted for each write
  stepsBack, faults, replays

edgeVars    == <<clock, edge, ended, log, late, top>>
memory      == <<thread, batch, pinned, connected>>
bounds      == <<stepsBack, faults, replays>>
replica     == <<store, memory, inserts>>
vars        == <<edgeVars, replica, bounds>>

-----------------------------------------------------------------------------
(* Positions: a row lies at (key, tie), and positions are ordered as the   *)
(* code compares tuples.                                                   *)

Start == [key |-> 0, tie |-> 0]
Pos(r) == [key |-> r.key, tie |-> r.tie]
Before(p, q) == p.key < q.key \/ (p.key = q.key /\ p.tie < q.tie)
AtMost(p, q) == ~Before(q, p)
Later(p, q) == IF Before(p, q) THEN q ELSE p

Position == [key : Nat, tie : Nat]
Row == [key : Nat, tie : Nat, time : Nat, id : Id, stream : Nat]

(* A stream of the edge as a batch carries it, and as the replica keeps it.*)
SentStream  == [id : Nat, ended : BOOLEAN]
LocalStream == [local : Nat, of : Nat, ended : BOOLEAN]

NoBatch == [source |-> NoSource, table |-> "event", rows |-> {},
            streams |-> {}, cursor |-> Start, more |-> FALSE]

-----------------------------------------------------------------------------
(* The edge.                                                               *)

Bucket(t) == (t \div Minute) * Minute

(* A sample whose time is taken moves on to the next free one.             *)
FreeTimes(t, now) ==
  {k \in now..(now + MaxWrite) :
     /\ \A r \in edge[t] : r.key # k
     /\ \A j \in now..(k - 1) : \E r \in edge[t] : r.key = j}

(* The minutes whose rollup is written at a time: that of the time, and    *)
(* the one that it closes.                                                 *)
MinutesWritten(now) == {b \in {Bucket(now), Bucket(now) - Minute} : b >= 0}

(* The rows that write i of table t may make at a time.                    *)
NewRows(t, i, now) ==
  CASE t = "minute_rollup" ->
         {[key |-> now, tie |-> b, time |-> b, id |-> i, stream |-> 0] :
            b \in MinutesWritten(now)}
    [] t = "event" ->
         {[key |-> i, tie |-> 0, time |-> now, id |-> i, stream |-> 0]}
    [] t = "fast_sample" ->
         {[key |-> k, tie |-> 0, time |-> k, id |-> i, stream |-> Len(ended)] :
            k \in FreeTimes(t, now)}
    [] OTHER ->
         {[key |-> k, tie |-> 0, time |-> k, id |-> i, stream |-> 0] :
            k \in FreeTimes(t, now)}

(* A rollup replaces that of its bucket; the other tables only grow.       *)
Put(t, rows, new) ==
  IF t = "minute_rollup"
  THEN {q \in rows : \A r \in new : q.tie # r.tie} \cup new
  ELSE rows \cup new

(* The clock moves on, by one tick or into the next minute, or was set     *)
(* back to an earlier time.                                                *)
ClockMoves ==
  \/ /\ clock' \in {clock + 1, Bucket(clock) + Minute}
     /\ UNCHANGED stepsBack
  \/ /\ stepsBack < MaxStepBack
     /\ clock' \in 1..(clock - 1)
     /\ stepsBack' = stepsBack + 1

EdgeWrite(t) ==
  /\ Len(log) < MaxWrite
  /\ ClockMoves
  /\ clock' \in 1..MaxClock
  /\ \E r \in NewRows(t, Len(log) + 1, clock') :
       /\ log' = Append(log, [table |-> t, row |-> r])
       /\ edge' = [edge EXCEPT ![t] = Put(t, @, {r})]
       /\ late' = IF AtMost(Pos(r), top[t]) THEN late \cup {r.id} ELSE late
       /\ top' = [top EXCEPT ![t] = Later(@, Pos(r))]
  /\ UNCHANGED <<ended, replica, faults, replays>>

(* A new stream begins; the one before has an end unless the recorder was  *)
(* killed.                                                                 *)
EdgeStream ==
  /\ Len(ended) < MaxStream
  /\ \E e \in BOOLEAN : ended' = Append([ended EXCEPT ![Len(ended)] = e], FALSE)
  /\ UNCHANGED <<clock, edge, log, late, top, replica, bounds>>

Expired(t, r) == r.time + Retain[t] < clock

EdgeRetention ==
  /\ \E t \in Table : \E r \in edge[t] : Expired(t, r)
  /\ edge' = [t \in Table |-> {r \in edge[t] : ~Expired(t, r)}]
  /\ UNCHANGED <<clock, ended, log, late, top, replica, bounds>>

Edge == (\E t \in Table : EdgeWrite(t)) \/ EdgeStream \/ EdgeRetention

-----------------------------------------------------------------------------
(* Batches.                                                                *)

(* A bug for NothingSkipped to catch: the limit is applied in no order.    *)
IsBatchUnordered(rows, all) ==
  /\ rows \subseteq all
  /\ Cardinality(rows) <= BatchSize
  /\ rows # all => Cardinality(rows) = BatchSize

(* The first rows behind a cursor, as many as the limit allows.            *)
IsBatch(rows, all) ==
  /\ rows \subseteq all
  /\ \A r \in rows, q \in all \ rows : Before(r, q)
  /\ Cardinality(rows) <= BatchSize
  /\ rows # all => Cardinality(rows) = BatchSize

Behind(t, cursor) == {r \in edge[t] : Before(cursor, r)}

(* The cursor a batch gives: its last row, or the cursor of the request.   *)
IsCursor(cursor, rows, after) ==
  IF rows = {} THEN cursor = after
               ELSE \E r \in rows : /\ cursor = Pos(r)
                                    /\ \A q \in rows : AtMost(q, cursor)

StreamsOf(rows) ==
  {[id |-> s, ended |-> ended[s]] : s \in {r.stream : r \in rows} \cap DOMAIN ended}

(* What the edge answers: the rows behind the cursor and their streams.    *)
IsAnswer(b, t, after) ==
  /\ b.source = "edge" /\ b.table = t
  /\ IsBatch(b.rows, Behind(t, after))
  /\ b.streams = StreamsOf(b.rows)
  /\ IsCursor(b.cursor, b.rows, after)
  /\ b.more = (b.rows # Behind(t, after))

-----------------------------------------------------------------------------
(* The import of a batch: one transaction.                                 *)

Cursor(source, t) == store.cursor[source][t]

(* The streams of the batch get local numbers, or bring the known ones up  *)
(* to date.                                                                *)
UnknownStreams(b) ==
  {s \in b.streams : \A m \in store.streams : m.of # s.id}

(* A known stream ends when the batch says so, and may begin again.        *)
BroughtUpToDate(m, b) ==
  [m EXCEPT !.ended = IF \E s \in b.streams : s.id = m.of
                      THEN (CHOOSE s \in b.streams : s.id = m.of).ended ELSE @]

LocalNumber(s, b) ==
  Cardinality(store.streams) + Cardinality({q \in UnknownStreams(b) : q.id <= s.id})

ImportedStreams(b) ==
  {BroughtUpToDate(m, b) : m \in store.streams}
  \cup {[local |-> LocalNumber(s, b), of |-> s.id, ended |-> s.ended] :
         s \in UnknownStreams(b)}

(* A bug for StreamsAreKept to catch: the edge's number is stored.         *)
LocalizedNot(r, streams) == r

(* A row as the replica stores it, under its own number of the stream.     *)
Localized(r, streams) ==
  IF r.stream = 0 THEN r
  ELSE [r EXCEPT !.stream = (CHOOSE m \in streams : m.of = r.stream).local]

(* A bug for MirrorSpec to catch: only what the table has is skipped.      *)
FreshByKey(b) ==
  {r \in b.rows : \A q \in store.rows[b.table] : q.key # r.key \/ b.table = "event"}

(* Rows at or before the cursor are skipped, and rows the table has.       *)
Fresh(b) ==
  {r \in b.rows : /\ Before(Cursor(b.source, b.table), r)
                  /\ b.table \in {"fast_sample", "platform_sample"} =>
                       \A q \in store.rows[b.table] : q.key # r.key}

Importable(b) ==
  /\ pinned # NoSource => b.source = pinned
  /\ b.rows # {} => IsCursor(b.cursor, b.rows, Start)
  /\ b.table \in {"fast_sample", "platform_sample"} =>
       \A r \in b.rows : Before(Cursor(b.source, b.table), r) =>
         /\ r.id \notin Poison
         /\ r.stream # 0 => \E m \in ImportedStreams(b) : m.of = r.stream
         /\ \A q \in store.rows[b.table] : q.key = r.key => q.id = r.id

Imported(b) ==
  [rows    |-> [store.rows EXCEPT ![b.table] =
                  Put(b.table, @, {Localized(r, ImportedStreams(b)) : r \in Fresh(b)})],
   cursor  |-> [store.cursor EXCEPT ![b.source][b.table] = Later(@, b.cursor)],
   sources |-> store.sources \cup {b.source},
   streams |-> ImportedStreams(b)]

Import(b) ==
  /\ store' = Imported(b)
  /\ inserts' = [i \in Id |-> IF \E r \in Fresh(b) : r.id = i
                              THEN inserts[i] + 1 ELSE inserts[i]]

-----------------------------------------------------------------------------
(* The thread of ReplicaRecorder.                                          *)

At(place) == thread.at = place
Goto(place, n) == thread' = [at |-> place, table |-> n]

Fault == faults < MaxFault /\ faults' = faults + 1

(* Every error that _run catches: the rest of the tables waits as well.    *)
Fail ==
  /\ Goto("disk", 1)
  /\ batch' = NoBatch
  /\ connected' = "no"
  /\ UNCHANGED <<store, pinned, inserts>>

CheckDisk ==
  /\ At("disk")
  /\ \/ /\ Goto("fetch", 1)
        /\ UNCHANGED <<store, batch, pinned, connected, inserts, faults>>
     \/ Fail /\ Fault                     \* below the free-space boundary
  /\ UNCHANGED <<edgeVars, stepsBack, replays>>

(* A bug for RowsArrive to catch: each request starts from the beginning.  *)
RequestFromStart(t) == Start

(* The cursor of the pinned source; before any contact there is none.      *)
RequestCursor(t) == IF pinned = NoSource THEN Start ELSE Cursor(pinned, t)

Fetch ==
  /\ At("fetch")
  /\ LET t == Tables[thread.table] IN
       \E rows \in SUBSET Behind(t, RequestCursor(t)) :
         \E cursor \in {RequestCursor(t)} \cup {Pos(r) : r \in rows} :
           LET b == [source |-> "edge", table |-> t, rows |-> rows,
                     streams |-> StreamsOf(rows), cursor |-> cursor,
                     more |-> rows # Behind(t, RequestCursor(t))]
           IN  IsAnswer(b, t, RequestCursor(t)) /\ batch' = b
  /\ Goto("import", thread.table)
  /\ UNCHANGED <<edgeVars, store, pinned, connected, inserts, bounds>>

(* Another board answers at the configured address, with nothing yet to    *)
(* give.                                                                   *)
FetchFromOther ==
  /\ At("fetch")
  /\ Fault
  /\ LET t == Tables[thread.table] IN
       batch' = [NoBatch EXCEPT !.source = "other", !.table = t,
                                !.cursor = RequestCursor(t)]
  /\ Goto("import", thread.table)
  /\ UNCHANGED <<edgeVars, store, pinned, connected, inserts, stepsBack, replays>>

FetchFails ==
  /\ At("fetch")
  /\ Fault /\ Fail
  /\ UNCHANGED <<edgeVars, stepsBack, replays>>

(* An answer that raises what _run does not catch (http.client's own       *)
(* errors, zlib.error, KeyError) ends the thread, and only the thread.     *)
FetchGarbled ==
  /\ At("fetch")
  /\ Fault
  /\ Goto("dead", thread.table)
  /\ UNCHANGED <<edgeVars, store, batch, pinned, connected, inserts, stepsBack, replays>>

(* The same table while it has more, then the next one.                    *)
GoOn ==
  IF batch.more THEN Goto("fetch", thread.table)
  ELSE IF thread.table < Len(Tables) THEN Goto("fetch", thread.table + 1)
  ELSE Goto("upkeep", 1)

ImportBatch ==
  /\ At("import")
  /\ Importable(batch)
  /\ Import(batch)
  /\ pinned' = batch.source
  /\ connected' = "yes"
  /\ GoOn
  /\ batch' = NoBatch
  /\ UNCHANGED <<edgeVars, bounds>>

(* The batch is refused, or SQLite fails: the transaction is rolled back.  *)
ImportFails ==
  /\ At("import")
  /\ \/ ~Importable(batch) /\ UNCHANGED faults
     \/ Importable(batch) /\ Fault
  /\ Fail
  /\ UNCHANGED <<edgeVars, stepsBack, replays>>

(* A bug for KeepsWhatItTook to catch: the switch is not looked at.        *)
KeptAfterAge == [t \in Table |-> {r \in store.rows[t] : ~Expired(t, r)}]

Kept ==
  IF RetentionEnabled THEN [t \in Table |-> {r \in store.rows[t] : ~Expired(t, r)}]
                      ELSE store.rows

Upkeep ==
  /\ At("upkeep")
  /\ store' = [store EXCEPT !.rows = Kept]
  /\ Goto("disk", 1)
  /\ UNCHANGED <<edgeVars, batch, pinned, connected, inserts, bounds>>

Kill ==
  /\ ~At("down")
  /\ Fault
  /\ Goto("down", 1)
  /\ batch' = NoBatch
  /\ pinned' = NoSource
  /\ connected' = "unknown"
  /\ UNCHANGED <<edgeVars, store, inserts, stepsBack, replays>>

(* A bug for OneSource to catch: the database is not asked.                *)
PinnedByConfiguration == {ExpectedSource}

(* The source is the configured one, or the only one of the database.      *)
PinnedAtStart ==
  IF ExpectedSource # NoSource THEN {ExpectedSource}
  ELSE IF Cardinality(store.sources) = 1 THEN store.sources
  ELSE {NoSource}

Restart ==
  /\ At("down")
  /\ pinned' \in PinnedAtStart
  /\ Goto("disk", 1)
  /\ UNCHANGED <<edgeVars, store, batch, connected, inserts, bounds>>

(* A second process at the same database, which was given the same answer, *)
(* imports it first: the thread then imports what was acknowledged before. *)
(* Both know the source.                                                   *)
Replay ==
  /\ At("import")
  /\ pinned = batch.source
  /\ replays < MaxReplay
  /\ replays' = replays + 1
  /\ Importable(batch)
  /\ Import(batch)
  /\ UNCHANGED <<edgeVars, memory, stepsBack, faults>>

Replica ==
  \/ CheckDisk \/ Fetch \/ FetchFromOther \/ FetchFails \/ FetchGarbled
  \/ ImportBatch \/ ImportFails \/ Upkeep

-----------------------------------------------------------------------------

Init ==
  /\ clock = 1
  /\ edge = [t \in Table |-> {}]
  /\ ended = <<FALSE>>
  /\ log = <<>>
  /\ late = {}
  /\ top = [t \in Table |-> Start]
  /\ store = [rows    |-> [t \in Table |-> {}],
              cursor  |-> [s \in Sources |-> [t \in Table |-> Start]],
              sources |-> {},
              streams |-> {}]
  /\ thread = [at |-> "disk", table |-> 1]
  /\ batch = NoBatch
  /\ pinned = ExpectedSource
  /\ connected = "unknown"
  /\ inserts = [i \in Id |-> 0]
  /\ stepsBack = 0 /\ faults = 0 /\ replays = 0

Next == Edge \/ Replica \/ Kill \/ Restart \/ Replay

Spec == Init /\ [][Next]_vars

(* The thread runs, and systemd starts a process that was killed.          *)
FairSpec == Spec /\ WF_vars(Replica) /\ WF_vars(Restart)

-----------------------------------------------------------------------------

(* Every variable has its type: what the database holds are rows, cursors  *)
(* are positions, and the thread always has a table.                       *)
TypeOK ==
  /\ clock \in 1..MaxClock
  /\ edge \in [Table -> SUBSET Row]
  /\ ended \in Seq(BOOLEAN)
  /\ log \in Seq([table : Table, row : Row])
  /\ late \subseteq Id
  /\ top \in [Table -> Position]
  /\ store \in [rows : [Table -> SUBSET Row],
                cursor : [Sources -> [Table -> Position]],
                sources : SUBSET Sources, streams : SUBSET LocalStream]
  /\ thread \in [at : {"disk", "fetch", "import", "upkeep", "dead", "down"},
                 table : 1..4]
  /\ pinned \in Sources \cup {NoSource}
  /\ connected \in {"unknown", "yes", "no"}
  /\ inserts \in [Id -> Nat]
  /\ stepsBack \in 0..MaxStepBack /\ faults \in 0..MaxFault /\ replays \in 0..MaxReplay

(* What the edge still holds at or before the cursor, the replica has      *)
(* taken, unless the clock had been set back behind an earlier row: a      *)
(* cursor never passes over a row, whatever is lost, killed or pruned.     *)
NothingSkipped ==
  \A t \in Table : \A r \in edge[t] :
    r.id \notin late /\ AtMost(Pos(r), Cursor("edge", t)) => inserts[r.id] = 1

(* A sample of the replica belongs to its own number of the stream it was  *)
(* recorded in, also when streams reach the replica in gaps.               *)
StreamsAreKept ==
  \A q \in store.rows["fast_sample"] : \E m \in store.streams :
    /\ m.local = q.stream
    /\ m.of = log[q.id].row.stream
    /\ \A n \in store.streams : n.local = m.local => n = m

(* One database mirrors one board, also across kills before and after the  *)
(* first contact.                                                          *)
OneSource == Cardinality(store.sources) <= 1

(* The replication as its abstract specification sees it.                  *)
M == INSTANCE Mirror WITH Record <- Id, recorded <- 1..Len(log), copies <- inserts

(* Each write is taken at most once, and only what was written, whatever   *)
(* batch, answer or transaction is lost.                                   *)
MirrorSpec == M!Spec

(* A row of a permanent replica is never lost, and the copy of a rollup is *)
(* never replaced by an earlier state of it.                               *)
KeepsWhatItTook ==
  [][~RetentionEnabled =>
       \A t \in Table : \A q \in store.rows[t] :
         \E r \in store'.rows[t] : r = q \/ (t = "minute_rollup" /\ r.tie = q.tie
                                             /\ r.id > q.id)]_vars

(* What keeps rows out for good, or until the edge prunes the row: the     *)
(* thread ended, another board was met first, a payload of another catalog.*)
Blocked ==
  \/ At("dead")
  \/ "other" \in store.sources
  \/ \E t \in {"fast_sample", "platform_sample"} :
       \E r \in edge[t] : r.id \in Poison

(* Whatever requests were lost and however often the replica was killed, a *)
(* row that stays at the edge arrives.                                     *)
RowsArrive ==
  \A i \in Id :
    (\E t \in Table : \E r \in edge[t] : r.id = i /\ i \notin late)
      ~> (inserts[i] = 1 \/ (\A t \in Table : \A r \in edge[t] : r.id # i) \/ Blocked)
=============================================================================
