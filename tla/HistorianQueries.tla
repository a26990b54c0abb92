-------------------------- MODULE HistorianQueries --------------------------
(***************************************************************************)
(* What the historian answers (gizmo_historian.py): the minute rollups     *)
(* that MinuteAccumulator builds sample by sample, the ages after which    *)
(* rows are removed, and HistorianStore.query, which chooses between raw   *)
(* rows and rollups and merges rollups until they fit.                     *)
(*                                                                         *)
(* A tick of the recorder is several transactions, between which a query   *)
(* reads, the process dies, or a write fails.  A query is two transactions *)
(* itself, and the recorder may write between them: the rows are counted   *)
(* in one and read in the other.  One series stands for all; its value is  *)
(* a small number, or none.  A table is a set of rows, whose order is that *)
(* of their times, and so are the points of an answer.                     *)
(***************************************************************************)
EXTENDS Integers, FiniteSets, Sequences, FiniteSetsExt

CONSTANTS
  Kinds,      \* what a sample may be: [value, status, range]
  MaxSample,  \* bound on the samples
  MaxClock,   \* bound on the clock
  MaxFault,   \* bound on failed writes and reads and on killed processes
  Minute,     \* ticks of the clock in a bucket
  Age,        \* the *_retention_days of the tables, in ticks
  Asked       \* what may be queried: [from, to, limit, tables]

NoValue == 0
Rank == [Good |-> 0, Uncertain |-> 2, Bad |-> 3]
Status == DOMAIN Rank
Kind == [value : Nat, status : Status, range : {"InRange", "OutOfRange"}]

Tables == {"fast", "platform"}

ASSUME Bounds ==
  /\ Kinds \subseteq Kind
  /\ MaxSample \in Nat /\ MaxClock \in Nat /\ MaxFault \in Nat /\ Minute \in Nat \ {0}
  /\ Age \in [Tables \cup {"rollups"} -> Nat] /\ Age.rollups >= Minute
  /\ Asked \subseteq [from : Nat, to : Nat, limit : Nat \ {0}, tables : SUBSET Tables]

VARIABLES
  clock,   \* now_us(), which does not step back here
  log,     \* every sample that was taken, and what tells them apart is the time
  pc,      \* what the recorder has done of its tick
  memory,  \* _rollup of the recorder: a set of none or one
  work,    \* the tables as the writer's connection sees them
  db,      \* the tables as they are committed, which is what a reader sees
  missed,  \* the samples that a failure kept out of the raw rows or a rollup
  faults,
  query,   \* the query at work: its arguments and what it has counted
  answer   \* its answer, or what it was refused with

vars == <<clock, log, pc, memory, work, db, missed, faults, query, answer>>

Bucket(t) == t \div Minute

-----------------------------------------------------------------------------
(* MinuteAccumulator.                                                      *)

Lesser(a, b)  == IF a < b THEN a ELSE b
Greater(a, b) == IF a > b THEN a ELSE b

Worse(old, new) == IF Rank[new] >= Rank[old] THEN new ELSE old

(* In of are the numbers of the samples that it has counted; nothing that  *)
(* the code does depends on it.                                            *)
Empty(b) == [bucket |-> b, of |-> {}, samples |-> 0, high |-> 0, highStatus |-> "Good",
             first |-> NoValue, last |-> NoValue, minimum |-> NoValue,
             maximum |-> NoValue, total |-> 0, count |-> 0, status |-> "Good"]

WithValue(a, v) ==
  IF v = NoValue THEN a
  ELSE [a EXCEPT !.first   = IF a.count = 0 THEN v ELSE @,
                 !.last    = v,
                 !.minimum = IF a.count = 0 THEN v ELSE Lesser(@, v),
                 !.maximum = IF a.count = 0 THEN v ELSE Greater(@, v),
                 !.total   = @ + v,
                 !.count   = @ + 1]

(* The sample s, which is the n-th.                                        *)
Updated(a, s, n) ==
  [WithValue(a, s.value) EXCEPT
     !.of         = @ \cup {n},
     !.samples    = @ + 1,
     !.high       = IF s.range = "OutOfRange" THEN @ + 1 ELSE @,
     !.highStatus = IF s.range = "OutOfRange" THEN Worse(@, s.status) ELSE @,
     !.status     = IF a.samples = 0 THEN s.status ELSE Worse(@, s.status)]

-----------------------------------------------------------------------------
(* The recorder.                                                           *)

OfMinute(rows, b) == {r \in rows : r.bucket = b}

(* A bug for TypeOK to catch: a minute that is flushed again is a new row. *)
PutRollupTwice(rows, new) == rows \cup new

(* write_rollup of those in new, of which there are none or one.           *)
PutRollup(rows, new) == {r \in rows : OfMinute(new, r.bucket) = {}} \cup new

WithRollup(store) == [store EXCEPT !.rollups = PutRollup(@, memory)]

(* A bug for RollupsAreExact to catch: a restart counts anew.              *)
CurrentAnew(b) ==
  CHOOSE r \in IF OfMinute(memory, b) # {} THEN OfMinute(memory, b) ELSE {Empty(b)} : TRUE

(* The accumulator of a minute: in memory, stored before, or new.          *)
Current(b) ==
  CHOOSE r \in IF OfMinute(memory, b) # {}          THEN OfMinute(memory, b)
               ELSE IF OfMinute(db.rollups, b) # {} THEN OfMinute(db.rollups, b)
               ELSE {Empty(b)} : TRUE

(* The sample of the tick, and its minute.                                 *)
Newest == log[Len(log)]
ThisMinute == Bucket(Newest.time)

(* It is recorded and not yet counted.                                     *)
Underway == IF pc \in {"sampled", "closed"} THEN {Len(log)} ELSE {}

Fault == faults < MaxFault /\ faults' = faults + 1

(* A write and its commit, the recorder then being at next.  A failure     *)
(* ends the tick, and nothing is rolled back: what was written and not     *)
(* committed is committed with the next write.                             *)
Save(new, next) ==
  \/ work' = new /\ db' = new /\ pc' = next /\ faults' = faults
  \/ Fault /\ work' \in {work, new} /\ db' = db /\ pc' = "idle"

(* The sample is counted in no rollup once its tick has ended in a failure.*)
NotCounted ==
  missed' = IF pc' = "idle" THEN [missed EXCEPT !.rollups = @ \cup {Len(log)}] ELSE missed

(* A tick without a sample, too: while the client is apart or writing is   *)
(* limited, no minute is written that is over.                             *)
TimePasses ==
  /\ clock' \in {clock + 1, (Bucket(clock) + 1) * Minute} /\ clock' <= MaxClock
  /\ UNCHANGED <<log, pc, memory, work, db, missed, faults, query, answer>>

(* record_fast.  The tick before has ended, with or without what is not    *)
(* due every time.                                                         *)
RecordSample ==
  /\ Underway = {} /\ Len(log) < MaxSample
  /\ log # <<>> => Newest.time < clock
  /\ \E kind \in Kinds :
       LET s == [time |-> clock, value |-> kind.value, status |-> kind.status,
                 range |-> kind.range]
       IN  log' = Append(log, s) /\ Save([work EXCEPT !.fast = @ \cup {s}], "sampled")
  /\ missed' = IF pc' = "idle" THEN [t \in DOMAIN missed |-> missed[t] \cup {Len(log')}]
               ELSE missed
  /\ UNCHANGED <<clock, memory, query, answer>>

(* _update_rollup: the rollup of another minute is written.                *)
CloseMinute ==
  /\ pc = "sampled" /\ \E m \in memory : m.bucket # ThisMinute
  /\ Save(WithRollup(work), "closed")
  /\ NotCounted
  /\ UNCHANGED <<clock, log, memory, query, answer>>

(* The rollup of the minute is loaded, if it is not in memory, which may   *)
(* fail, and the sample is counted.                                        *)
Count ==
  /\ \/ pc = "closed"
     \/ pc = "sampled" /\ \A m \in memory : m.bucket = ThisMinute
  /\ \/ /\ memory' = {Updated(Current(ThisMinute), Newest, Len(log))}
        /\ pc' = "counted" /\ faults' = faults
     \/ /\ OfMinute(memory, ThisMinute) = {} /\ Fault
        /\ memory' = memory /\ pc' = "idle"
  /\ NotCounted
  /\ UNCHANGED <<clock, log, work, db, query, answer>>

(* The rest of the tick, each part if it is time: the rollup is written,   *)
(* record_platform, and apply_retention.  To write it twice is to write it *)
(* once.                                                                   *)
Flush ==
  /\ pc = "counted"
  /\ Save(WithRollup(work), "counted")
  /\ UNCHANGED <<clock, log, memory, missed, query, answer>>

RecordPlatform ==
  /\ pc = "counted"
  /\ Save([work EXCEPT !.platform = @ \cup {Newest}], "recorded")
  /\ UNCHANGED <<clock, log, memory, missed, query, answer>>

BeginOf(table, r) == IF table = "rollups" THEN r.bucket * Minute ELSE r.time

Retention ==
  /\ pc \in {"counted", "recorded"}
  /\ Save([t \in DOMAIN work |-> {r \in work[t] : BeginOf(t, r) + Age[t] >= clock}], "idle")
  /\ UNCHANGED <<clock, log, memory, missed, query, answer>>

(* stop(), between two ticks: the rollup in memory is written, and the     *)
(* next process starts.  When this fails the process ends as by Kill.      *)
Stop ==
  /\ Underway = {} /\ memory # {}
  /\ work' = WithRollup(work) /\ db' = WithRollup(work)
  /\ memory' = {} /\ pc' = "idle"
  /\ UNCHANGED <<clock, log, missed, faults, query, answer>>

(* The samples that rows have counted.                                     *)
CountedBy(rows) == UNION {r.of : r \in rows}

(* The process dies at any point, and the next one starts.                 *)
Kill ==
  /\ Fault
  /\ missed' = [missed EXCEPT !.rollups =
                  @ \cup ((CountedBy(memory) \cup Underway) \ CountedBy(db.rollups))]
  /\ work' = db /\ memory' = {} /\ pc' = "idle"
  /\ UNCHANGED <<clock, log, db, query, answer>>

-----------------------------------------------------------------------------
(* HistorianStore.query.                                                   *)

(* A bug for NothingHidden to catch: an interval without its end.          *)
InTimeOpen(rows, from, to) == {r \in rows : from <= r.time /\ r.time < to}

InTime(rows, from, to) == {r \in rows : from <= r.time /\ r.time <= to}

RollupsIn(from, to) == {r \in db.rollups : Bucket(from) <= r.bucket /\ r.bucket <= Bucket(to)}

(* _raw_points: the rows of both tables.                                   *)
RawPoints(tables, from, to) == UNION {{t} \X InTime(db[t], from, to) : t \in tables}

NoQuery  == [at |-> "none"]
NoAnswer == [kind |-> "none"]

UsesRollup(rawCount, rollupCount, limit) ==
  rawCount > limit \/ (rawCount = 0 /\ rollupCount > 0)

(* The first transaction.                                                  *)
CountRows ==
  /\ query = NoQuery
  /\ \E q \in Asked :
       LET points == RawPoints(q.tables, q.from, q.to) IN
       /\ q.from < q.to /\ q.tables # {}
       /\ query' = [at |-> "counted", from |-> q.from, to |-> q.to, limit |-> q.limit,
                    tables |-> q.tables, rows |-> Cardinality(points),
                    useRollup |-> UsesRollup(Cardinality(points),
                                             Cardinality(RollupsIn(q.from, q.to)), q.limit)]
  /\ UNCHANGED <<clock, log, pc, memory, work, db, missed, faults, answer>>

(* A rollup as a point of the answer.                                      *)
RollupPoint(r) ==
  [from |-> r.bucket, to |-> r.bucket, total |-> r.total, count |-> r.count,
   first |-> r.first, last |-> r.last, minimum |-> r.minimum, maximum |-> r.maximum,
   status |-> r.status, high |-> r.high > 0, highStatus |-> r.highStatus]

Ceiling(n, m) == (n + m - 1) \div m

(* A bug for AnswerFits to catch: the width of a group is rounded down.    *)
WidthDown(n, limit) == Greater(1, n \div limit)

Width(n, limit) == Greater(1, Ceiling(n, limit))

(* The points in their order, a width of them at a time.                   *)
Turn(points, width, p) == Cardinality({q \in points : q.from < p.from}) \div width
Groups(points, width) ==
  {{q \in points : Turn(points, width, q) = Turn(points, width, p)} : p \in points}

WorstOf(statuses) == CHOOSE s \in statuses : \A q \in statuses : Rank[q] <= Rank[s]

(* A bug for PointsAreExact to catch: the statuses of usable points count. *)
GroupPointUsable(group) ==
  LET usable == {p \in group : p.count > 0} IN
  [from |-> Min({p.from : p \in group}), to |-> Max({p.to : p \in group}),
   total |-> 0, count |-> 0, first |-> NoValue, last |-> NoValue,
   minimum |-> NoValue, maximum |-> NoValue,
   status |-> IF usable = {} THEN "Bad" ELSE WorstOf({p.status : p \in usable}),
   high |-> FALSE, highStatus |-> "Good"]

(* _coarsen_rollup_points: one group of points as one point.               *)
GroupPoint(group) ==
  LET usable == {p \in group : p.count > 0}
      Earliest == CHOOSE p \in usable : \A q \in usable : p.from <= q.from
      Latest   == CHOOSE p \in usable : \A q \in usable : q.from <= p.from
  IN
  [from       |-> Min({p.from : p \in group}),
   to         |-> Max({p.to : p \in group}),
   total      |-> SumFunction([p \in usable |-> p.total]),
   count      |-> SumFunction([p \in usable |-> p.count]),
   first      |-> IF usable = {} THEN NoValue ELSE Earliest.first,
   last       |-> IF usable = {} THEN NoValue ELSE Latest.last,
   minimum    |-> IF usable = {} THEN NoValue ELSE Min({p.minimum : p \in usable}),
   maximum    |-> IF usable = {} THEN NoValue ELSE Max({p.maximum : p \in usable}),
   status     |-> WorstOf({p.status : p \in group}),
   high       |-> \E p \in group : p.high,
   highStatus |-> WorstOf({p.highStatus : p \in group})]

Coarsened(points, limit) ==
  IF Cardinality(points) <= limit THEN points
  ELSE {GroupPoint(g) : g \in Groups(points, Width(Cardinality(points), limit))}

(* The second transaction.                                                 *)
ReadRollups ==
  /\ query.at = "counted" /\ query.useRollup
  /\ answer' = [kind |-> "rollup", asked |-> query,
                points |-> Coarsened({RollupPoint(r) : r \in RollupsIn(query.from, query.to)},
                                     query.limit)]
  /\ query' = NoQuery
  /\ UNCHANGED <<clock, log, pc, memory, work, db, missed, faults>>

ReadRaw ==
  /\ query.at = "counted" /\ ~query.useRollup
  /\ LET points == RawPoints(query.tables, query.from, query.to) IN
       answer' = [kind |-> IF Cardinality(points) > query.limit THEN "refused" ELSE "raw",
                  asked |-> query, points |-> points]
  /\ query' = NoQuery
  /\ UNCHANGED <<clock, log, pc, memory, work, db, missed, faults>>

(* A query changes nothing, so that one of them ends a behaviour.          *)
Next ==
  /\ answer = NoAnswer
  /\ \/ TimePasses \/ RecordSample \/ CloseMinute \/ Count \/ Flush
     \/ RecordPlatform \/ Retention \/ Stop \/ Kill
     \/ CountRows \/ ReadRollups \/ ReadRaw

NoRows == [t \in Tables \cup {"rollups"} |-> {}]

Init ==
  /\ clock = 0 /\ log = <<>> /\ pc = "idle" /\ memory = {} /\ work = NoRows /\ db = NoRows
  /\ missed = [raw |-> {}, rollups |-> {}] /\ faults = 0
  /\ query = NoQuery /\ answer = NoAnswer

Spec == Init /\ [][Next]_vars

-----------------------------------------------------------------------------
(* What is right, in terms of the samples themselves.                      *)

(* The samples of some minutes, by their numbers.                          *)
Recorded(from, to) ==
  {i \in 1..Len(log) : from <= Bucket(log[i].time) /\ Bucket(log[i].time) <= to}

(* The point that the samples with these numbers make.                     *)
Reference(from, to, samples) ==
  LET values == {i \in samples : log[i].value # NoValue}
      high   == {i \in samples : log[i].range = "OutOfRange"}
  IN
  [from       |-> from,
   to         |-> to,
   total      |-> SumFunction([i \in values |-> log[i].value]),
   count      |-> Cardinality(values),
   first      |-> IF values = {} THEN NoValue ELSE log[Min(values)].value,
   last       |-> IF values = {} THEN NoValue ELSE log[Max(values)].value,
   minimum    |-> IF values = {} THEN NoValue ELSE Min({log[i].value : i \in values}),
   maximum    |-> IF values = {} THEN NoValue ELSE Max({log[i].value : i \in values}),
   status     |-> WorstOf({log[i].status : i \in samples}),
   high       |-> high # {},
   highStatus |-> WorstOf({"Good"} \cup {log[i].status : i \in high})]

(* Types; a minute has one rollup, and a row is a sample of the log.       *)
TypeOK ==
  /\ clock \in 0..MaxClock /\ Len(log) <= MaxSample /\ faults \in 0..MaxFault
  /\ pc \in {"idle", "sampled", "closed", "counted", "recorded"}
  /\ \A p, q \in memory : p = q
  /\ \A store \in {work, db} :
       /\ \A p, q \in store.rollups : p.bucket = q.bucket => p = q
       /\ \A t \in Tables : \A r \in store[t] : \E i \in 1..Len(log) : r = log[i]
  /\ answer.kind \in {"none", "raw", "rollup", "refused"}

(* A rollup says of the samples it has counted what they are: each of them *)
(* is one of its minute and counts once, over every restart.  None that    *)
(* came before one that is counted is left out, unless a failure or the    *)
(* death of the process kept it out, and none is both kept out and in.     *)
RollupsAreExact ==
  \A r \in db.rollups \cup memory :
    /\ r.of # {} /\ r.of \subseteq Recorded(r.bucket, r.bucket) \ missed.rollups
    /\ RollupPoint(r) = Reference(r.bucket, r.bucket, r.of)
    /\ r.samples = Cardinality(r.of)
    /\ \A i \in Recorded(r.bucket, r.bucket) \ (r.of \cup missed.rollups) :
         \A j \in r.of : j < i

(* A point of a rollup answer, merged or not, says what the samples are    *)
(* that the stored rollups of its minutes have counted: no extreme and no  *)
(* bad status is smoothed away, no sample counts twice, and no minute is   *)
(* in two points.                                                          *)
PointsAreExact ==
  answer.kind = "rollup" =>
    /\ \A p \in answer.points :
         LET counted == CountedBy({r \in db.rollups : p.from <= r.bucket /\ r.bucket <= p.to})
         IN  counted # {} /\ p = Reference(p.from, p.to, counted)
    /\ \A p, q \in answer.points : p # q => p.to < q.from \/ q.to < p.from

(* An answer has at most as many points as were asked for, and what keeps  *)
(* an interval from being answered is rows that came after it was counted. *)
AnswerFits ==
  LET asked == answer.asked IN
  /\ answer.kind \in {"raw", "rollup"} => Cardinality(answer.points) <= asked.limit
  /\ answer.kind = "refused" => Cardinality(answer.points) > asked.rows

(* What the interval holds is in the answer.  Of a raw one, each sample    *)
(* whose row was committed and is young enough.  Of one of rollups, each   *)
(* sample whose minute is young enough, but those that a failure kept out, *)
(* those the recorder still holds in memory, and the one it is at.         *)
NothingHidden ==
  LET asked     == answer.asked
      uncounted == missed.rollups \cup CountedBy(memory) \cup Underway
  IN
  answer.kind \in {"raw", "rollup"} =>
    \A i \in 1..Len(log) :
      asked.from <= log[i].time /\ log[i].time <= asked.to =>
        /\ answer.kind = "raw" /\ "fast" \in asked.tables /\ i \notin missed.raw =>
             log[i].time + Age.fast < clock \/ <<"fast", log[i]>> \in answer.points
        /\ answer.kind = "rollup" /\ i \notin uncounted =>
             \/ Bucket(log[i].time) * Minute + Age.rollups < clock
             \/ /\ i \in CountedBy(db.rollups)
                /\ \E p \in answer.points :
                     p.from <= Bucket(log[i].time) /\ Bucket(log[i].time) <= p.to
=============================================================================
