------------------------- MODULE HistorianRecorder -------------------------
(***************************************************************************)
(* The recorder of the edge historian (HistorianRecorder and the writing   *)
(* half of HistorianStore in gizmo_historian.py).  Once a second its       *)
(* thread takes a snapshot of the board and commits, one after the other,  *)
(* what follows from it: events, a stream, the sample, a minute rollup,    *)
(* and a platform row.                                                     *)
(*                                                                         *)
(* Each of these writes may fail, and the process may be killed between    *)
(* any two.  No write is rolled back by the code: what a failed one left   *)
(* in SQLite's open transaction goes with the next commit (work).          *)
(*                                                                         *)
(* A sample is numbered by its tick.  Of the paths whose changes make       *)
(* events, one stands for all: the quality of the measurement, which is    *)
(* bad until the first.  A rollup is the set of samples it counts.         *)
(***************************************************************************)
EXTENDS Naturals, FiniteSets, Sequences, SequencesExt, FiniteSetsExt

CONSTANTS
  MaxTick,       \* bound on the turns of the thread
  MaxClock,      \* bound on the clock
  MaxStepBack,   \* bound on how often it is set back
  MaxBoot,       \* bound on the boots of the board
  MaxSequence,   \* bound on the sequence of the measurement
  MaxUnknown,    \* bound on snapshots that carry no sequence
  MaxFault,      \* bound on failing writes and reads
  MaxEnd,        \* bound on processes that are killed or stopped
  PlatformEvery, \* platform_interval, in ticks
  Minute         \* ticks of the clock in a bucket

ASSUME Bounds ==
  /\ MaxTick \in Nat /\ MaxClock \in Nat /\ MaxStepBack \in Nat
  /\ MaxBoot \in Nat \ {0} /\ MaxSequence \in Nat /\ MaxUnknown \in Nat
  /\ MaxFault \in Nat /\ MaxEnd \in Nat /\ PlatformEvery \in Nat
  /\ Minute \in Nat \ {0}

VARIABLES
  clock,      \* now_us()
  board,      \* boot and sequence as the OPC UA server publishes them
  db,         \* what is committed
  work,       \* what the writing connection sees: db and an open transaction
  me,         \* attributes of the recorder
  tick,       \* where the thread is, and its snapshot
  dropped,    \* _dropped_samples
  missed,     \* samples that no rollup counts, because a write failed after
              \* the sample was stored or the process was killed
  lost,       \* <<process, key>>: an event of key failed in that process
  ended,      \* processes that have ended
  unknowns,   \* ticks whose snapshot carried no sequence
  ticks, stepsBack, faults

history == <<missed, lost, ended>>
vars == <<clock, board, db, work, me, tick, dropped, history,
          ticks, stepsBack, unknowns, faults>>

Value      == {"bad", "good"}
NoSequence == MaxSequence + 1
Sequence   == 0..NoSequence

Snapshot == [boot : 1..MaxBoot, sequence : Sequence, value : Value, time : Nat]
Sample   == [id : 1..MaxTick, time : Nat, stream : Nat, boot : 1..MaxBoot,
             sequence : Sequence]
Stream   == [boot : 1..MaxBoot, ended : BOOLEAN, process : Nat]

(* What events say that something was and is.                              *)
Word     == Value \cup {"unseen", "unknown", "yes", "no", "free", "limited", "none", "begun"}
Event    == [key : {"connection", "disk", "stream", "value"}, process : Nat,
             old : Word, new : Word]

Bucket(t) == t \div Minute
NoRollup  == [bucket |-> 0, counts |-> {}, loaded |-> FALSE]

(* Attributes of a recorder that was just made.                            *)
Fresh == [stream |-> 0, boot |-> 0, last |-> NoSequence, limited |-> FALSE,
          rollup |-> NoRollup, value |-> "unseen", platform |-> 0,
          connection |-> "unknown"]

Process == ended + 1

-----------------------------------------------------------------------------
(* The store: one function from database to database per method.           *)

WithEvent(d, key, old, new) ==
  [d EXCEPT !.events = Append(@, [key |-> key, process |-> Process,
                                  old |-> old, new |-> new])]

WithStream(d, boot) ==
  [d EXCEPT !.streams = Append(@, [boot |-> boot, ended |-> FALSE,
                                   process |-> Process])]

WithEnd(d, s) == [d EXCEPT !.streams[s].ended = TRUE]

WithSample(d, sample) == [d EXCEPT !.raw = @ \cup {sample}]

WithRollup(d, rollup) ==
  [d EXCEPT !.rollups = {r \in @ : r.bucket # rollup.bucket} \cup
                        {[bucket |-> rollup.bucket, counts |-> rollup.counts]}]

WithPlatform(d, id) == [d EXCEPT !.platform = @ \cup {id}]

(* A bug for TypeOK to catch: a time that is taken is taken again.         *)
TimeOfSnapshot(t) == t

(* The first free microsecond at or after the time of the snapshot.        *)
FreeTime(t) ==
  CHOOSE k \in t..(t + MaxTick) :
    /\ \A r \in work.raw : r.time # k
    /\ \A j \in t..(k - 1) : \E r \in work.raw : r.time = j

(* A write of the store: executed and committed.                           *)
Write(new) == work' = new /\ db' = new /\ UNCHANGED faults

(* It fails: before it changed anything, between execution and commit, or  *)
(* such that SQLite gave up the transaction with all that was left in it.  *)
WriteFails(new) ==
  /\ faults < MaxFault /\ faults' = faults + 1
  /\ work' \in {work, new, db}
  /\ UNCHANGED db

Kept      == UNCHANGED <<db, work, faults>>

-----------------------------------------------------------------------------
(* The thread.                                                             *)

At(place) == tick.at = place
Goto(place) == tick' = [tick EXCEPT !.at = place]
Wait == tick' = [at |-> "wait"]

(* The except clause of _run, and the limited ticks.                       *)
Drop == Wait /\ dropped' = dropped + 1

Quiet == UNCHANGED <<clock, board, ticks, stepsBack, unknowns, ended>>

(* Since the tick before, the board has measured, booted, or had its OPC   *)
(* UA server restarted, which counts from the beginning.                   *)
BoardMoves ==
  board' \in [boot : board.boot..MaxBoot, sequence : 0..MaxSequence]

(* The clock stands, is in the next minute, or was set back by one.        *)
ClockMoves ==
  \/ clock' \in {clock, clock + Minute} \cap 0..MaxClock /\ UNCHANGED stepsBack
  \/ /\ stepsBack < MaxStepBack /\ stepsBack' = stepsBack + 1
     /\ clock >= Minute /\ clock' = clock - Minute

(* A connected snapshot; some notifications carry no value.                *)
Snapshots ==
  {s \in [boot : {board'.boot}, sequence : {board'.sequence, NoSequence},
          value : {IF board'.sequence = 0 THEN "bad" ELSE "good"}, time : {clock'}] :
     s.sequence = NoSequence => Cardinality(unknowns) < MaxUnknown}

(* _event_for_connection; the state is changed before the event is made.   *)
TickConnected ==
  /\ At("wait")
  /\ ticks < MaxTick /\ ticks' = ticks + 1
  /\ BoardMoves /\ ClockMoves
  /\ \E s \in Snapshots :
       LET new == WithEvent(work, "connection", me.connection, "yes") IN
       /\ unknowns' = IF s.sequence = NoSequence THEN unknowns \cup {ticks'} ELSE unknowns
       /\ me' = [me EXCEPT !.connection = "yes"]
       /\ \/ /\ IF me.connection = "yes" THEN Kept ELSE Write(new)
             /\ tick' = [at |-> "disk", snap |-> s]
             /\ UNCHANGED <<dropped, lost>>
          \/ /\ me.connection # "yes"
             /\ WriteFails(new)
             /\ lost' = lost \cup {<<Process, "connection">>}
             /\ Drop
  /\ UNCHANGED <<missed, ended>>

TickDisconnected ==
  /\ At("wait")
  /\ me.connection # "no"
  /\ ticks < MaxTick /\ ticks' = ticks + 1
  /\ BoardMoves /\ ClockMoves
  /\ LET new == WithEvent(work, "connection", me.connection, "no") IN
       \/ Write(new) /\ Wait /\ UNCHANGED <<dropped, lost>>
       \/ /\ WriteFails(new)
          /\ lost' = lost \cup {<<Process, "connection">>}
          /\ Drop
  /\ me' = [me EXCEPT !.connection = "no"]
  /\ UNCHANGED <<unknowns, missed, ended>>

(* The guard looks at the disk once a minute and keeps its verdict.        *)
Limit(b) == IF b THEN "limited" ELSE "free"

DiskAsBefore ==
  /\ At("disk")
  /\ \/ ~me.limited /\ Goto("stream") /\ UNCHANGED dropped
     \/ me.limited /\ Drop
  /\ UNCHANGED me /\ Kept
  /\ Quiet /\ UNCHANGED <<missed, lost>>

DiskChanges ==
  /\ At("disk")
  /\ me' = [me EXCEPT !.limited = ~@]
  /\ LET new == WithEvent(work, "disk", Limit(me.limited), Limit(~me.limited)) IN
       \/ /\ Write(new)
          /\ IF me.limited THEN Goto("stream") /\ UNCHANGED dropped ELSE Drop
          /\ UNCHANGED lost
       \/ /\ WriteFails(new)
          /\ lost' = lost \cup {<<Process, "disk">>}
          /\ Drop
  /\ Quiet /\ UNCHANGED missed

-----------------------------------------------------------------------------
(* _ensure_stream.                                                         *)

NewEpoch ==
  \/ me.stream = 0
  \/ tick.snap.boot # me.boot
  \/ /\ tick.snap.sequence # NoSequence /\ me.last # NoSequence
     /\ tick.snap.sequence < me.last

(* A bug for StreamGoesForward to catch: the sequence of the stream's      *)
(* beginning is kept.                                                      *)
RememberBootOnly == me' = [me EXCEPT !.boot = tick.snap.boot,
                                     !.last = IF NewEpoch THEN tick.snap.sequence ELSE @]

Remember == me' = [me EXCEPT !.boot = tick.snap.boot, !.last = tick.snap.sequence]

SameStream ==
  /\ At("stream") /\ ~NewEpoch
  /\ Remember
  /\ Goto("sample")
  /\ Quiet /\ Kept /\ UNCHANGED <<dropped, missed, lost>>

EndStream ==
  /\ At("stream") /\ NewEpoch
  /\ \/ me.stream = 0 /\ Goto("begin") /\ Kept /\ UNCHANGED dropped
     \/ me.stream # 0 /\ Write(WithEnd(work, me.stream)) /\ Goto("begin") /\ UNCHANGED dropped
     \/ me.stream # 0 /\ WriteFails(WithEnd(work, me.stream)) /\ Drop
  /\ UNCHANGED me
  /\ Quiet /\ UNCHANGED <<missed, lost>>

(* A bug for SampleInItsBoot to catch: the boot is remembered first.       *)
BeginStreamEarly ==
  /\ At("begin")
  /\ LET new == WithStream(work, tick.snap.boot) IN
       \/ /\ Write(new)
          /\ me' = [me EXCEPT !.stream = Len(new.streams), !.boot = tick.snap.boot]
          /\ Goto("announce") /\ UNCHANGED dropped
       \/ WriteFails(new) /\ Drop /\ me' = [me EXCEPT !.boot = tick.snap.boot]
  /\ Quiet /\ UNCHANGED <<missed, lost>>

BeginStream ==
  /\ At("begin")
  /\ LET new == WithStream(work, tick.snap.boot) IN
       \/ /\ Write(new)
          /\ me' = [me EXCEPT !.stream = Len(new.streams)]
          /\ Goto("announce") /\ UNCHANGED dropped
       \/ WriteFails(new) /\ Drop /\ UNCHANGED me
  /\ Quiet /\ UNCHANGED <<missed, lost>>

AnnounceStream ==
  /\ At("announce")
  /\ LET new == WithEvent(work, "stream", "none", "begun") IN
       \/ Write(new) /\ Remember /\ Goto("sample") /\ UNCHANGED <<dropped, lost>>
       \/ /\ WriteFails(new) /\ Drop /\ UNCHANGED me
          /\ lost' = lost \cup {<<Process, "stream">>}
  /\ Quiet /\ UNCHANGED missed

-----------------------------------------------------------------------------
(* record_fast, _update_rollup.                                            *)

NewSample == [id |-> ticks, time |-> FreeTime(tick.snap.time), stream |-> me.stream,
              boot |-> tick.snap.boot, sequence |-> tick.snap.sequence]

RecordSample ==
  /\ At("sample")
  /\ LET new == WithSample(work, NewSample) IN
       \/ /\ Write(new)
          /\ tick' = [at |-> "turn", snap |-> tick.snap, time |-> NewSample.time]
          /\ UNCHANGED <<dropped, missed>>
       \/ WriteFails(new) /\ Drop /\ missed' = missed \cup {ticks}
  /\ UNCHANGED me
  /\ Quiet /\ UNCHANGED lost

OtherMinute == ~me.rollup.loaded \/ me.rollup.bucket # Bucket(tick.time)

(* A bug for RollupsCount to catch: the rollup before is let go.           *)
CloseMinuteUnwritten ==
  /\ At("turn") /\ Goto("count") /\ Kept
  /\ UNCHANGED <<dropped, me>>
  /\ Quiet /\ UNCHANGED <<missed, lost>>

(* The rollup of the minute before is written, at the first sample of the  *)
(* next.                                                                   *)
CloseMinute ==
  /\ At("turn")
  /\ IF OtherMinute /\ me.rollup.loaded
     THEN \/ Write(WithRollup(work, me.rollup)) /\ Goto("count") /\ UNCHANGED <<dropped, missed>>
          \/ WriteFails(WithRollup(work, me.rollup)) /\ Drop /\ missed' = missed \cup {ticks}
     ELSE Kept /\ Goto("count") /\ UNCHANGED <<dropped, missed>>
  /\ UNCHANGED me
  /\ Quiet /\ UNCHANGED lost

(* load_rollup reads what is committed, with a connection of its own.      *)
StoredCounts(bucket) == UNION {r.counts : r \in {q \in db.rollups : q.bucket = bucket}}

(* A bug for HistoryGrows to catch: each rollup begins empty.              *)
CountedAnew ==
  [loaded |-> TRUE, bucket |-> Bucket(tick.time),
   counts |-> {ticks} \cup (IF OtherMinute THEN {} ELSE me.rollup.counts)]

Counted ==
  [loaded |-> TRUE, bucket |-> Bucket(tick.time),
   counts |-> {ticks} \cup (IF OtherMinute THEN StoredCounts(Bucket(tick.time))
                                           ELSE me.rollup.counts)]

(* Every ten seconds the rollup is written as well.                        *)
CountSample ==
  /\ At("count")
  /\ me' = [me EXCEPT !.rollup = Counted]
  /\ \/ Kept /\ Goto("transition") /\ UNCHANGED dropped
     \/ Write(WithRollup(work, Counted)) /\ Goto("transition") /\ UNCHANGED dropped
     \/ WriteFails(WithRollup(work, Counted)) /\ Drop
  /\ Quiet /\ UNCHANGED <<missed, lost>>

LoadFails ==
  /\ At("count")
  /\ OtherMinute
  /\ faults < MaxFault /\ faults' = faults + 1
  /\ Drop
  /\ missed' = missed \cup {ticks}
  /\ UNCHANGED <<db, work, me>>
  /\ Quiet /\ UNCHANGED lost

-----------------------------------------------------------------------------
(* _record_transitions, record_platform.                                   *)

(* A bug for EventsConnect to catch: only what made an event is kept.      *)
SeeFirst == IF me.value = "unseen" THEN me' = [me EXCEPT !.value = tick.snap.value]
                                   ELSE UNCHANGED me

See == me' = [me EXCEPT !.value = tick.snap.value]

RecordTransition ==
  /\ At("transition")
  /\ See
  /\ LET new == WithEvent(work, "value", me.value, tick.snap.value) IN
       IF me.value \in {"unseen", tick.snap.value}
       THEN Kept /\ Goto("platform") /\ UNCHANGED <<dropped, lost>>
       ELSE \/ Write(new) /\ Goto("platform") /\ UNCHANGED <<dropped, lost>>
            \/ /\ WriteFails(new) /\ Drop
               /\ lost' = lost \cup {<<Process, "value">>}
  /\ Quiet /\ UNCHANGED missed

RecordPlatform ==
  /\ At("platform")
  /\ IF me.platform # 0 /\ ticks - me.platform < PlatformEvery
     THEN Kept /\ Wait /\ UNCHANGED <<dropped, me>>
     ELSE \/ /\ Write(WithPlatform(work, ticks))
             /\ me' = [me EXCEPT !.platform = ticks]
             /\ Wait /\ UNCHANGED dropped
          \/ WriteFails(WithPlatform(work, ticks)) /\ Drop /\ UNCHANGED me
  /\ Quiet /\ UNCHANGED <<missed, lost>>

Tick ==
  \/ TickConnected \/ TickDisconnected \/ DiskAsBefore \/ DiskChanges
  \/ SameStream \/ EndStream \/ BeginStream \/ AnnounceStream
  \/ RecordSample \/ CloseMinute \/ CountSample \/ LoadFails
  \/ RecordTransition \/ RecordPlatform

-----------------------------------------------------------------------------
(* The end of a process: a kill, or stop() after the thread has ended.     *)

(* What only the memory of the process has counted.                        *)
Uncounted(d) ==
  IF me.rollup.loaded
  THEN me.rollup.counts \ UNION {r.counts : r \in {q \in d.rollups : q.bucket = me.rollup.bucket}}
  ELSE {}

InTick == IF At("turn") \/ At("count") THEN {ticks} ELSE {}

Over ==
  /\ tick' = [at |-> "down"]
  /\ me' = Fresh
  /\ ended' = ended + 1
  /\ dropped' = 0

Kill ==
  /\ ~At("down") /\ ended < MaxEnd
  /\ Over
  /\ missed' = missed \cup Uncounted(db) \cup InTick
  /\ work' = db
  /\ UNCHANGED <<clock, board, db, lost, ticks, stepsBack, unknowns, faults>>

StopRollup ==
  /\ At("wait") /\ ended < MaxEnd
  /\ IF ~me.rollup.loaded THEN Kept ELSE Write(WithRollup(work, me.rollup))
  /\ Goto("stopping")
  /\ UNCHANGED <<me, dropped, missed, lost>> /\ Quiet

StopStream ==
  /\ At("stopping")
  /\ LET left == IF me.stream = 0 THEN work ELSE WithEnd(work, me.stream) IN
       db' = left /\ work' = left
  /\ Over
  /\ UNCHANGED <<clock, board, missed, lost, ticks, stepsBack, unknowns, faults>>

Restart ==
  /\ At("down")
  /\ Wait
  /\ Kept /\ Quiet /\ UNCHANGED <<me, dropped, missed, lost>>

Init ==
  /\ clock = 0 /\ board = [boot |-> 1, sequence |-> 0]
  /\ db = [streams |-> <<>>, raw |-> {}, rollups |-> {}, events |-> <<>>, platform |-> {}]
  /\ work = db
  /\ me = Fresh /\ tick = [at |-> "wait"] /\ dropped = 0
  /\ missed = {} /\ lost = {} /\ ended = 0
  /\ ticks = 0 /\ stepsBack = 0 /\ unknowns = {} /\ faults = 0

Next == Tick \/ Kill \/ StopRollup \/ StopStream \/ Restart

Spec == Init /\ [][Next]_vars

-----------------------------------------------------------------------------

(* Types; and times are unique within the stored samples.                  *)
TypeOK ==
  /\ \A d \in {db, work} :
       /\ d.streams \in Seq(Stream) /\ d.raw \subseteq Sample
       /\ \A q, r \in d.raw : q.time = r.time => q = r
       /\ d.events \in Seq(Event) /\ d.platform \subseteq 1..MaxTick
       /\ \A r \in d.rollups : r.bucket \in Nat /\ r.counts \subseteq 1..MaxTick
  /\ me.stream <= Len(db.streams) /\ me.boot \in 0..MaxBoot /\ me.last \in Sequence
  /\ dropped <= ticks

(* A sample belongs to a stream of the boot it was taken in, whatever      *)
(* failed while the stream was changed.                                    *)
SampleInItsBoot ==
  \A r \in db.raw : r.stream \in DOMAIN db.streams /\ db.streams[r.stream].boot = r.boot

(* In the order they were taken, the samples of a stream never fall behind *)
(* in their sequence, unless a snapshot between them carried none.         *)
StreamGoesForward ==
  \A q, r \in db.raw :
    q.stream = r.stream /\ q.id < r.id /\ NoSequence \notin {q.sequence, r.sequence}
      => q.sequence <= r.sequence \/ \E u \in unknowns : q.id < u /\ u < r.id

(* Only the current stream is open, of those of this process that hold     *)
(* samples.                                                                *)
OneOpenStream ==
  \A r \in work.raw :
    LET s == work.streams[r.stream] IN
      s.process = Process => s.ended \/ r.stream = me.stream

(* Each sample is in the rollup of its minute, stored or in memory, unless *)
(* a write failed after it was stored or the process was killed; and a     *)
(* rollup counts nothing else.                                             *)
InRollup(r) ==
  \/ \E q \in db.rollups : q.bucket = Bucket(r.time) /\ r.id \in q.counts
  \/ me.rollup.loaded /\ me.rollup.bucket = Bucket(r.time) /\ r.id \in me.rollup.counts

RollupsCount ==
  /\ \A r \in db.raw : r.id \in missed \/ InRollup(r) \/ (r.id = ticks /\ ~At("wait"))
  /\ \A q \in db.rollups : \A i \in q.counts :
       \E r \in db.raw : r.id = i /\ Bucket(r.time) = q.bucket

(* What is committed stays: no sample, event, or platform row is changed   *)
(* or overwritten, an end of a stream is not taken back, and no rollup     *)
(* forgets a sample, also when the clock is set back.                      *)
HistoryGrows ==
  [][/\ db.raw \subseteq db'.raw /\ db.platform \subseteq db'.platform
     /\ IsPrefix(db.events, db'.events)
     /\ Len(db.streams) <= Len(db'.streams)
     /\ \A s \in DOMAIN db.streams :
          /\ db'.streams[s].boot = db.streams[s].boot
          /\ db.streams[s].ended => db'.streams[s].ended
     /\ \A q \in db.rollups : \E r \in db'.rollups :
          r.bucket = q.bucket /\ q.counts \subseteq r.counts]_vars

(* Of one process, each event of a key begins where the one before ended,  *)
(* unless one of them failed.                                              *)
EventsConnect ==
  \A i, j \in DOMAIN db.events :
    LET e == db.events[i]
        f == db.events[j]
    IN  /\ i < j /\ e.process = f.process /\ e.key = f.key /\ e.key # "stream"
        /\ \A k \in (i + 1)..(j - 1) : <<db.events[k].key, db.events[k].process>> # <<e.key, e.process>>
        => f.old = e.new \/ <<e.process, e.key>> \in lost
=============================================================================
