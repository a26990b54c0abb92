----------------------- MODULE HistorianRecorderProofs -----------------------
(* What HistorianRecorder promises for any number of ticks, boots, faults  *)
(* and processes, and any lengths of the intervals: first of streams and   *)
(* samples, then of what is kept and counted, of events, and of the types. *)
EXTENDS HistorianRecorder, FiniteSetTheorems, SequenceTheorems, TLAPS

-----------------------------------------------------------------------------
(* The invariant.  The streams and the samples of a database, committed or *)
(* in the open transaction, agree with the attributes m of the recorder,   *)
(* the tick k, the number n of the tick, the ticks u without a sequence,   *)
(* the number p of the process, and the boot b of the board.               *)

InSnapshot == {"disk", "stream", "begin", "announce", "sample"}
AfterSample == {"turn", "count", "transition", "platform"}
Outside == {"wait", "stopping", "down"}

Snap == [boot : Nat, sequence : Sequence, value : Value, time : Nat]
Shaped(d) ==
  /\ d = [streams |-> d.streams, raw |-> d.raw, rollups |-> d.rollups,
          events |-> d.events, platform |-> d.platform]
  /\ d.streams \in Seq(Stream)
  /\ \A r \in d.raw : r.id \in Nat /\ r.sequence \in Sequence /\ r.stream \in Nat

TickShape(k) ==
  \/ k.at \in Outside /\ k = [at |-> k.at]
  \/ k.at \in InSnapshot /\ k = [at |-> k.at, snap |-> k.snap] /\ k.snap \in Snap
  \/ k.at \in AfterSample /\ k = [at |-> k.at, snap |-> k.snap, time |-> k.time] /\ k.snap \in Snap

(* The record of a recorder.                                               *)
RecorderShape(m) ==
  /\ m = [stream |-> m.stream, boot |-> m.boot, last |-> m.last, limited |-> m.limited,
          rollup |-> m.rollup, value |-> m.value, platform |-> m.platform,
          connection |-> m.connection]
  /\ m.stream \in Nat /\ m.boot \in Nat /\ m.last \in Sequence

ContextInv ==
  /\ board \in [boot : 1..MaxBoot, sequence : 0..MaxSequence]
  /\ clock \in Nat /\ ticks \in Nat /\ ended \in Nat
  /\ unknowns \subseteq 1..ticks
  /\ RecorderShape(me) /\ me.boot <= board.boot
  /\ TickShape(tick)
  /\ tick.at \notin Outside =>
       /\ tick.snap.boot = board.boot
       /\ ticks \in unknowns <=> tick.snap.sequence = NoSequence
  /\ At("sample") => me.last = tick.snap.sequence /\ me.boot = tick.snap.boot

(* A sample lies in a stream of its boot; what the recorder remembers of   *)
(* the boot is that of its stream, or out of date.                         *)
Boots(S, R, m, k, b) ==
  /\ \A r \in R : r.stream \in 1..Len(S) /\ S[r.stream].boot = r.boot
  /\ m.stream # 0 => m.stream \in 1..Len(S) /\ (S[m.stream].boot = m.boot \/ m.boot < b)
  /\ k.at \in {"announce", "sample"} => m.stream # 0 /\ S[m.stream].boot = k.snap.boot

(* Of this process, a stream with samples has an end or is the current one.*)
Open(S, R, m, k, p) ==
  /\ \A i \in 1..Len(S) : S[i].process <= p
  /\ \A r \in R : S[r.stream].process = p => S[r.stream].ended = TRUE \/ r.stream = m.stream
  /\ k.at = "begin" /\ m.stream # 0 => S[m.stream].ended = TRUE

(* The samples of the current stream are not ahead of the sequence that    *)
(* the recorder remembers, unless it has met a snapshot without one since. *)
Forward(R, m, k, n, u) ==
  /\ \A r \in R : r.id <= n /\ (k.at \in InSnapshot => r.id < n)
  /\ \A q \in R : q.stream = m.stream /\ q.sequence # NoSequence =>
       (m.last # NoSequence /\ q.sequence <= m.last) \/ \E v \in u : q.id < v
  /\ \A q, r \in R :
       q.stream = r.stream /\ q.id < r.id /\ NoSequence \notin {q.sequence, r.sequence}
         => q.sequence <= r.sequence \/ \E v \in u : q.id < v /\ v < r.id
  /\ k.at = "announce" => \A q \in R : q.stream # m.stream

Agrees(S, R, m, k, n, u, p, b) ==
  Boots(S, R, m, k, b) /\ Open(S, R, m, k, p) /\ Forward(R, m, k, n, u)

Fits(d) ==
  Shaped(d) /\ Agrees(d.streams, d.raw, me, tick, ticks, unknowns, ended + 1, board.boot)

RecorderInv == ContextInv /\ Fits(db) /\ Fits(work)

LEMMA InvInit == Init => RecorderInv
<1> SUFFICES ASSUME Init PROVE RecorderInv
  OBVIOUS
<1>1. RecorderShape(me) /\ me.stream = 0 /\ me.boot = 0
  BY Bounds DEF Init, RecorderShape, Fresh, Sequence, NoSequence
<1>2. Shaped(db) /\ db.streams = <<>> /\ db.raw = {} /\ work = db
  BY DEF Init, Shaped
<1>3. TickShape(tick) /\ tick.at = "wait"
  BY DEF Init, TickShape, Outside
<1>4. ContextInv
  BY <1>1, <1>2, <1>3, Bounds DEF Init, ContextInv, At, Outside
<1>5. Agrees(db.streams, db.raw, me, tick, ticks, unknowns, ended + 1, board.boot)
  BY <1>1, <1>2, <1>3 DEF Agrees, Boots, Open, Forward, InSnapshot
<1>6. QED
  BY <1>2, <1>4, <1>5 DEF RecorderInv, Fits

-----------------------------------------------------------------------------
(* The store.                                                              *)

(* Events, platform rows and rollups leave the streams and the samples.    *)
LEMMA OtherWrites ==
  ASSUME NEW d, Shaped(d), NEW key, NEW old, NEW new, NEW rollup, NEW id
  PROVE  /\ Shaped(WithEvent(d, key, old, new)) /\ Shaped(WithRollup(d, rollup))
         /\ Shaped(WithPlatform(d, id))
         /\ WithEvent(d, key, old, new).streams = d.streams
         /\ WithEvent(d, key, old, new).raw = d.raw
         /\ WithRollup(d, rollup).streams = d.streams /\ WithRollup(d, rollup).raw = d.raw
         /\ WithPlatform(d, id).streams = d.streams /\ WithPlatform(d, id).raw = d.raw
<1>1. \A e : Shaped([d EXCEPT !.events = e]) /\ [d EXCEPT !.events = e].streams = d.streams
             /\ [d EXCEPT !.events = e].raw = d.raw
  BY DEF Shaped
<1>2. \A e : Shaped([d EXCEPT !.rollups = e]) /\ [d EXCEPT !.rollups = e].streams = d.streams
             /\ [d EXCEPT !.rollups = e].raw = d.raw
  BY DEF Shaped
<1>3. \A e : Shaped([d EXCEPT !.platform = e]) /\ [d EXCEPT !.platform = e].streams = d.streams
             /\ [d EXCEPT !.platform = e].raw = d.raw
  BY DEF Shaped
<1>4. QED
  BY <1>1, <1>2, <1>3 DEF WithEvent, WithRollup, WithPlatform

LEMMA StreamBegins ==
  ASSUME NEW d, Shaped(d), NEW boot \in 1..MaxBoot, ended \in Nat
  PROVE  LET e == WithStream(d, boot) IN
         /\ Shaped(e) /\ e.raw = d.raw /\ Len(e.streams) = Len(d.streams) + 1
         /\ \A i \in 1..Len(d.streams) : e.streams[i] = d.streams[i]
         /\ e.streams[Len(d.streams) + 1] = [boot |-> boot, ended |-> FALSE, process |-> Process]
<1> DEFINE s == [boot |-> boot, ended |-> FALSE, process |-> Process]
<1>1. s \in Stream
  BY DEF Stream, Process
<1> HIDE DEF s
<1>2. /\ Append(d.streams, s) \in Seq(Stream) /\ Len(Append(d.streams, s)) = Len(d.streams) + 1
      /\ \A i \in 1..Len(d.streams) : Append(d.streams, s)[i] = d.streams[i]
      /\ Append(d.streams, s)[Len(d.streams) + 1] = s
  BY <1>1 DEF Shaped
<1>3. WithStream(d, boot) = [d EXCEPT !.streams = Append(d.streams, s)]
  BY DEF WithStream, s, Shaped
<1> DEFINE S == Append(d.streams, s)
<1>4. S \in Seq(Stream)
  BY <1>2
<1> HIDE DEF S
<1>5. /\ [d EXCEPT !.streams = S].streams = S
      /\ [d EXCEPT !.streams = S].raw = d.raw
      /\ Shaped([d EXCEPT !.streams = S])
  BY <1>4 DEF Shaped
<1>6. QED
  BY <1>2, <1>3, <1>5 DEF s, S

LEMMA StreamEnds ==
  ASSUME NEW d, Shaped(d), NEW s \in 1..Len(d.streams)
  PROVE  LET e == WithEnd(d, s) IN
         /\ Shaped(e) /\ e.raw = d.raw /\ Len(e.streams) = Len(d.streams)
         /\ \A i \in 1..Len(d.streams) :
              /\ e.streams[i].boot = d.streams[i].boot
              /\ e.streams[i].process = d.streams[i].process
              /\ i # s => e.streams[i] = d.streams[i]
         /\ e.streams[s].ended = TRUE
<1> DEFINE x == [d.streams[s] EXCEPT !.ended = TRUE]
           S == [d.streams EXCEPT ![s] = x]
<1>1. d.streams[s] \in Stream
  BY DEF Shaped
<1>2. x \in Stream /\ x.boot = d.streams[s].boot /\ x.process = d.streams[s].process
      /\ x.ended = TRUE
  BY <1>1 DEF Stream
<1> HIDE DEF x
<1>3. /\ S \in Seq(Stream) /\ Len(S) = Len(d.streams) /\ S[s] = x
      /\ \A i \in 1..Len(d.streams) : i # s => S[i] = d.streams[i]
  BY <1>2 DEF Shaped
<1> HIDE DEF S
<1>4. WithEnd(d, s) = [d EXCEPT !.streams = S]
  BY DEF WithEnd, S, x, Shaped
<1>5. /\ [d EXCEPT !.streams = S].streams = S /\ [d EXCEPT !.streams = S].raw = d.raw
      /\ Shaped([d EXCEPT !.streams = S])
  BY <1>3 DEF Shaped
<1>6. QED
  BY <1>2, <1>3, <1>4, <1>5

LEMMA SampleStored ==
  ASSUME NEW d, Shaped(d), NEW x, x.id \in Nat, x.sequence \in Sequence, x.stream \in Nat
  PROVE  LET e == WithSample(d, x) IN
         Shaped(e) /\ e.raw = d.raw \cup {x} /\ e.streams = d.streams
<1>1. WithSample(d, x) = [d EXCEPT !.raw = d.raw \cup {x}]
  BY DEF WithSample, Shaped
<1>2. \A r \in d.raw \cup {x} : r.id \in Nat /\ r.sequence \in Sequence /\ r.stream \in Nat
  BY DEF Shaped
<1> DEFINE R == d.raw \cup {x}
<1> HIDE DEF R
<1>3. \A r \in R : r.id \in Nat /\ r.sequence \in Sequence /\ r.stream \in Nat
  BY <1>2 DEF R
<1>4. /\ Shaped([d EXCEPT !.raw = R]) /\ [d EXCEPT !.raw = R].raw = R
      /\ [d EXCEPT !.raw = R].streams = d.streams
  BY <1>3 DEF Shaped
<1>5. QED
  BY <1>1, <1>4 DEF R

-----------------------------------------------------------------------------
(* What each kind of step does to the agreement.                           *)

LEMMA AgreesStays ==
  ASSUME NEW S, NEW R, NEW m, NEW k, NEW n, NEW u, NEW p, NEW b, NEW m2, NEW k2,
         Agrees(S, R, m, k, n, u, p, b),
         m2.stream = m.stream, m2.boot = m.boot, m2.last = m.last,
         \/ k2.at \in Outside \cup AfterSample
         \/ k.at \in InSnapshot /\ k2.at \in {"disk", "stream"}
         \/ k.at \in InSnapshot /\ k2.at = "begin" /\ (m.stream # 0 => S[m.stream].ended = TRUE)
  PROVE  Agrees(S, R, m2, k2, n, u, p, b)
<1>1. k2.at \in InSnapshot => k.at \in InSnapshot
  BY DEF InSnapshot, Outside, AfterSample
<1>2. k2.at \notin {"announce", "sample"}
  BY DEF InSnapshot, Outside, AfterSample
<1>3. k2.at = "begin" => (m.stream # 0 => S[m.stream].ended = TRUE)
  BY DEF Outside, AfterSample
<1>4. Boots(S, R, m2, k2, b)
  BY <1>2 DEF Agrees, Boots
<1>5. Open(S, R, m2, k2, p)
  BY <1>3 DEF Agrees, Open
<1>6. Forward(R, m2, k2, n, u)
  BY <1>1, <1>2 DEF Agrees, Forward
<1>7. QED
  BY <1>4, <1>5, <1>6 DEF Agrees

LEMMA AgreesNextTick ==
  ASSUME NEW S, NEW R, NEW m, NEW k, NEW n \in Nat, NEW u, NEW p, NEW b \in Nat,
         NEW m2, NEW k2, NEW u2, NEW b2 \in Nat,
         Agrees(S, R, m, k, n, u, p, b), m.boot \in Nat,
         \A r \in R : r.id \in Nat,
         m2.stream = m.stream, m2.boot = m.boot, m2.last = m.last,
         u \subseteq u2, b <= b2, k2.at \in {"disk", "wait"}
  PROVE  Agrees(S, R, m2, k2, n + 1, u2, p, b2)
<1>1. Boots(S, R, m2, k2, b2)
  BY DEF Agrees, Boots
<1>2. Open(S, R, m2, k2, p)
  BY DEF Agrees, Open
<1>3. Forward(R, m2, k2, n + 1, u2)
  <2>1. \A r \in R : r.id <= n + 1 /\ r.id < n + 1
    BY DEF Agrees, Forward
  <2>2. \A q \in R : q.stream = m2.stream /\ q.sequence # NoSequence =>
          (m2.last # NoSequence /\ q.sequence <= m2.last) \/ \E v \in u2 : q.id < v
    BY DEF Agrees, Forward
  <2>3. \A q, r \in R :
          q.stream = r.stream /\ q.id < r.id /\ NoSequence \notin {q.sequence, r.sequence}
            => q.sequence <= r.sequence \/ \E v \in u2 : q.id < v /\ v < r.id
    BY DEF Agrees, Forward
  <2>4. QED
    BY <2>1, <2>2, <2>3 DEF Forward
<1>4. QED
  BY <1>1, <1>2, <1>3 DEF Agrees

LEMMA AgreesNextProcess ==
  ASSUME NEW S, NEW R, NEW m, NEW k, NEW n, NEW u, NEW p \in Nat, NEW b, NEW m2, NEW k2,
         Agrees(S, R, m, k, n, u, p, b), S \in Seq(Stream),
         \A r \in R : r.stream \in Nat,
         m2.stream = 0, k2.at = "down"
  PROVE  Agrees(S, R, m2, k2, n, u, p + 1, b)
<1>1. \A r \in R : r.stream \in 1..Len(S)
  BY DEF Agrees, Boots
<1>2. \A i \in 1..Len(S) : S[i].process <= p /\ S[i].process \in Nat
  <2>1. \A i \in 1..Len(S) : S[i] \in Stream
    OBVIOUS
  <2>2. \A i \in 1..Len(S) : S[i].process <= p
    BY DEF Agrees, Open
  <2>3. QED
    BY <2>1, <2>2 DEF Stream
<1>3. Boots(S, R, m2, k2, b)
  BY DEF Agrees, Boots
<1>4. Open(S, R, m2, k2, p + 1)
  BY <1>1, <1>2 DEF Agrees, Open
<1>5. Forward(R, m2, k2, n, u)
  BY <1>1 DEF Agrees, Forward, InSnapshot
<1>6. QED
  BY <1>3, <1>4, <1>5 DEF Agrees

LEMMA AgreesEnds ==
  ASSUME NEW S, NEW R, NEW m, NEW k, NEW n, NEW u, NEW p, NEW b, NEW k2, NEW S2,
         Agrees(S, R, m, k, n, u, p, b), Len(S2) = Len(S), m.stream \in 1..Len(S),
         \A i \in 1..Len(S) : /\ S2[i].boot = S[i].boot /\ S2[i].process = S[i].process
                              /\ i # m.stream => S2[i] = S[i],
         S2[m.stream].ended = TRUE,
         k2.at \in Outside \/ (k2.at = "begin" /\ k.at \in InSnapshot)
  PROVE  Agrees(S2, R, m, k2, n, u, p, b)
<1>1. k2.at \notin {"announce", "sample"} /\ (k2.at \in InSnapshot => k.at \in InSnapshot)
  BY DEF InSnapshot, Outside
<1>2. Boots(S2, R, m, k2, b)
  BY <1>1 DEF Agrees, Boots
<1>3. Open(S2, R, m, k2, p)
  <2>1. \A r \in R : r.stream \in 1..Len(S)
    BY DEF Agrees, Boots
  <2>2. QED
    BY <2>1 DEF Agrees, Open
<1>4. Forward(R, m, k2, n, u)
  BY <1>1 DEF Agrees, Forward
<1>5. QED
  BY <1>2, <1>3, <1>4 DEF Agrees

(* A stream is appended; the recorder takes it, or the write failed.       *)
LEMMA AgreesBegins ==
  ASSUME NEW S, NEW R, NEW m, NEW k, NEW n, NEW u, NEW p, NEW b \in Nat, NEW m2, NEW k2, NEW S2,
         Agrees(S, R, m, k, n, u, p, b), k.at = "begin", k.snap.boot = b,
         Len(S) \in Nat, Len(S2) = Len(S) + 1, p \in Nat,
         m.boot \in Nat, m.boot <= b,
         \A i \in 1..Len(S) : S2[i] = S[i],
         S2[Len(S) + 1] = [boot |-> b, ended |-> FALSE, process |-> p],
         m2.boot = m.boot, m2.last = m.last,
         \/ m2.stream = Len(S) + 1 /\ k2.at = "announce" /\ k2.snap = k.snap
         \/ m2.stream = m.stream /\ k2.at = "wait"
  PROVE  Agrees(S2, R, m2, k2, n, u, p, b)
<1>1. \A r \in R : r.stream \in 1..Len(S) /\ r.stream # Len(S) + 1
  BY DEF Agrees, Boots
<1>2. m.stream # 0 => m.stream \in 1..Len(S)
  BY DEF Agrees, Boots
<1>3. 1..Len(S) \subseteq 1..Len(S2) /\ 1..Len(S2) = 1..Len(S) \cup {Len(S) + 1}
      /\ Len(S) + 1 # 0
  OBVIOUS
<1>4. Boots(S2, R, m2, k2, b)
  <2>1. \A r \in R : r.stream \in 1..Len(S2) /\ S2[r.stream].boot = r.boot
    BY <1>1, <1>3 DEF Agrees, Boots
  <2>2. CASE m2.stream = m.stream /\ k2.at = "wait"
    BY <1>2, <1>3, <2>1, <2>2 DEF Agrees, Boots
  <2>3. CASE m2.stream = Len(S) + 1 /\ k2.at = "announce" /\ k2.snap = k.snap
    <3>1. S2[m2.stream].boot = b /\ m2.stream \in 1..Len(S2) /\ m2.stream # 0
      BY <1>3, <2>3
    <3>2. b = m2.boot \/ m2.boot < b
      OBVIOUS
    <3>3. QED
      BY <2>1, <2>3, <3>1, <3>2 DEF Boots
  <2>4. QED
    BY <2>2, <2>3
<1>5. Open(S2, R, m2, k2, p)
  <2>1. \A i \in 1..Len(S2) : S2[i].process <= p
    BY <1>3 DEF Agrees, Open
  <2>2. \A r \in R : S2[r.stream] = S[r.stream]
    BY <1>1
  <2>3. \A r \in R : S2[r.stream].process = p => S2[r.stream].ended = TRUE \/ r.stream = m2.stream
    <3>1. CASE m2.stream = m.stream
      BY <2>2, <3>1 DEF Agrees, Open
    <3>2. CASE m2.stream # m.stream
      <4>1. \A r \in R : r.stream = m.stream => S[r.stream].ended = TRUE
        <5>1. m.stream # 0 => S[m.stream].ended = TRUE
          BY DEF Agrees, Open
        <5>2. QED
          BY <1>1, <5>1
      <4>2. QED
        BY <2>2, <4>1 DEF Agrees, Open
    <3>3. QED
      BY <3>1, <3>2
  <2>4. k2.at # "begin"
    OBVIOUS
  <2>5. QED
    BY <2>1, <2>3, <2>4 DEF Open
<1>6. Forward(R, m2, k2, n, u)
  <2>1. k2.at \in InSnapshot => k.at \in InSnapshot
    BY DEF InSnapshot
  <2>2. CASE m2.stream = m.stream /\ k2.at = "wait"
    BY <2>1, <2>2 DEF Agrees, Forward
  <2>3. CASE m2.stream = Len(S) + 1 /\ k2.at = "announce"
    BY <1>1, <2>1, <2>3 DEF Agrees, Forward
  <2>4. QED
    BY <2>2, <2>3
<1>7. QED
  BY <1>4, <1>5, <1>6 DEF Agrees

(* The boot and the sequence of the snapshot are remembered: of a stream   *)
(* that goes on, or of one that was just announced.                        *)
LEMMA AgreesRemembers ==
  ASSUME NEW S, NEW R, NEW m, NEW k, NEW n, NEW u, NEW p, NEW b, NEW m2, NEW k2,
         Agrees(S, R, m, k, n, u, p, b), k.snap.boot = b, m.boot \in Nat, b \in Nat,
         m.last \in Sequence, k.snap.sequence \in Sequence,
         \A r \in R : r.sequence \in Sequence,
         k.snap.sequence = NoSequence => n \in u,
         \/ /\ k.at = "stream" /\ m.stream # 0 /\ k.snap.boot = m.boot
            /\ ~(k.snap.sequence # NoSequence /\ m.last # NoSequence /\ k.snap.sequence < m.last)
         \/ k.at = "announce",
         m2.stream = m.stream, m2.boot = b, m2.last = k.snap.sequence,
         k2.at = "sample", k2.snap = k.snap
  PROVE  Agrees(S, R, m2, k2, n, u, p, b)
<1>1. k.at \in InSnapshot /\ k2.at \in InSnapshot
  BY DEF InSnapshot
<1>2. m.stream # 0 /\ m.stream \in 1..Len(S) /\ S[m.stream].boot = b
  BY DEF Agrees, Boots
<1>3. Boots(S, R, m2, k2, b)
  BY <1>2 DEF Agrees, Boots
<1>4. Open(S, R, m2, k2, p)
  BY DEF Agrees, Open
<1>5. Forward(R, m2, k2, n, u)
  <2>1. \A r \in R : r.id <= n /\ (k2.at \in InSnapshot => r.id < n)
    BY <1>1 DEF Agrees, Forward
  <2>2. ASSUME NEW q \in R, q.stream = m2.stream, q.sequence # NoSequence
        PROVE  (m2.last # NoSequence /\ q.sequence <= m2.last) \/ \E v \in u : q.id < v
    <3>1. CASE k.at = "announce"
      BY <2>2, <3>1 DEF Agrees, Forward
    <3>2. CASE k.snap.sequence = NoSequence
      BY <1>1, <3>2 DEF Agrees, Forward
    <3>3. CASE k.at # "announce" /\ k.snap.sequence # NoSequence
      <4>1. (m.last # NoSequence /\ q.sequence <= m.last) \/ \E v \in u : q.id < v
        BY <2>2 DEF Agrees, Forward
      <4>2. CASE m.last # NoSequence /\ q.sequence <= m.last
        <5>1. ~(k.snap.sequence < m.last)
          BY <3>3, <4>2
        <5>2. q.sequence \in Nat /\ m.last \in Nat /\ k.snap.sequence \in Nat
          BY Bounds DEF Sequence, NoSequence
        <5>3. q.sequence <= k.snap.sequence
          BY <4>2, <5>1, <5>2
        <5>4. QED
          BY <3>3, <5>3
      <4>3. QED
        BY <4>1, <4>2
    <3>4. QED
      BY <3>1, <3>2, <3>3
  <2>3. \A q, r \in R :
          q.stream = r.stream /\ q.id < r.id /\ NoSequence \notin {q.sequence, r.sequence}
            => q.sequence <= r.sequence \/ \E v \in u : q.id < v /\ v < r.id
    BY DEF Agrees, Forward
  <2>4. QED
    BY <2>1, <2>2, <2>3 DEF Forward
<1>6. QED
  BY <1>3, <1>4, <1>5 DEF Agrees

LEMMA AgreesStored ==
  ASSUME NEW S, NEW R, NEW m, NEW k, NEW n \in Nat, NEW u, NEW p, NEW b, NEW k2, NEW x,
         Agrees(S, R, m, k, n, u, p, b), k.at = "sample",
         \A r \in R : r.id \in Nat /\ r.sequence \in Sequence,
         x.id = n, x.stream = m.stream, x.boot = k.snap.boot, x.sequence = m.last,
         m.last \in Sequence, u \subseteq 1..n, m.last # NoSequence => n \notin u,
         k2.at \in {"turn", "wait"}
  PROVE  Agrees(S, R \cup {x}, m, k2, n, u, p, b)
<1> DEFINE Q == R \cup {x}
<1>1. \A r \in R : r.id < n
  BY DEF Agrees, Forward, InSnapshot
<1>2. x.stream \in 1..Len(S) /\ S[x.stream].boot = x.boot
  BY DEF Agrees, Boots
<1>3. Boots(S, Q, m, k2, b)
  <2>1. \A r \in Q : r.stream \in 1..Len(S) /\ S[r.stream].boot = r.boot
    BY <1>2 DEF Agrees, Boots
  <2>2. QED
    BY <2>1 DEF Agrees, Boots
<1>4. Open(S, Q, m, k2, p)
  <2>1. \A r \in Q : S[r.stream].process = p => S[r.stream].ended = TRUE \/ r.stream = m.stream
    BY DEF Agrees, Open
  <2>2. QED
    BY <2>1 DEF Agrees, Open
<1>5. Forward(Q, m, k2, n, u)
  <2>1. \A r \in Q : r.id <= n /\ (k2.at \in InSnapshot => r.id < n)
    BY <1>1 DEF InSnapshot
  <2>2. \A q \in R : q.stream = m.stream /\ q.sequence # NoSequence =>
          (m.last # NoSequence /\ q.sequence <= m.last) \/ \E v \in u : q.id < v
    BY DEF Agrees, Forward
  <2>3. x.sequence # NoSequence => m.last # NoSequence /\ x.sequence <= m.last
    BY Bounds DEF Sequence, NoSequence
  <2>4. \A q \in Q : q.stream = m.stream /\ q.sequence # NoSequence =>
          (m.last # NoSequence /\ q.sequence <= m.last) \/ \E v \in u : q.id < v
    BY <2>2, <2>3
  <2>5. ASSUME NEW q \in Q, NEW r \in Q, q.stream = r.stream, q.id < r.id,
               NoSequence \notin {q.sequence, r.sequence}
        PROVE  q.sequence <= r.sequence \/ \E v \in u : q.id < v /\ v < r.id
    <3>1. q \in R
      BY <1>1, <2>5
    <3>2. CASE r \in R
      BY <2>5, <3>1, <3>2 DEF Agrees, Forward
    <3>3. CASE r = x
      <4>1. \/ q.sequence <= m.last
            \/ \E v \in u : q.id < v
        BY <2>2, <2>5, <3>1, <3>3
      <4>2. \A v \in u : v < n
        BY <2>5, <3>3
      <4>3. QED
        BY <3>3, <4>1, <4>2
    <3>4. QED
      BY <3>2, <3>3
  <2>6. k2.at # "announce"
    OBVIOUS
  <2> HIDE DEF Q
  <2>7. QED
    BY <2>1, <2>4, <2>5, <2>6 DEF Forward
<1>6. QED
  BY <1>3, <1>4, <1>5 DEF Agrees

-----------------------------------------------------------------------------
(* The steps.                                                              *)

LEMMA TickMoves ==
  ASSUME TickShape(tick), NEW place
  PROVE  /\ Goto(place) => tick'.at = place
         /\ Goto(place) /\ tick.at \in InSnapshot /\ place \in InSnapshot =>
              TickShape(tick') /\ tick'.snap = tick.snap
         /\ Goto(place) /\ tick.at \in AfterSample /\ place \in AfterSample =>
              TickShape(tick') /\ tick'.snap = tick.snap
         /\ Goto(place) /\ tick.at \in Outside /\ place \in Outside => TickShape(tick')
         /\ Wait => TickShape(tick') /\ tick'.at = "wait"
<1>1. Wait => TickShape(tick') /\ tick'.at = "wait"
  BY DEF Wait, TickShape, Outside
<1>2. CASE tick.at \in InSnapshot
  <2>1. tick = [at |-> tick.at, snap |-> tick.snap] /\ tick.snap \in Snap
    BY <1>2 DEF TickShape, InSnapshot, Outside, AfterSample
  <2>2. Goto(place) => tick' = [at |-> place, snap |-> tick.snap]
    BY <2>1 DEF Goto
  <2>3. QED
    BY <1>1, <1>2, <2>1, <2>2 DEF TickShape, InSnapshot, Outside, AfterSample
<1>3. CASE tick.at \in AfterSample
  <2>1. tick = [at |-> tick.at, snap |-> tick.snap, time |-> tick.time] /\ tick.snap \in Snap
    BY <1>3 DEF TickShape, InSnapshot, Outside, AfterSample
  <2>2. Goto(place) => tick' = [at |-> place, snap |-> tick.snap, time |-> tick.time]
    BY <2>1 DEF Goto
  <2>3. QED
    BY <1>1, <1>3, <2>1, <2>2 DEF TickShape, InSnapshot, Outside, AfterSample
<1>4. CASE tick.at \in Outside
  <2>1. tick = [at |-> tick.at]
    BY <1>4 DEF TickShape, InSnapshot, Outside, AfterSample
  <2>2. Goto(place) => tick' = [at |-> place]
    BY <2>1 DEF Goto
  <2>3. QED
    BY <1>1, <1>4, <2>1, <2>2 DEF TickShape, InSnapshot, Outside, AfterSample
<1>5. QED
  BY <1>2, <1>3, <1>4 DEF TickShape

(* A step within a tick, or outside of ticks, that changes neither stream  *)
(* nor sample, and remembers no boot and no sequence.                      *)
LEMMA CalmStep ==
  ASSUME RecorderInv,
         UNCHANGED <<clock, board, ticks, unknowns, ended>>,
         RecorderShape(me'), me'.stream = me.stream, me'.boot = me.boot, me'.last = me.last,
         TickShape(tick'),
         \/ tick'.at \in Outside
         \/ /\ tick'.at \in AfterSample /\ tick.at \in AfterSample /\ tick'.snap = tick.snap
         \/ /\ tick'.at \in {"disk", "stream"} /\ tick.at \in InSnapshot /\ tick'.snap = tick.snap
         \/ /\ tick'.at = "begin" /\ tick.at \in InSnapshot /\ tick'.snap = tick.snap
            /\ me.stream = 0,
         Shaped(db'), Shaped(work'),
         \E d \in {db, work} : db'.streams = d.streams /\ db'.raw = d.raw,
         \E d \in {db, work} : work'.streams = d.streams /\ work'.raw = d.raw
  PROVE  RecorderInv'
<1>1. ContextInv /\ Fits(db) /\ Fits(work)
  BY DEF RecorderInv
<1>2. tick'.at \notin Outside => tick.at \notin Outside /\ tick'.snap = tick.snap
  BY DEF Outside, InSnapshot, AfterSample
<1>3. tick'.at # "sample"
  BY DEF Outside, AfterSample
<1>4. ContextInv'
  BY <1>1, <1>2, <1>3 DEF ContextInv, At
<1>5. \/ tick'.at \in Outside \cup AfterSample
      \/ tick.at \in InSnapshot /\ tick'.at \in {"disk", "stream"}
      \/ tick.at \in InSnapshot /\ tick'.at = "begin" /\ me.stream = 0
  OBVIOUS
<1>6. \A d \in {db, work} :
        Agrees(d.streams, d.raw, me', tick', ticks, unknowns, ended + 1, board.boot)
  <2> SUFFICES ASSUME NEW d \in {db, work}
               PROVE  Agrees(d.streams, d.raw, me', tick', ticks, unknowns, ended + 1, board.boot)
    OBVIOUS
  <2>1. Agrees(d.streams, d.raw, me, tick, ticks, unknowns, ended + 1, board.boot)
    BY <1>1 DEF Fits
  <2>2. me'.stream = me.stream /\ me'.boot = me.boot /\ me'.last = me.last
    OBVIOUS
  <2>3. \/ tick'.at \in Outside \cup AfterSample
        \/ tick.at \in InSnapshot /\ tick'.at \in {"disk", "stream"}
        \/ /\ tick.at \in InSnapshot /\ tick'.at = "begin"
           /\ (me.stream # 0 => d.streams[me.stream].ended = TRUE)
    BY <1>5
  <2>4. QED
    BY ONLY <2>1, <2>2, <2>3, AgreesStays
<1>7. Fits(db)' /\ Fits(work)'
  BY <1>6 DEF Fits
<1>8. QED
  BY <1>4, <1>7 DEF RecorderInv

LEMMA CalmWrite ==
  ASSUME RecorderInv, NEW new, Shaped(new), new.streams = work.streams, new.raw = work.raw,
         Kept \/ Write(new) \/ WriteFails(new)
  PROVE  /\ Shaped(db') /\ Shaped(work')
         /\ \E d \in {db, work} : db'.streams = d.streams /\ db'.raw = d.raw
         /\ \E d \in {db, work} : work'.streams = d.streams /\ work'.raw = d.raw
BY DEF RecorderInv, Fits, Kept, Write, WriteFails

LEMMA CalmActions ==
  ASSUME RecorderInv,
         \/ DiskAsBefore \/ DiskChanges \/ CloseMinute \/ CountSample \/ LoadFails
         \/ RecordTransition \/ RecordPlatform \/ StopRollup \/ Restart
  PROVE  RecorderInv'
<1> DEFINE store == /\ Shaped(db') /\ Shaped(work')
                    /\ \E d \in {db, work} : db'.streams = d.streams /\ db'.raw = d.raw
                    /\ \E d \in {db, work} : work'.streams = d.streams /\ work'.raw = d.raw
           recorder == /\ RecorderShape(me') /\ me'.stream = me.stream /\ me'.boot = me.boot
                       /\ me'.last = me.last
           place == /\ TickShape(tick')
                    /\ \/ tick'.at \in Outside
                       \/ /\ tick'.at \in AfterSample /\ tick.at \in AfterSample
                          /\ tick'.snap = tick.snap
                       \/ /\ tick'.at \in {"disk", "stream"} /\ tick.at \in InSnapshot
                          /\ tick'.snap = tick.snap
<1>1. ContextInv /\ Shaped(db) /\ Shaped(work) /\ TickShape(tick) /\ RecorderShape(me)
  BY DEF RecorderInv, Fits, ContextInv
<1>2. UNCHANGED <<clock, board, ticks, unknowns, ended>>
  BY DEF DiskAsBefore, DiskChanges, CloseMinute, CountSample, LoadFails,
         RecordTransition, RecordPlatform, StopRollup, Restart, Quiet
<1>3. /\ me' = me => recorder
      /\ \A x : me' = [me EXCEPT !.limited = x] \/ me' = [me EXCEPT !.rollup = x]
                \/ me' = [me EXCEPT !.value = x] \/ me' = [me EXCEPT !.platform = x] => recorder
  BY <1>1 DEF RecorderShape
<1>4. (Kept => store) /\ (Wait => place) /\ (Drop => place)
  BY <1>1, TickMoves DEF Kept, Drop, Outside
<1>5. \A new : /\ Shaped(new) /\ new.streams = work.streams /\ new.raw = work.raw
               /\ Write(new) \/ WriteFails(new)
               => store
  BY CalmWrite
<1> HIDE DEF store, recorder
<1>6. CASE DiskAsBefore
  <2>1. store /\ recorder
    BY <1>3, <1>4, <1>6 DEF DiskAsBefore
  <2>2. At("disk") /\ (Goto("stream") \/ Drop)
    BY <1>6 DEF DiskAsBefore
  <2>3. place
    BY <1>1, <1>4, <2>2, TickMoves DEF At, InSnapshot
  <2>4. QED
    BY <1>2, <2>1, <2>3, CalmStep DEF store, recorder
<1>7. CASE DiskChanges
  <2> DEFINE new == WithEvent(work, "disk", Limit(me.limited), Limit(~me.limited))
  <2>1. Shaped(new) /\ new.streams = work.streams /\ new.raw = work.raw
    BY <1>1, OtherWrites
  <2>2. At("disk") /\ (Write(new) \/ WriteFails(new)) /\ (Goto("stream") \/ Drop)
    BY <1>7 DEF DiskChanges
  <2>3. \E x : me' = [me EXCEPT !.limited = x]
    BY <1>7 DEF DiskChanges
  <2> HIDE DEF new
  <2>4. store /\ recorder
    BY <1>3, <1>5, <2>1, <2>2, <2>3
  <2>5. place
    BY <1>1, <1>4, <2>2, TickMoves DEF At, InSnapshot
  <2>6. QED
    BY <1>2, <2>4, <2>5, CalmStep DEF store, recorder
<1>8. CASE CloseMinute
  <2> DEFINE new == WithRollup(work, me.rollup)
  <2>1. Shaped(new) /\ new.streams = work.streams /\ new.raw = work.raw
    BY <1>1, OtherWrites
  <2>2. At("turn") /\ (Kept \/ Write(new) \/ WriteFails(new)) /\ (Goto("count") \/ Drop)
        /\ me' = me
    BY <1>8 DEF CloseMinute
  <2> HIDE DEF new
  <2>3. store /\ recorder
    BY <1>3, <1>4, <1>5, <2>1, <2>2
  <2>4. place
    BY <1>1, <1>4, <2>2, TickMoves DEF At, AfterSample
  <2>5. QED
    BY <1>2, <2>3, <2>4, CalmStep DEF store, recorder
<1>9. CASE CountSample
  <2> DEFINE new == WithRollup(work, Counted)
  <2>1. Shaped(new) /\ new.streams = work.streams /\ new.raw = work.raw
    BY <1>1, OtherWrites
  <2>2. At("count") /\ (Kept \/ Write(new) \/ WriteFails(new)) /\ (Goto("transition") \/ Drop)
        /\ me' = [me EXCEPT !.rollup = Counted]
    BY <1>9 DEF CountSample
  <2> HIDE DEF new
  <2>3. store /\ recorder
    BY <1>3, <1>4, <1>5, <2>1, <2>2
  <2>4. place
    BY <1>1, <1>4, <2>2, TickMoves DEF At, AfterSample
  <2>5. QED
    BY <1>2, <2>3, <2>4, CalmStep DEF store, recorder
<1>10. CASE LoadFails
  <2>1. db' = db /\ work' = work /\ me' = me /\ Drop
    BY <1>10 DEF LoadFails
  <2>2. store
    BY <1>1, <2>1 DEF store
  <2>3. recorder /\ place
    BY <1>3, <1>4, <2>1
  <2>4. QED
    BY <1>2, <2>2, <2>3, CalmStep DEF store, recorder
<1>11. CASE RecordTransition
  <2> DEFINE new == WithEvent(work, "value", me.value, tick.snap.value)
  <2>1. Shaped(new) /\ new.streams = work.streams /\ new.raw = work.raw
    BY <1>1, OtherWrites
  <2>2. At("transition") /\ (Kept \/ Write(new) \/ WriteFails(new))
        /\ (Goto("platform") \/ Drop) /\ me' = [me EXCEPT !.value = tick.snap.value]
    BY <1>11 DEF RecordTransition, See
  <2> HIDE DEF new
  <2>3. store /\ recorder
    BY <1>3, <1>4, <1>5, <2>1, <2>2
  <2>4. place
    BY <1>1, <1>4, <2>2, TickMoves DEF At, AfterSample
  <2>5. QED
    BY <1>2, <2>3, <2>4, CalmStep DEF store, recorder
<1>12. CASE RecordPlatform
  <2> DEFINE new == WithPlatform(work, ticks)
  <2>1. Shaped(new) /\ new.streams = work.streams /\ new.raw = work.raw
    BY <1>1, OtherWrites
  <2>2. (Kept \/ Write(new) \/ WriteFails(new)) /\ (Wait \/ Drop)
        /\ (me' = me \/ me' = [me EXCEPT !.platform = ticks])
    BY <1>12 DEF RecordPlatform
  <2> HIDE DEF new
  <2>3. store /\ recorder
    BY <1>3, <1>4, <1>5, <2>1, <2>2
  <2>4. place
    BY <1>4, <2>2
  <2>5. QED
    BY <1>2, <2>3, <2>4, CalmStep DEF store, recorder
<1>13. CASE StopRollup
  <2> DEFINE new == WithRollup(work, me.rollup)
  <2>1. Shaped(new) /\ new.streams = work.streams /\ new.raw = work.raw
    BY <1>1, OtherWrites
  <2>2. At("wait") /\ (Kept \/ Write(new)) /\ Goto("stopping") /\ me' = me
    BY <1>13 DEF StopRollup
  <2> HIDE DEF new
  <2>3. store /\ recorder
    BY <1>3, <1>4, <1>5, <2>1, <2>2
  <2>4. place
    BY <1>1, <2>2, TickMoves DEF At, Outside
  <2>5. QED
    BY <1>2, <2>3, <2>4, CalmStep DEF store, recorder
<1>14. CASE Restart
  <2>1. Kept /\ Wait /\ me' = me
    BY <1>14 DEF Restart
  <2>2. store /\ recorder /\ place
    BY <1>3, <1>4, <2>1
  <2>3. QED
    BY <1>2, <2>2, CalmStep DEF store, recorder
<1>15. QED
  BY <1>6, <1>7, <1>8, <1>9, <1>10, <1>11, <1>12, <1>13, <1>14

(* The next tick of the thread, and what it finds at the board.            *)
LEMMA TickActions ==
  ASSUME RecorderInv, TickConnected \/ TickDisconnected
  PROVE  RecorderInv'
<1>1. ContextInv /\ Fits(db) /\ Fits(work) /\ Shaped(work) /\ Shaped(db)
  BY DEF RecorderInv, Fits
<1>2. /\ ticks' = ticks + 1 /\ ended' = ended /\ BoardMoves
      /\ \E x : me' = [me EXCEPT !.connection = x]
  BY DEF TickConnected, TickDisconnected
<1>3. /\ RecorderShape(me') /\ me'.stream = me.stream /\ me'.boot = me.boot /\ me'.last = me.last
  BY <1>1, <1>2 DEF ContextInv, RecorderShape
<1>4. /\ board' \in [boot : 1..MaxBoot, sequence : 0..MaxSequence] /\ board.boot <= board'.boot
      /\ board.boot \in Nat /\ board'.boot \in Nat
  BY <1>1, <1>2, Bounds DEF ContextInv, BoardMoves
<1>5. clock' \in Nat
  <2>1. ClockMoves /\ clock \in Nat /\ Minute \in Nat
    BY <1>1, Bounds DEF TickConnected, TickDisconnected, ContextInv
  <2>2. QED
    BY <2>1 DEF ClockMoves
<1>6. /\ TickShape(tick') /\ tick'.at \in {"disk", "wait"} /\ unknowns \subseteq unknowns'
      /\ unknowns' \subseteq 1..(ticks + 1)
      /\ tick'.at = "disk" =>
           /\ tick'.snap.boot = board'.boot
           /\ ticks' \in unknowns' <=> tick'.snap.sequence = NoSequence
  <2>1. ticks + 1 \notin unknowns /\ unknowns \subseteq 1..(ticks + 1) /\ ticks + 1 \in 1..(ticks + 1)
    BY <1>1 DEF ContextInv
  <2>2. CASE TickConnected
    <3>1. PICK x \in Snapshots :
            /\ unknowns' = IF x.sequence = NoSequence THEN unknowns \cup {ticks'} ELSE unknowns
            /\ tick' = [at |-> "disk", snap |-> x] \/ Wait
      BY <2>2 DEF TickConnected, Drop
    <3>2. x.boot = board'.boot /\ x \in Snap
      <4>1. x \in [boot : {board'.boot}, sequence : {board'.sequence, NoSequence},
                   value : {IF board'.sequence = 0 THEN "bad" ELSE "good"}, time : {clock'}]
        BY <3>1 DEF Snapshots
      <4>2. board'.sequence \in Sequence /\ NoSequence \in Sequence
        BY <1>4, Bounds DEF Sequence, NoSequence
      <4>3. clock' \in Nat
        BY <1>5
      <4>4. QED
        BY <1>4, <4>1, <4>2, <4>3 DEF Snap, Value
    <3>3. QED
      BY <1>2, <2>1, <3>1, <3>2, TickMoves DEF TickShape, InSnapshot, Wait, Outside
  <2>3. CASE TickDisconnected
    <3>1. Wait /\ unknowns' = unknowns
      BY <2>3 DEF TickDisconnected, Drop
    <3>2. QED
      BY <2>1, <3>1 DEF TickShape, Wait, Outside
  <2>4. QED
    BY <2>2, <2>3
<1>7. ContextInv'
  <2>1. me'.boot <= board'.boot
    BY <1>1, <1>3, <1>4 DEF ContextInv, RecorderShape
  <2>2. tick'.at # "sample" /\ (tick'.at \notin Outside => tick'.at = "disk")
    BY <1>6 DEF Outside
  <2>3. ticks' \in Nat /\ ended' \in Nat /\ unknowns' \subseteq 1..ticks'
    BY <1>1, <1>2, <1>6 DEF ContextInv
  <2>4. QED
    BY <1>3, <1>4, <1>6, <1>5, <2>1, <2>2, <2>3 DEF ContextInv, At
<1>8. \A d \in {db, work} :
        Agrees(d.streams, d.raw, me', tick', ticks + 1, unknowns', ended + 1, board'.boot)
  <2> SUFFICES ASSUME NEW d \in {db, work}
               PROVE  Agrees(d.streams, d.raw, me', tick', ticks + 1, unknowns', ended + 1, board'.boot)
    OBVIOUS
  <2>1. Agrees(d.streams, d.raw, me, tick, ticks, unknowns, ended + 1, board.boot)
        /\ \A r \in d.raw : r.id \in Nat
    BY <1>1 DEF Fits, Shaped
  <2>2. ticks \in Nat /\ me.boot \in Nat
    BY <1>1 DEF ContextInv, RecorderShape
  <2>3. QED
    BY <1>3, <1>4, <1>6, <2>1, <2>2, AgreesNextTick
<1>9. /\ Shaped(db') /\ Shaped(work')
      /\ \E d \in {db, work} : db'.streams = d.streams /\ db'.raw = d.raw
      /\ \E d \in {db, work} : work'.streams = d.streams /\ work'.raw = d.raw
  <2>1. \E x, y : LET new == WithEvent(work, "connection", x, y) IN
                    Kept \/ Write(new) \/ WriteFails(new)
    BY DEF TickConnected, TickDisconnected
  <2>2. QED
    BY <1>1, <2>1, OtherWrites, CalmWrite
<1>10. Fits(db)' /\ Fits(work)'
  BY <1>2, <1>8, <1>9 DEF Fits
<1>11. QED
  BY <1>7, <1>10 DEF RecorderInv

LEMMA StreamGoesOn ==
  ASSUME RecorderInv, SameStream
  PROVE  RecorderInv'
<1>1. ContextInv /\ Fits(db) /\ Fits(work)
  BY DEF RecorderInv
<1>2. /\ UNCHANGED <<clock, board, ticks, unknowns, ended, db, work>>
      /\ At("stream") /\ ~NewEpoch /\ Remember /\ Goto("sample")
  BY DEF SameStream, Quiet, Kept
<1>3. TickShape(tick') /\ tick'.snap = tick.snap /\ tick'.at = "sample" /\ tick.snap \in Snap
  <2>1. TickShape(tick) /\ tick.at = "stream"
    BY <1>1, <1>2 DEF ContextInv, At
  <2>2. QED
    BY <1>2, <2>1, TickMoves DEF InSnapshot, TickShape, Outside, AfterSample
<1>4. tick.snap.boot = board.boot /\ (ticks \in unknowns <=> tick.snap.sequence = NoSequence)
  BY <1>1, <1>2 DEF ContextInv, At, Outside
<1>5. /\ RecorderShape(me') /\ me'.stream = me.stream /\ me'.boot = board.boot
      /\ me'.last = tick.snap.sequence /\ board.boot \in Nat
      /\ me.boot \in Nat /\ me.last \in Sequence /\ me.stream \in Nat
  BY <1>1, <1>2, <1>3, <1>4 DEF ContextInv, RecorderShape, Remember, Snap
<1>6. ContextInv'
  <2>1. tick'.at \notin Outside /\ tick'.snap.boot = board.boot
        /\ (ticks \in unknowns <=> tick'.snap.sequence = NoSequence)
    BY <1>3, <1>4 DEF Outside
  <2>2. QED
    BY <1>1, <1>2, <1>3, <1>5, <2>1 DEF ContextInv, At
<1>7. \A d \in {db, work} :
        Agrees(d.streams, d.raw, me', tick', ticks, unknowns, ended + 1, board.boot)
  <2> SUFFICES ASSUME NEW d \in {db, work}
               PROVE  Agrees(d.streams, d.raw, me', tick', ticks, unknowns, ended + 1, board.boot)
    OBVIOUS
  <2>1. Agrees(d.streams, d.raw, me, tick, ticks, unknowns, ended + 1, board.boot)
        /\ \A r \in d.raw : r.sequence \in Sequence
    BY <1>1 DEF Fits, Shaped
  <2>2. /\ tick.at = "stream" /\ me.stream # 0 /\ tick.snap.boot = me.boot
        /\ ~(tick.snap.sequence # NoSequence /\ me.last # NoSequence /\ tick.snap.sequence < me.last)
    BY <1>2 DEF NewEpoch, At
  <2>3. tick.snap.sequence \in Sequence
    BY <1>3 DEF Snap
  <2>4. QED
    BY <1>3, <1>4, <1>5, <2>1, <2>2, <2>3, AgreesRemembers
<1>8. Fits(db)' /\ Fits(work)'
  BY <1>1, <1>2, <1>7 DEF Fits
<1>9. QED
  BY <1>6, <1>8 DEF RecorderInv

LEMMA StreamIsEnded ==
  ASSUME RecorderInv, EndStream
  PROVE  RecorderInv'
<1>1. ContextInv /\ Fits(db) /\ Fits(work) /\ Shaped(db) /\ Shaped(work)
  BY DEF RecorderInv, Fits
<1>2. /\ UNCHANGED <<clock, board, ticks, unknowns, ended, me>> /\ At("stream")
  BY DEF EndStream, Quiet
<1>3. TickShape(tick) /\ tick.at \in InSnapshot /\ RecorderShape(me)
  BY <1>1, <1>2 DEF ContextInv, At, InSnapshot
<1>4. Goto("begin") => TickShape(tick') /\ tick'.at = "begin" /\ tick'.snap = tick.snap
  BY <1>3, TickMoves DEF InSnapshot
<1>5. Drop => TickShape(tick') /\ tick'.at = "wait"
  BY <1>3, TickMoves DEF Drop
<1>6. CASE me.stream = 0
  <2>1. Goto("begin") /\ Kept
    BY <1>6 DEF EndStream
  <2>2. QED
    BY <1>1, <1>2, <1>3, <1>4, <1>6, <2>1, CalmStep DEF Kept
<1>7. CASE me.stream # 0
  <2> DEFINE new == WithEnd(work, me.stream)
             good(d) == Shaped(d) /\ Agrees(d.streams, d.raw, me, tick', ticks, unknowns, ended + 1, board.boot)
  <2>1. me.stream \in 1..Len(work.streams)
    BY <1>1, <1>7 DEF Fits, Agrees, Boots
  <2>2. /\ Shaped(new) /\ new.raw = work.raw /\ Len(new.streams) = Len(work.streams)
        /\ \A j \in 1..Len(work.streams) :
             /\ new.streams[j].boot = work.streams[j].boot
             /\ new.streams[j].process = work.streams[j].process
             /\ j # me.stream => new.streams[j] = work.streams[j]
        /\ new.streams[me.stream].ended = TRUE
    BY <1>1, <2>1, StreamEnds
  <2> HIDE DEF new
  <2>3. \/ Write(new) /\ Goto("begin")
        \/ WriteFails(new) /\ Drop
    BY <1>7 DEF EndStream, new
  <2>4. tick'.at \in Outside \/ (tick'.at = "begin" /\ tick.at \in InSnapshot)
    BY <1>3, <1>4, <1>5, <2>3 DEF Outside
  <2>5. TickShape(tick') /\ (tick'.at \notin Outside => tick'.snap = tick.snap)
    BY <1>4, <1>5, <2>3 DEF Outside
  <2>6. good(new)
    <3>1. Agrees(work.streams, work.raw, me, tick, ticks, unknowns, ended + 1, board.boot)
      BY <1>1 DEF Fits
    <3> HIDE DEF good
    <3> DEFINE S == work.streams
               S2 == new.streams
    <3>2. /\ Len(S2) = Len(S) /\ me.stream \in 1..Len(S) /\ S2[me.stream].ended = TRUE
          /\ \A j \in 1..Len(S) : /\ S2[j].boot = S[j].boot /\ S2[j].process = S[j].process
                                  /\ j # me.stream => S2[j] = S[j]
      BY <2>1, <2>2
    <3>3. Agrees(S, work.raw, me, tick, ticks, unknowns, ended + 1, board.boot)
      BY <3>1
    <3> HIDE DEF S, S2
    <3>4. Agrees(S2, work.raw, me, tick', ticks, unknowns, ended + 1, board.boot)
      BY <2>4, <3>2, <3>3, AgreesEnds
    <3>5. QED
      BY <2>2, <3>4 DEF good, S2
  <2>7. Drop => \A d \in {db, work} : good(d)
    <3> SUFFICES ASSUME Drop, NEW d \in {db, work} PROVE good(d)
      OBVIOUS
    <3>1. Agrees(d.streams, d.raw, me, tick, ticks, unknowns, ended + 1, board.boot) /\ Shaped(d)
      BY <1>1 DEF Fits
    <3>2. tick'.at \in Outside \cup AfterSample
      BY <1>5 DEF Outside
    <3>3. Agrees(d.streams, d.raw, me, tick', ticks, unknowns, ended + 1, board.boot)
      BY <3>1, <3>2, AgreesStays
    <3>4. QED
      BY <3>1, <3>3
  <2> HIDE DEF good
  <2>8. good(db') /\ good(work')
    BY <2>3, <2>6, <2>7 DEF Write, WriteFails
  <2>9. Fits(db)' /\ Fits(work)'
    BY <1>2, <2>8 DEF Fits, good
  <2>10. ContextInv'
    <3>1. tick'.at # "sample" /\ (tick'.at \notin Outside => tick.at \notin Outside)
      BY <1>2, <2>4 DEF Outside, InSnapshot, At
    <3>2. QED
      BY <1>1, <1>2, <2>5, <3>1 DEF ContextInv, At
  <2>11. QED
    BY <2>9, <2>10 DEF RecorderInv
<1>8. QED
  BY <1>6, <1>7

LEMMA StreamIsBegun ==
  ASSUME RecorderInv, BeginStream
  PROVE  RecorderInv'
<1>1. ContextInv /\ Fits(db) /\ Fits(work) /\ Shaped(db) /\ Shaped(work)
  BY DEF RecorderInv, Fits
<1>2. UNCHANGED <<clock, board, ticks, unknowns, ended>> /\ At("begin")
  BY DEF BeginStream, Quiet
<1>3. TickShape(tick) /\ tick.at = "begin" /\ tick.at \in InSnapshot /\ RecorderShape(me)
      /\ tick.at \notin Outside
  BY <1>1, <1>2 DEF ContextInv, At, InSnapshot, Outside
<1>4. tick.snap.boot = board.boot /\ board.boot \in 1..MaxBoot /\ board.boot \in Nat
      /\ ended \in Nat /\ me.boot \in Nat /\ me.boot <= board.boot
  BY <1>1, <1>3, Bounds DEF ContextInv, RecorderShape
<1> DEFINE new == WithStream(work, tick.snap.boot)
           good(d) == Shaped(d) /\ Agrees(d.streams, d.raw, me', tick', ticks, unknowns, ended + 1, board.boot)
<1>5. /\ Shaped(new) /\ new.raw = work.raw /\ Len(new.streams) = Len(work.streams) + 1
      /\ \A j \in 1..Len(work.streams) : new.streams[j] = work.streams[j]
      /\ new.streams[Len(work.streams) + 1] =
           [boot |-> board.boot, ended |-> FALSE, process |-> ended + 1]
      /\ Len(work.streams) \in Nat
  <2>1. Len(work.streams) \in Nat
    BY <1>1 DEF Shaped
  <2>2. tick.snap.boot \in 1..MaxBoot /\ ended \in Nat /\ Shaped(work)
    BY <1>1, <1>4
  <2>3. LET e == WithStream(work, tick.snap.boot) IN
         /\ Shaped(e) /\ e.raw = work.raw /\ Len(e.streams) = Len(work.streams) + 1
         /\ \A i \in 1..Len(work.streams) : e.streams[i] = work.streams[i]
         /\ e.streams[Len(work.streams) + 1] =
              [boot |-> tick.snap.boot, ended |-> FALSE, process |-> Process]
    BY <2>2, StreamBegins
  <2>4. QED
    BY <1>4, <2>1, <2>3 DEF Process
<1> HIDE DEF new
<1>6. \/ /\ Write(new) /\ Goto("announce")
         /\ me' = [me EXCEPT !.stream = Len(new.streams)]
      \/ WriteFails(new) /\ Drop /\ me' = me
  BY DEF BeginStream, new
<1>7. /\ RecorderShape(me') /\ me'.boot = me.boot /\ me'.last = me.last
      /\ \/ me'.stream = Len(work.streams) + 1 /\ Write(new) /\ Goto("announce")
         \/ me'.stream = me.stream /\ WriteFails(new) /\ Drop /\ me' = me
  BY <1>3, <1>5, <1>6 DEF RecorderShape
<1>8. /\ Goto("announce") => TickShape(tick') /\ tick'.at = "announce" /\ tick'.snap = tick.snap
      /\ Drop => TickShape(tick') /\ tick'.at = "wait"
  BY <1>3, TickMoves DEF InSnapshot, Drop
<1>9. good(new)
  <2>1. Agrees(work.streams, work.raw, me, tick, ticks, unknowns, ended + 1, board.boot)
    BY <1>1 DEF Fits
  <2>2. \/ me'.stream = Len(work.streams) + 1 /\ tick'.at = "announce" /\ tick'.snap = tick.snap
        \/ me'.stream = me.stream /\ tick'.at = "wait"
    BY <1>7, <1>8
  <2>3. ended + 1 \in Nat
    BY <1>4
  <2>4. Agrees(new.streams, work.raw, me', tick', ticks, unknowns, ended + 1, board.boot)
    BY <1>3, <1>4, <1>5, <1>7, <2>1, <2>2, <2>3, AgreesBegins
  <2>5. QED
    BY <1>5, <2>4
<1>10. Drop => \A d \in {db, work} : good(d)
  <2> SUFFICES ASSUME Drop, NEW d \in {db, work} PROVE good(d)
    OBVIOUS
  <2>1. Agrees(d.streams, d.raw, me, tick, ticks, unknowns, ended + 1, board.boot) /\ Shaped(d)
    BY <1>1 DEF Fits
  <2>2. tick'.at \in Outside \cup AfterSample /\ me' = me
    <3>1. tick'.at = "wait"
      BY <1>8
    <3>2. "wait" # "announce" /\ (Goto("announce") => tick'.at = "announce")
      BY <1>8
    <3>3. QED
      BY <1>7, <3>1, <3>2 DEF Outside
  <2>3. Agrees(d.streams, d.raw, me', tick', ticks, unknowns, ended + 1, board.boot)
    BY <2>1, <2>2, AgreesStays
  <2>4. QED
    BY <2>1, <2>3
<1> HIDE DEF good
<1>11. good(db') /\ good(work')
  BY <1>7, <1>9, <1>10 DEF Write, WriteFails
<1>12. Fits(db)' /\ Fits(work)'
  BY <1>2, <1>11 DEF Fits, good
<1>13. ContextInv'
  <2>1. tick'.at \in {"announce", "wait"} /\ TickShape(tick')
        /\ (tick'.at # "wait" => tick'.snap = tick.snap)
    BY <1>7, <1>8
  <2>2. tick'.at # "sample" /\ (tick'.at \notin Outside => tick'.snap = tick.snap)
    BY <2>1 DEF Outside
  <2>3. QED
    BY <1>1, <1>2, <1>3, <1>7, <2>1, <2>2 DEF ContextInv, At
<1>14. QED
  BY <1>12, <1>13 DEF RecorderInv

LEMMA StreamIsAnnounced ==
  ASSUME RecorderInv, AnnounceStream
  PROVE  RecorderInv'
<1>1. ContextInv /\ Fits(db) /\ Fits(work) /\ Shaped(db) /\ Shaped(work)
  BY DEF RecorderInv, Fits
<1>2. UNCHANGED <<clock, board, ticks, unknowns, ended>> /\ At("announce")
  BY DEF AnnounceStream, Quiet
<1>3. TickShape(tick) /\ tick.at = "announce" /\ tick.at \in InSnapshot /\ RecorderShape(me)
      /\ tick.at \notin Outside /\ tick.snap \in Snap
  BY <1>1, <1>2 DEF ContextInv, At, InSnapshot, Outside, AfterSample, TickShape
<1> DEFINE new == WithEvent(work, "stream", "none", "begun")
<1>4. Shaped(new) /\ new.streams = work.streams /\ new.raw = work.raw
  BY <1>1, OtherWrites
<1> HIDE DEF new
<1>5. \/ Write(new) /\ Remember /\ Goto("sample")
      \/ WriteFails(new) /\ Drop /\ me' = me
  BY DEF AnnounceStream, new
<1>6. /\ Shaped(db') /\ Shaped(work')
      /\ \E d \in {db, work} : db'.streams = d.streams /\ db'.raw = d.raw
      /\ \E d \in {db, work} : work'.streams = d.streams /\ work'.raw = d.raw
  BY <1>4, <1>5, CalmWrite
<1>7. CASE Drop /\ me' = me
  <2>1. TickShape(tick') /\ tick'.at \in Outside
    BY <1>3, <1>7, TickMoves DEF Drop, Outside
  <2>2. QED
    BY <1>2, <1>3, <1>6, <1>7, <2>1, CalmStep
<1>8. CASE Remember /\ Goto("sample")
  <2>1. TickShape(tick') /\ tick'.at = "sample" /\ tick'.snap = tick.snap
    BY <1>3, <1>8, TickMoves DEF InSnapshot
  <2>2. tick.snap.boot = board.boot /\ (ticks \in unknowns <=> tick.snap.sequence = NoSequence)
    BY <1>1, <1>3 DEF ContextInv
  <2>3. /\ RecorderShape(me') /\ me'.stream = me.stream /\ me'.boot = board.boot
        /\ me'.last = tick.snap.sequence /\ board.boot \in Nat
        /\ me.boot \in Nat /\ me.last \in Sequence /\ me.stream \in Nat
    BY <1>1, <1>3, <1>8, <2>2 DEF ContextInv, RecorderShape, Remember, Snap
  <2>4. ContextInv'
    <3>1. tick'.at \notin Outside /\ tick'.snap.boot = board.boot
          /\ (ticks \in unknowns <=> tick'.snap.sequence = NoSequence)
      BY <2>1, <2>2 DEF Outside
    <3>2. QED
      BY <1>1, <1>2, <2>1, <2>3, <3>1 DEF ContextInv, At
  <2>5. \A d \in {db, work} :
          Agrees(d.streams, d.raw, me', tick', ticks, unknowns, ended + 1, board.boot)
    <3> SUFFICES ASSUME NEW d \in {db, work}
                 PROVE  Agrees(d.streams, d.raw, me', tick', ticks, unknowns, ended + 1, board.boot)
      OBVIOUS
    <3>1. Agrees(d.streams, d.raw, me, tick, ticks, unknowns, ended + 1, board.boot)
          /\ \A r \in d.raw : r.sequence \in Sequence
      BY <1>1 DEF Fits, Shaped
    <3>2. tick.snap.sequence \in Sequence
      BY <1>3 DEF Snap
    <3>3. QED
      BY <1>3, <2>1, <2>2, <2>3, <3>1, <3>2, AgreesRemembers
  <2>6. Fits(db)' /\ Fits(work)'
    BY <1>2, <1>6, <2>5 DEF Fits
  <2>7. QED
    BY <2>4, <2>6 DEF RecorderInv
<1>9. QED
  BY <1>5, <1>7, <1>8

LEMMA SampleIsRecorded ==
  ASSUME RecorderInv, RecordSample
  PROVE  RecorderInv'
<1>1. ContextInv /\ Fits(db) /\ Fits(work) /\ Shaped(db) /\ Shaped(work)
  BY DEF RecorderInv, Fits
<1>2. UNCHANGED <<clock, board, ticks, unknowns, ended, me>> /\ At("sample")
  BY DEF RecordSample, Quiet
<1>3. TickShape(tick) /\ tick.at = "sample" /\ RecorderShape(me)
      /\ tick.at \notin Outside /\ tick.snap \in Snap
  BY <1>1, <1>2 DEF ContextInv, At, InSnapshot, Outside, AfterSample, TickShape
<1>4. /\ me.last = tick.snap.sequence /\ tick.snap.boot = board.boot
      /\ (ticks \in unknowns <=> tick.snap.sequence = NoSequence)
      /\ ticks \in Nat /\ unknowns \subseteq 1..ticks /\ me.last \in Sequence /\ me.stream \in Nat
  BY <1>1, <1>2, <1>3 DEF ContextInv, RecorderShape
<1> DEFINE x == NewSample
           new == WithSample(work, x)
           good(d) == Shaped(d) /\ Agrees(d.streams, d.raw, me, tick', ticks, unknowns, ended + 1, board.boot)
<1>5. x.id = ticks /\ x.stream = me.stream /\ x.boot = tick.snap.boot /\ x.sequence = me.last
  BY <1>4 DEF NewSample
<1>6. \/ Write(new) /\ tick' = [at |-> "turn", snap |-> tick.snap, time |-> x.time]
      \/ WriteFails(new) /\ Drop
  BY DEF RecordSample
<1> HIDE DEF x
<1>7. Shaped(new) /\ new.raw = work.raw \cup {x} /\ new.streams = work.streams
  BY <1>1, <1>4, <1>5, SampleStored
<1>8. /\ TickShape(tick') /\ tick'.at \in {"turn", "wait"}
      /\ (Drop => tick'.at = "wait")
      /\ tick'.at = "turn" => tick'.snap = tick.snap
  <2>1. CASE Drop
    BY <1>3, <2>1, TickMoves DEF Drop
  <2>2. CASE tick' = [at |-> "turn", snap |-> tick.snap, time |-> x.time] /\ ~Drop
    BY <1>3, <2>2 DEF TickShape, AfterSample
  <2>3. QED
    BY <1>6, <2>1, <2>2
<1> HIDE DEF new
<1>9. good(new)
  <2>1. Agrees(work.streams, work.raw, me, tick, ticks, unknowns, ended + 1, board.boot)
        /\ \A r \in work.raw : r.id \in Nat /\ r.sequence \in Sequence
    BY <1>1 DEF Fits, Shaped
  <2>2. Agrees(work.streams, work.raw \cup {x}, me, tick', ticks, unknowns, ended + 1, board.boot)
    BY <1>3, <1>4, <1>5, <1>8, <2>1, AgreesStored
  <2>3. QED
    BY <1>7, <2>2
<1>10. Drop => \A d \in {db, work} : good(d)
  <2> SUFFICES ASSUME Drop, NEW d \in {db, work} PROVE good(d)
    OBVIOUS
  <2>1. Agrees(d.streams, d.raw, me, tick, ticks, unknowns, ended + 1, board.boot) /\ Shaped(d)
    BY <1>1 DEF Fits
  <2>2. tick'.at \in Outside \cup AfterSample
    BY <1>8 DEF Outside
  <2>3. Agrees(d.streams, d.raw, me, tick', ticks, unknowns, ended + 1, board.boot)
    BY <2>1, <2>2, AgreesStays
  <2>4. QED
    BY <2>1, <2>3
<1> HIDE DEF good
<1>11. good(db') /\ good(work')
  BY <1>6, <1>9, <1>10 DEF Write, WriteFails
<1>12. Fits(db)' /\ Fits(work)'
  BY <1>2, <1>11 DEF Fits, good
<1>13. ContextInv'
  <2>1. tick'.at # "sample" /\ (tick'.at \notin Outside => tick'.snap = tick.snap)
    BY <1>8 DEF Outside
  <2>2. QED
    BY <1>1, <1>2, <1>3, <1>8, <2>1 DEF ContextInv, At
<1>14. QED
  BY <1>12, <1>13 DEF RecorderInv

LEMMA ProcessEnds ==
  ASSUME RecorderInv, Kill \/ StopStream
  PROVE  RecorderInv'
<1>1. ContextInv /\ Fits(db) /\ Fits(work) /\ Shaped(db) /\ Shaped(work)
  BY DEF RecorderInv, Fits
<1>2. UNCHANGED <<clock, board, ticks, unknowns>> /\ Over
  BY DEF Kill, StopStream
<1>3. /\ me' = Fresh /\ tick' = [at |-> "down"] /\ ended' = ended + 1
      /\ RecorderShape(me') /\ me'.stream = 0 /\ me'.boot = 0
  BY <1>2, Bounds DEF Over, Fresh, RecorderShape, Sequence, NoSequence
<1>4. TickShape(tick') /\ tick'.at = "down" /\ tick'.at \in Outside
  BY <1>3 DEF TickShape, Outside
<1>5. ContextInv'
  BY <1>1, <1>2, <1>3, <1>4 DEF ContextInv, At
<1> DEFINE old(d) == Shaped(d) /\ Agrees(d.streams, d.raw, me, tick', ticks, unknowns, ended + 1, board.boot)
<1>6. \A d \in {db, work} : old(d)
  <2> SUFFICES ASSUME NEW d \in {db, work} PROVE old(d)
    OBVIOUS
  <2>1. Agrees(d.streams, d.raw, me, tick, ticks, unknowns, ended + 1, board.boot) /\ Shaped(d)
    BY <1>1 DEF Fits
  <2>2. Agrees(d.streams, d.raw, me, tick', ticks, unknowns, ended + 1, board.boot)
    BY <1>4, <2>1, AgreesStays
  <2>3. QED
    BY <2>1, <2>2
<1>7. me.stream # 0 => old(WithEnd(work, me.stream))
  <2> SUFFICES ASSUME me.stream # 0 PROVE old(WithEnd(work, me.stream))
    OBVIOUS
  <2> DEFINE new == WithEnd(work, me.stream)
             S == work.streams
             S2 == new.streams
  <2>1. me.stream \in 1..Len(work.streams)
    BY <1>1 DEF Fits, Agrees, Boots
  <2>2. /\ Shaped(new) /\ new.raw = work.raw
        /\ Len(S2) = Len(S) /\ me.stream \in 1..Len(S) /\ S2[me.stream].ended = TRUE
        /\ \A j \in 1..Len(S) : /\ S2[j].boot = S[j].boot /\ S2[j].process = S[j].process
                                /\ j # me.stream => S2[j] = S[j]
    BY <1>1, <2>1, StreamEnds
  <2>3. Agrees(S, work.raw, me, tick, ticks, unknowns, ended + 1, board.boot)
    BY <1>1 DEF Fits
  <2> HIDE DEF new, S, S2
  <2>4. tick'.at \in Outside \/ (tick'.at = "begin" /\ tick.at \in InSnapshot)
    BY <1>4
  <2>5. Agrees(S2, work.raw, me, tick', ticks, unknowns, ended + 1, board.boot)
    BY <2>2, <2>3, <2>4, AgreesEnds
  <2>6. QED
    BY <2>2, <2>5 DEF new, S2
<1>8. old(db') /\ old(work')
  <2> HIDE DEF old
  <2>1. CASE Kill
    BY <1>6, <2>1 DEF Kill
  <2>2. CASE StopStream
    BY <1>6, <1>7, <2>2 DEF StopStream
  <2>3. QED
    BY <2>1, <2>2
<1>9. \A d : old(d) => Agrees(d.streams, d.raw, me', tick', ticks, unknowns, ended + 1 + 1, board.boot)
  <2> SUFFICES ASSUME NEW d, old(d)
               PROVE  Agrees(d.streams, d.raw, me', tick', ticks, unknowns, ended + 1 + 1, board.boot)
    OBVIOUS
  <2>1. /\ Agrees(d.streams, d.raw, me, tick', ticks, unknowns, ended + 1, board.boot)
        /\ d.streams \in Seq(Stream) /\ \A r \in d.raw : r.stream \in Nat
    BY DEF Shaped
  <2>2. ended + 1 \in Nat
    BY <1>1 DEF ContextInv
  <2>3. QED
    BY <1>3, <1>4, <2>1, <2>2, AgreesNextProcess
<1>10. Fits(db)' /\ Fits(work)'
  BY <1>2, <1>3, <1>8, <1>9 DEF Fits
<1>11. QED
  BY <1>5, <1>10 DEF RecorderInv

LEMMA InvNext == RecorderInv /\ [Next]_vars => RecorderInv'
<1> SUFFICES ASSUME RecorderInv, [Next]_vars PROVE RecorderInv'
  OBVIOUS
<1>1. CASE \/ DiskAsBefore \/ DiskChanges \/ CloseMinute \/ CountSample \/ LoadFails
           \/ RecordTransition \/ RecordPlatform \/ StopRollup \/ Restart
  BY <1>1, CalmActions
<1>2. CASE TickConnected \/ TickDisconnected
  BY <1>2, TickActions
<1>3. CASE SameStream \/ EndStream \/ BeginStream \/ AnnounceStream
  BY <1>3, StreamGoesOn, StreamIsEnded, StreamIsBegun, StreamIsAnnounced
<1>4. CASE RecordSample
  BY <1>4, SampleIsRecorded
<1>5. CASE Kill \/ StopStream
  BY <1>5, ProcessEnds
<1>6. CASE UNCHANGED vars
  BY <1>6 DEF vars, history, RecorderInv, ContextInv, Fits, At
<1>7. QED
  BY <1>1, <1>2, <1>3, <1>4, <1>5, <1>6 DEF Next, Tick

LEMMA InvHolds == Spec => []RecorderInv
BY InvInit, InvNext, PTL DEF Spec

-----------------------------------------------------------------------------
(* The results.                                                            *)

(* A sample is stored in a stream of the boot it was taken in, whatever    *)
(* write failed or whenever the process was killed while the stream was    *)
(* changed.                                                                *)
THEOREM SamplesInTheirBoot == Spec => []SampleInItsBoot
<1>1. RecorderInv => SampleInItsBoot
  <2> SUFFICES ASSUME RecorderInv, NEW r \in db.raw
               PROVE  r.stream \in DOMAIN db.streams /\ db.streams[r.stream].boot = r.boot
    BY DEF SampleInItsBoot
  <2>1. Shaped(db) /\ Boots(db.streams, db.raw, me, tick, board.boot)
    BY DEF RecorderInv, Fits, Agrees
  <2>2. DOMAIN db.streams = 1..Len(db.streams)
    BY <2>1 DEF Shaped
  <2>3. QED
    BY <2>1, <2>2 DEF Boots
<1>2. QED
  BY <1>1, InvHolds, PTL

(* In a stream the sequence never falls from one sample to a later one,    *)
(* but across a snapshot that carried none.                                *)
THEOREM StreamsGoForward == Spec => []StreamGoesForward
<1>1. RecorderInv => StreamGoesForward
  BY DEF RecorderInv, Fits, Agrees, Forward, StreamGoesForward
<1>2. QED
  BY <1>1, InvHolds, PTL

(* Of the streams of a process that hold samples, only the current one may *)
(* have no end, also while writes fail.                                    *)
THEOREM OnlyOneOpen == Spec => []OneOpenStream
<1>1. RecorderInv => OneOpenStream
  <2> SUFFICES ASSUME RecorderInv, NEW r \in work.raw, work.streams[r.stream].process = Process
               PROVE  work.streams[r.stream].ended \/ r.stream = me.stream
    BY DEF OneOpenStream
  <2>1. Open(work.streams, work.raw, me, tick, ended + 1)
    BY DEF RecorderInv, Fits, Agrees
  <2>2. work.streams[r.stream].ended = TRUE \/ r.stream = me.stream
    BY <2>1 DEF Open, Process
  <2>3. QED
    BY <2>2
<1>2. QED
  BY <1>1, InvHolds, PTL

-----------------------------------------------------------------------------
(* Databases that hold more than others.                                   *)

Full(d) == Shaped(d) /\ d.events \in Seq(Event)

MoreRows(d, e) == d.raw \subseteq e.raw /\ d.platform \subseteq e.platform
MoreEvents(d, e) == IsPrefix(d.events, e.events)
MoreStreams(d, e) ==
  /\ Len(d.streams) <= Len(e.streams)
  /\ \A s \in DOMAIN d.streams :
       /\ e.streams[s].boot = d.streams[s].boot
       /\ d.streams[s].ended => e.streams[s].ended
MoreCounts(d, e) ==
  \A q \in d.rollups : \E r \in e.rollups : r.bucket = q.bucket /\ q.counts \subseteq r.counts

Wider(d, e) == MoreRows(d, e) /\ MoreEvents(d, e) /\ MoreStreams(d, e) /\ MoreCounts(d, e)

LEMMA WiderSelf ==
  ASSUME NEW d PROVE Wider(d, d)
BY DEF Wider, MoreRows, MoreEvents, MoreStreams, MoreCounts, IsPrefix

LEMMA PrefixPoints ==
  ASSUME NEW s \in Seq(Event), NEW t \in Seq(Event)
  PROVE  IsPrefix(s, t) <=> Len(s) <= Len(t) /\ \A i \in 1..Len(s) : s[i] = t[i]
<1>1. CASE Len(s) <= Len(t)
  <2>1. /\ SubSeq(s, 1, Len(s)) = [i \in 1..Len(s) |-> s[i]]
        /\ SubSeq(t, 1, Len(s)) = [i \in 1..Len(s) |-> t[i]]
    BY <1>1
  <2>2. QED
    BY <1>1, <2>1 DEF IsPrefix
<1>2. CASE ~(Len(s) <= Len(t))
  BY <1>2 DEF IsPrefix
<1>3. QED
  BY <1>1, <1>2

LEMMA WiderChain ==
  ASSUME NEW d, NEW e, NEW f, Full(d), Full(e), Full(f), Wider(d, e), Wider(e, f)
  PROVE  Wider(d, f)
<1>1. MoreRows(d, f)
  BY DEF Wider, MoreRows
<1>2. MoreEvents(d, f)
  BY PrefixPoints DEF Wider, MoreEvents, Full
<1>3. MoreStreams(d, f)
  <2>1. /\ DOMAIN d.streams = 1..Len(d.streams) /\ Len(d.streams) \in Nat
        /\ DOMAIN e.streams = 1..Len(e.streams) /\ Len(e.streams) \in Nat
        /\ Len(f.streams) \in Nat
    BY DEF Full, Shaped
  <2>2. MoreStreams(d, e) /\ MoreStreams(e, f)
    BY DEF Wider
  <2>3. QED
    BY <2>1, <2>2 DEF MoreStreams
<1>4. MoreCounts(d, f)
  <2> SUFFICES ASSUME NEW q \in d.rollups
               PROVE  \E r \in f.rollups : r.bucket = q.bucket /\ q.counts \subseteq r.counts
    BY DEF MoreCounts
  <2>1. PICK r \in e.rollups : r.bucket = q.bucket /\ q.counts \subseteq r.counts
    BY DEF Wider, MoreCounts
  <2>2. PICK s \in f.rollups : s.bucket = r.bucket /\ r.counts \subseteq s.counts
    BY DEF Wider, MoreCounts
  <2>3. QED
    BY <2>1, <2>2
<1>5. QED
  BY <1>1, <1>2, <1>3, <1>4 DEF Wider

(* A plain write: the rollups stay, and nothing else is lost.              *)
Plain(d, e) == Full(e) /\ Wider(d, e) /\ e.rollups = d.rollups

LEMMA PlainEvent ==
  ASSUME NEW d, Full(d), ended \in Nat, NEW key \in {"connection", "disk", "stream", "value"},
         NEW old \in Word, NEW new \in Word
  PROVE  Plain(d, WithEvent(d, key, old, new)) /\ WithEvent(d, key, old, new).raw = d.raw
<1> DEFINE x == [key |-> key, process |-> Process, old |-> old, new |-> new]
           E == Append(d.events, x)
           e == [d EXCEPT !.events = E]
<1>1. x \in Event
  BY DEF Event, Process
<1> HIDE DEF x
<1>2. E \in Seq(Event) /\ Len(d.events) <= Len(E) /\ \A i \in 1..Len(d.events) : d.events[i] = E[i]
  BY <1>1 DEF Full
<1> HIDE DEF E
<1>3. WithEvent(d, key, old, new) = e
  BY DEF WithEvent, x, E, Full, Shaped
<1>4. /\ e.events = E /\ e.raw = d.raw /\ e.rollups = d.rollups /\ e.streams = d.streams
      /\ e.platform = d.platform /\ Shaped(e)
  BY DEF Full, Shaped
<1> HIDE DEF e
<1>5. MoreEvents(d, e)
  BY <1>2, <1>4, PrefixPoints DEF MoreEvents, Full
<1>6. MoreRows(d, e) /\ MoreStreams(d, e) /\ MoreCounts(d, e)
  BY <1>4 DEF MoreRows, MoreStreams, MoreCounts
<1>7. QED
  BY <1>2, <1>3, <1>4, <1>5, <1>6 DEF Plain, Wider, Full

LEMMA PlainPlatform ==
  ASSUME NEW d, Full(d), NEW id
  PROVE  Plain(d, WithPlatform(d, id)) /\ WithPlatform(d, id).raw = d.raw
<1> DEFINE P == d.platform \cup {id}
           e == [d EXCEPT !.platform = P]
<1>1. d.platform \subseteq P
  OBVIOUS
<1>2. WithPlatform(d, id) = e
  BY DEF WithPlatform, Full, Shaped
<1> HIDE DEF P
<1>3. /\ e.events = d.events /\ e.raw = d.raw /\ e.rollups = d.rollups /\ e.streams = d.streams
      /\ e.platform = P /\ Shaped(e)
  BY DEF Full, Shaped
<1> HIDE DEF e
<1>4. MoreRows(d, e) /\ MoreStreams(d, e) /\ MoreCounts(d, e) /\ MoreEvents(d, e)
  BY <1>1, <1>3 DEF MoreRows, MoreStreams, MoreCounts, MoreEvents, IsPrefix
<1>5. QED
  BY <1>2, <1>3, <1>4 DEF Plain, Wider, Full

LEMMA PlainStream ==
  ASSUME NEW d, Full(d), NEW boot \in 1..MaxBoot, ended \in Nat
  PROVE  Plain(d, WithStream(d, boot)) /\ WithStream(d, boot).raw = d.raw
<1> DEFINE e == WithStream(d, boot)
<1>1. /\ Shaped(e) /\ e.raw = d.raw /\ Len(e.streams) = Len(d.streams) + 1
      /\ \A i \in 1..Len(d.streams) : e.streams[i] = d.streams[i]
  BY StreamBegins DEF Full
<1>2. e.events = d.events /\ e.rollups = d.rollups /\ e.platform = d.platform
  BY DEF WithStream, Full, Shaped
<1> HIDE DEF e
<1>3. MoreRows(d, e) /\ MoreCounts(d, e) /\ MoreEvents(d, e)
  BY <1>1, <1>2 DEF MoreRows, MoreCounts, MoreEvents, IsPrefix
<1>4. MoreStreams(d, e)
  <2>1. DOMAIN d.streams = 1..Len(d.streams) /\ Len(d.streams) \in Nat
    BY DEF Full, Shaped
  <2>2. QED
    BY <1>1, <2>1 DEF MoreStreams
<1>5. QED
  BY <1>1, <1>2, <1>3, <1>4 DEF Plain, Wider, Full, e

LEMMA PlainEnd ==
  ASSUME NEW d, Full(d), NEW s \in 1..Len(d.streams)
  PROVE  Plain(d, WithEnd(d, s)) /\ WithEnd(d, s).raw = d.raw
<1> DEFINE e == WithEnd(d, s)
<1>1. /\ Shaped(e) /\ e.raw = d.raw /\ Len(e.streams) = Len(d.streams)
      /\ \A i \in 1..Len(d.streams) : /\ e.streams[i].boot = d.streams[i].boot
                                      /\ i # s => e.streams[i] = d.streams[i]
      /\ e.streams[s].ended = TRUE
  BY StreamEnds DEF Full
<1>2. e.events = d.events /\ e.rollups = d.rollups /\ e.platform = d.platform
  BY DEF WithEnd, Full, Shaped
<1> HIDE DEF e
<1>3. MoreRows(d, e) /\ MoreCounts(d, e) /\ MoreEvents(d, e)
  BY <1>1, <1>2 DEF MoreRows, MoreCounts, MoreEvents, IsPrefix
<1>4. MoreStreams(d, e)
  <2> SUFFICES ASSUME NEW j \in 1..Len(d.streams)
               PROVE  /\ e.streams[j].boot = d.streams[j].boot
                      /\ d.streams[j].ended => e.streams[j].ended
    <3>1. DOMAIN d.streams = 1..Len(d.streams) /\ Len(d.streams) \in Nat
      BY DEF Full, Shaped
    <3>2. QED
      BY <1>1, <3>1 DEF MoreStreams
  <2>1. CASE j = s
    BY <1>1, <2>1
  <2>2. CASE j # s
    BY <1>1, <2>2
  <2>3. QED
    BY <2>1, <2>2
<1>5. QED
  BY <1>1, <1>2, <1>3, <1>4 DEF Plain, Wider, Full, e

LEMMA PlainSample ==
  ASSUME NEW d, Full(d), NEW x, x.id \in Nat, x.sequence \in Sequence, x.stream \in Nat
  PROVE  Plain(d, WithSample(d, x)) /\ WithSample(d, x).raw = d.raw \cup {x}
<1> DEFINE e == WithSample(d, x)
<1>1. Shaped(e) /\ e.raw = d.raw \cup {x} /\ e.streams = d.streams
  BY SampleStored DEF Full
<1>2. e.events = d.events /\ e.rollups = d.rollups /\ e.platform = d.platform
  BY DEF WithSample, Full, Shaped
<1> HIDE DEF e
<1>3. MoreRows(d, e) /\ MoreCounts(d, e) /\ MoreEvents(d, e) /\ MoreStreams(d, e)
  BY <1>1, <1>2 DEF MoreRows, MoreCounts, MoreEvents, MoreStreams, IsPrefix
<1>4. QED
  BY <1>1, <1>2, <1>3 DEF Plain, Wider, Full, e

-----------------------------------------------------------------------------
(* The invariant.  Of the committed database d, the open transaction w and *)
(* the rollup m in memory:                                                 *)

InMemory(m, q) == m.loaded = TRUE /\ q.bucket = m.bucket /\ q.counts \subseteq m.counts

(* what is open holds all that is committed, and of rollups nothing else   *)
(* than the one in memory, which counts what the stored one counts;        *)
Grown(d, w, m) ==
  /\ Wider(d, w)
  /\ \A q \in w.rollups : q \in d.rollups \/ InMemory(m, q)
  /\ \A q \in d.rollups : m.loaded = TRUE /\ q.bucket = m.bucket => InMemory(m, q)

(* the rollup in memory may be let go;                                     *)
Settled(d, w, m) ==
  /\ w.rollups \subseteq d.rollups
  /\ m.loaded = TRUE => \E q \in d.rollups : q.bucket = m.bucket /\ m.counts \subseteq q.counts

(* each sample is counted, but for x and, while it is busy, the one of     *)
(* tick n;                                                                 *)
IsCounted(d, m, r) ==
  \/ \E q \in d.rollups : q.bucket = Bucket(r.time) /\ r.id \in q.counts
  \/ m.loaded = TRUE /\ m.bucket = Bucket(r.time) /\ r.id \in m.counts
Complete(d, w, m, x, n, busy) ==
  \A r \in w.raw : r.id \in x \/ IsCounted(d, m, r) \/ (r.id = n /\ busy)

(* and only samples are counted.                                           *)
Exists(d, b, i) == \E r \in d.raw : r.id = i /\ Bucket(r.time) = b
Sound(d, m) ==
  /\ \A q \in d.rollups : \A i \in q.counts : Exists(d, q.bucket, i)
  /\ m.loaded = TRUE => \A i \in m.counts : Exists(d, m.bucket, i)

(* Between the sample and its count, it is stored under its time.          *)
Counting == {"turn", "count"}
Pending ==
  tick.at \in Counting =>
    /\ \E r \in db.raw : r.id = ticks /\ r.time = tick.time
    /\ \A r \in work.raw : r.id = ticks => r.time = tick.time

LettingGo == At("stopping") \/ (At("count") /\ OtherMinute)

RollupInv ==
  /\ Full(db) /\ Full(work) /\ me.value \in Word /\ me.connection \in Word
  /\ me.rollup.loaded \in BOOLEAN
  /\ Grown(db, work, me.rollup)
  /\ LettingGo => Settled(db, work, me.rollup)
  /\ Complete(db, work, me.rollup, missed, ticks, tick.at \in Counting)
  /\ Sound(db, me.rollup)
  /\ Pending

LEMMA RollupInit == Init => RollupInv
<1> SUFFICES ASSUME Init PROVE RollupInv
  OBVIOUS
<1>1. /\ work = db /\ db.raw = {} /\ db.rollups = {} /\ tick.at = "wait" /\ db.events = <<>>
      /\ me.rollup = NoRollup /\ me.value = "unseen" /\ me.connection = "unknown" /\ Shaped(db)
  BY DEF Init, Fresh, Shaped
<1>2. Full(db)
  BY <1>1 DEF Full
<1>3. NoRollup.loaded = FALSE
  BY DEF NoRollup
<1>4. Grown(db, work, me.rollup) /\ Sound(db, me.rollup)
  BY <1>1, <1>3, WiderSelf DEF Grown, Sound
<1>5. me.value \in Word /\ me.connection \in Word /\ me.rollup.loaded \in BOOLEAN
  BY <1>1, <1>3 DEF Word
<1>6. ~LettingGo /\ Pending
  BY <1>1 DEF LettingGo, At, Pending, Counting
<1>7. Complete(db, work, me.rollup, missed, ticks, tick.at \in Counting)
  BY <1>1 DEF Complete
<1>8. QED
  BY <1>1, <1>2, <1>4, <1>5, <1>6, <1>7 DEF RollupInv

-----------------------------------------------------------------------------
(* What a write does.                                                      *)

Wrote(new) == Kept \/ Write(new) \/ WriteFails(new)

LEMMA PlainWrite ==
  ASSUME Full(db), Full(work), NEW m, Grown(db, work, m), NEW new, Plain(work, new), Wrote(new)
  PROVE  /\ Full(db') /\ Full(work') /\ Wider(db, db') /\ Grown(db', work', m)
         /\ work'.raw \subseteq new.raw /\ db'.rollups \subseteq db.rollups \cup work.rollups
<1>1. Full(new) /\ Wider(work, new) /\ new.rollups = work.rollups
  BY DEF Plain
<1>2. Wider(db, work) /\ Wider(db, new)
  BY <1>1, WiderChain DEF Grown
<1>3. Wider(db, db) /\ Wider(new, new)
  BY WiderSelf
<1>4. db.raw \subseteq new.raw /\ work.raw \subseteq new.raw
  BY <1>1, <1>2 DEF Wider, MoreRows
<1>5. CASE Write(new)
  <2>1. \A q \in new.rollups : m.loaded = TRUE /\ q.bucket = m.bucket => InMemory(m, q)
    BY <1>1 DEF Grown
  <2>2. QED
    BY <1>1, <1>2, <1>3, <1>5, <2>1 DEF Write, Grown
<1>6. CASE Kept \/ WriteFails(new)
  <2>1. db' = db /\ work' \in {work, new, db}
    BY <1>6 DEF Kept, WriteFails
  <2>2. QED
    BY <1>1, <1>2, <1>3, <1>4, <2>1 DEF Grown
<1>7. QED
  BY <1>5, <1>6 DEF Wrote

(* A rollup that counts what its stored one counts is written.             *)
LEMMA RollupWrite ==
  ASSUME Full(db), Full(work), Wider(db, work), NEW m, m.loaded = TRUE,
         \A q \in db.rollups : q.bucket = m.bucket => InMemory(m, q),
         \A q \in work.rollups : q \in db.rollups \/ InMemory(m, q),
         Wrote(WithRollup(work, m))
  PROVE  /\ Full(db') /\ Full(work') /\ Wider(db, db') /\ Grown(db', work', m)
         /\ work'.raw \subseteq work.raw
         /\ \A q \in db'.rollups : q \in db.rollups \/ InMemory(m, q)
         /\ Write(WithRollup(work, m)) => Settled(db', work', m)
<1> DEFINE x == [bucket |-> m.bucket, counts |-> m.counts]
           R == {r \in work.rollups : r.bucket # m.bucket} \cup {x}
           new == WithRollup(work, m)
<1>1. x.bucket = m.bucket /\ x.counts = m.counts /\ InMemory(m, x)
  BY DEF InMemory
<1> HIDE DEF x
<1>2. /\ x \in R
      /\ \A q \in R : q.bucket = m.bucket => q = x
      /\ \A q \in R : q \in work.rollups \/ q = x
      /\ \A q \in work.rollups : q.bucket # m.bucket => q \in R
  BY <1>1
<1>3. new = [work EXCEPT !.rollups = R]
  BY DEF WithRollup, x, Full, Shaped
<1> HIDE DEF R
<1>4. /\ new.rollups = R /\ new.raw = work.raw /\ new.events = work.events
      /\ new.streams = work.streams /\ new.platform = work.platform /\ Full(new)
  BY <1>3 DEF Full, Shaped
<1> HIDE DEF new
<1>5. MoreRows(db, new) /\ MoreEvents(db, new) /\ MoreStreams(db, new)
  BY <1>4 DEF Wider, MoreRows, MoreEvents, MoreStreams
<1>6. MoreCounts(db, new)
  <2> SUFFICES ASSUME NEW q \in db.rollups
               PROVE  \E r \in R : r.bucket = q.bucket /\ q.counts \subseteq r.counts
    BY <1>4 DEF MoreCounts
  <2>1. CASE q.bucket = m.bucket
    BY <1>1, <1>2, <2>1 DEF InMemory
  <2>2. CASE q.bucket # m.bucket
    <3>1. PICK r \in work.rollups : r.bucket = q.bucket /\ q.counts \subseteq r.counts
      BY DEF Wider, MoreCounts
    <3>2. QED
      BY <1>2, <2>2, <3>1
  <2>3. QED
    BY <2>1, <2>2
<1>7. Wider(db, new) /\ Wider(new, new) /\ Wider(db, db)
  BY <1>5, <1>6, WiderSelf DEF Wider
<1>8. \A q \in R : q \in db.rollups \/ InMemory(m, q)
  BY <1>1, <1>2
<1>9. CASE Write(new)
  <2>1. \A q \in R : q.bucket = m.bucket => InMemory(m, q)
    BY <1>1, <1>2
  <2>2. db' = new /\ work' = new
    BY <1>9 DEF Write
  <2>3. Grown(db', work', m)
    BY <1>4, <1>7, <2>1, <2>2 DEF Grown
  <2>4. Settled(db', work', m)
    BY <1>1, <1>2, <1>4, <2>2 DEF Settled
  <2>5. QED
    BY <1>4, <1>7, <1>8, <2>2, <2>3, <2>4
<1>10. CASE (Kept \/ WriteFails(new)) /\ ~Write(new)
  <2>1. db' = db /\ work' \in {work, new, db}
    BY <1>10 DEF Kept, WriteFails
  <2>2. Grown(db', work', m)
    BY <1>4, <1>7, <1>8, <2>1 DEF Grown
  <2>3. work'.raw \subseteq work.raw /\ Full(work') /\ Full(db')
    BY <1>4, <2>1 DEF Wider, MoreRows
  <2>4. QED
    BY <1>7, <1>10, <2>1, <2>2, <2>3 DEF new
<1>11. QED
  BY <1>9, <1>10 DEF Wrote, new

LEMMA CountedStays ==
  ASSUME NEW d, NEW e, NEW m, NEW r, MoreCounts(d, e), IsCounted(d, m, r)
  PROVE  IsCounted(e, m, r)
<1>1. CASE m.loaded = TRUE /\ m.bucket = Bucket(r.time) /\ r.id \in m.counts
  BY <1>1 DEF IsCounted
<1>2. CASE \E q \in d.rollups : q.bucket = Bucket(r.time) /\ r.id \in q.counts
  <2>1. PICK q \in d.rollups : q.bucket = Bucket(r.time) /\ r.id \in q.counts
    BY <1>2
  <2>2. PICK s \in e.rollups : s.bucket = q.bucket /\ q.counts \subseteq s.counts
    BY DEF MoreCounts
  <2>3. QED
    BY <2>1, <2>2 DEF IsCounted
<1>3. QED
  BY <1>1, <1>2 DEF IsCounted

(* What is counted in memory is counted in the database, once settled.     *)
LEMMA CountedSettled ==
  ASSUME NEW d, NEW w, NEW m, NEW m2, NEW r, Settled(d, w, m), IsCounted(d, m, r)
  PROVE  IsCounted(d, m2, r)
<1>1. CASE m.loaded = TRUE /\ m.bucket = Bucket(r.time) /\ r.id \in m.counts
  <2>1. PICK q \in d.rollups : q.bucket = m.bucket /\ m.counts \subseteq q.counts
    BY <1>1 DEF Settled
  <2>2. QED
    BY <1>1, <2>1 DEF IsCounted
<1>2. CASE \E q \in d.rollups : q.bucket = Bucket(r.time) /\ r.id \in q.counts
  BY <1>2 DEF IsCounted
<1>3. QED
  BY <1>1, <1>2 DEF IsCounted

LEMMA SoundStays ==
  ASSUME NEW d, NEW e, NEW m, Sound(d, m), d.raw \subseteq e.raw,
         \A q \in e.rollups : q \in d.rollups \/ InMemory(m, q)
  PROVE  Sound(e, m)
<1>1. \A b, i : Exists(d, b, i) => Exists(e, b, i)
  BY DEF Exists
<1>2. \A q \in e.rollups : \A i \in q.counts : Exists(d, q.bucket, i)
  BY DEF Sound, InMemory
<1>3. QED
  BY <1>1, <1>2 DEF Sound

(* A step that writes no rollup and no sample, outside of the count.       *)
LEMMA PlainStep ==
  ASSUME RollupInv, NEW new, Plain(work, new), new.raw = work.raw, Wrote(new),
         me'.rollup = me.rollup, me'.value \in Word, me'.connection \in Word,
         missed' = missed, tick.at \notin Counting, tick'.at \notin Counting \cup {"stopping"}
  PROVE  RollupInv' /\ Wider(db, db')
<1> DEFINE m == me.rollup
<1>1. /\ Full(db) /\ Full(work) /\ Grown(db, work, m) /\ Sound(db, m)
      /\ Complete(db, work, m, missed, ticks, FALSE) /\ m.loaded \in BOOLEAN
  BY DEF RollupInv, Complete
<1> HIDE DEF m
<1>2. /\ Full(db') /\ Full(work') /\ Wider(db, db') /\ Grown(db', work', m)
      /\ work'.raw \subseteq work.raw /\ db'.rollups \subseteq db.rollups \cup work.rollups
  BY <1>1, PlainWrite
<1>3. db.raw \subseteq db'.raw /\ MoreCounts(db, db')
  BY <1>2 DEF Wider, MoreRows
<1>4. Sound(db', m)
  <2>1. \A q \in db'.rollups : q \in db.rollups \/ InMemory(m, q)
    BY <1>1, <1>2 DEF Grown
  <2>2. QED
    BY <1>1, <1>3, <2>1, SoundStays
<1>5. \A x, y : Complete(db', work', m, missed, x, y)
  BY <1>1, <1>2, <1>3, CountedStays DEF Complete
<1>6. ~LettingGo' /\ Pending'
  BY DEF LettingGo, At, Pending, Counting
<1>7. QED
  BY <1>1, <1>2, <1>4, <1>5, <1>6 DEF RollupInv, m

LEMMA PlainActions ==
  ASSUME RecorderInv, RollupInv,
         \/ TickConnected \/ TickDisconnected \/ DiskAsBefore \/ DiskChanges \/ SameStream
         \/ EndStream \/ BeginStream \/ AnnounceStream \/ RecordTransition \/ RecordPlatform
         \/ Restart
  PROVE  RollupInv' /\ Wider(db, db')
<1> DEFINE write(new) == Plain(work, new) /\ new.raw = work.raw /\ Wrote(new)
           recorder == /\ me'.rollup = me.rollup /\ me'.value \in Word
                       /\ me'.connection \in Word /\ missed' = missed
           place == tick.at \notin Counting /\ tick'.at \notin Counting \cup {"stopping"}
<1>1. /\ Full(work) /\ ContextInv /\ Shaped(work) /\ TickShape(tick) /\ RecorderShape(me)
      /\ me.value \in Word /\ me.connection \in Word /\ ended \in Nat
      /\ Agrees(work.streams, work.raw, me, tick, ticks, unknowns, ended + 1, board.boot)
  BY DEF RecorderInv, RollupInv, ContextInv, Fits
<1>2. \A key \in {"connection", "disk", "stream", "value"}, old \in Word, new \in Word :
        Wrote(WithEvent(work, key, old, new)) => write(WithEvent(work, key, old, new))
  BY <1>1, PlainEvent
<1>3. Kept => write(work)
  BY <1>1, WiderSelf DEF Plain, Wrote
<1>4. (\A at : Goto(at) => tick'.at = at) /\ (Wait => tick'.at = "wait") /\ (Drop => tick'.at = "wait")
  BY <1>1, TickMoves DEF Drop
<1>5. /\ missed' = missed /\ me' = me => recorder
      /\ \A x : /\ missed' = missed
                /\ \/ me' = [me EXCEPT !.limited = x] \/ me' = [me EXCEPT !.platform = x]
                   \/ me' = [me EXCEPT !.stream = x]
                => recorder
      /\ \A x \in Word : /\ missed' = missed
                           /\ \/ me' = [me EXCEPT !.value = x]
                              \/ me' = [me EXCEPT !.connection = x]
                           => recorder
      /\ \A x, y : missed' = missed /\ me' = [me EXCEPT !.boot = x, !.last = y] => recorder
  BY <1>1 DEF RecorderShape
<1> HIDE DEF write, recorder
<1>6. CASE TickConnected
  <2>1. "yes" \in Word /\ missed' = missed /\ me' = [me EXCEPT !.connection = "yes"]
    BY <1>6 DEF TickConnected, Word
  <2>2. write(work) \/ write(WithEvent(work, "connection", me.connection, "yes"))
    BY <1>1, <1>2, <1>3, <1>6, <2>1 DEF TickConnected, Wrote
  <2>3. place
    <3>1. tick'.at \in {"disk", "wait"} /\ tick.at = "wait"
      BY <1>4, <1>6 DEF TickConnected, At
    <3>2. QED
      BY <3>1 DEF Counting
  <2>4. recorder
    BY <1>5, <2>1
  <2>5. QED
    BY <2>2, <2>3, <2>4, PlainStep DEF write, recorder
<1>7. CASE TickDisconnected
  <2>1. "no" \in Word /\ missed' = missed /\ me' = [me EXCEPT !.connection = "no"]
    BY <1>7 DEF TickDisconnected, Word
  <2>2. write(WithEvent(work, "connection", me.connection, "no"))
    BY <1>1, <1>2, <1>7, <2>1 DEF TickDisconnected, Wrote
  <2>3. place
    BY <1>4, <1>7 DEF TickDisconnected, At, Counting
  <2>4. QED
    BY <1>5, <2>1, <2>2, <2>3, PlainStep DEF write, recorder
<1>8. CASE DiskAsBefore
  <2>1. write(work) /\ recorder
    BY <1>3, <1>5, <1>8 DEF DiskAsBefore
  <2>2. place
    BY <1>4, <1>8 DEF DiskAsBefore, At, Counting
  <2>3. QED
    BY <2>1, <2>2, PlainStep DEF write, recorder
<1>9. CASE DiskChanges
  <2>1. Limit(me.limited) \in Word /\ Limit(~me.limited) \in Word
    BY DEF Limit, Word
  <2>2. write(WithEvent(work, "disk", Limit(me.limited), Limit(~me.limited)))
    BY <1>2, <1>9, <2>1 DEF DiskChanges, Wrote
  <2>3. \E x : me' = [me EXCEPT !.limited = x]
    BY <1>9 DEF DiskChanges
  <2>4. place
    BY <1>4, <1>9 DEF DiskChanges, At, Counting
  <2>5. recorder
    BY <1>5, <1>9, <2>3 DEF DiskChanges
  <2>6. QED
    BY <2>2, <2>4, <2>5, PlainStep DEF write, recorder
<1>10. CASE SameStream
  <2>1. write(work) /\ recorder
    BY <1>3, <1>5, <1>10 DEF SameStream, Remember
  <2>2. place
    BY <1>4, <1>10 DEF SameStream, At, Counting
  <2>3. QED
    BY <2>1, <2>2, PlainStep DEF write, recorder
<1>11. CASE EndStream
  <2>1. \E new : write(new)
    <3>1. CASE me.stream = 0
      BY <1>3, <1>11, <3>1 DEF EndStream
    <3>2. CASE me.stream # 0
      <4>1. me.stream \in 1..Len(work.streams)
        BY <1>1, <3>2 DEF Agrees, Boots
      <4>2. Wrote(WithEnd(work, me.stream))
        BY <1>11, <3>2 DEF EndStream, Wrote
      <4>3. QED
        BY <1>1, <4>1, <4>2, PlainEnd DEF write
    <3>3. QED
      BY <3>1, <3>2
  <2>2. place
    BY <1>4, <1>11 DEF EndStream, At, Counting
  <2>3. recorder
    BY <1>5, <1>11 DEF EndStream
  <2>4. QED
    BY <2>1, <2>2, <2>3, PlainStep DEF write, recorder
<1>12. CASE BeginStream
  <2>1. write(WithStream(work, tick.snap.boot))
    <3>1. tick.snap.boot \in 1..MaxBoot
      BY <1>1, <1>12 DEF ContextInv, BeginStream, At, Outside
    <3>2. Wrote(WithStream(work, tick.snap.boot))
      BY <1>12 DEF BeginStream, Wrote
    <3>3. QED
      BY <1>1, <3>1, <3>2, PlainStream DEF write
  <2>2. place
    BY <1>4, <1>12 DEF BeginStream, At, Counting
  <2>3. missed' = missed /\ (me' = me \/ \E x : me' = [me EXCEPT !.stream = x])
    BY <1>12 DEF BeginStream
  <2>4. recorder
    BY <1>5, <2>3
  <2>5. QED
    BY <2>1, <2>2, <2>4, PlainStep DEF write, recorder
<1>13. CASE AnnounceStream
  <2>1. write(WithEvent(work, "stream", "none", "begun"))
    BY <1>2, <1>13 DEF AnnounceStream, Wrote, Word
  <2>2. place
    BY <1>4, <1>13 DEF AnnounceStream, At, Counting
  <2>3. recorder
    BY <1>5, <1>13 DEF AnnounceStream, Remember
  <2>4. QED
    BY <2>1, <2>2, <2>3, PlainStep DEF write, recorder
<1>14. CASE RecordTransition
  <2>1. At("transition") /\ missed' = missed /\ me' = [me EXCEPT !.value = tick.snap.value]
    BY <1>14 DEF RecordTransition, See
  <2>2. tick.snap.value \in Word
    BY <1>1, <2>1 DEF TickShape, At, Outside, InSnapshot, AfterSample, Snap, Word
  <2>3. write(work) \/ write(WithEvent(work, "value", me.value, tick.snap.value))
    BY <1>1, <1>2, <1>3, <1>14, <2>2 DEF RecordTransition, Wrote
  <2>4. place
    <3>1. tick'.at \in {"platform", "wait"}
      BY <1>4, <1>14 DEF RecordTransition
    <3>2. QED
      BY <2>1, <3>1 DEF At, Counting
  <2>5. recorder
    BY <1>5, <2>1, <2>2
  <2>6. QED
    BY <2>3, <2>4, <2>5, PlainStep DEF write, recorder
<1>15. CASE RecordPlatform
  <2>1. write(work) \/ write(WithPlatform(work, ticks))
    BY <1>1, <1>3, <1>15, PlainPlatform DEF RecordPlatform, Wrote, write
  <2>2. place
    BY <1>4, <1>15 DEF RecordPlatform, At, Counting
  <2>3. missed' = missed /\ (me' = me \/ \E x : me' = [me EXCEPT !.platform = x])
    BY <1>15 DEF RecordPlatform
  <2>4. recorder
    BY <1>5, <2>3
  <2>5. QED
    BY <2>1, <2>2, <2>4, PlainStep DEF write, recorder
<1>16. CASE Restart
  <2>1. write(work) /\ recorder
    BY <1>3, <1>5, <1>16 DEF Restart
  <2>2. place
    BY <1>4, <1>16 DEF Restart, At, Counting
  <2>3. QED
    BY <2>1, <2>2, PlainStep DEF write, recorder
<1>17. QED
  BY <1>6, <1>7, <1>8, <1>9, <1>10, <1>11, <1>12, <1>13, <1>14, <1>15, <1>16

-----------------------------------------------------------------------------
(* The sample and its count.                                               *)

LEMMA SampleStep ==
  ASSUME RecorderInv, RollupInv, RecordSample
  PROVE  RollupInv' /\ Wider(db, db')
<1> DEFINE m == me.rollup
           x == NewSample
           new == WithSample(work, x)
<1>1. /\ Full(db) /\ Full(work) /\ Grown(db, work, m) /\ Sound(db, m)
      /\ At("sample") /\ me' = me /\ ticks' = ticks
      /\ me.value \in Word /\ me.connection \in Word /\ m.loaded \in BOOLEAN
  BY DEF RollupInv, RecordSample, Quiet
<1>2. Complete(db, work, m, missed, ticks, FALSE)
  BY <1>1 DEF RollupInv, Complete, Counting, At
<1>3. /\ TickShape(tick) /\ RecorderShape(me) /\ ticks \in Nat
      /\ Agrees(work.streams, work.raw, me, tick, ticks, unknowns, ended + 1, board.boot)
  BY DEF RecorderInv, ContextInv, Fits
<1>4. tick.snap \in Snap
  BY <1>1, <1>3 DEF TickShape, At, Outside, InSnapshot, AfterSample
<1>5. x.id = ticks /\ x.stream = me.stream /\ x.sequence = tick.snap.sequence
  BY DEF NewSample
<1>6. x.id \in Nat /\ x.sequence \in Sequence /\ x.stream \in Nat
  BY <1>3, <1>4, <1>5 DEF Snap, RecorderShape
<1>7. \A r \in work.raw : r.id # ticks
  <2>1. \A r \in work.raw : r.id < ticks /\ r.id \in Nat
    BY <1>1, <1>3 DEF Agrees, Forward, At, InSnapshot, Full, Shaped
  <2>2. QED
    BY <1>3, <2>1
<1>8. \/ /\ Write(new) /\ missed' = missed
         /\ tick' = [at |-> "turn", snap |-> tick.snap, time |-> x.time]
      \/ WriteFails(new) /\ Drop /\ missed' = missed \cup {ticks}
  BY DEF RecordSample
<1> HIDE DEF m, x
<1>9. Plain(work, new) /\ new.raw = work.raw \cup {x}
  BY <1>1, <1>6, PlainSample
<1> HIDE DEF new
<1>10. /\ Full(db') /\ Full(work') /\ Wider(db, db') /\ Grown(db', work', m)
       /\ work'.raw \subseteq work.raw \cup {x} /\ db'.rollups \subseteq db.rollups \cup work.rollups
  BY <1>1, <1>8, <1>9, PlainWrite DEF Wrote
<1>11. db.raw \subseteq db'.raw /\ MoreCounts(db, db')
  BY <1>10 DEF Wider, MoreRows
<1>12. Sound(db', m)
  <2>1. \A q \in db'.rollups : q \in db.rollups \/ InMemory(m, q)
    BY <1>1, <1>10 DEF Grown
  <2>2. QED
    BY <1>1, <1>11, <2>1, SoundStays
<1>13. \A r \in work'.raw : r = x \/ r.id \in missed \/ IsCounted(db', m, r)
  <2> SUFFICES ASSUME NEW r \in work'.raw, r # x
               PROVE  r.id \in missed \/ IsCounted(db', m, r)
    OBVIOUS
  <2>1. r.id \in missed \/ IsCounted(db, m, r)
    BY <1>2, <1>10 DEF Complete
  <2>2. QED
    BY <1>11, <2>1, CountedStays
<1>14. m' = m
  BY <1>1 DEF m
<1>15. CASE Drop /\ missed' = missed \cup {ticks}
  <2>1. tick'.at = "wait"
    BY <1>3, <1>15, TickMoves DEF Drop
  <2>2. Complete(db', work', m, missed', ticks, FALSE)
    BY <1>5, <1>13, <1>15 DEF Complete
  <2>3. QED
    BY <1>1, <1>10, <1>12, <2>1, <2>2
       DEF RollupInv, LettingGo, At, Pending, Counting, m, Complete
<1>16. CASE /\ Write(new) /\ missed' = missed
            /\ tick' = [at |-> "turn", snap |-> tick.snap, time |-> x.time]
  <2>1. tick'.at = "turn" /\ tick'.time = x.time
    BY <1>16
  <2>2. Complete(db', work', m, missed, ticks, TRUE)
    BY <1>5, <1>13 DEF Complete
  <2>3. db'.raw = work.raw \cup {x} /\ work'.raw = work.raw \cup {x}
    BY <1>9, <1>16 DEF Write
  <2>4. Pending'
    BY <1>1, <1>5, <1>7, <2>1, <2>3 DEF Pending
  <2>5. ~LettingGo'
    BY <2>1 DEF LettingGo, At
  <2>6. QED
    BY <1>1, <1>10, <1>12, <1>16, <2>1, <2>2, <2>4, <2>5 DEF RollupInv, Counting, m
<1>17. QED
  BY <1>8, <1>15, <1>16

LEMMA CloseStep ==
  ASSUME RecorderInv, RollupInv, CloseMinute
  PROVE  RollupInv' /\ Wider(db, db')
<1> DEFINE m == me.rollup
           new == WithRollup(work, m)
<1>1. /\ Full(db) /\ Full(work) /\ Grown(db, work, m) /\ Sound(db, m) /\ Pending
      /\ Complete(db, work, m, missed, ticks, TRUE)
      /\ At("turn") /\ me' = me /\ ticks' = ticks
      /\ me.value \in Word /\ me.connection \in Word /\ m.loaded \in BOOLEAN
  BY DEF RollupInv, CloseMinute, Quiet, Complete
<1>2. TickShape(tick) /\ tick.at \in AfterSample /\ tick.at \in Counting
  BY <1>1 DEF RecorderInv, ContextInv, At, AfterSample, Counting
<1>3. tick = [at |-> "turn", snap |-> tick.snap, time |-> tick.time]
  BY <1>1, <1>2 DEF TickShape, At, AfterSample, Outside, InSnapshot
<1>4. Goto("count") => tick'.at = "count" /\ tick'.time = tick.time
  BY <1>3 DEF Goto
<1>5. Drop => tick'.at = "wait"
  BY <1>2, TickMoves DEF Drop
<1>6. /\ \E r \in db.raw : r.id = ticks /\ r.time = tick.time
      /\ \A r \in work.raw : r.id = ticks => r.time = tick.time
  BY <1>1, <1>2 DEF Pending
<1>7. CASE OtherMinute /\ m.loaded = TRUE
  <2>1. \/ Write(new) /\ Goto("count") /\ missed' = missed
        \/ WriteFails(new) /\ Drop /\ missed' = missed \cup {ticks}
    BY <1>7 DEF CloseMinute
  <2> HIDE DEF m
  <2>2. /\ Full(db') /\ Full(work') /\ Wider(db, db') /\ Grown(db', work', m)
        /\ work'.raw \subseteq work.raw
        /\ \A q \in db'.rollups : q \in db.rollups \/ InMemory(m, q)
        /\ Write(new) => Settled(db', work', m)
    BY <1>1, <1>7, <2>1, RollupWrite DEF Wrote, Grown
  <2> HIDE DEF new
  <2>3. db.raw \subseteq db'.raw /\ MoreCounts(db, db')
    BY <2>2 DEF Wider, MoreRows
  <2>4. Sound(db', m)
    BY <1>1, <2>2, <2>3, SoundStays
  <2>5. \A r \in work'.raw : r.id \in missed \/ r.id = ticks \/ IsCounted(db', m, r)
    BY <1>1, <2>2, <2>3, CountedStays DEF Complete
  <2>6. CASE Drop /\ missed' = missed \cup {ticks}
    <3>1. tick'.at = "wait"
      BY <1>5, <2>6
    <3>2. Complete(db', work', m, missed', ticks, FALSE)
      BY <2>5, <2>6 DEF Complete
    <3>3. QED
      BY <1>1, <2>2, <2>4, <3>1, <3>2
         DEF RollupInv, LettingGo, At, Pending, Counting, m, Complete
  <2>7. CASE Write(new) /\ Goto("count") /\ missed' = missed
    <3>1. tick'.at = "count" /\ tick'.time = tick.time
      BY <1>4, <2>7
    <3>2. Complete(db', work', m, missed, ticks, TRUE)
      BY <2>5 DEF Complete
    <3>3. Pending'
      BY <1>1, <1>6, <2>2, <2>3, <3>1 DEF Pending
    <3>4. Settled(db', work', m)
      BY <2>2, <2>7
    <3>5. QED
      BY <1>1, <2>2, <2>4, <2>7, <3>1, <3>2, <3>3, <3>4 DEF RollupInv, Counting, m
  <2>8. QED
    BY <2>1, <2>6, <2>7
<1>8. CASE ~(OtherMinute /\ m.loaded = TRUE)
  <2>1. Kept /\ Goto("count") /\ missed' = missed
    BY <1>1, <1>8 DEF CloseMinute
  <2>2. /\ db' = db /\ work' = work /\ me' = me /\ missed' = missed /\ ticks' = ticks
        /\ tick'.at = "count" /\ tick'.time = tick.time
    BY <1>1, <1>4, <2>1 DEF Kept
  <2>3. OtherMinute' => Settled(db, work, m)
    <3> SUFFICES ASSUME OtherMinute PROVE Settled(db, work, m)
      BY <2>2 DEF OtherMinute
    <3>1. m.loaded # TRUE
      BY <1>8
    <3> HIDE DEF m
    <3>2. QED
      BY <1>1, <3>1 DEF Grown, InMemory, Settled
  <2>4. Pending'
    BY <1>6, <2>2 DEF Pending
  <2>5. LettingGo' => Settled(db, work, m)
    BY <2>2, <2>3 DEF LettingGo, At
  <2>6. tick'.at \in Counting
    BY <2>2 DEF Counting
  <2>7. Wider(db, db') /\ Complete(db', work', me'.rollup, missed', ticks', TRUE)
    BY <1>1, <2>2, WiderSelf
  <2>8. QED
    BY <1>1, <2>2, <2>4, <2>5, <2>6, <2>7 DEF RollupInv
<1>9. QED
  BY <1>7, <1>8

LEMMA CountStep ==
  ASSUME RecorderInv, RollupInv, CountSample
  PROVE  RollupInv' /\ Wider(db, db')
<1> DEFINE m == me.rollup
           n == Counted
           new == WithRollup(work, n)
<1>1. /\ Full(db) /\ Full(work) /\ Grown(db, work, m) /\ Sound(db, m) /\ Pending
      /\ Complete(db, work, m, missed, ticks, TRUE)
      /\ At("count") /\ missed' = missed /\ me.value \in Word /\ me.connection \in Word
      /\ m.loaded \in BOOLEAN
      /\ OtherMinute => Settled(db, work, m)
  BY DEF RollupInv, CountSample, Complete, LettingGo
<1>2. TickShape(tick) /\ RecorderShape(me) /\ tick.at \in Counting
  BY <1>1 DEF RecorderInv, ContextInv, At, Counting
<1>3. me' = [me EXCEPT !.rollup = n]
  BY DEF CountSample
<1>4. me'.rollup = n /\ me'.value = me.value /\ me'.connection = me.connection
  BY <1>2, <1>3 DEF RecorderShape
<1>5. Wrote(new) /\ (Goto("transition") \/ Drop)
  BY DEF CountSample, Wrote
<1>6. tick'.at \in {"transition", "wait"}
  BY <1>2, <1>5, TickMoves DEF Drop
<1>7. /\ n.loaded = TRUE /\ n.bucket = Bucket(tick.time) /\ ticks \in n.counts
      /\ OtherMinute => n.counts = {ticks} \cup StoredCounts(n.bucket)
      /\ ~OtherMinute => n.counts = {ticks} \cup m.counts
  BY DEF Counted
<1>8. ~OtherMinute => m.loaded = TRUE /\ m.bucket = n.bucket /\ m.counts \subseteq n.counts
  BY <1>1, <1>7 DEF OtherMinute
<1>9. \A i : i \in StoredCounts(n.bucket) <=>
               \E q \in db.rollups : q.bucket = n.bucket /\ i \in q.counts
  BY DEF StoredCounts
<1>10. /\ \E r \in db.raw : r.id = ticks /\ r.time = tick.time
       /\ \A r \in work.raw : r.id = ticks => r.time = tick.time
  BY <1>1, <1>2 DEF Pending
<1> HIDE DEF m, n
<1>11. \A q \in db.rollups : q.bucket = n.bucket => InMemory(n, q)
  <2>1. CASE OtherMinute
    BY <1>7, <1>9, <2>1 DEF InMemory
  <2>2. CASE ~OtherMinute
    BY <1>1, <1>7, <1>8, <2>2 DEF Grown, InMemory
  <2>3. QED
    BY <2>1, <2>2
<1>12. \A q \in work.rollups : q \in db.rollups \/ InMemory(n, q)
  <2>1. CASE OtherMinute
    BY <1>1, <2>1 DEF Settled
  <2>2. CASE ~OtherMinute
    BY <1>1, <1>7, <1>8, <2>2 DEF Grown, InMemory
  <2>3. QED
    BY <2>1, <2>2
<1>13. \A r \in work.raw : r.id \in missed \/ IsCounted(db, n, r)
  <2> SUFFICES ASSUME NEW r \in work.raw, r.id \notin missed PROVE IsCounted(db, n, r)
    OBVIOUS
  <2>1. CASE r.id = ticks
    BY <1>7, <1>10, <2>1 DEF IsCounted
  <2>2. CASE r.id # ticks
    <3>1. IsCounted(db, m, r)
      BY <1>1, <2>2 DEF Complete
    <3>2. CASE OtherMinute
      BY <1>1, <3>1, <3>2, CountedSettled
    <3>3. CASE ~OtherMinute
      BY <1>7, <1>8, <3>1, <3>3 DEF IsCounted
    <3>4. QED
      BY <3>2, <3>3
  <2>3. QED
    BY <2>1, <2>2
<1>14. Sound(db, n)
  <2> SUFFICES ASSUME NEW i \in n.counts PROVE Exists(db, n.bucket, i)
    BY <1>1 DEF Sound
  <2>1. CASE i = ticks
    BY <1>7, <1>10, <2>1 DEF Exists
  <2>2. CASE i # ticks /\ OtherMinute
    <3>1. PICK q \in db.rollups : q.bucket = n.bucket /\ i \in q.counts
      BY <1>7, <1>9, <2>2
    <3>2. QED
      BY <1>1, <3>1 DEF Sound
  <2>3. CASE i # ticks /\ ~OtherMinute
    BY <1>1, <1>7, <1>8, <2>3 DEF Sound
  <2>4. QED
    BY <2>1, <2>2, <2>3
<1>15. /\ Full(db') /\ Full(work') /\ Wider(db, db') /\ Grown(db', work', n)
       /\ work'.raw \subseteq work.raw
       /\ \A q \in db'.rollups : q \in db.rollups \/ InMemory(n, q)
  BY <1>1, <1>5, <1>7, <1>11, <1>12, RollupWrite DEF Grown
<1>16. db.raw \subseteq db'.raw /\ MoreCounts(db, db')
  BY <1>15 DEF Wider, MoreRows
<1>17. Sound(db', n)
  BY <1>14, <1>15, <1>16, SoundStays
<1>18. \A x, y : Complete(db', work', n, missed, x, y)
  BY <1>13, <1>15, <1>16, CountedStays DEF Complete
<1>19. ~LettingGo' /\ Pending'
  BY <1>6 DEF LettingGo, At, Pending, Counting
<1>20. QED
  BY <1>1, <1>4, <1>7, <1>15, <1>17, <1>18, <1>19 DEF RollupInv

LEMMA LoadFailsStep ==
  ASSUME RecorderInv, RollupInv, LoadFails
  PROVE  RollupInv' /\ Wider(db, db')
<1>1. /\ Full(db) /\ Full(work) /\ Grown(db, work, me.rollup) /\ Sound(db, me.rollup)
      /\ Complete(db, work, me.rollup, missed, ticks, TRUE)
      /\ me.value \in Word /\ me.connection \in Word /\ me.rollup.loaded \in BOOLEAN
  BY DEF RollupInv, Complete
<1>2. /\ db' = db /\ work' = work /\ me' = me /\ missed' = missed \cup {ticks} /\ Drop
  BY DEF LoadFails
<1>3. tick'.at = "wait"
  BY <1>2, TickMoves DEF RecorderInv, ContextInv, Drop
<1>4. \A x, y : Complete(db, work, me.rollup, missed \cup {ticks}, x, y)
  BY <1>1 DEF Complete
<1>5. ~LettingGo' /\ Pending'
  BY <1>3 DEF LettingGo, At, Pending, Counting
<1>6. QED
  BY <1>1, <1>2, <1>4, <1>5, WiderSelf DEF RollupInv

-----------------------------------------------------------------------------
(* The end of the process.                                                 *)

LEMMA StopRollupStep ==
  ASSUME RecorderInv, RollupInv, StopRollup
  PROVE  RollupInv' /\ Wider(db, db')
<1> DEFINE m == me.rollup
           new == WithRollup(work, m)
<1>1. /\ Full(db) /\ Full(work) /\ Grown(db, work, m) /\ Sound(db, m)
      /\ me.value \in Word /\ me.connection \in Word /\ m.loaded \in BOOLEAN
      /\ me' = me /\ missed' = missed /\ At("wait") /\ Goto("stopping")
  BY DEF RollupInv, StopRollup
<1>2. Complete(db, work, m, missed, ticks, FALSE)
  BY <1>1 DEF RollupInv, Complete, Counting, At
<1>3. tick'.at = "stopping"
  BY <1>1, TickMoves DEF RecorderInv, ContextInv
<1>4. /\ m.loaded = TRUE => Write(new)
      /\ m.loaded # TRUE => Kept
  BY <1>1 DEF StopRollup
<1>5. ~At("count")' /\ Pending'
  BY <1>3 DEF At, Pending, Counting
<1>6. tick'.at \notin Counting
  BY <1>3 DEF Counting
<1> HIDE DEF m
<1>7. CASE m.loaded = TRUE
  <2>1. /\ Full(db') /\ Full(work') /\ Wider(db, db') /\ Grown(db', work', m)
        /\ work'.raw \subseteq work.raw
        /\ \A q \in db'.rollups : q \in db.rollups \/ InMemory(m, q)
        /\ Settled(db', work', m)
    BY <1>1, <1>4, <1>7, RollupWrite DEF Wrote, Grown
  <2>2. db.raw \subseteq db'.raw /\ MoreCounts(db, db')
    BY <2>1 DEF Wider, MoreRows
  <2>3. Sound(db', m)
    BY <1>1, <2>1, <2>2, SoundStays
  <2>4. \A x, y : Complete(db', work', m, missed, x, y)
    BY <1>2, <2>1, <2>2, CountedStays DEF Complete
  <2>5. QED
    BY <1>1, <1>5, <2>1, <2>3, <2>4 DEF RollupInv, m
<1>8. CASE m.loaded # TRUE
  <2>1. db' = db /\ work' = work
    BY <1>4, <1>8 DEF Kept
  <2>2. Settled(db, work, m)
    BY <1>1, <1>8 DEF Grown, InMemory, Settled
  <2>3. \A x, y : Complete(db, work, m, missed, x, y)
    BY <1>2 DEF Complete
  <2>4. QED
    BY <1>1, <1>5, <2>1, <2>2, <2>3, WiderSelf DEF RollupInv, m
<1>9. QED
  BY <1>7, <1>8

(* A process that is over has nothing in memory.                           *)
LEMMA OverEnds ==
  ASSUME Over
  PROVE  /\ me'.rollup.loaded = FALSE /\ me'.value \in Word /\ me'.connection \in Word
         /\ ~LettingGo' /\ Pending' /\ tick'.at \notin Counting
<1>1. me'.rollup = NoRollup /\ me'.value = "unseen" /\ me'.connection = "unknown"
  BY DEF Over, Fresh
<1>2. tick'.at = "down"
  BY DEF Over
<1>3. QED
  BY <1>1, <1>2 DEF NoRollup, Word, LettingGo, At, Pending, Counting

LEMMA StopStreamStep ==
  ASSUME RecorderInv, RollupInv, StopStream
  PROVE  RollupInv' /\ Wider(db, db')
<1> DEFINE m == me.rollup
           n == me'.rollup
           left == IF me.stream = 0 THEN work ELSE WithEnd(work, me.stream)
<1>1. /\ Full(db) /\ Full(work) /\ Grown(db, work, m) /\ Sound(db, m)
      /\ At("stopping") /\ Over /\ missed' = missed /\ db' = left /\ work' = left
      /\ Settled(db, work, m)
  BY DEF RollupInv, StopStream, LettingGo
<1>2. Complete(db, work, m, missed, ticks, FALSE)
  BY <1>1 DEF RollupInv, Complete, Counting, At
<1>3. Plain(work, left) /\ left.raw = work.raw
  <2>1. CASE me.stream = 0
    BY <1>1, <2>1, WiderSelf DEF Plain
  <2>2. CASE me.stream # 0
    <3>1. me.stream \in 1..Len(work.streams)
      BY <2>2 DEF RecorderInv, Fits, Agrees, Boots
    <3>2. QED
      BY <1>1, <2>2, <3>1, PlainEnd
  <2>3. QED
    BY <2>1, <2>2
<1>4. /\ n.loaded = FALSE /\ me'.value \in Word /\ me'.connection \in Word
      /\ ~LettingGo' /\ Pending' /\ tick'.at \notin Counting
  BY <1>1, OverEnds
<1> HIDE DEF m, n, left
<1>5. Full(left) /\ Wider(work, left) /\ left.rollups = work.rollups
  BY <1>3 DEF Plain
<1>6. Wider(db, left) /\ Wider(left, left)
  BY <1>1, <1>5, WiderChain, WiderSelf DEF Grown
<1>7. db.raw \subseteq left.raw /\ MoreCounts(db, left)
  BY <1>6 DEF Wider, MoreRows
<1>8. Grown(left, left, n)
  BY <1>4, <1>6 DEF Grown
<1>9. \A x, y : Complete(left, left, n, missed, x, y)
  <2>1. \A r \in work.raw : r.id \in missed \/ IsCounted(db, n, r)
    BY <1>1, <1>2, CountedSettled DEF Complete
  <2>2. QED
    BY <1>3, <1>7, <2>1, CountedStays DEF Complete
<1>10. Sound(left, n)
  <2>1. Sound(db, n)
    BY <1>1, <1>4 DEF Sound
  <2>2. \A q \in left.rollups : q \in db.rollups
    BY <1>1, <1>5 DEF Settled
  <2>3. QED
    BY <1>7, <2>1, <2>2, SoundStays
<1>11. QED
  BY <1>1, <1>4, <1>5, <1>6, <1>8, <1>9, <1>10 DEF RollupInv, n

LEMMA KillStep ==
  ASSUME RecorderInv, RollupInv, Kill
  PROVE  RollupInv' /\ Wider(db, db')
<1> DEFINE m == me.rollup
           n == me'.rollup
<1>1. /\ Full(db) /\ Full(work) /\ Grown(db, work, m) /\ Sound(db, m)
      /\ m.loaded \in BOOLEAN
      /\ Complete(db, work, m, missed, ticks, tick.at \in Counting)
      /\ Over /\ db' = db /\ work' = db
      /\ missed' = missed \cup Uncounted(db) \cup InTick
  BY DEF RollupInv, Kill
<1>2. /\ n.loaded = FALSE /\ me'.value \in Word /\ me'.connection \in Word
      /\ ~LettingGo' /\ Pending' /\ tick'.at \notin Counting
  BY <1>1, OverEnds
<1>3. tick.at \in Counting => ticks \in InTick
  BY DEF InTick, At, Counting
<1>4. m.loaded = TRUE => \A i \in m.counts :
        i \in Uncounted(db) \/ \E q \in db.rollups : q.bucket = m.bucket /\ i \in q.counts
  BY DEF Uncounted
<1> HIDE DEF m, n
<1>5. \A r \in db.raw : r.id \in missed' \/ IsCounted(db, n, r)
  <2> SUFFICES ASSUME NEW r \in db.raw, r.id \notin missed' PROVE IsCounted(db, n, r)
    OBVIOUS
  <2>1. r \in work.raw
    BY <1>1 DEF Grown, Wider, MoreRows
  <2>2. IsCounted(db, m, r)
    BY <1>1, <1>3, <2>1 DEF Complete
  <2>3. QED
    BY <1>1, <1>4, <2>2 DEF IsCounted
<1>6. \A x, y : Complete(db, db, n, missed', x, y)
  BY <1>5 DEF Complete
<1>7. Grown(db, db, n) /\ Sound(db, n)
  BY <1>1, <1>2, WiderSelf DEF Grown, Sound
<1>8. QED
  BY <1>1, <1>2, <1>6, <1>7, WiderSelf DEF RollupInv, n

LEMMA RollupStep ==
  ASSUME RecorderInv, RollupInv, [Next]_vars
  PROVE  RollupInv' /\ Wider(db, db')
<1>1. CASE \/ TickConnected \/ TickDisconnected \/ DiskAsBefore \/ DiskChanges \/ SameStream
           \/ EndStream \/ BeginStream \/ AnnounceStream \/ RecordTransition \/ RecordPlatform
           \/ Restart
  BY <1>1, PlainActions
<1>2. CASE RecordSample \/ CloseMinute \/ CountSample \/ LoadFails
  BY <1>2, SampleStep, CloseStep, CountStep, LoadFailsStep
<1>3. CASE Kill \/ StopRollup \/ StopStream
  BY <1>3, KillStep, StopRollupStep, StopStreamStep
<1>4. CASE UNCHANGED vars
  BY <1>4, WiderSelf
     DEF vars, history, RollupInv, LettingGo, At, OtherMinute, Pending, Counting
<1>5. QED
  BY <1>1, <1>2, <1>3, <1>4 DEF Next, Tick

LEMMA RollupHolds == Spec => [](RecorderInv /\ RollupInv)
<1>1. RecorderInv /\ RollupInv /\ [Next]_vars => RollupInv'
  BY RollupStep
<1>2. QED
  BY <1>1, RollupInit, InvHolds, PTL DEF Spec

-----------------------------------------------------------------------------
(* The results.                                                            *)

(* No step of the recorder takes back what it has committed: no write that *)
(* fails, no restart, and no clock that is set back loses a row or lets a  *)
(* rollup forget a sample.                                                 *)
THEOREM HistoryStays == Spec => HistoryGrows
<1> DEFINE kept == /\ db.raw \subseteq db'.raw /\ db.platform \subseteq db'.platform
                   /\ IsPrefix(db.events, db'.events)
                   /\ Len(db.streams) <= Len(db'.streams)
                   /\ \A s \in DOMAIN db.streams :
                        /\ db'.streams[s].boot = db.streams[s].boot
                        /\ db.streams[s].ended => db'.streams[s].ended
                   /\ \A q \in db.rollups : \E r \in db'.rollups :
                        r.bucket = q.bucket /\ q.counts \subseteq r.counts
<1>1. Wider(db, db') => kept
  BY DEF Wider, MoreRows, MoreEvents, MoreStreams, MoreCounts
<1>2. RecorderInv /\ RollupInv /\ [Next]_vars => kept
  BY <1>1, RollupStep
<1> HIDE DEF kept
<1>3. Spec => [][kept]_vars
  BY <1>2, RollupHolds, PTL DEF Spec
<1>4. QED
  BY <1>3 DEF HistoryGrows, kept

(* Every sample is counted by the rollup of its minute, and a rollup       *)
(* counts no other: also when a minute is taken up again by a clock that   *)
(* was set back or by the next process, and whatever was left in the open  *)
(* transaction.                                                            *)
THEOREM RollupsCountSamples == Spec => []RollupsCount
<1>1. RecorderInv /\ RollupInv => RollupsCount
  <2> SUFFICES ASSUME RecorderInv, RollupInv PROVE RollupsCount
    OBVIOUS
  <2>1. /\ db.raw \subseteq work.raw /\ Sound(db, me.rollup) /\ me.rollup.loaded \in BOOLEAN
        /\ Complete(db, work, me.rollup, missed, ticks, tick.at \in Counting)
    BY DEF RollupInv, Grown, Wider, MoreRows
  <2>2. tick.at \in Counting => ~At("wait")
    BY DEF Counting, At
  <2>3. \A r \in db.raw : r.id \in missed \/ InRollup(r) \/ (r.id = ticks /\ ~At("wait"))
    BY <2>1, <2>2 DEF Complete, IsCounted, InRollup
  <2>4. QED
    BY <2>1, <2>3 DEF RollupsCount, Sound, Exists
<1>2. QED
  BY <1>1, RollupHolds, PTL

-----------------------------------------------------------------------------
(* Events.                                                                 *)

Keys == {"connection", "disk", "value"}

(* What the recorder m knows of the state that a key stands for.           *)
Now(m, key) ==
  IF key = "connection" THEN m.connection ELSE IF key = "disk" THEN Limit(m.limited) ELSE m.value

Same(E, i, j) == E[i].key = E[j].key /\ E[i].process = E[j].process

Connects(E, l) ==
  \A i, j \in 1..Len(E) :
    /\ i < j /\ Same(E, i, j) /\ E[i].key # "stream"
    /\ \A k \in (i + 1)..(j - 1) : ~Same(E, i, k)
    => E[j].old = E[i].new \/ <<E[i].process, E[i].key>> \in l

(* The last event of a key by process p says what m knows, or one failed.  *)
UpToDate(E, m, p, l) ==
  \A i \in 1..Len(E) :
    /\ E[i].process = p /\ E[i].key # "stream"
    /\ \A k \in (i + 1)..Len(E) : ~Same(E, i, k)
    => E[i].new = Now(m, E[i].key) \/ <<p, E[i].key>> \in l

(* No event is of a later process, and none tells of a value that the      *)
(* process has not seen.                                                   *)
OfThePast(E, m, p) ==
  \A i \in 1..Len(E) :
    E[i].process <= p /\ (E[i].process = p /\ m.value = "unseen" => E[i].key # "value")

Follows(E, m, p, l) == Connects(E, l) /\ UpToDate(E, m, p, l) /\ OfThePast(E, m, p)

EventInv == Follows(db.events, me, Process, lost) /\ Follows(work.events, me, Process, lost)

LEMMA EventsStay ==
  ASSUME NEW E \in Seq(Event), NEW m, NEW m2, NEW p, NEW l, NEW l2, Follows(E, m, p, l),
         l \subseteq l2, m2.value = "unseen" => m.value = "unseen",
         \A key \in Keys : \/ Now(m2, key) = Now(m, key) \/ <<p, key>> \in l2
                           \/ key = "value" /\ m.value = "unseen"
  PROVE  Follows(E, m2, p, l2)
<1>1. \A i \in 1..Len(E) : E[i].key \in Keys \cup {"stream"}
  <2>1. \A i \in 1..Len(E) : E[i] \in Event
    OBVIOUS
  <2>2. QED
    BY <2>1 DEF Event, Keys
<1>2. Connects(E, l2) /\ OfThePast(E, m2, p)
  BY DEF Follows, Connects, OfThePast
<1>3. UpToDate(E, m2, p, l2)
  <2> SUFFICES ASSUME NEW i \in 1..Len(E), E[i].process = p, E[i].key # "stream",
                      \A k \in (i + 1)..Len(E) : ~Same(E, i, k)
               PROVE  E[i].new = Now(m2, E[i].key) \/ <<p, E[i].key>> \in l2
    BY DEF UpToDate
  <2>1. E[i].new = Now(m, E[i].key) \/ <<p, E[i].key>> \in l
    BY DEF Follows, UpToDate
  <2>2. ~(E[i].key = "value" /\ m.value = "unseen")
    BY DEF Follows, OfThePast
  <2>3. E[i].key \in Keys
    BY <1>1
  <2>4. QED
    BY <2>1, <2>2, <2>3
<1>4. QED
  BY <1>2, <1>3 DEF Follows

LEMMA EventsAppend ==
  ASSUME NEW E \in Seq(Event), NEW m, NEW m2, NEW p \in Nat, NEW l, Follows(E, m, p, l),
         NEW x \in Event, x.process = p,
         x.key # "stream" => x.old = Now(m, x.key) /\ x.new = Now(m2, x.key),
         \A key \in Keys \ {x.key} : Now(m2, key) = Now(m, key),
         m2.value = "unseen" => m.value = "unseen" /\ x.key # "value"
  PROVE  Follows(Append(E, x), m2, p, l)
<1> DEFINE F == Append(E, x)
           n == Len(E)
<1>1. /\ F \in Seq(Event) /\ Len(F) = n + 1 /\ F[n + 1] = x /\ n \in Nat
      /\ \A i \in 1..n : F[i] = E[i] /\ E[i] \in Event
  OBVIOUS
<1>2. \A i \in 1..n : E[i].process \in Nat /\ E[i].key \in Keys \cup {"stream"}
  BY <1>1 DEF Event, Keys
<1> HIDE DEF F, n
<1>3. /\ \A i, j \in 1..n : Same(F, i, j) <=> Same(E, i, j)
      /\ \A i \in 1..n : Same(F, i, n + 1) <=> E[i].key = x.key /\ E[i].process = p
  BY <1>1 DEF Same
<1>4. Connects(F, l)
  <2> SUFFICES ASSUME NEW i \in 1..(n + 1), NEW j \in 1..(n + 1), i < j, Same(F, i, j),
                      F[i].key # "stream", \A k \in (i + 1)..(j - 1) : ~Same(F, i, k)
               PROVE  F[j].old = F[i].new \/ <<F[i].process, F[i].key>> \in l
    BY <1>1 DEF Connects
  <2>1. i \in 1..n
    BY <1>1
  <2>2. CASE j \in 1..n
    <3>1. \A k \in (i + 1)..(j - 1) : ~Same(E, i, k)
      BY <1>1, <1>3, <2>1, <2>2
    <3>2. E[j].old = E[i].new \/ <<E[i].process, E[i].key>> \in l
      BY <1>1, <1>3, <2>1, <2>2, <3>1 DEF Follows, Connects, n
    <3>3. QED
      BY <1>1, <2>1, <2>2, <3>2
  <2>3. CASE j = n + 1
    <3>1. E[i].key = x.key /\ E[i].process = p /\ E[i].key # "stream"
      BY <1>1, <1>3, <2>1, <2>3
    <3>2. \A k \in (i + 1)..n : ~Same(E, i, k)
      BY <1>1, <1>3, <2>1, <2>3
    <3>3. E[i].new = Now(m, E[i].key) \/ <<p, E[i].key>> \in l
      BY <2>1, <3>1, <3>2 DEF Follows, UpToDate, n
    <3>4. QED
      BY <1>1, <2>1, <2>3, <3>1, <3>3
  <2>4. QED
    BY <1>1, <2>2, <2>3
<1>5. UpToDate(F, m2, p, l)
  <2> SUFFICES ASSUME NEW i \in 1..(n + 1), F[i].process = p, F[i].key # "stream",
                      \A k \in (i + 1)..(n + 1) : ~Same(F, i, k)
               PROVE  F[i].new = Now(m2, F[i].key) \/ <<p, F[i].key>> \in l
    BY <1>1 DEF UpToDate
  <2>1. CASE i = n + 1
    BY <1>1, <2>1
  <2>2. CASE i \in 1..n
    <3>1. ~Same(F, i, n + 1)
      BY <1>1, <2>2
    <3>2. E[i].process = p /\ E[i].key \in Keys \ {x.key}
      BY <1>1, <1>2, <1>3, <2>2, <3>1
    <3>3. \A k \in (i + 1)..n : ~Same(E, i, k)
      BY <1>1, <1>3, <2>2
    <3>4. E[i].new = Now(m, E[i].key) \/ <<p, E[i].key>> \in l
      BY <1>1, <2>2, <3>2, <3>3 DEF Follows, UpToDate, n
    <3>5. QED
      BY <1>1, <2>2, <3>2, <3>4
  <2>3. QED
    BY <1>1, <2>1, <2>2
<1>6. OfThePast(F, m2, p)
  <2> SUFFICES ASSUME NEW i \in 1..(n + 1)
               PROVE  /\ F[i].process <= p
                      /\ F[i].process = p /\ m2.value = "unseen" => F[i].key # "value"
    BY <1>1 DEF OfThePast
  <2>1. CASE i = n + 1
    BY <1>1, <2>1
  <2>2. CASE i \in 1..n
    BY <1>1, <2>2 DEF Follows, OfThePast, n
  <2>3. QED
    BY <1>1, <2>1, <2>2
<1>7. QED
  BY <1>4, <1>5, <1>6 DEF Follows, F

LEMMA EventsOfEnded ==
  ASSUME NEW E \in Seq(Event), NEW m, NEW m2, NEW p \in Nat, NEW l, Follows(E, m, p, l)
  PROVE  Follows(E, m2, p + 1, l)
<1>1. \A i \in 1..Len(E) : E[i].process \in Nat /\ E[i].process <= p
  <2>1. \A i \in 1..Len(E) : E[i] \in Event
    OBVIOUS
  <2>2. QED
    BY <2>1 DEF Event, Follows, OfThePast
<1>2. \A i \in 1..Len(E) : E[i].process <= p + 1 /\ E[i].process # p + 1
  BY <1>1
<1>3. QED
  BY <1>2 DEF Follows, UpToDate, OfThePast

(* An event is written, or counts as lost.                                 *)
LEMMA EventWrite ==
  ASSUME Full(db), Full(work), EventInv, ended \in Nat, ended' = ended,
         NEW key \in Keys \cup {"stream"}, NEW old \in Word, NEW new \in Word,
         \/ Write(WithEvent(work, key, old, new))
         \/ WriteFails(WithEvent(work, key, old, new)) /\ <<Process, key>> \in lost',
         lost \subseteq lost',
         key # "stream" => old = Now(me, key) /\ new = Now(me', key),
         \A k \in Keys \ {key} : Now(me', k) = Now(me, k),
         me'.value = "unseen" => me.value = "unseen" /\ key # "value"
  PROVE  EventInv'
<1> DEFINE x == [key |-> key, process |-> Process, old |-> old, new |-> new]
           e == WithEvent(work, key, old, new)
           F == Append(work.events, x)
           ok(E) == Follows(E, me', Process, lost')
<1>1. x \in Event /\ Process \in Nat
  BY DEF Event, Process, Keys
<1>2. x.key = key /\ x.process = Process /\ x.old = old /\ x.new = new
  OBVIOUS
<1>3. e.events = F
  BY DEF WithEvent, Full, Shaped
<1> HIDE DEF x
<1>4. F \in Seq(Event) /\ db.events \in Seq(Event) /\ work.events \in Seq(Event)
  BY <1>1 DEF Full
<1>5. Follows(F, me', Process, lost)
  BY <1>1, <1>2, <1>4, EventsAppend DEF EventInv
<1> HIDE DEF e, F
<1>6. ok(F)
  BY <1>4, <1>5, EventsStay
<1>7. CASE Write(e)
  BY <1>3, <1>6, <1>7 DEF Write, EventInv, Process
<1>8. CASE WriteFails(e) /\ <<Process, key>> \in lost'
  <2>1. \A k \in Keys : Now(me', k) = Now(me, k) \/ <<Process, k>> \in lost'
    BY <1>8
  <2>2. ok(db.events) /\ ok(work.events)
    BY <1>4, <2>1, EventsStay DEF EventInv
  <2>3. db' = db /\ work' \in {work, e, db}
    BY <1>8 DEF WriteFails
  <2>4. QED
    BY <1>3, <1>6, <2>2, <2>3 DEF EventInv, Process
<1>9. QED
  BY <1>7, <1>8 DEF e

(* A step that writes no event.                                            *)
LEMMA NoEvent ==
  ASSUME Full(db), Full(work), EventInv, ended' = ended, lost' = lost,
         db'.events \in {db.events, work.events}, work'.events \in {db.events, work.events},
         me'.value = "unseen" => me.value = "unseen",
         \A k \in Keys : Now(me', k) = Now(me, k) \/ (k = "value" /\ me.value = "unseen")
  PROVE  EventInv'
<1>1. db.events \in Seq(Event) /\ work.events \in Seq(Event)
  BY DEF Full
<1>2. Follows(db.events, me', Process, lost) /\ Follows(work.events, me', Process, lost)
  BY <1>1, EventsStay DEF EventInv
<1>3. QED
  BY <1>2 DEF EventInv, Process

LEMMA SilentActions ==
  ASSUME RecorderInv, RollupInv, EventInv,
         \/ DiskAsBefore \/ SameStream \/ EndStream \/ BeginStream \/ RecordSample
         \/ CloseMinute \/ CountSample \/ LoadFails \/ RecordPlatform \/ StopRollup \/ Restart
  PROVE  EventInv'
<1> DEFINE same == db'.events \in {db.events, work.events} /\ work'.events \in {db.events, work.events}
<1>1. Full(db) /\ Full(work) /\ RecorderShape(me)
  BY DEF RecorderInv, ContextInv, RollupInv
<1>2. \A new : new.events = work.events /\ Wrote(new) => same
  BY DEF Wrote, Kept, Write, WriteFails
<1>3. /\ \A s : WithEnd(work, s).events = work.events
      /\ \A b : WithStream(work, b).events = work.events
      /\ \A x : WithSample(work, x).events = work.events
      /\ \A r : WithRollup(work, r).events = work.events
      /\ \A n : WithPlatform(work, n).events = work.events
  BY <1>1 DEF WithEnd, WithStream, WithSample, WithRollup, WithPlatform, Full, Shaped
<1>4. Kept => same
  BY DEF Kept
<1> HIDE DEF same
<1>5. same
  <2>1. CASE DiskAsBefore \/ SameStream \/ Restart
    BY <1>4, <2>1 DEF DiskAsBefore, SameStream, Restart
  <2>2. CASE EndStream
    BY <1>2, <1>3, <1>4, <2>2 DEF EndStream, Wrote
  <2>3. CASE BeginStream
    BY <1>2, <1>3, <2>3 DEF BeginStream, Wrote
  <2>4. CASE RecordSample
    BY <1>2, <1>3, <2>4 DEF RecordSample, Wrote
  <2>5. CASE CloseMinute \/ CountSample \/ StopRollup
    BY <1>2, <1>3, <1>4, <2>5 DEF CloseMinute, CountSample, StopRollup, Wrote
  <2>6. CASE LoadFails
    BY <2>6 DEF LoadFails, same
  <2>7. CASE RecordPlatform
    BY <1>2, <1>3, <1>4, <2>7 DEF RecordPlatform, Wrote
  <2>8. QED
    BY <2>1, <2>2, <2>3, <2>4, <2>5, <2>6, <2>7
<1>6. ended' = ended /\ lost' = lost
  BY DEF DiskAsBefore, SameStream, EndStream, BeginStream, RecordSample, CloseMinute,
         CountSample, LoadFails, RecordPlatform, StopRollup, Restart, Quiet
<1>7. \/ me' = me \/ \E x : \/ me' = [me EXCEPT !.stream = x] \/ me' = [me EXCEPT !.rollup = x]
                           \/ me' = [me EXCEPT !.platform = x]
      \/ \E x, y : me' = [me EXCEPT !.boot = x, !.last = y]
  BY DEF DiskAsBefore, SameStream, EndStream, BeginStream, RecordSample, CloseMinute,
         CountSample, LoadFails, RecordPlatform, StopRollup, Restart, Remember
<1>8. me'.value = me.value /\ me'.connection = me.connection /\ me'.limited = me.limited
  BY <1>1, <1>7 DEF RecorderShape
<1>9. QED
  BY <1>1, <1>5, <1>6, <1>8, NoEvent DEF same, Now

LEMMA TellingActions ==
  ASSUME RecorderInv, RollupInv, EventInv,
         TickConnected \/ TickDisconnected \/ DiskChanges \/ AnnounceStream \/ RecordTransition
  PROVE  EventInv'
<1>1. /\ Full(db) /\ Full(work) /\ RecorderShape(me) /\ ended \in Nat /\ TickShape(tick)
      /\ me.value \in Word /\ me.connection \in Word
  BY DEF RecorderInv, ContextInv, RollupInv
<1>2. \A x : /\ [me EXCEPT !.connection = x].connection = x
             /\ [me EXCEPT !.connection = x].limited = me.limited
             /\ [me EXCEPT !.connection = x].value = me.value
             /\ [me EXCEPT !.limited = x].connection = me.connection
             /\ [me EXCEPT !.limited = x].limited = x
             /\ [me EXCEPT !.limited = x].value = me.value
             /\ [me EXCEPT !.value = x].connection = me.connection
             /\ [me EXCEPT !.value = x].limited = me.limited
             /\ [me EXCEPT !.value = x].value = x
  BY <1>1 DEF RecorderShape
<1>3. CASE TickConnected
  <2>1. me' = [me EXCEPT !.connection = "yes"] /\ ended' = ended /\ "yes" \in Word
    BY <1>3 DEF TickConnected, Word
  <2>2. \/ me.connection = "yes" /\ Kept /\ lost' = lost
        \/ Write(WithEvent(work, "connection", me.connection, "yes")) /\ lost' = lost
        \/ /\ WriteFails(WithEvent(work, "connection", me.connection, "yes"))
           /\ lost' = lost \cup {<<Process, "connection">>}
    BY <1>3 DEF TickConnected
  <2>3. CASE me.connection = "yes" /\ Kept /\ lost' = lost
    BY <1>1, <1>2, <2>1, <2>3, NoEvent DEF Now, Kept
  <2>4. CASE ~(me.connection = "yes" /\ Kept /\ lost' = lost)
    BY <1>1, <1>2, <2>1, <2>2, <2>4, EventWrite DEF Now, Keys
  <2>5. QED
    BY <2>3, <2>4
<1>4. CASE TickDisconnected
  <2>1. me' = [me EXCEPT !.connection = "no"] /\ ended' = ended /\ "no" \in Word
    BY <1>4 DEF TickDisconnected, Word
  <2>2. \/ Write(WithEvent(work, "connection", me.connection, "no")) /\ lost' = lost
        \/ /\ WriteFails(WithEvent(work, "connection", me.connection, "no"))
           /\ lost' = lost \cup {<<Process, "connection">>}
    BY <1>4 DEF TickDisconnected
  <2>3. QED
    BY <1>1, <1>2, <2>1, <2>2, EventWrite DEF Now, Keys
<1>5. CASE DiskChanges
  <2> DEFINE a == Limit(me.limited)
             b == Limit(~me.limited)
  <2>1. me' = [me EXCEPT !.limited = ~@] /\ ended' = ended /\ a \in Word /\ b \in Word
    BY <1>5 DEF DiskChanges, Word, Quiet, Limit
  <2>2. me'.limited = ~me.limited /\ me'.connection = me.connection /\ me'.value = me.value
    BY <1>2, <2>1
  <2>3. \/ Write(WithEvent(work, "disk", a, b)) /\ lost' = lost
        \/ /\ WriteFails(WithEvent(work, "disk", a, b))
           /\ lost' = lost \cup {<<Process, "disk">>}
    BY <1>5 DEF DiskChanges
  <2>4. a = Now(me, "disk") /\ b = Now(me', "disk")
    BY <2>2 DEF Now
  <2>5. \A k \in Keys \ {"disk"} : Now(me', k) = Now(me, k)
    BY <2>2 DEF Now, Keys
  <2> HIDE DEF a, b
  <2>6. QED
    BY <1>1, <2>1, <2>2, <2>3, <2>4, <2>5, EventWrite DEF Keys
<1>6. CASE AnnounceStream
  <2>1. ended' = ended /\ "none" \in Word /\ "begun" \in Word
    BY <1>6 DEF AnnounceStream, Quiet, Word
  <2>2. me'.connection = me.connection /\ me'.limited = me.limited /\ me'.value = me.value
    <3>1. me' = me \/ Remember
      BY <1>6 DEF AnnounceStream
    <3> DEFINE remembered == [me EXCEPT !.boot = tick.snap.boot, !.last = tick.snap.sequence]
    <3>2. /\ remembered.connection = me.connection /\ remembered.limited = me.limited
          /\ remembered.value = me.value
      BY <1>1 DEF RecorderShape
    <3>3. me' = me \/ me' = remembered
      BY <3>1 DEF Remember
    <3> HIDE DEF remembered
    <3>4. QED
      BY <3>2, <3>3
  <2>3. \/ Write(WithEvent(work, "stream", "none", "begun")) /\ lost' = lost
        \/ /\ WriteFails(WithEvent(work, "stream", "none", "begun"))
           /\ lost' = lost \cup {<<Process, "stream">>}
    BY <1>6 DEF AnnounceStream
  <2>4. QED
    BY <1>1, <2>1, <2>2, <2>3, EventWrite DEF Now, Keys
<1>7. CASE RecordTransition
  <2> DEFINE v == tick.snap.value
  <2>1. At("transition") /\ me' = [me EXCEPT !.value = v] /\ ended' = ended
    BY <1>7 DEF RecordTransition, See, Quiet
  <2>2. v \in Value
    BY <1>1, <2>1 DEF TickShape, At, Outside, InSnapshot, AfterSample, Snap
  <2>3. v \in Word /\ v # "unseen"
    BY <2>2 DEF Value, Word
  <2>4. \/ me.value \in {"unseen", v} /\ Kept /\ lost' = lost
        \/ Write(WithEvent(work, "value", me.value, v)) /\ lost' = lost
        \/ /\ WriteFails(WithEvent(work, "value", me.value, v))
           /\ lost' = lost \cup {<<Process, "value">>}
    BY <1>7 DEF RecordTransition
  <2>5. me'.connection = me.connection /\ me'.limited = me.limited /\ me'.value = v
    BY <1>2, <2>1
  <2> HIDE DEF v
  <2>6. CASE me.value \in {"unseen", v} /\ Kept /\ lost' = lost
    BY <1>1, <2>1, <2>3, <2>5, <2>6, NoEvent DEF Now, Keys, Kept
  <2>7. CASE ~(me.value \in {"unseen", v} /\ Kept /\ lost' = lost)
    BY <1>1, <2>1, <2>3, <2>4, <2>5, <2>7, EventWrite DEF Now, Keys
  <2>8. QED
    BY <2>6, <2>7
<1>8. QED
  BY <1>3, <1>4, <1>5, <1>6, <1>7

LEMMA EventStep == RecorderInv /\ RollupInv /\ EventInv /\ [Next]_vars => EventInv'
<1> SUFFICES ASSUME RecorderInv, RollupInv, EventInv, [Next]_vars PROVE EventInv'
  OBVIOUS
<1>1. CASE \/ DiskAsBefore \/ SameStream \/ EndStream \/ BeginStream \/ RecordSample
           \/ CloseMinute \/ CountSample \/ LoadFails \/ RecordPlatform \/ StopRollup \/ Restart
  BY <1>1, SilentActions
<1>2. CASE \/ TickConnected \/ TickDisconnected \/ DiskChanges \/ AnnounceStream
           \/ RecordTransition
  BY <1>2, TellingActions
<1>3. CASE Kill \/ StopStream
  <2>1. /\ db.events \in Seq(Event) /\ work.events \in Seq(Event) /\ ended \in Nat
        /\ Process \in Nat
    BY DEF RecorderInv, ContextInv, RollupInv, Full, Process
  <2>2. Process' = Process + 1 /\ lost' = lost
    BY <1>3 DEF Kill, StopStream, Over, Process
  <2>3. \A s : WithEnd(work, s).events = work.events
    BY DEF WithEnd, RollupInv, Full, Shaped
  <2>4. db'.events \in {db.events, work.events} /\ work'.events \in {db.events, work.events}
    BY <1>3, <2>3 DEF Kill, StopStream
  <2>5. /\ Follows(db.events, me', Process + 1, lost)
        /\ Follows(work.events, me', Process + 1, lost)
    BY <2>1, EventsOfEnded DEF EventInv
  <2>6. QED
    BY <2>2, <2>4, <2>5 DEF EventInv
<1>4. CASE UNCHANGED vars
  BY <1>4 DEF vars, history, EventInv, Process
<1>5. QED
  BY <1>1, <1>2, <1>3, <1>4 DEF Next, Tick

(* Within a process the events of a key form a chain, each from where the  *)
(* one before led to, unless the write of one failed in that process: no   *)
(* other failure, no restart and no commit of what was left open breaks it.*)
THEOREM EventsAreConnected == Spec => []EventsConnect
<1>1. Init => EventInv
  <2> SUFFICES ASSUME Init PROVE EventInv
    OBVIOUS
  <2>1. db.events = <<>> /\ work = db
    BY DEF Init
  <2>2. QED
    BY <2>1 DEF EventInv, Follows, Connects, UpToDate, OfThePast
<1>2. RollupInv /\ EventInv => EventsConnect
  <2> SUFFICES ASSUME RollupInv, EventInv PROVE EventsConnect
    OBVIOUS
  <2>1. DOMAIN db.events = 1..Len(db.events) /\ Connects(db.events, lost)
    BY DEF RollupInv, Full, EventInv, Follows
  <2>2. QED
    BY <2>1 DEF EventsConnect, Connects, Same
<1>3. QED
  BY <1>1, <1>2, EventStep, RollupHolds, PTL DEF Spec

-----------------------------------------------------------------------------
(* Types.  That times are unique needs a free one to exist: there are no   *)
(* more rows than ticks.                                                   *)

Rows(d) ==
  /\ d.raw \subseteq Sample /\ d.platform \subseteq 1..MaxTick
  /\ \A q, r \in d.raw : q.id = r.id \/ q.time = r.time => q = r

InMinutes == me.rollup.bucket \in Nat /\ \A q \in db.rollups : q.bucket \in Nat

InTicks ==
  /\ ticks <= MaxTick /\ dropped \in Nat /\ dropped <= ticks
  /\ tick.at \notin Outside => dropped < ticks

TypeInv == Rows(work) /\ InMinutes /\ InTicks

(* The numbers of a nonempty set have a least one.                         *)
LEMMA Smallest ==
  ASSUME NEW S \in SUBSET Nat, S # {}
  PROVE  \E n \in S : \A m \in S : n <= m
<1> DEFINE below(n) == 0..(n - 1)
           T == {below(n) : n \in S}
           R == StrictSubsetOrdering(Nat)
<1>1. IsWellFoundedOn(R, FiniteSubsetsOf(Nat))
  BY FS_StrictSubsetOrderingWellFounded
<1>2. T \subseteq FiniteSubsetsOf(Nat) /\ T # {}
  <2>1. \A n \in S : below(n) \in SUBSET Nat /\ IsFiniteSet(below(n))
    BY FS_Interval
  <2>2. QED
    BY <2>1 DEF FiniteSubsetsOf
<1> HIDE DEF R, T
<1>3. PICK x \in T : \A y \in T : ~(<<y, x>> \in R)
  BY <1>1, <1>2, WFMin
<1>4. PICK n \in S : x = below(n)
  BY DEF T
<1>5. SUFFICES ASSUME NEW m \in S, m < n PROVE FALSE
  BY DEF T
<1>6. below(m) \in T /\ below(m) \subseteq below(n) /\ below(m) # below(n)
  <2>1. m \in below(n) /\ m \notin below(m)
    BY <1>5
  <2>2. QED
    BY <1>5, <2>1 DEF T
<1>7. <<below(m), below(n)>> \in R
  BY <1>6, below(m) \in SUBSET Nat, below(n) \in SUBSET Nat DEF R, StrictSubsetOrdering
<1>8. QED
  BY <1>3, <1>4, <1>6, <1>7

(* FreeTime finds a time, and the time is free.                            *)
LEMMA TimeIsFree ==
  ASSUME Rows(work), NEW t \in Nat
  PROVE  FreeTime(t) \in Nat /\ \A r \in work.raw : r.time # FreeTime(t)
<1> DEFINE times == t..(t + MaxTick)
           taken(k) == \E r \in work.raw : r.time = k
           free == {k \in times : ~taken(k)}
<1>1. MaxTick \in Nat /\ times \subseteq Nat
  BY Bounds
<1>2. free # {}
  <2> SUFFICES ASSUME \A k \in times : taken(k) PROVE FALSE
    OBVIOUS
  <2> DEFINE row(k) == CHOOSE r \in work.raw : r.time = k
             f == [k \in times |-> row(k).id]
  <2>1. \A k \in times : row(k) \in work.raw /\ row(k).time = k
    OBVIOUS
  <2> HIDE DEF row
  <2>2. f \in [times -> 1..MaxTick]
    <3>1. \A k \in times : row(k).id \in 1..MaxTick
      BY <2>1 DEF Rows, Sample
    <3>2. QED
      BY <3>1
  <2>3. \A j, k \in times : f[j] = f[k] => j = k
    <3> SUFFICES ASSUME NEW j \in times, NEW k \in times, f[j] = f[k] PROVE j = k
      OBVIOUS
    <3>1. row(j).id = row(k).id
      OBVIOUS
    <3>2. row(j) = row(k)
      BY <2>1, <3>1 DEF Rows
    <3>3. QED
      BY <2>1, <3>2
  <2> HIDE DEF f
  <2>4. IsFiniteSet(times) /\ Cardinality(times) = MaxTick + 1
    BY <1>1, FS_Interval
  <2>5. IsFiniteSet(1..MaxTick) /\ Cardinality(1..MaxTick) = MaxTick
    BY <1>1, FS_Interval
  <2> HIDE DEF times
  <2>6. \E j, k \in times : j # k /\ f[j] = f[k]
    <3>1. Cardinality(1..MaxTick) < Cardinality(times)
      BY <1>1, <2>4, <2>5
    <3>2. f \in [times -> 1..MaxTick] /\ IsFiniteSet(times) /\ IsFiniteSet(1..MaxTick)
      BY <2>2, <2>4, <2>5
    <3>3. QED
      BY ONLY <3>1, <3>2, FS_PigeonHole
  <2>7. QED
    BY <2>3, <2>6
<1>3. PICK k \in free : \A j \in free : k <= j
  BY <1>1, <1>2, Smallest
<1>4. k \in times /\ (\A r \in work.raw : r.time # k)
      /\ \A j \in t..(k - 1) : \E r \in work.raw : r.time = j
  <2>1. \A j \in t..(k - 1) : j \in times /\ j \notin free
    BY <1>1, <1>3
  <2>2. QED
    BY <1>3, <2>1
<1>5. FreeTime(t) \in times /\ \A r \in work.raw : r.time # FreeTime(t)
  <2> DEFINE is(c) == /\ \A r \in work.raw : r.time # c
                      /\ \A j \in t..(c - 1) : \E r \in work.raw : r.time = j
  <2>1. k \in times /\ is(k)
    BY <1>4
  <2>2. FreeTime(t) = CHOOSE c \in times : is(c)
    BY DEF FreeTime
  <2> HIDE DEF is, times
  <2>3. FreeTime(t) \in times /\ is(FreeTime(t))
    BY <2>1, <2>2
  <2>4. QED
    BY <2>3 DEF is
<1>6. QED
  BY <1>1, <1>5


LEMMA RowsInit == Init => TypeInv
<1> SUFFICES ASSUME Init PROVE TypeInv
  OBVIOUS
<1>1. work.raw = {} /\ work.platform = {} /\ db.rollups = {} /\ me.rollup.bucket = 0
  BY DEF Init, Fresh, NoRollup
<1>2. tick.at \in Outside /\ ticks = 0 /\ dropped = 0
  BY DEF Init, Outside
<1>3. QED
  BY <1>1, <1>2, Bounds DEF TypeInv, Rows, InMinutes, InTicks

(* The fields of what a method of the store makes of a database.           *)
LEMMA FieldsOfWrites ==
  ASSUME NEW d, Shaped(d)
  PROVE  /\ \A key, old, new :
              /\ WithEvent(d, key, old, new).raw = d.raw
              /\ WithEvent(d, key, old, new).platform = d.platform
              /\ WithEvent(d, key, old, new).rollups = d.rollups
         /\ \A boot : /\ WithStream(d, boot).raw = d.raw
                      /\ WithStream(d, boot).platform = d.platform
                      /\ WithStream(d, boot).rollups = d.rollups
         /\ \A s : /\ WithEnd(d, s).raw = d.raw /\ WithEnd(d, s).platform = d.platform
                   /\ WithEnd(d, s).rollups = d.rollups
         /\ \A x : /\ WithSample(d, x).raw = d.raw \cup {x}
                   /\ WithSample(d, x).platform = d.platform
                   /\ WithSample(d, x).rollups = d.rollups
         /\ \A r : /\ WithRollup(d, r).raw = d.raw /\ WithRollup(d, r).platform = d.platform
                   /\ \A q \in WithRollup(d, r).rollups : q \in d.rollups \/ q.bucket = r.bucket
         /\ \A id : /\ WithPlatform(d, id).raw = d.raw
                    /\ WithPlatform(d, id).platform = d.platform \cup {id}
                    /\ WithPlatform(d, id).rollups = d.rollups
<1>1. \A key, old, new :
        /\ WithEvent(d, key, old, new).raw = d.raw
        /\ WithEvent(d, key, old, new).platform = d.platform
        /\ WithEvent(d, key, old, new).rollups = d.rollups
  BY DEF Shaped, WithEvent
<1>2. \A boot : /\ WithStream(d, boot).raw = d.raw
                /\ WithStream(d, boot).platform = d.platform
                /\ WithStream(d, boot).rollups = d.rollups
  BY DEF Shaped, WithStream
<1>3. \A s : /\ WithEnd(d, s).raw = d.raw /\ WithEnd(d, s).platform = d.platform
             /\ WithEnd(d, s).rollups = d.rollups
  BY DEF Shaped, WithEnd
<1>4. \A x : /\ WithSample(d, x).raw = d.raw \cup {x}
             /\ WithSample(d, x).platform = d.platform
             /\ WithSample(d, x).rollups = d.rollups
  BY DEF Shaped, WithSample
<1>5. \A r : /\ WithRollup(d, r).raw = d.raw /\ WithRollup(d, r).platform = d.platform
             /\ \A q \in WithRollup(d, r).rollups : q \in d.rollups \/ q.bucket = r.bucket
  <2> SUFFICES ASSUME NEW r
               PROVE  /\ WithRollup(d, r).raw = d.raw /\ WithRollup(d, r).platform = d.platform
                      /\ \A q \in WithRollup(d, r).rollups : q \in d.rollups \/ q.bucket = r.bucket
    OBVIOUS
  <2> DEFINE rows == {q \in d.rollups : q.bucket # r.bucket} \cup
                     {[bucket |-> r.bucket, counts |-> r.counts]}
  <2>1. \A q \in rows : q \in d.rollups \/ q.bucket = r.bucket
    OBVIOUS
  <2>2. WithRollup(d, r) = [d EXCEPT !.rollups = rows]
    BY DEF WithRollup, Shaped
  <2> HIDE DEF rows
  <2>3. QED
    BY <2>1, <2>2 DEF Shaped
<1>6. \A id : /\ WithPlatform(d, id).raw = d.raw
              /\ WithPlatform(d, id).platform = d.platform \cup {id}
              /\ WithPlatform(d, id).rollups = d.rollups
  BY DEF Shaped, WithPlatform
<1>7. QED
  BY <1>1, <1>2, <1>3, <1>4, <1>5, <1>6

(* A step that stores no sample.                                           *)
LEMMA OtherRows ==
  ASSUME RecorderInv, RollupInv, TypeInv, [Next]_vars, ~RecordSample
  PROVE  Rows(work')
<1> DEFINE kept(d) == d.raw \subseteq work.raw /\ d.platform \subseteq work.platform
<1>1. Shaped(work) /\ Wider(db, work) /\ Rows(work)
  BY DEF RollupInv, Full, Grown, TypeInv
<1>2. kept(db) /\ kept(work)
  BY <1>1 DEF Wider, MoreRows
<1>3. \A new : kept(new) /\ (Wrote(new) \/ work' \in {new, db}) => kept(work')
  BY <1>2 DEF Wrote, Kept, Write, WriteFails
<1>4. /\ \A key, old, new : kept(WithEvent(work, key, old, new))
      /\ \A boot : kept(WithStream(work, boot))
      /\ \A s : kept(WithEnd(work, s))
      /\ \A r : kept(WithRollup(work, r))
  BY <1>1, FieldsOfWrites
<1>5. Kept => kept(work')
  BY <1>2 DEF Kept
<1> HIDE DEF kept
<1>6. CASE RecordPlatform
  <2>1. ticks \in 1..MaxTick
    <3>1. tick.at \notin Outside
      BY <1>6 DEF RecordPlatform, At, Outside
    <3>2. ticks \in Nat
      BY DEF RecorderInv, ContextInv
    <3>3. QED
      BY <3>1, <3>2, Bounds DEF TypeInv, InTicks
  <2>2. Kept \/ Write(WithPlatform(work, ticks)) \/ WriteFails(WithPlatform(work, ticks))
    BY <1>6 DEF RecordPlatform
  <2>3. /\ WithPlatform(work, ticks).raw = work.raw
        /\ WithPlatform(work, ticks).platform = work.platform \cup {ticks}
    BY <1>1, FieldsOfWrites
  <2>4. work'.raw \subseteq work.raw /\ work'.platform \subseteq work.platform \cup {ticks}
    BY <1>2, <2>2, <2>3 DEF Kept, Write, WriteFails, kept
  <2>5. QED
    BY <1>1, <2>1, <2>4 DEF Rows
<1>7. CASE ~RecordPlatform
  <2>1. kept(work')
    <3>1. CASE TickConnected \/ TickDisconnected
      BY <1>3, <1>4, <1>5, <3>1 DEF TickConnected, TickDisconnected, Wrote
    <3>2. CASE DiskAsBefore \/ SameStream \/ Restart
      BY <1>5, <3>2 DEF DiskAsBefore, SameStream, Restart
    <3>3. CASE DiskChanges \/ AnnounceStream
      BY <1>3, <1>4, <3>3 DEF DiskChanges, AnnounceStream, Wrote
    <3>4. CASE RecordTransition
      BY <1>3, <1>4, <1>5, <3>4 DEF RecordTransition, Wrote
    <3>5. CASE EndStream \/ BeginStream
      BY <1>3, <1>4, <1>5, <3>5 DEF EndStream, BeginStream, Wrote
    <3>6. CASE CloseMinute \/ CountSample \/ StopRollup
      BY <1>3, <1>4, <1>5, <3>6 DEF CloseMinute, CountSample, StopRollup, Wrote
    <3>7. CASE LoadFails \/ Kill \/ UNCHANGED vars
      BY <1>2, <3>7 DEF LoadFails, Kill, vars
    <3>8. CASE StopStream
      BY <1>2, <1>4, <3>8 DEF StopStream
    <3>9. QED
      BY <1>7, <3>1, <3>2, <3>3, <3>4, <3>5, <3>6, <3>7, <3>8 DEF Next, Tick
  <2>2. QED
    BY <1>1, <2>1 DEF Rows, kept
<1>8. QED
  BY <1>6, <1>7

(* A sample has a time of its own, and the number of a tick of its own.    *)
LEMMA SampleRows ==
  ASSUME RecorderInv, RollupInv, TypeInv, RecordSample
  PROVE  Rows(work')
<1> DEFINE x == NewSample
           new == WithSample(work, x)
<1>1. Shaped(work) /\ Wider(db, work) /\ Rows(work)
  BY DEF RollupInv, Full, Grown, TypeInv
<1>2. /\ ContextInv /\ At("sample") /\ tick.at \in InSnapshot /\ tick.at \notin Outside
      /\ Agrees(work.streams, work.raw, me, tick, ticks, unknowns, ended + 1, board.boot)
  BY DEF RecordSample, RecorderInv, Fits, At, InSnapshot, Outside
<1>3. tick.snap \in Snap /\ tick.snap.boot \in 1..MaxBoot
  BY <1>2 DEF ContextInv, TickShape, InSnapshot, AfterSample
<1>4. ticks \in 1..MaxTick
  BY <1>2, Bounds DEF ContextInv, TypeInv, InTicks
<1>5. FreeTime(tick.snap.time) \in Nat /\ \A r \in work.raw : r.time # FreeTime(tick.snap.time)
  <2>1. tick.snap.time \in Nat
    BY <1>3 DEF Snap
  <2>2. QED
    BY <1>1, <2>1, TimeIsFree
<1>6. x \in Sample
  <2>1. me.stream \in Nat /\ tick.snap.sequence \in Sequence
    BY <1>2, <1>3 DEF ContextInv, RecorderShape, Snap
  <2>2. QED
    BY <1>3, <1>4, <1>5, <2>1 DEF NewSample, Sample
<1>7. \A r \in work.raw : r.time # x.time /\ r.id # x.id
  <2>1. \A r \in work.raw : r.id < ticks /\ r.id \in Nat
    BY <1>1, <1>2 DEF Agrees, Forward, Shaped
  <2>2. x.time = FreeTime(tick.snap.time) /\ x.id = ticks
    BY DEF NewSample
  <2>3. QED
    BY <1>4, <1>5, <2>1, <2>2
<1>8. Write(new) \/ WriteFails(new)
  BY DEF RecordSample
<1> HIDE DEF x
<1>9. new.raw = work.raw \cup {x} /\ new.platform = work.platform
  BY <1>1, FieldsOfWrites
<1> HIDE DEF new
<1>10. work'.raw \subseteq work.raw \cup {x} /\ work'.platform \subseteq work.platform
  BY <1>1, <1>8, <1>9 DEF Write, WriteFails, Wider, MoreRows
<1>11. QED
  BY <1>1, <1>6, <1>7, <1>10 DEF Rows

(* The minutes of the rollups, in memory and stored.                       *)
LEMMA MinutesStep ==
  ASSUME RecorderInv, RollupInv, TypeInv, [Next]_vars
  PROVE  InMinutes'
<1> DEFINE fine(d) == \A q \in d.rollups : q.bucket \in Nat
<1>1. /\ Shaped(work) /\ RecorderShape(me) /\ Grown(db, work, me.rollup) /\ Pending
      /\ Rows(work) /\ me.rollup.bucket \in Nat /\ fine(db)
  BY DEF RecorderInv, ContextInv, RollupInv, Full, TypeInv, InMinutes
<1>2. fine(work)
  BY <1>1 DEF Grown, InMemory
<1>3. \A new : fine(new) /\ Wrote(new) => fine(db')
  BY <1>1 DEF Wrote, Kept, Write, WriteFails
<1>4. /\ \A key, old, new : fine(WithEvent(work, key, old, new))
      /\ \A boot : fine(WithStream(work, boot))
      /\ \A s : fine(WithEnd(work, s))
      /\ \A x : fine(WithSample(work, x))
      /\ \A id : fine(WithPlatform(work, id))
      /\ \A r : r.bucket \in Nat => fine(WithRollup(work, r))
  <2>1. Shaped(work)
    BY <1>1
  <2>2. \A new : new.rollups = work.rollups => fine(new)
    BY <1>2
  <2>3. ASSUME NEW r, r.bucket \in Nat PROVE fine(WithRollup(work, r))
    <3>1. \A q \in WithRollup(work, r).rollups : q \in work.rollups \/ q.bucket = r.bucket
      BY <2>1, FieldsOfWrites
    <3>2. QED
      BY <1>2, <2>3, <3>1
  <2> HIDE DEF fine
  <2>4. QED
    BY <2>1, <2>2, <2>3, FieldsOfWrites
<1>5. Kept => fine(db')
  BY <1>1 DEF Kept
<1>6. At("count") => Counted.bucket \in Nat
  <2> SUFFICES ASSUME At("count") PROVE Counted.bucket \in Nat
    OBVIOUS
  <2>1. PICK r \in db.raw : r.time = tick.time
    BY <1>1 DEF Pending, At, Counting
  <2>2. r \in Sample
    BY <1>1 DEF Grown, Wider, MoreRows, Rows
  <2>3. tick.time \in Nat /\ Minute \in Nat \ {0}
    BY <2>1, <2>2, Bounds DEF Sample
  <2>4. Bucket(tick.time) \in Nat
    BY <2>3 DEF Bucket
  <2>5. QED
    BY <2>4 DEF Counted
<1>7. NoRollup.bucket = 0 /\ Fresh.rollup = NoRollup
  BY DEF NoRollup, Fresh
<1> HIDE DEF fine
<1>8. fine(db')
  <2>1. CASE TickConnected \/ TickDisconnected
    BY <1>3, <1>4, <1>5, <2>1 DEF TickConnected, TickDisconnected, Wrote
  <2>2. CASE DiskAsBefore \/ SameStream \/ Restart
    BY <1>5, <2>2 DEF DiskAsBefore, SameStream, Restart
  <2>3. CASE DiskChanges \/ AnnounceStream
    BY <1>3, <1>4, <2>3 DEF DiskChanges, AnnounceStream, Wrote
  <2>4. CASE RecordTransition \/ RecordPlatform
    BY <1>3, <1>4, <1>5, <2>4 DEF RecordTransition, RecordPlatform, Wrote
  <2>5. CASE EndStream \/ BeginStream \/ RecordSample
    BY <1>3, <1>4, <1>5, <2>5 DEF EndStream, BeginStream, RecordSample, Wrote
  <2>6. CASE CloseMinute \/ StopRollup
    BY <1>1, <1>3, <1>4, <1>5, <2>6 DEF CloseMinute, StopRollup, Wrote
  <2>7. CASE CountSample
    BY <1>3, <1>4, <1>5, <1>6, <2>7 DEF CountSample, Wrote
  <2>8. CASE LoadFails \/ Kill \/ UNCHANGED vars
    BY <1>1, <2>8 DEF LoadFails, Kill, vars
  <2>9. CASE StopStream
    BY <1>2, <1>4, <2>9 DEF StopStream
  <2>10. QED
    BY <2>1, <2>2, <2>3, <2>4, <2>5, <2>6, <2>7, <2>8, <2>9 DEF Next, Tick
<1>9. me'.rollup.bucket \in Nat
  <2>1. CASE CountSample
    <3>1. me' = [me EXCEPT !.rollup = Counted] /\ At("count")
      BY <2>1 DEF CountSample
    <3>2. me'.rollup = Counted
      BY <1>1, <3>1 DEF RecorderShape
    <3>3. QED
      BY <1>6, <3>1, <3>2
  <2>2. CASE Kill \/ StopStream
    BY <1>7, <2>2 DEF Kill, StopStream, Over
  <2>3. CASE ~CountSample /\ ~Kill /\ ~StopStream
    <3>1. \/ me' = me
          \/ \E y : \/ me' = [me EXCEPT !.connection = y] \/ me' = [me EXCEPT !.limited = y]
                    \/ me' = [me EXCEPT !.stream = y] \/ me' = [me EXCEPT !.value = y]
                    \/ me' = [me EXCEPT !.platform = y]
          \/ \E y, z : me' = [me EXCEPT !.boot = y, !.last = z]
      <4>1. CASE TickConnected \/ TickDisconnected \/ DiskAsBefore \/ DiskChanges \/ SameStream
                 \/ EndStream \/ BeginStream \/ AnnounceStream
        BY <4>1 DEF TickConnected, TickDisconnected, DiskAsBefore, DiskChanges, SameStream,
                    EndStream, BeginStream, AnnounceStream, Remember
      <4>2. CASE RecordSample \/ CloseMinute \/ LoadFails \/ RecordTransition \/ RecordPlatform
                 \/ StopRollup \/ Restart \/ UNCHANGED vars
        BY <4>2 DEF RecordSample, CloseMinute, LoadFails, RecordTransition, See,
                    RecordPlatform, StopRollup, Restart, vars
      <4>3. QED
        BY <2>3, <4>1, <4>2 DEF Next, Tick
    <3>2. me'.rollup = me.rollup
      BY <1>1, <3>1 DEF RecorderShape
    <3>3. QED
      BY <1>1, <3>2
  <2>4. QED
    BY <2>1, <2>2, <2>3
<1>10. QED
  BY <1>8, <1>9 DEF InMinutes, fine

(* A tick drops at most one sample.                                        *)
LEMMA TicksStep ==
  ASSUME RecorderInv, TypeInv, [Next]_vars
  PROVE  InTicks'
<1>1. /\ ticks \in Nat /\ TickShape(tick) /\ InTicks
      /\ ticks <= MaxTick /\ dropped \in Nat /\ dropped <= ticks
      /\ tick.at \notin Outside => dropped < ticks
  BY DEF RecorderInv, ContextInv, TypeInv, InTicks
<1>2. /\ Wait => tick'.at = "wait"
      /\ Drop => tick'.at = "wait" /\ dropped' = dropped + 1
      /\ \A place : Goto(place) => tick'.at = place
  BY <1>1, TickMoves DEF Drop
<1>3. CASE TickConnected \/ TickDisconnected
  <2>1. /\ ticks < MaxTick /\ ticks' = ticks + 1
        /\ dropped' = dropped \/ (dropped' = dropped + 1 /\ tick'.at = "wait")
    BY <1>2, <1>3 DEF TickConnected, TickDisconnected
  <2>2. QED
    BY <1>1, <2>1, Bounds DEF InTicks, Outside
<1>4. CASE Kill \/ StopStream
  <2>1. dropped' = 0 /\ ticks' = ticks /\ tick'.at = "down"
    BY <1>4 DEF Kill, StopStream, Over
  <2>2. QED
    BY <1>1, <2>1, Bounds DEF InTicks, Outside
<1>5. CASE StopRollup \/ Restart
  <2>1. dropped' = dropped /\ ticks' = ticks /\ tick'.at \in {"stopping", "wait"}
    BY <1>2, <1>5 DEF StopRollup, Restart, Quiet
  <2>2. QED
    BY <1>1, <2>1, Bounds DEF InTicks, Outside
<1>6. CASE UNCHANGED vars
  BY <1>1, <1>6 DEF vars, InTicks
<1>7. ASSUME \/ DiskAsBefore \/ DiskChanges \/ SameStream \/ EndStream \/ BeginStream
             \/ AnnounceStream \/ RecordSample \/ CloseMinute \/ CountSample \/ LoadFails
             \/ RecordTransition \/ RecordPlatform
      PROVE  InTicks'
  <2>1. ticks' = ticks /\ tick.at \notin Outside
    BY <1>7 DEF DiskAsBefore, DiskChanges, SameStream, EndStream, BeginStream, AnnounceStream,
                RecordSample, CloseMinute, CountSample, LoadFails, RecordTransition,
                RecordPlatform, Quiet, At, Outside
  <2>2. dropped' = dropped \/ Drop
    BY <1>7 DEF DiskAsBefore, DiskChanges, SameStream, EndStream, BeginStream, AnnounceStream,
                RecordSample, CloseMinute, CountSample, LoadFails, RecordTransition,
                RecordPlatform
  <2>3. QED
    BY <1>1, <1>2, <2>1, <2>2, Bounds DEF InTicks, Outside
<1>8. QED
  BY <1>3, <1>4, <1>5, <1>6, <1>7 DEF Next, Tick

(* Whatever fails and wherever the clock is set to, what is stored has its *)
(* types and its bounds, no two samples have one time, and no tick drops   *)
(* more than its sample.                                                   *)
THEOREM TypeCorrect == Spec => []TypeOK
<1>1. RecorderInv /\ RollupInv /\ TypeInv /\ [Next]_vars => TypeInv'
  BY OtherRows, SampleRows, MinutesStep, TicksStep DEF TypeInv
<1>2. RecorderInv /\ RollupInv /\ TypeInv => TypeOK
  <2> SUFFICES ASSUME RecorderInv, RollupInv, TypeInv PROVE TypeOK
    OBVIOUS
  <2>1. Full(db) /\ Full(work) /\ Rows(work) /\ Wider(db, work) /\ Sound(db, me.rollup)
        /\ Grown(db, work, me.rollup) /\ me.rollup.loaded \in BOOLEAN
    BY DEF RollupInv, TypeInv, Grown
  <2>2. Rows(db)
    BY <2>1 DEF Rows, Wider, MoreRows
  <2>3. \A q \in db.rollups : q.bucket \in Nat /\ q.counts \subseteq 1..MaxTick
    BY <2>1, <2>2 DEF TypeInv, InMinutes, Sound, Exists, Rows, Sample
  <2>4. \A q \in work.rollups : q.bucket \in Nat /\ q.counts \subseteq 1..MaxTick
    <3> SUFFICES ASSUME NEW q \in work.rollups, InMemory(me.rollup, q)
                 PROVE  q.bucket \in Nat /\ q.counts \subseteq 1..MaxTick
      BY <2>1, <2>3 DEF Grown
    <3>1. q.bucket = me.rollup.bucket /\ \A i \in q.counts : Exists(db, me.rollup.bucket, i)
      BY <2>1 DEF InMemory, Sound
    <3>2. QED
      BY <2>2, <3>1 DEF TypeInv, InMinutes, Exists, Rows, Sample
  <2>5. me.stream <= Len(db.streams) /\ me.boot \in 0..MaxBoot /\ me.last \in Sequence
    <3>1. RecorderShape(me) /\ me.boot <= board.boot /\ board.boot \in 1..MaxBoot
      BY DEF RecorderInv, ContextInv
    <3>2. me.stream # 0 => me.stream \in 1..Len(db.streams)
      BY DEF RecorderInv, Fits, Agrees, Boots
    <3>3. Len(db.streams) \in Nat
      BY <2>1 DEF Full, Shaped
    <3>4. QED
      BY <3>1, <3>2, <3>3, Bounds DEF RecorderShape
  <2>6. dropped <= ticks
    BY DEF TypeInv, InTicks
  <2>7. \A d \in {db, work} :
          /\ d.streams \in Seq(Stream) /\ d.raw \subseteq Sample
          /\ \A q, r \in d.raw : q.time = r.time => q = r
          /\ d.events \in Seq(Event) /\ d.platform \subseteq 1..MaxTick
    BY <2>1, <2>2 DEF Full, Shaped, Rows
  <2>8. QED
    BY <2>3, <2>4, <2>5, <2>6, <2>7 DEF TypeOK
<1>3. QED
  BY <1>1, <1>2, RowsInit, RollupHolds, PTL DEF Spec
=============================================================================
