-------------------------- MODULE PublicationProofs --------------------------
(* What Publication promises for any categories, parts, snapshots, pool,   *)
(* faults and hanging collectors.                                          *)
EXTENDS Publication, FiniteSetTheorems, SequenceTheorems, TLAPS

-----------------------------------------------------------------------------
(* Points and their statuses.                                              *)

LEMMA StatusOfType ==
  ASSUME NEW q \in Quality
  PROVE  StatusOf(q) \in Status \ {"NoNode", "Waiting"}
BY DEF Quality, StatusOf, Status

LEMMA StatusOfValues ==
  ASSUME NEW q \in Quality
  PROVE  /\ StatusOf(q) = "Good" <=> q = "Good"
         /\ StatusOf(q) \in {"NoCommunication", "Unavailable"} <=> q \in {"Bad", "NotAvailable"}
BY DEF Quality, StatusOf

LEMMA FailedQualityType ==
  \A c : FailedQuality(c) \in Quality \ {"Good"}
BY DEF FailedQuality, Quality

(* What a point may show: of a Quality point its value.                    *)
Shows == Status \cup Quality

(* A point of a category is of no other, and is not the one of Alarm.      *)
LEMMA PointsApart ==
  ASSUME NEW c \in Category, NEW p \in PointsOf(c)
  PROVE  p[1] = c /\ p \in Point /\ p # AlarmPoint
<1>1. p[1] = c
  BY DEF PointsOf, LivePoints, OperationPoint
<1>2. QED
  BY <1>1, CategoryAssumption DEF Point, AlarmPoint

LEMMA QualityPoint ==
  ASSUME NEW c \in Category
  PROVE  <<c, "Quality">> \in PointsOf(c) /\ <<c, "Quality">> \in Point
BY PointsApart DEF PointsOf

LEMMA LivePoint ==
  ASSUME NEW c \in Collective
  PROVE  c \in Category /\ <<c, "Live">> \in PointsOf(c) /\ <<c, "Live">> \in Point
BY CategoryAssumption, PointsApart DEF PointsOf, LivePoints

(* The points that sum up a category are none of the operation.            *)
LEMMA OperationApart ==
  ASSUME NEW c \in Category
  PROVE  <<c, "Quality">> # OperationPoint /\ <<c, "Live">> # OperationPoint
BY DEF OperationPoint

LEMMA SnapshotQuality ==
  ASSUME NEW c \in Category, NEW s \in Found[c]
  PROVE  s.quality \in Quality
BY PartsAssumption DEF Snapshot

(* A part that was found has a quality.                                    *)
LEMMA PartQuality ==
  ASSUME NEW c \in Category, NEW s \in Found[c], NEW i \in DOMAIN s.parts
  PROVE  s.parts[i] \in Quality /\ i \in Parts[c]
<1>1. s \in Snapshot /\ DOMAIN s.parts \subseteq Parts[c]
  BY PartsAssumption
<1>2. PICK P \in SUBSET UNION {Parts[d] : d \in Category} : s.parts \in [P -> Quality]
  BY <1>1 DEF Snapshot
<1>3. QED
  BY <1>1, <1>2

(* What an application writes are points of the category, or the one of    *)
(* Alarm, each with a status that is not one of the beginning.             *)
LEMMA WritesType ==
  ASSUME NEW c \in Category, NEW s \in Found[c], NEW p \in Writes(c, s)
  PROVE  /\ p \in PointsOf(c) \cup {AlarmPoint} /\ p \in Point
         /\ StatusIn(p, s) \in Shows \ {"NoNode", "Waiting"}
<1>1. CASE p \in {<<c, "Quality">>} \cup LivePoints(c)
  <2>1. p = <<c, "Quality">> \/ p = <<c, "Live">>
    BY <1>1 DEF LivePoints
  <2>2. StatusIn(p, s) \in {s.quality, StatusOf(s.quality)}
    BY <2>1 DEF StatusIn
  <2>3. s.quality \in Quality /\ StatusOf(s.quality) \in Status \ {"NoNode", "Waiting"}
    BY SnapshotQuality, StatusOfType
  <2>4. QED
    BY <1>1, <2>2, <2>3, PointsApart DEF PointsOf, Shows, Quality
<1>2. CASE p \in {<<c, "Resistance">>, <<c, "Current">>, AlarmPoint} /\ c = "Measurement"
  <2>1. StatusOf(s.quality) \in Status \ {"NoNode", "Waiting"}
    BY SnapshotQuality, StatusOfType
  <2>2. p \in PointsOf(c) \cup {AlarmPoint}
    BY <1>2 DEF PointsOf
  <2>3. AlarmPoint \in Point
    BY <1>2 DEF Point
  <2>4. StatusIn(p, s) \in {"Good", "NoCommunication", "NotSupported", StatusOf(s.quality)}
    <3>1. CASE p = <<c, "Resistance">>
      BY <3>1 DEF StatusIn
    <3>2. CASE p = <<c, "Current">>
      BY <3>2 DEF StatusIn
    <3>3. CASE p = AlarmPoint
      BY <3>3 DEF StatusIn, AlarmPoint
    <3>4. QED
      BY <1>2, <3>1, <3>2, <3>3
  <2>5. QED
    BY <2>1, <2>2, <2>3, <2>4, PointsApart DEF Shows, Status
<1>3. ASSUME NEW i \in DOMAIN s.parts, p = <<c, i>>
      PROVE  /\ p \in PointsOf(c) /\ p \in Point
             /\ StatusIn(p, s) \in Shows \ {"NoNode", "Waiting"}
  <2>1. s.parts[i] \in Quality /\ i \in Parts[c]
    BY PartQuality
  <2>2. i \notin {"Live", "Quality", "Resistance", "Current"}
    BY <2>1, PartsAssumption
  <2>3. StatusIn(p, s) = StatusOf(s.parts[i])
    BY <1>3, <2>2 DEF StatusIn
  <2>4. QED
    BY <1>3, <2>1, <2>3, StatusOfType, PointsApart DEF PointsOf, Shows
<1>4. QED
  BY <1>1, <1>2, <1>3 DEF Writes

LEMMA SummaryStatusIn ==
  ASSUME NEW c, NEW s
  PROVE  /\ <<c, "Quality">> \in Writes(c, s)
         /\ StatusIn(<<c, "Quality">>, s) = s.quality
         /\ c \in Collective => <<c, "Live">> \in Writes(c, s)
         /\ StatusIn(<<c, "Live">>, s) = StatusOf(s.quality)
BY DEF Writes, LivePoints, StatusIn

-----------------------------------------------------------------------------
(* The invariant.                                                          *)

Job == [at : {"idle", "queued", "running", "hung", "raised"}]
         \cup [at : {"done"}, snapshot : Snapshot]

TypeInv ==
  /\ point \in [Point -> Shows]
  /\ categoryQuality \in [Category -> Quality]
  /\ hasData \subseteq attempted /\ attempted \subseteq Category
  /\ outcome \in [Category -> {"none", "applied", "failed"}]
  /\ ready \in BOOLEAN

(* The pool holds the jobs that wait, each once.                           *)
JobInv ==
  /\ job \in [Category -> Job]
  /\ \A c \in Category : job[c].at = "done" => job[c].snapshot \in Found[c]
  /\ pool \in Seq(Category)
  /\ \A c \in Category : job[c].at = "queued" <=> \E i \in 1..Len(pool) : pool[i] = c
  /\ \A i, j \in 1..Len(pool) : pool[i] = pool[j] => i = j

(* The summary that is kept beside the points agrees with them.            *)
Sums(points, c, quality) ==
  /\ points[<<c, "Quality">>] = quality
  /\ c \in Collective => points[<<c, "Live">>] = StatusOf(quality)

Awaits(points, c) ==
  /\ points[<<c, "Quality">>] = "Waiting"
  /\ c \in Collective => points[<<c, "Live">>] = "Waiting"

SummaryInv ==
  /\ \A c \in Category :
       /\ c \in attempted => Sums(point, c, categoryQuality[c])
       /\ c \notin attempted => Awaits(point, c) /\ outcome[c] = "none"
  /\ \/ health = Health(categoryQuality, attempted) /\ attempted # {}
     \/ /\ health = [overall |-> "Waiting", each |-> [c \in Category |-> "Waiting"]]
        /\ attempted = {}
  /\ ready => Category \subseteq attempted

PublicationInv == TypeInv /\ JobInv /\ SummaryInv /\ StaleIsMarked

LEMMA InvInit == Init => PublicationInv
<1> SUFFICES ASSUME Init PROVE PublicationInv
  OBVIOUS
<1>1. TypeInv
  <2>1. \A p : FirstStatus(p) \in Shows
    BY DEF FirstStatus, Shows, Status
  <2>2. point \in [Point -> Shows]
    BY <2>1 DEF Init, OperationStatus, Shows, Status
  <2>3. QED
    BY <2>2 DEF Init, TypeInv, Quality
<1>2. JobInv
  <2>1. pool = <<>> /\ Len(pool) = 0 /\ pool \in Seq(Category)
    BY DEF Init
  <2>2. job \in [Category -> Job] /\ \A c \in Category : job[c].at = "idle"
    BY DEF Init, Idle, Job
  <2>3. QED
    BY <2>1, <2>2 DEF JobInv
<1>3. SummaryInv
  <2>1. \A c \in Category : Awaits(point, c)
    <3> SUFFICES ASSUME NEW c \in Category
                 PROVE  /\ FirstStatus(<<c, "Quality">>) = "Waiting"
                        /\ FirstStatus(<<c, "Live">>) = "Waiting"
      BY QualityPoint, LivePoint, OperationApart DEF Init, Awaits
    <3>1. "Live" \notin Parts[c] /\ "Quality" \notin Parts[c]
      BY PartsAssumption
    <3>2. QED
      BY <3>1 DEF FirstStatus
  <2>2. QED
    BY <2>1, CategoryAssumption DEF Init, SummaryInv
<1>4. StaleIsMarked
  BY DEF Init, StaleIsMarked
<1>5. QED
  BY <1>1, <1>2, <1>3, <1>4 DEF PublicationInv

-----------------------------------------------------------------------------
(* A job that ends.  The new points are those of an application or of a    *)
(* failure, or both.                                                       *)

LEMMA AppliedType ==
  ASSUME TypeInv, NEW c \in Category, NEW s \in Found[c], NEW W \in SUBSET Writes(c, s)
  PROVE  /\ Applied(s, W) \in [Point -> Shows]
         /\ \A d \in Category \ {c} : \A p \in PointsOf(d) : Applied(s, W)[p] = point[p]
<1>1. \A p \in W : StatusIn(p, s) \in Shows /\ p \in PointsOf(c) \cup {AlarmPoint}
  BY WritesType
<1>2. Applied(s, W) \in [Point -> Shows]
  BY <1>1 DEF Applied, TypeInv
<1>3. ASSUME NEW d \in Category \ {c}, NEW p \in PointsOf(d)
      PROVE  Applied(s, W)[p] = point[p]
  BY <1>1, <1>3, PointsApart DEF Applied
<1>4. QED
  BY <1>2, <1>3

MarkedAll(points, c) ==
  \A p \in PointsOf(c) \ {OperationPoint} :
    IF p[2] = "Quality" THEN points[p] \in {"Uncertain", "NotAvailable"} ELSE points[p] # "Good"

LEMMA MarkedType ==
  ASSUME NEW points \in [Point -> Shows], NEW c \in Category,
         points[<<c, "Quality">>] # "NoNode",
         c \in Collective => points[<<c, "Live">>] # "NoNode"
  PROVE  /\ Marked(points, c) \in [Point -> Shows]
         /\ \A d \in Category \ {c} : \A p \in PointsOf(d) : Marked(points, c)[p] = points[p]
         /\ MarkedAll(Marked(points, c), c)
         /\ Sums(Marked(points, c), c, FailedQuality(c))
<1>1. /\ FailedQuality(c) \in {"Uncertain", "NotAvailable"}
      /\ StatusOf(FailedQuality(c)) \in Status \ {"NoNode", "Waiting", "Good"}
  <2>1. FailedQuality(c) \in {"Uncertain", "NotAvailable"}
    BY DEF FailedQuality
  <2>2. QED
    BY <2>1, FailedQualityType, StatusOfType, StatusOfValues
<1>2. Marked(points, c) \in [Point -> Shows]
  BY <1>1 DEF Marked, Shows, Quality
<1>3. ASSUME NEW d \in Category \ {c}, NEW p \in PointsOf(d)
      PROVE  Marked(points, c)[p] = points[p]
  <2>1. p \in Point /\ p \notin PointsOf(c)
    BY <1>3, PointsApart
  <2>2. QED
    BY <2>1 DEF Marked
<1>4. ASSUME NEW p \in PointsOf(c), p[2] = "Quality"
      PROVE  Marked(points, c)[p] \in {"Uncertain", "NotAvailable"}
  <2>1. p = <<c, "Quality">>
    <3>1. "Quality" \notin Parts[c]
      BY PartsAssumption
    <3>2. QED
      BY <1>4, <3>1 DEF PointsOf, LivePoints, OperationPoint
  <2>2. QED
    BY <1>1, <1>4, <2>1, QualityPoint DEF Marked
<1>5. ASSUME NEW p \in PointsOf(c), p[2] # "Quality"
      PROVE  Marked(points, c)[p] # "Good"
  BY <1>1, <1>5, PointsApart DEF Marked
<1>6. Sums(Marked(points, c), c, FailedQuality(c))
  BY QualityPoint, LivePoint DEF Marked, Sums
<1>7. QED
  BY <1>2, <1>3, <1>4, <1>5, <1>6 DEF MarkedAll

(* The summary after a job has ended, when its points say the same.        *)
LEMMA FinishedStep ==
  ASSUME PublicationInv, NEW c \in Category, NEW q \in Quality,
         NEW how \in {"applied", "failed"}, Finished(c, q, how),
         hasData' \subseteq hasData \cup {c},
         point' \in [Point -> Shows],
         \A d \in Category \ {c} : \A p \in PointsOf(d) : point'[p] = point[p],
         Sums(point', c, q), how = "failed" => MarkedAll(point', c),
         job[c].at \notin {"queued"}
  PROVE  PublicationInv'
<1>1. TypeInv'
  BY DEF PublicationInv, TypeInv, Finished
<1>2. JobInv'
  <2>1. job' = [job EXCEPT ![c] = Idle] /\ pool' = pool
    BY DEF Finished, JobAfter
  <2>2. job' \in [Category -> Job]
    BY <2>1 DEF PublicationInv, JobInv, Job, Idle
  <2>3. \A d \in Category : d # c => job'[d] = job[d]
    BY <2>1 DEF PublicationInv, JobInv
  <2>4. job'[c] = Idle /\ job'[c].at = "idle"
    BY <2>1 DEF PublicationInv, JobInv, Idle
  <2>5. \A d \in Category : job'[d].at = "done" => job'[d].snapshot \in Found[d]
    BY <2>3, <2>4 DEF PublicationInv, JobInv
  <2>6. \A d \in Category : job'[d].at = "queued" <=> \E i \in 1..Len(pool) : pool[i] = d
    BY <2>3, <2>4 DEF PublicationInv, JobInv
  <2>7. QED
    BY <2>1, <2>2, <2>5, <2>6 DEF PublicationInv, JobInv
<1>3. SummaryInv'
  <2>1. attempted' = attempted \cup {c} /\ ready' = ready
        /\ categoryQuality' = [categoryQuality EXCEPT ![c] = q]
        /\ outcome' = [outcome EXCEPT ![c] = how]
        /\ health' = Health(categoryQuality', attempted')
    BY DEF Finished
  <2>2. ASSUME NEW d \in Category
        PROVE  /\ d \in attempted' => Sums(point', d, categoryQuality'[d])
               /\ d \notin attempted' => Awaits(point', d) /\ outcome'[d] = "none"
    <3>1. CASE d = c
      BY <2>1, <3>1 DEF PublicationInv, TypeInv
    <3>2. CASE d # c
      <4>1. /\ point'[<<d, "Quality">>] = point[<<d, "Quality">>]
            /\ d \in Collective => point'[<<d, "Live">>] = point[<<d, "Live">>]
        BY <3>2, QualityPoint, LivePoint
      <4>2. /\ categoryQuality'[d] = categoryQuality[d] /\ outcome'[d] = outcome[d]
            /\ d \in attempted' <=> d \in attempted
        BY <2>1, <3>2 DEF PublicationInv, TypeInv
      <4>3. QED
        BY <4>1, <4>2 DEF PublicationInv, SummaryInv, Sums, Awaits
    <3>3. QED
      BY <3>1, <3>2
  <2>3. QED
    BY <2>1, <2>2 DEF PublicationInv, SummaryInv
<1>4. StaleIsMarked'
  <2> SUFFICES ASSUME NEW d \in Category, outcome'[d] = "failed" PROVE MarkedAll(point', d)
    BY DEF StaleIsMarked, MarkedAll
  <2>1. CASE d = c
    BY <2>1 DEF PublicationInv, TypeInv, Finished
  <2>2. CASE d # c
    <3>1. outcome[d] = "failed"
      BY <2>2 DEF PublicationInv, TypeInv, Finished
    <3>2. MarkedAll(point, d)
      BY <3>1 DEF PublicationInv, StaleIsMarked, MarkedAll
    <3>3. \A p \in PointsOf(d) : point'[p] = point[p]
      BY <2>2
    <3>4. QED
      BY <3>2, <3>3 DEF MarkedAll
  <2>3. QED
    BY <2>1, <2>2
<1>5. QED
  BY <1>1, <1>2, <1>3, <1>4 DEF PublicationInv

LEMMA ApplySnapshotStep ==
  ASSUME PublicationInv, NEW c \in Category, ApplySnapshot(c)
  PROVE  PublicationInv'
<1> DEFINE s == job[c].snapshot
<1>1. s \in Found[c] /\ job[c].at = "done"
  BY DEF PublicationInv, JobInv, ApplySnapshot
<1>2. /\ point' = Applied(s, Writes(c, s)) /\ hasData' = hasData \cup {c}
      /\ Finished(c, s.quality, "applied")
  BY DEF ApplySnapshot
<1> HIDE DEF s
<1>3. /\ point' \in [Point -> Shows]
      /\ \A d \in Category \ {c} : \A p \in PointsOf(d) : point'[p] = point[p]
  BY <1>1, <1>2, AppliedType DEF PublicationInv
<1>4. Sums(point', c, s.quality)
  BY <1>2, SummaryStatusIn, QualityPoint, LivePoint DEF Applied, Sums
<1>5. QED
  BY <1>1, <1>2, <1>3, <1>4, SnapshotQuality, FinishedStep

LEMMA SummaryHasNode ==
  ASSUME PublicationInv, NEW c \in Category
  PROVE  /\ point[<<c, "Quality">>] # "NoNode"
         /\ c \in Collective => point[<<c, "Live">>] # "NoNode"
<1>1. categoryQuality[c] \in Quality
  BY DEF PublicationInv, TypeInv
<1>2. Sums(point, c, categoryQuality[c]) \/ Awaits(point, c)
  BY DEF PublicationInv, SummaryInv
<1>3. QED
  BY <1>1, <1>2, StatusOfType DEF Sums, Awaits, Quality

LEMMA ApplyRaisesStep ==
  ASSUME PublicationInv, NEW c \in Category, ApplyRaises(c)
  PROVE  PublicationInv'
<1> DEFINE s == job[c].snapshot
<1>1. s \in Found[c] /\ job[c].at = "done"
  BY DEF PublicationInv, JobInv, ApplyRaises
<1>2. PICK W \in Interrupted(c, s) : point' = Marked(Applied(s, W), c)
  BY DEF ApplyRaises
<1>3. hasData' = hasData /\ Finished(c, FailedQuality(c), "failed")
  BY DEF ApplyRaises
<1> HIDE DEF s
<1>4. W \in SUBSET Writes(c, s)
  BY DEF Interrupted
<1>5. /\ Applied(s, W) \in [Point -> Shows]
      /\ \A d \in Category \ {c} : \A p \in PointsOf(d) : Applied(s, W)[p] = point[p]
  BY <1>1, <1>4, AppliedType DEF PublicationInv
<1>6. /\ Applied(s, W)[<<c, "Quality">>] # "NoNode"
      /\ c \in Collective => Applied(s, W)[<<c, "Live">>] # "NoNode"
  <2>1. Applied(s, W)[<<c, "Quality">>] \in {s.quality, point[<<c, "Quality">>]}
    BY QualityPoint, SummaryStatusIn DEF Applied
  <2>2. c \in Collective
          => Applied(s, W)[<<c, "Live">>] \in {StatusOf(s.quality), point[<<c, "Live">>]}
    BY LivePoint, SummaryStatusIn DEF Applied
  <2>3. s.quality \in Quality /\ s.quality # "NoNode"
    BY <1>1, SnapshotQuality DEF Quality
  <2>4. QED
    BY <2>1, <2>2, <2>3, StatusOfType, SummaryHasNode
<1>7. /\ point' \in [Point -> Shows]
      /\ \A d \in Category \ {c} : \A p \in PointsOf(d) : point'[p] = point[p]
      /\ MarkedAll(point', c) /\ Sums(point', c, FailedQuality(c))
  BY <1>2, <1>5, <1>6, MarkedType
<1>8. QED
  BY <1>1, <1>3, <1>7, FailedQualityType, FinishedStep

LEMMA MarkFailedStep ==
  ASSUME PublicationInv, NEW c \in Category, MarkFailed(c)
  PROVE  PublicationInv'
<1>1. /\ point' = Marked(point, c) /\ hasData' = hasData /\ job[c].at = "raised"
      /\ Finished(c, FailedQuality(c), "failed")
  BY DEF MarkFailed
<1>2. /\ point' \in [Point -> Shows]
      /\ \A d \in Category \ {c} : \A p \in PointsOf(d) : point'[p] = point[p]
      /\ MarkedAll(point', c) /\ Sums(point', c, FailedQuality(c))
  BY <1>1, SummaryHasNode, MarkedType DEF PublicationInv, TypeInv
<1>3. QED
  BY <1>1, <1>2, FailedQualityType, FinishedStep

-----------------------------------------------------------------------------
(* A command that publishes its step writes no point that sums up.         *)

LEMMA PublishOperationStep ==
  ASSUME PublicationInv, PublishOperation
  PROVE  PublicationInv'
<1>1. PICK status \in OperationStatus : point' = [point EXCEPT ![OperationPoint] = status]
  BY DEF PublishOperation
<1>2. UNCHANGED <<categoryQuality, hasData, attempted, health, outcome, ready, jobs, sources>>
  BY DEF PublishOperation
<1>3. point' \in [Point -> Shows]
  BY <1>1 DEF PublicationInv, TypeInv, OperationStatus, Shows, Status
<1>4. \A p \in Point : p # OperationPoint => point'[p] = point[p]
  BY <1>1 DEF PublicationInv, TypeInv
<1>5. TypeInv' /\ JobInv'
  BY <1>2, <1>3 DEF PublicationInv, TypeInv, JobInv, jobs
<1>6. SummaryInv'
  <2>1. \A c \in Category :
          /\ point'[<<c, "Quality">>] = point[<<c, "Quality">>]
          /\ c \in Collective => point'[<<c, "Live">>] = point[<<c, "Live">>]
    BY <1>4, QualityPoint, LivePoint, OperationApart
  <2>2. \A c \in Category : Sums(point', c, categoryQuality[c]) <=> Sums(point, c, categoryQuality[c])
    BY <2>1 DEF Sums
  <2>3. \A c \in Category : Awaits(point', c) <=> Awaits(point, c)
    BY <2>1 DEF Awaits
  <2>4. QED
    BY <1>2, <2>2, <2>3 DEF PublicationInv, SummaryInv
<1>7. StaleIsMarked'
  <2> SUFFICES ASSUME NEW c \in Category, outcome'[c] = "failed" PROVE MarkedAll(point', c)
    BY DEF StaleIsMarked, MarkedAll
  <2>1. MarkedAll(point, c)
    BY <1>2 DEF PublicationInv, StaleIsMarked, MarkedAll
  <2>2. \A p \in PointsOf(c) \ {OperationPoint} : point'[p] = point[p]
    BY <1>4, PointsApart
  <2>3. QED
    BY <2>1, <2>2 DEF MarkedAll
<1>8. QED
  BY <1>5, <1>6, <1>7 DEF PublicationInv

-----------------------------------------------------------------------------
(* The other actions touch no point.                                       *)

LEMMA ScheduleStep ==
  ASSUME PublicationInv, NEW c \in Category, Schedule(c)
  PROVE  JobInv'
<1> DEFINE n == Len(pool)
<1>1. /\ job \in [Category -> Job] /\ pool \in Seq(Category) /\ n \in Nat
      /\ \A d \in Category : job[d].at = "queued" <=> \E i \in 1..n : pool[i] = d
      /\ \A i, j \in 1..n : pool[i] = pool[j] => i = j
  BY DEF PublicationInv, JobInv
<1>2. /\ job[c].at = "idle" /\ job' = [job EXCEPT ![c] = [at |-> "queued"]]
      /\ pool' = Append(pool, c)
  BY DEF Schedule, NoJob, Idle
<1>3. /\ pool' \in Seq(Category) /\ Len(pool') = n + 1 /\ pool'[n + 1] = c
      /\ \A i \in 1..n : pool'[i] = pool[i]
  BY <1>1, <1>2
<1>4. job' \in [Category -> Job]
  BY <1>1, <1>2 DEF Job
<1> HIDE DEF n
<1>5. job'[c] = [at |-> "queued"] /\ \A d \in Category : d # c => job'[d] = job[d]
  BY <1>1, <1>2
<1>6. \A d \in Category : job'[d].at = "done" => job'[d].snapshot \in Found[d]
  BY <1>5 DEF PublicationInv, JobInv
<1>7. \A i \in 1..n : pool[i] # c
  BY <1>1, <1>2
<1>8. \A d \in Category : job'[d].at = "queued" <=> \E i \in 1..(n + 1) : pool'[i] = d
  BY <1>1, <1>3, <1>5
<1>9. \A i, j \in 1..(n + 1) : pool'[i] = pool'[j] => i = j
  BY <1>1, <1>3, <1>7
<1>10. QED
  BY <1>3, <1>4, <1>6, <1>8, <1>9 DEF JobInv

LEMMA StartJobStep ==
  ASSUME PublicationInv, StartJob
  PROVE  JobInv'
<1> DEFINE n == Len(pool)
           c == pool[1]
<1>1. /\ job \in [Category -> Job] /\ pool \in Seq(Category) /\ n \in Nat
      /\ \A d \in Category : job[d].at = "queued" <=> \E i \in 1..n : pool[i] = d
      /\ \A i, j \in 1..n : pool[i] = pool[j] => i = j
  BY DEF PublicationInv, JobInv
<1>2. n > 0 /\ c \in Category /\ Head(pool) = c
  BY <1>1 DEF StartJob
<1>3. job' = [job EXCEPT ![c] = [at |-> "running"]] /\ pool' = Tail(pool)
  BY <1>2 DEF StartJob
<1>4. /\ pool' \in Seq(Category) /\ Len(pool') = n - 1
      /\ \A i \in 1..(n - 1) : pool'[i] = pool[i + 1]
  BY <1>1, <1>2, <1>3
<1>5. job' \in [Category -> Job]
  BY <1>1, <1>2, <1>3 DEF Job
<1> HIDE DEF n
<1>6. job'[c] = [at |-> "running"] /\ \A d \in Category : d # c => job'[d] = job[d]
  BY <1>1, <1>2, <1>3
<1>7. \A d \in Category : job'[d].at = "done" => job'[d].snapshot \in Found[d]
  BY <1>6 DEF PublicationInv, JobInv
<1>8. \A i \in 1..(n - 1) : pool'[i] # c
  BY <1>1, <1>2, <1>4
<1>9. \A d \in Category : job'[d].at = "queued" <=> \E i \in 1..(n - 1) : pool'[i] = d
  <2> SUFFICES ASSUME NEW d \in Category, d # c
               PROVE  job[d].at = "queued" <=> \E i \in 1..(n - 1) : pool'[i] = d
    BY <1>6, <1>8
  <2>1. ASSUME NEW i \in 1..n, pool[i] = d PROVE i - 1 \in 1..(n - 1) /\ pool'[i - 1] = d
    BY <1>1, <1>2, <1>4, <2>1
  <2>2. ASSUME NEW i \in 1..(n - 1), pool'[i] = d PROVE i + 1 \in 1..n /\ pool[i + 1] = d
    BY <1>1, <1>2, <1>4, <2>2
  <2>3. QED
    BY <1>1, <2>1, <2>2
<1>10. \A i, j \in 1..(n - 1) : pool'[i] = pool'[j] => i = j
  <2> SUFFICES ASSUME NEW i \in 1..(n - 1), NEW j \in 1..(n - 1), pool'[i] = pool'[j]
               PROVE  i = j
    OBVIOUS
  <2>1. i + 1 \in 1..n /\ j + 1 \in 1..n /\ pool[i + 1] = pool[j + 1]
    BY <1>1, <1>2, <1>4
  <2>2. QED
    BY <1>1, <2>1
<1>11. QED
  BY <1>4, <1>5, <1>7, <1>9, <1>10 DEF JobInv

(* A collector that ends, or hangs, leaves the pool alone.                 *)
LEMMA CollectStep ==
  ASSUME PublicationInv, NEW c \in Category, Collected(c) \/ CollectorRaises(c) \/ Hang(c)
  PROVE  JobInv'
<1>1. PICK j \in Job :
        /\ job' = [job EXCEPT ![c] = j] /\ j.at \in {"done", "raised", "hung"}
        /\ j.at = "done" => j.snapshot \in Found[c]
  <2>1. CASE Collected(c)
    <3>1. PICK s \in Found[c] : job' = [job EXCEPT ![c] = [at |-> "done", snapshot |-> s]]
      BY <2>1 DEF Collected
    <3>2. s \in Snapshot
      BY PartsAssumption
    <3> DEFINE j == [at |-> "done", snapshot |-> s]
    <3>3. j \in Job /\ j.at = "done" /\ j.snapshot = s
      BY <3>2 DEF Job
    <3> HIDE DEF j
    <3>4. job' = [job EXCEPT ![c] = j]
      BY <3>1 DEF j
    <3>5. QED
      BY <3>3, <3>4
  <2>2. CASE CollectorRaises(c)
    <3> DEFINE j == [at |-> "raised"]
    <3>1. j \in Job /\ j.at = "raised" /\ job' = [job EXCEPT ![c] = j]
      BY <2>2 DEF CollectorRaises, Job
    <3> HIDE DEF j
    <3>2. QED
      BY <3>1
  <2>3. CASE Hang(c)
    <3> DEFINE j == [at |-> "hung"]
    <3>1. j \in Job /\ j.at = "hung" /\ job' = [job EXCEPT ![c] = j]
      BY <2>3 DEF Hang, Job
    <3> HIDE DEF j
    <3>2. QED
      BY <3>1
  <2>4. QED
    BY <2>1, <2>2, <2>3
<1>2. job[c].at = "running" /\ pool' = pool
  BY DEF Collected, CollectorRaises, Hang, jobs
<1>3. job' \in [Category -> Job] /\ job'[c] = j /\ \A d \in Category : d # c => job'[d] = job[d]
  BY <1>1 DEF PublicationInv, JobInv
<1>4. \A d \in Category : job'[d].at = "done" => job'[d].snapshot \in Found[d]
  BY <1>1, <1>3 DEF PublicationInv, JobInv
<1>5. \A d \in Category : job'[d].at = "queued" <=> job[d].at = "queued"
  BY <1>1, <1>2, <1>3
<1>6. QED
  BY <1>2, <1>3, <1>4, <1>5 DEF PublicationInv, JobInv

LEMMA SamePoints ==
  ASSUME PublicationInv, UNCHANGED <<published, ready>>, JobInv'
  PROVE  PublicationInv'
BY DEF PublicationInv, published, TypeInv, SummaryInv, StaleIsMarked

LEMMA InvStep == PublicationInv /\ [Next]_vars => PublicationInv'
<1> SUFFICES ASSUME PublicationInv, [Next]_vars PROVE PublicationInv'
  OBVIOUS
<1>1. CASE StartJob
  BY <1>1, StartJobStep, SamePoints DEF StartJob
<1>2. CASE SayReady
  BY <1>2 DEF SayReady, AllTried, published, jobs, PublicationInv, TypeInv, JobInv, SummaryInv,
              StaleIsMarked
<1>3. ASSUME NEW c \in Category, Schedule(c) PROVE PublicationInv'
  BY <1>3, ScheduleStep, SamePoints DEF Schedule
<1>4. ASSUME NEW c \in Category, Collected(c) \/ CollectorRaises(c) \/ Hang(c)
      PROVE  PublicationInv'
  BY <1>4, CollectStep, SamePoints DEF Collected, CollectorRaises, Hang
<1>5. ASSUME NEW c \in Category, ApplySnapshot(c) \/ ApplyRaises(c) \/ MarkFailed(c)
      PROVE  PublicationInv'
  BY <1>5, ApplySnapshotStep, ApplyRaisesStep, MarkFailedStep
<1>6. ASSUME NEW c \in Category, Break(c) \/ Repair(c) PROVE PublicationInv'
  BY <1>6, SamePoints DEF Break, Repair, jobs, PublicationInv, JobInv
<1>7. CASE UNCHANGED vars
  BY <1>7, SamePoints DEF vars, jobs, PublicationInv, JobInv
<1>8. CASE PublishOperation
  BY <1>8, PublishOperationStep
<1>9. QED
  BY <1>1, <1>2, <1>3, <1>4, <1>5, <1>6, <1>7, <1>8 DEF Next

LEMMA InvAlways == Spec => []PublicationInv
BY InvInit, InvStep, PTL DEF Spec

-----------------------------------------------------------------------------
(* Every category that failed shows it in each point of what it collects.  *)
THEOREM StaleMarked == Spec => []StaleIsMarked
<1>1. PublicationInv => StaleIsMarked
  BY DEF PublicationInv
<1>2. QED
  BY <1>1, InvAlways, PTL

(* Health agrees with the points, whatever failed, broke or hung.          *)
THEOREM HealthTrue == Spec => []HealthIsTrue
<1>1. ASSUME PublicationInv PROVE HealthIsTrue
  <2> DEFINE quality(c) == point[<<c, "Quality">>]
             waiting    == \E c \in Category : quality(c) = "Waiting"
  <2>1. categoryQuality \in [Category -> Quality] /\ attempted \subseteq Category
    BY <1>1 DEF PublicationInv, TypeInv
  <2>2. \A c \in Category : quality(c) = "Waiting" <=> c \notin attempted
    BY <1>1, <2>1 DEF PublicationInv, SummaryInv, Sums, Awaits, Quality
  <2>3. \A c \in attempted : quality(c) = categoryQuality[c]
    BY <1>1, <2>1 DEF PublicationInv, SummaryInv, Sums
  <2>4. waiting <=> attempted # Category
    BY <2>1, <2>2
  <2>5. ASSUME NEW c \in Collective
        PROVE  /\ point[<<c, "Live">>] = "Good" <=> quality(c) = "Good"
               /\ point[<<c, "Live">>] \in {"NoCommunication", "Unavailable"}
                    <=> quality(c) \in {"Bad", "NotAvailable"}
    <3>1. c \in Category
      BY LivePoint
    <3>2. CASE c \in attempted
      <4>1. Sums(point, c, categoryQuality[c]) /\ categoryQuality[c] \in Quality
        BY <1>1, <2>1, <3>1, <3>2 DEF PublicationInv, SummaryInv
      <4>2. point[<<c, "Live">>] = StatusOf(categoryQuality[c]) /\ quality(c) = categoryQuality[c]
        BY <4>1 DEF Sums
      <4>3. QED
        BY <4>1, <4>2, StatusOfValues
    <3>3. CASE c \notin attempted
      BY <1>1, <3>1, <3>3 DEF PublicationInv, SummaryInv, Awaits
    <3>4. QED
      BY <3>2, <3>3
  <2>6. CASE attempted = {}
    <3>1. health.overall = "Waiting"
      BY <1>1, <2>6 DEF PublicationInv, SummaryInv
    <3>2. waiting /\ ~ \A c \in Category : quality(c) = "Good"
      BY <2>2, <2>6, CategoryAssumption
    <3>3. QED
      BY <2>5, <3>1, <3>2 DEF HealthIsTrue
  <2>7. CASE attempted # {}
    <3>1. health.overall = Health(categoryQuality, attempted).overall
      BY <1>1, <2>7 DEF PublicationInv, SummaryInv
    <3>2. health.overall =
            (IF attempted # Category THEN "Starting"
             ELSE IF \E c \in Essential : categoryQuality[c] \in {"Bad", "NotAvailable"}
                  THEN "Failed"
             ELSE IF \E c \in Category : categoryQuality[c] # "Good" THEN "Degraded"
             ELSE "OK")
      BY <3>1 DEF Health
    <3>3. CASE attempted # Category
      BY <2>2, <2>4, <2>5, <3>2, <3>3 DEF HealthIsTrue
    <3>4. CASE attempted = Category
      <4>1. ~waiting /\ Essential \subseteq attempted
        BY <2>4, <3>4, CategoryAssumption
      <4>2. (\A c \in Category : quality(c) = "Good") <=> \A c \in Category : categoryQuality[c] = "Good"
        BY <2>3, <3>4
      <4>3. (\E c \in Essential : quality(c) \in {"Bad", "NotAvailable"})
              <=> \E c \in Essential : categoryQuality[c] \in {"Bad", "NotAvailable"}
        BY <2>3, <4>1
      <4>4. (\E c \in Essential : categoryQuality[c] \in {"Bad", "NotAvailable"})
              => \E c \in Category : categoryQuality[c] # "Good"
        BY CategoryAssumption
      <4> HIDE DEF quality, waiting
      <4>5. /\ health.overall \in {"Waiting", "Starting"} <=> waiting
            /\ health.overall = "OK" <=> \A c \in Category : quality(c) = "Good"
            /\ health.overall = "Failed"
                 <=> ~waiting /\ \E c \in Essential : quality(c) \in {"Bad", "NotAvailable"}
        BY <3>2, <3>4, <4>1, <4>2, <4>3, <4>4
      <4>6. QED
        BY <2>5, <4>5 DEF quality, waiting, HealthIsTrue
    <3>5. QED
      BY <3>3, <3>4
  <2>8. QED
    BY <2>6, <2>7
<1>2. QED
  BY <1>1, InvAlways, PTL

(* READY is never sent while a category waits for its first collection.    *)
THEOREM ReadyComplete == Spec => []ReadyIsComplete
<1>1. ASSUME PublicationInv PROVE ReadyIsComplete
  <2> SUFFICES ASSUME ready, NEW c \in Category
               PROVE  point[<<c, "Quality">>] # "Waiting" /\ health.each[c] \in Quality
    BY DEF ReadyIsComplete
  <2>1. c \in attempted /\ attempted # {} /\ categoryQuality[c] \in Quality
    BY <1>1 DEF PublicationInv, TypeInv, SummaryInv
  <2>2. health = Health(categoryQuality, attempted)
    BY <1>1, <2>1 DEF PublicationInv, SummaryInv
  <2>3. health.each[c] = categoryQuality[c]
    BY <2>1, <2>2 DEF Health
  <2>4. point[<<c, "Quality">>] = categoryQuality[c]
    BY <1>1, <2>1 DEF PublicationInv, SummaryInv, Sums
  <2>5. QED
    BY <2>1, <2>3, <2>4 DEF Quality
<1>2. QED
  BY <1>1, InvAlways, PTL

(* Types; and no more jobs run than the pool has threads.                  *)
BusyInv == Cardinality(Busy) <= Workers

LEMMA BusyFinite == ASSUME NEW S \in SUBSET Category
                    PROVE  IsFiniteSet(S) /\ Cardinality(S) \in Nat
BY CategoryAssumption, FS_Subset, FS_CardinalityType

LEMMA BusyInit == Init => BusyInv
<1>1. Init => Busy = {}
  BY DEF Init, Busy, Idle
<1>2. QED
  BY <1>1, FS_EmptySet, BoundAssumption DEF BusyInv

LEMMA BusyStep ==
  PublicationInv /\ BusyInv /\ [Next]_vars => BusyInv'
<1> SUFFICES ASSUME PublicationInv, BusyInv, [Next]_vars
             PROVE  Cardinality(Busy') <= Workers
  BY DEF BusyInv
<1>1. job \in [Category -> Job]
  BY DEF PublicationInv, JobInv
<1>2. Busy \in SUBSET Category
  BY DEF Busy
<1>3. CASE StartJob
  <2>1. PICK c \in Category : job' = [job EXCEPT ![c] = [at |-> "running"]]
    <3>1. pool \in Seq(Category) /\ pool # <<>>
      BY <1>3 DEF StartJob, PublicationInv, JobInv
    <3>2. Head(pool) \in Category
      BY <3>1
    <3>3. QED
      BY <1>3, <3>2 DEF StartJob
  <2>2. Busy' = Busy \cup {c}
    BY <1>1, <2>1 DEF Busy
  <2>3. Cardinality(Busy') \in {Cardinality(Busy), Cardinality(Busy) + 1}
    BY <1>2, <2>2, BusyFinite, FS_AddElement
  <2>4. QED
    BY <1>2, <1>3, <2>3, BusyFinite, BoundAssumption DEF StartJob, ThreadFree
<1>4. CASE ~StartJob
  <2>1. Busy' \subseteq Busy
    <3> SUFFICES ASSUME NEW c \in Category, job'[c].at \in {"running", "hung"}
                 PROVE  job[c].at \in {"running", "hung"}
      BY DEF Busy
    <3>1. CASE job'[c] = job[c]
      BY <3>1
    <3>2. CASE job'[c] # job[c]
      <4>1. PICK d \in Category :
              \/ Schedule(d) \/ Collected(d) \/ CollectorRaises(d) \/ Hang(d)
              \/ ApplySnapshot(d) \/ ApplyRaises(d) \/ MarkFailed(d)
        BY <1>4, <3>2 DEF Next, SayReady, PublishOperation, Break, Repair, vars, jobs
      <4>2. d = c
        BY <1>1, <3>2, <4>1 DEF Schedule, Collected, CollectorRaises, Hang, ApplySnapshot,
                                ApplyRaises, MarkFailed, Finished
      <4>3. CASE Schedule(d)
        BY <1>1, <4>2, <4>3 DEF Schedule
      <4>4. CASE Collected(d) \/ CollectorRaises(d) \/ Hang(d)
        BY <4>2, <4>4 DEF Collected, CollectorRaises, Hang
      <4>5. CASE ApplySnapshot(d) \/ ApplyRaises(d) \/ MarkFailed(d)
        BY <1>1, <4>2, <4>5 DEF ApplySnapshot, ApplyRaises, MarkFailed, Finished, JobAfter, Idle
      <4>6. QED
        BY <4>1, <4>3, <4>4, <4>5
    <3>3. QED
      BY <3>1, <3>2
  <2>2. Cardinality(Busy') <= Cardinality(Busy) /\ Busy' \in SUBSET Category
    BY <1>2, <2>1, BusyFinite, FS_Subset
  <2>3. QED
    BY <1>2, <2>2, BusyFinite, BoundAssumption DEF BusyInv
<1>5. QED
  BY <1>3, <1>4

(* Type correctness: the pool holds the jobs that wait, each once, and no  *)
(* more jobs run than it has threads.                                      *)
THEOREM TypeCorrect == Spec => []TypeOK
<1>1. ASSUME PublicationInv, BusyInv PROVE TypeOK
  <2>1. pool \in Seq(Category) /\ IsInjective(pool) /\ ToSet(pool) = {pool[i] : i \in 1..Len(pool)}
    BY <1>1 DEF PublicationInv, JobInv, IsInjective, ToSet
  <2>2. \A c \in Category :
          /\ job[c].at \in {"idle", "queued", "running", "hung", "raised", "done"}
          /\ job[c].at = "done" => job[c].snapshot \in Found[c]
          /\ job[c].at = "queued" <=> c \in ToSet(pool)
    <3> SUFFICES ASSUME NEW c \in Category
                 PROVE  /\ job[c].at \in {"idle", "queued", "running", "hung", "raised", "done"}
                        /\ job[c].at = "done" => job[c].snapshot \in Found[c]
                        /\ job[c].at = "queued" <=> c \in ToSet(pool)
      OBVIOUS
    <3>1. job[c] \in Job
      BY <1>1 DEF PublicationInv, JobInv
    <3>2. job[c].at \in {"idle", "queued", "running", "hung", "raised", "done"}
      BY <3>1 DEF Job
    <3>3. job[c].at = "queued" <=> c \in ToSet(pool)
      BY <1>1, <2>1 DEF PublicationInv, JobInv
    <3>4. QED
      BY <1>1, <3>2, <3>3 DEF PublicationInv, JobInv
  <2>3. QED
    BY <1>1, <2>1, <2>2 DEF TypeOK, BusyInv, PublicationInv, TypeInv, Shows
<1>2. QED
  BY <1>1, BusyInit, BusyStep, InvInit, InvStep, PTL DEF Spec
=============================================================================
