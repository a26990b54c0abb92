---------------------------- MODULE Publication ----------------------------
(***************************************************************************)
(* What the OPC UA server publishes of the instrument (gizmo_opcua.py): a  *)
(* job per category collects on a pool of threads, the main loop applies   *)
(* what comes back to the points, marks the points of a category that      *)
(* failed, and sums up the health of the whole.                            *)
(*                                                                         *)
(* A point stands for all that are written alike, and is known by its      *)
(* status: values are left out, but for that of <category>.Quality, whose  *)
(* status is good from the first collection on.  Collectors read the       *)
(* instrument and the system; what they find is a choice.  A source may be *)
(* gone for a while, or deliver what cannot be applied, and some           *)
(* collectors may hang.  Commands publish how a calibration goes from      *)
(* threads of their own, whatever the collections do.                      *)
(***************************************************************************)
EXTENDS Naturals, FiniteSets, Sequences, SequencesExt

CONSTANTS
  Category,       \* the names of _job_specs
  Essential,      \* those without which health is Failed
  Collective,     \* those with points that take the quality of the snapshot
  Parts,          \* Parts[c]: interfaces, file systems, units or tables
  Expected,       \* Expected[c]: those that have points from the start
  Found,          \* Found[c]: what a collection may find, a set of snapshots
  Failing,        \* categories whose source may fail
  Hanging,        \* categories whose collector may never return
  Workers,        \* threads of the pool
  MaxBreak        \* bound on the times that a source fails

Quality == {"Good", "Uncertain", "Bad", "NotAvailable"}

Snapshot ==
  [quality : Quality, parts : UNION {[P -> Quality] : P \in SUBSET UNION {Parts[c] : c \in Category}},
   resistance : BOOLEAN]

ASSUME CategoryAssumption ==
  /\ Category \subseteq STRING \ {"Alarm"} /\ Category # {} /\ IsFiniteSet(Category)
  /\ Essential \cup Collective \subseteq Category /\ Failing \cup Hanging \subseteq Category
ASSUME PartsAssumption ==
  /\ \A c \in Category : Expected[c] \subseteq Parts[c] /\ Found[c] \subseteq Snapshot
  /\ \A c \in Category : Parts[c] \cap {"Live", "Quality", "Resistance", "Current", "Operation"} = {}
  /\ \A c \in Category : \A f \in Found[c] : DOMAIN f.parts \subseteq Parts[c]
ASSUME BoundAssumption ==
  Workers \in Nat \ {0} /\ MaxBreak \in Nat

VARIABLES
  point,        \* the status of each point, of a Quality point its value
  categoryQuality, hasData, attempted,
  health,       \* Health.Overall and Health.<category>
  ready,        \* READY=1 was sent
  outcome,      \* history: how the last job of each category ended
  job,          \* _jobs, and where each is
  pool,         \* the categories that wait for a thread, first come first served
  fault,        \* what is wrong with each source
  breaks

published == <<point, categoryQuality, hasData, attempted, health, outcome>>
jobs      == <<job, pool>>
sources   == <<fault, breaks>>
vars      == <<published, ready, jobs, sources>>

-----------------------------------------------------------------------------
(* Points.  Their path begins with the name of the category, but for those *)
(* of Alarm, which a measurement writes.  Those that tell how a            *)
(* calibration goes begin with Calibration, but no collection writes them: *)
(* one stands for the five.                                                *)

OperationPoint == <<"Calibration", "Operation">>

LivePoints(c) == IF c \in Collective THEN {<<c, "Live">>} ELSE {}

PointsOf(c) ==
  {<<c, "Quality">>} \cup LivePoints(c) \cup {<<c, i>> : i \in Parts[c]}
    \cup (IF c = "Measurement" THEN {<<c, "Resistance">>, <<c, "Current">>} ELSE {})
    \cup (IF c = "Calibration" THEN {OperationPoint} ELSE {})

AlarmPoint == <<"Alarm", "Live">>
Point == (UNION {PointsOf(c) : c \in Category})
           \cup (IF "Measurement" \in Category THEN {AlarmPoint} ELSE {})

Status == {"NoNode", "Waiting", "Good", "Uncertain", "NoCommunication", "Unavailable",
           "NoData", "NotSupported"}

(* A bug for HealthIsTrue to catch: a bad snapshot looks only uncertain.   *)
StatusOfLenient(quality) ==
  CASE quality = "Good"         -> "Good"
    [] quality = "NotAvailable" -> "NoCommunication"
    [] OTHER                    -> "Uncertain"

StatusOf(quality) ==
  CASE quality = "Good"         -> "Good"
    [] quality = "Uncertain"    -> "Uncertain"
    [] quality = "NotAvailable" -> "NoCommunication"
    [] quality = "Bad"          -> "Unavailable"

(* What _apply_... writes of a snapshot, and with which status.            *)
Writes(c, s) ==
  ({<<c, "Quality">>} \cup LivePoints(c) \cup {<<c, i>> : i \in DOMAIN s.parts})
    \cup (IF c = "Measurement" THEN {<<c, "Resistance">>, <<c, "Current">>, AlarmPoint} ELSE {})

StatusIn(p, s) ==
  CASE p[2] = "Quality"    -> s.quality
    [] p[2] = "Live"       -> StatusOf(s.quality)
    [] p[2] = "Resistance" -> IF s.resistance THEN "Good" ELSE "NoCommunication"
    [] p[2] = "Current"    -> "NotSupported"
    [] OTHER               -> StatusOf(s.parts[p[2]])

(* The points after some of the writes of an application.                  *)
Applied(s, written) ==
  [p \in Point |->
     IF p \in written THEN StatusIn(p, s) ELSE point[p]]

(* An exception in an application leaves the writes before it.             *)
Turn(p) ==
  CASE p = AlarmPoint -> 5 [] p[2] = "Quality" -> 4 [] p[2] = "Current" -> 3
    [] p[2] = "Resistance" -> 2 [] OTHER -> 1

Interrupted(c, s) ==
  {W \in SUBSET Writes(c, s) :
     \A p \in W : \A q \in Writes(c, s) \ W : Turn(p) <= Turn(q)}

FailedQuality(c) == IF c \in hasData THEN "Uncertain" ELSE "NotAvailable"

(* A bug for StaleIsMarked to catch: only what has no data yet is marked.  *)
MarkedIfNew(points, c) ==
  [p \in Point |->
     IF p \in PointsOf(c) /\ points[p] \notin {"NoNode", "Good"}
     THEN IF p[2] = "Quality" THEN FailedQuality(c) ELSE StatusOf(FailedQuality(c))
     ELSE points[p]]

(* _mark_prefix_failed: the values stay.                                   *)
Marked(points, c) ==
  [p \in Point |->
     IF p \in PointsOf(c) /\ points[p] # "NoNode"
     THEN IF p[2] = "Quality" THEN FailedQuality(c) ELSE StatusOf(FailedQuality(c))
     ELSE points[p]]

(* _update_health.                                                         *)
Health(quality, tried) ==
  [overall |->
     IF tried # Category THEN "Starting"
     ELSE IF \E c \in Essential : quality[c] \in {"Bad", "NotAvailable"} THEN "Failed"
     ELSE IF \E c \in Category : quality[c] # "Good" THEN "Degraded"
     ELSE "OK",
   each |-> [c \in Category |-> IF c \in tried THEN quality[c] ELSE "Starting"]]

-----------------------------------------------------------------------------
(* The jobs.                                                               *)

Idle == [at |-> "idle"]
Busy == {c \in Category : job[c].at \in {"running", "hung"}}

NoJob(c) == job[c] = Idle

(* _schedule_jobs, when the interval of the category has passed.           *)
Schedule(c) ==
  /\ NoJob(c)
  /\ job' = [job EXCEPT ![c] = [at |-> "queued"]]
  /\ pool' = Append(pool, c)
  /\ UNCHANGED <<published, ready, sources>>

ThreadFree == Cardinality(Busy) < Workers

StartJob ==
  /\ pool # <<>> /\ ThreadFree
  /\ job' = [job EXCEPT ![Head(pool)] = [at |-> "running"]]
  /\ pool' = Tail(pool)
  /\ UNCHANGED <<published, ready, sources>>

(* _collect_...                                                            *)
Collected(c) ==
  /\ job[c].at = "running" /\ fault[c] # "gone"
  /\ \E s \in Found[c] : job' = [job EXCEPT ![c] = [at |-> "done", snapshot |-> s]]
  /\ UNCHANGED <<published, ready, pool, sources>>

CollectorRaises(c) ==
  /\ job[c].at = "running" /\ fault[c] = "gone"
  /\ job' = [job EXCEPT ![c] = [at |-> "raised"]]
  /\ UNCHANGED <<published, ready, pool, sources>>

-----------------------------------------------------------------------------
(* _finish_jobs.                                                           *)

(* A bug for OthersGoOn to catch: a job is taken off when it succeeds.     *)
JobAfterKept(how) == IF how = "failed" THEN [at |-> "raised"] ELSE Idle

JobAfter(how) == Idle

Finished(c, quality, how) ==
  /\ job' = [job EXCEPT ![c] = JobAfter(how)]
  /\ attempted' = attempted \cup {c}
  /\ categoryQuality' = [categoryQuality EXCEPT ![c] = quality]
  /\ health' = Health(categoryQuality', attempted')
  /\ outcome' = [outcome EXCEPT ![c] = how]
  /\ UNCHANGED <<ready, pool, sources>>

ApplySnapshot(c) ==
  /\ job[c].at = "done" /\ fault[c] # "unfit"
  /\ point' = Applied(job[c].snapshot, Writes(c, job[c].snapshot))
  /\ hasData' = hasData \cup {c}
  /\ Finished(c, job[c].snapshot.quality, "applied")

ApplyRaises(c) ==
  /\ job[c].at = "done" /\ fault[c] = "unfit"
  /\ \E written \in Interrupted(c, job[c].snapshot) :
       point' = Marked(Applied(job[c].snapshot, written), c)
  /\ UNCHANGED hasData
  /\ Finished(c, FailedQuality(c), "failed")

MarkFailed(c) ==
  /\ job[c].at = "raised"
  /\ point' = Marked(point, c)
  /\ UNCHANGED hasData
  /\ Finished(c, FailedQuality(c), "failed")

(* A bug for ReadyIsComplete to catch: ready when a category has data.     *)
AnyHasData == hasData # {}

AllTried == Category \subseteq attempted

(* run: the first time that every category was tried.                      *)
SayReady ==
  /\ ~ready /\ AllTried
  /\ ready' = TRUE
  /\ UNCHANGED <<published, jobs, sources>>

-----------------------------------------------------------------------------
(* _publish_calibration_operation: at the start and at each step of a      *)
(* command, on the thread that takes it.  The progress and the time of the *)
(* end may have no value.                                                  *)
OperationStatus == {"Good", "NoData"}

(* One write of it: those of a mark may come before or after.              *)
PublishOperation ==
  /\ "Calibration" \in Category
  /\ \E status \in OperationStatus : point' = [point EXCEPT ![OperationPoint] = status]
  /\ UNCHANGED <<categoryQuality, hasData, attempted, health, outcome, ready, jobs, sources>>

-----------------------------------------------------------------------------
(* The sources.                                                            *)

Break(c) ==
  /\ breaks < MaxBreak /\ breaks' = breaks + 1
  /\ c \in Failing /\ fault[c] = "none"
  /\ \E how \in {"gone", "unfit"} : fault' = [fault EXCEPT ![c] = how]
  /\ UNCHANGED <<published, ready, jobs>>

Repair(c) ==
  /\ fault[c] # "none"
  /\ fault' = [fault EXCEPT ![c] = "none"]
  /\ UNCHANGED <<published, ready, jobs, breaks>>

Hang(c) ==
  /\ c \in Hanging /\ job[c].at = "running"
  /\ job' = [job EXCEPT ![c] = [at |-> "hung"]]
  /\ UNCHANGED <<published, ready, pool, sources>>

(* _mark_initial_values, then _restore_command_state: the operation that   *)
(* was saved, and the point that is never supported.                       *)
FirstStatus(p) ==
  IF p[2] = "Current" THEN "NotSupported"
  ELSE IF \E c \in Category : p[1] = c /\ p[2] \in Parts[c] \ Expected[c] THEN "NoNode"
  ELSE "Waiting"

Init ==
  /\ \E status \in OperationStatus :
       point = [p \in Point |-> IF p = OperationPoint THEN status ELSE FirstStatus(p)]
  /\ categoryQuality = [c \in Category |-> "NotAvailable"]
  /\ hasData = {} /\ attempted = {} /\ ready = FALSE
  /\ health = [overall |-> "Waiting", each |-> [c \in Category |-> "Waiting"]]
  /\ outcome = [c \in Category |-> "none"]
  /\ job = [c \in Category |-> Idle] /\ pool = <<>>
  /\ fault = [c \in Category |-> "none"] /\ breaks = 0

Next ==
  \/ StartJob \/ SayReady \/ PublishOperation
  \/ \E c \in Category :
       \/ Schedule(c) \/ Collected(c) \/ CollectorRaises(c)
       \/ ApplySnapshot(c) \/ ApplyRaises(c) \/ MarkFailed(c)
       \/ Break(c) \/ Repair(c) \/ Hang(c)

Spec == Init /\ [][Next]_vars

(* The main loop turns every 50 ms, an interval passes, and a collector    *)
(* that does not hang ends: its sockets and commands have time-outs.       *)
FairSpec ==
  /\ Spec /\ WF_vars(StartJob) /\ WF_vars(SayReady)
  /\ \A c \in Category :
       /\ WF_vars(Schedule(c))
       /\ WF_vars(Collected(c) \/ CollectorRaises(c))
       /\ WF_vars(ApplySnapshot(c) \/ ApplyRaises(c) \/ MarkFailed(c))

-----------------------------------------------------------------------------
(* Every variable has its type, and the pool holds exactly the jobs that   *)
(* wait, each once.                                                        *)
TypeOK ==
  /\ point \in [Point -> Status \cup Quality]
  /\ categoryQuality \in [Category -> Quality]
  /\ hasData \subseteq attempted /\ attempted \subseteq Category
  /\ ready \in BOOLEAN
  /\ \A c \in Category :
       /\ job[c].at \in {"idle", "queued", "running", "hung", "raised", "done"}
       /\ job[c].at = "done" => job[c].snapshot \in Found[c]
       /\ job[c].at = "queued" <=> c \in ToSet(pool)
  /\ pool \in Seq(Category) /\ IsInjective(pool)
  /\ Cardinality(Busy) <= Workers

(* A category whose last collection failed has no good point left of what  *)
(* it collects, but for the one that says so: the values stay, and a       *)
(* client can tell.  How a calibration goes is not collected: those points *)
(* are marked with the rest, and good again at the next step of a command. *)
StaleIsMarked ==
  \A c \in Category : outcome[c] = "failed" =>
    \A p \in PointsOf(c) \ {OperationPoint} :
      IF p[2] = "Quality" THEN point[p] \in {"Uncertain", "NotAvailable"} ELSE point[p] # "Good"

(* Health.Overall says what <category>.Quality says of each category, and  *)
(* so do the points that take the quality of a whole snapshot.             *)
HealthIsTrue ==
  LET quality(c) == point[<<c, "Quality">>]
      waiting    == \E c \in Category : quality(c) = "Waiting"
  IN
  /\ health.overall \in {"Waiting", "Starting"} <=> waiting
  /\ health.overall = "OK" <=> \A c \in Category : quality(c) = "Good"
  /\ health.overall = "Failed"
       <=> ~waiting /\ \E c \in Essential : quality(c) \in {"Bad", "NotAvailable"}
  /\ \A c \in Collective :
       /\ point[<<c, "Live">>] = "Good" <=> quality(c) = "Good"
       /\ point[<<c, "Live">>] \in {"NoCommunication", "Unavailable"}
            <=> quality(c) \in {"Bad", "NotAvailable"}

(* systemd is told READY when no category waits for its first collection.  *)
ReadyIsComplete ==
  ready => \A c \in Category :
    point[<<c, "Quality">>] # "Waiting" /\ health.each[c] \in Quality

(* A source that stays gone, or stays well, shows in its points, whichever *)
(* other collector hangs.                                                  *)
OthersGoOn ==
  \A c \in Category \ Hanging :
    /\ fault[c] # "none" ~> (outcome[c] = "failed" \/ fault[c] = "none")
    /\ fault[c] = "none" ~> (outcome[c] = "applied" \/ fault[c] # "none")
=============================================================================
