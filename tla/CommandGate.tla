----------------------------- MODULE CommandGate -----------------------------
(***************************************************************************)
(* The command gate of the OPC UA server (src/python/gizmo_opcua.py): the  *)
(* one place through which a remote client can change the instrument.      *)
(*                                                                         *)
(* Two threads of the server work on the gate.                             *)
(*   remote  the dispatch loop of python-opcua, which runs every remote    *)
(*           Call and Write to its end before it takes the next one;       *)
(*   main    run(): apply finished collections, forward configuration      *)
(*           writes, advance the active command, sleep, and again.         *)
(* A step of a thread is what happens between two points at which the      *)
(* other thread, or a crash, can be observed: the lock (_command_lock) is  *)
(* held inside a step, and across steps only while a thread is at          *)
(* "superseding" or "restore".  request() is a pair of steps, transmit and *)
(* reply; the instrument behind it is an environment that accepts, refuses *)
(* or does not answer.  What the collectors deliver is an environment too. *)
(*                                                                         *)
(* Left out: wording of results, publication of nodes that only copy the   *)
(* audit record, the legacy namespace (no remote write reaches it), and    *)
(* wall-clock time: a deadline passes at any moment after it was set.      *)
(***************************************************************************)
EXTENDS Naturals

CONSTANTS
  GateMode,     \* the effective gate mode of this installation
  Requests,     \* the <<role, path>> pairs that clients send
  Value,        \* the configuration values the server accepts
  OutOfRange,   \* values a client may write that it does not accept
  Measurements, \* the measurement snapshots the collector may deliver
  Pids,         \* the main PIDs of gizmo-zmon.service; 0 when it is not running
  DiskFaults,   \* whether reads and writes of the state file may fail
  DispatchFaults, \* whether clients send calls that the library refuses
  MaxCommand,   \* bound: commands accepted
  MaxRestart    \* bound: restarts of the OPC UA server

VARIABLES
  active,    \* _active_command
  audit,     \* _audit: the published record of the last command
  cal,       \* _calibration_operation
  locked,    \* _command_fault_locked
  disk,      \* opcua-command-state.json
  node,      \* the values of the two writable Configuration nodes
  last,      \* _last_threshold and _last_run_interval: the server's belief
  remote,    \* the dispatch thread: where it is and the request it serves
  main,      \* the main loop: where it is and what it has read so far
  snap,      \* _last_measurement_snapshot
  zmonPid,   \* _zmon_pid
  outcome,   \* history: the last audited state of each command
  restarts   \* how often the server was restarted

gateVars == <<active, audit, cal, locked>>
confVars == <<node, last>>
evidVars == <<snap, zmonPid>>
vars == <<active, audit, cal, locked, disk, node, last, remote, main, snap,
          zmonPid, outcome, restarts>>

-----------------------------------------------------------------------------
(* Paths, roles and states.                                                *)

Settings == {"ThresholdOhm", "AveragesPerCalculation"}
Restorations == {"AbortCalibration", "RestoreNormalState"}
MaintenanceMethods ==
  {"StartCalibration", "CaptureAdc", "NormalizeMagnitude", "SetSystemTime",
   "RestartMeasurementEngine"} \cup Restorations
Methods == {"ClearLatch"} \cup MaintenanceMethods
Paths   == Methods \cup Settings
Roles   == {"anonymous", "operator", "maintenance"}

InFlight == {"Accepted", "Running"}
Terminal == {"Succeeded", "Failed", "TimedOut"}
CommandStates == {"Idle", "Rejected"} \cup InFlight \cup Terminal

(* The verification a command awaits once its request was accepted.        *)
VerificationOf(p) ==
  CASE p = "ClearLatch"               -> "clear-latch"
    [] p = "StartCalibration"         -> "calibration"
    [] p = "CaptureAdc"               -> "capture-adc"
    [] p = "SetSystemTime"            -> "set-time"
    [] p = "RestartMeasurementEngine" -> "restart"
    [] p = "ThresholdOhm"             -> "threshold"
    [] p = "AveragesPerCalculation"   -> "averages"
    [] OTHER                          -> "restore"

Unverified == {"dispatching", "pending-write"}
Sweeping   == {"calibration", "calibration-timeout-restore"}
(* A bug for ReservationHeld to catch: advance also looks at commands that *)
(* are still being dispatched.                                             *)
AdvancesDispatching ==
  {"dispatching", "clear-latch", "capture-adc", "set-time", "restart",
   "threshold", "averages", "restore"} \cup Sweeping

Verifying  ==
  {"clear-latch", "capture-adc", "set-time", "restart", "threshold",
   "averages", "restore"} \cup Sweeping

CalStates ==
  {"Idle", "Starting", "Running", "Restoring", "Completed", "Failed",
   "Aborted", "Unknown"}
RestorationStates ==
  {"NotRequired", "Commanded", "Verified", "Failed", "Unknown"}

Command  == 1..MaxCommand
AnyValue == Value \cup OutOfRange
NoValue  == "none"

NoCommand ==
  [id |-> 0, path |-> "none", ver |-> "none", expected |-> NoValue,
   fresh |-> FALSE, startPid |-> 0, overdue |-> FALSE]
NewCommand(i, p) ==
  [id |-> i, path |-> p, ver |-> "dispatching", expected |-> NoValue,
   fresh |-> FALSE, startPid |-> zmonPid, overdue |-> FALSE]

IdleAudit == [id |-> 0, path |-> "none", state |-> "Idle"]
IdleCal   == [state |-> "Idle", restoration |-> "NotRequired"]
NoSnapshot ==
  [good |-> FALSE, threshold |-> NoValue, averages |-> NoValue,
   latched |-> FALSE, alarm |-> FALSE]
AtRest    == [at |-> "idle", path |-> "none", id |-> 0, arg |-> NoValue]
LoopStart ==
  [at |-> "capture", id |-> 0, path |-> "none", setting |-> "ThresholdOhm",
   value |-> NoValue]

ASSUME GateAssumption ==
  /\ GateMode \in {"disabled", "operator", "maintenance"}
  /\ Requests \subseteq Roles \X Paths
  /\ Value # {} /\ NoValue \notin AnyValue /\ Value \cap OutOfRange = {}
  /\ Measurements \subseteq
       [good : BOOLEAN, threshold : Value \cup {NoValue},
        averages : Value \cup {NoValue}, latched : BOOLEAN, alarm : BOOLEAN]
  /\ Pids \subseteq Nat
  /\ DiskFaults \in BOOLEAN /\ DispatchFaults \in BOOLEAN
  /\ MaxCommand \in Nat
  /\ MaxRestart \in Nat

-----------------------------------------------------------------------------
(* The bookkeeping that every change of the gate shares.                   *)

RemoteHoldsLock == remote.at = "superseding"
MainHoldsLock   == main.at = "restore"

(* _persist_command_state: atomic_write replaces the file or leaves it; an *)
(* OSError is printed and otherwise ignored.                               *)
Persist ==
  \/ disk' = [audit |-> audit', cal |-> cal', locked |-> locked']
  \/ DiskFaults /\ UNCHANGED disk

(* The history follows what the audit record says of each command.         *)
Record ==
  outcome' = IF audit'.id \in Command
             THEN [outcome EXCEPT ![audit'.id] = audit'.state]
             ELSE outcome

Publish == Persist /\ Record

(* _finish_command for the active command.                                 *)
Finish(state, fault) ==
  /\ audit' = [audit EXCEPT !.state = state]
  /\ active' = NoCommand
  /\ locked' = (locked \/ fault)

(* _finish_command: it finds no command to end when another step ended it. *)
FinishCommand(i, state) ==
  IF active.id = i
  THEN Finish(state, FALSE) /\ UNCHANGED cal /\ Publish
  ELSE UNCHANGED <<gateVars, disk, outcome>>

(* _set_command_running for the active command.                            *)
SetRunning(expected) ==
  /\ active' = [active EXCEPT !.ver = VerificationOf(active.path),
                              !.expected = expected, !.overdue = FALSE]
  /\ audit' = [audit EXCEPT !.state = "Running"]
  /\ UNCHANGED locked

(* _set_calibration_operation.                                             *)
Readback(state, restoration) == [state |-> state, restoration |-> restoration]
SetCal(state, restoration) == cal' = Readback(state, restoration)

-----------------------------------------------------------------------------
(* _begin_remote_command.                                                  *)

(* A running calibration may be superseded by AbortCalibration.            *)
Supersedes(p) == p = "AbortCalibration" /\ active.ver \in Sweeping

(* A bug for LockAdmitsOnlyRecovery to catch: the lock is not looked at.   *)
RefusedBlindToLock(role, p) ==
  \/ role \notin {"operator", "maintenance"}
  \/ GateMode = "disabled"
  \/ p \in MaintenanceMethods /\ (role # "maintenance" \/ GateMode # "maintenance")
  \/ active.id # 0 /\ ~Supersedes(p)

Refused(role, p) ==
  \/ role \notin {"operator", "maintenance"}
  \/ GateMode = "disabled"
  \/ p \in MaintenanceMethods /\ (role # "maintenance" \/ GateMode # "maintenance")
  \/ locked /\ p # "RestoreNormalState"
  \/ active.id # 0 /\ ~Supersedes(p)

(* _record_rejected: while a command is active its audit record stays.     *)
Reject(role, p) ==
  /\ remote.at = "idle"
  /\ ~MainHoldsLock
  /\ Refused(role, p)
  /\ active.id = 0
  /\ audit' = [id |-> 0, path |-> p, state |-> "Rejected"]
  /\ UNCHANGED <<active, cal, locked>>
  /\ Publish
  /\ UNCHANGED <<confVars, remote, main, evidVars, restarts>>

(* A bug for DispatchedIsDurable to catch: the reservation is not saved.   *)
ReserveUnsaved(i, p, arg) ==
  /\ outcome[i] = "Idle"
  /\ \A j \in Command : j < i => outcome[j] # "Idle"
  /\ active' = NewCommand(i, p)
  /\ audit' = [id |-> i, path |-> p, state |-> "Accepted"]
  /\ remote' = [at |-> IF p \in Settings THEN "write" ELSE "call",
                path |-> p, id |-> i, arg |-> arg]
  /\ UNCHANGED <<cal, locked, disk>>
  /\ Record
  /\ UNCHANGED <<confVars, main, evidVars, restarts>>

(* The reservation: the new command replaces whatever the record held.     *)
Reserve(i, p, arg) ==
  /\ outcome[i] = "Idle"
  /\ \A j \in Command : j < i => outcome[j] # "Idle"
  /\ active' = NewCommand(i, p)
  /\ audit' = [id |-> i, path |-> p, state |-> "Accepted"]
  /\ remote' = [at |-> IF p \in Settings THEN "write" ELSE "call",
                path |-> p, id |-> i, arg |-> arg]
  /\ UNCHANGED <<cal, locked>>
  /\ Publish
  /\ UNCHANGED <<confVars, main, evidVars, restarts>>

Begin(role, p, i, arg) ==
  /\ remote.at = "idle"
  /\ ~MainHoldsLock
  /\ ~Refused(role, p)
  /\ active.id = 0
  /\ (p \in Settings) <=> (arg # NoValue)
  /\ Reserve(i, p, arg)

(* AbortCalibration first fails the calibration it supersedes, with a save *)
(* of its own, and then reserves, all under the lock.                      *)
Supersede(role) ==
  /\ remote.at = "idle"
  /\ ~MainHoldsLock
  /\ ~Refused(role, "AbortCalibration")
  /\ active.id # 0
  /\ \E i \in Command : outcome[i] = "Idle"
  /\ Finish("Failed", FALSE)
  /\ UNCHANGED cal
  /\ Publish
  /\ remote' = [remote EXCEPT !.at = "superseding"]
  /\ UNCHANGED <<confVars, main, evidVars, restarts>>

BeginAbort(i) ==
  /\ remote.at = "superseding"
  /\ Reserve(i, "AbortCalibration", NoValue)

-----------------------------------------------------------------------------
(* _remote_call: the method bodies.  _current_command finds the command    *)
(* this thread reserved: nothing ends a command that is dispatching.       *)

(* StartCalibration and SetSystemTime check their argument first.          *)
InvalidArgument ==
  /\ remote.at = "call"
  /\ remote.path \in {"StartCalibration", "SetSystemTime"}
  /\ ~MainHoldsLock
  /\ FinishCommand(remote.id, "Failed")
  /\ remote' = AtRest
  /\ UNCHANGED <<confVars, main, evidVars, restarts>>

(* _remote_call: the library does not run the body, for instance for the   *)
(* wrong object or number of arguments.                                    *)
DispatchFailed ==
  /\ DispatchFaults
  /\ remote.at = "call"
  /\ ~MainHoldsLock
  /\ FinishCommand(remote.id, "Failed")
  /\ remote' = AtRest
  /\ UNCHANGED <<confVars, main, evidVars, restarts>>

(* NormalizeMagnitude writes a state file and reads it back: no request.   *)
Normalize ==
  /\ remote.at = "call"
  /\ remote.path = "NormalizeMagnitude"
  /\ ~MainHoldsLock
  /\ \E state \in {"Succeeded", "Failed"} : FinishCommand(remote.id, state)
  /\ remote' = AtRest
  /\ UNCHANGED <<confVars, main, evidVars, restarts>>

(* The other bodies transmit a request.  Those that stop or start a sweep  *)
(* first note, and save, what is about to happen to the instrument.        *)
Transmit ==
  /\ remote.at = "call"
  /\ remote.path # "NormalizeMagnitude"
  /\ remote' = [remote EXCEPT !.at = "await"]
  /\ UNCHANGED <<active, audit, locked, confVars, main, evidVars, outcome,
                 restarts>>
  /\ CASE remote.path = "StartCalibration" ->
            SetCal("Starting", "Unknown") /\ Persist
       [] remote.path \in Restorations ->
            SetCal("Restoring", "Commanded") /\ Persist
       [] OTHER -> UNCHANGED <<cal, disk>>

Replies == {"accepted", "refused", "lost"}

(* The reply.  Only an accepted one lets the command run; a refusal, a     *)
(* timeout or an error of the transport fails it, and for a restoration    *)
(* locks the gate.                                                         *)
ReplyAccepted ==
  /\ IF remote.path = "StartCalibration" THEN SetCal("Running", "Unknown")
                                         ELSE UNCHANGED cal
  /\ SetRunning(NoValue)

(* Bugs to catch.  FailedRestorationLocks: a refused restoration does not  *)
(* lock.  CalibrationAttended: the readback does not follow the failure.   *)
ReplyFailedUnlocked ==
  /\ CASE remote.path = "StartCalibration" -> SetCal("Failed", "Unknown")
       [] remote.path \in Restorations     -> SetCal("Failed", "Failed")
       [] OTHER                            -> UNCHANGED cal
  /\ Finish("Failed", FALSE)

ReplyFailedSilently ==
  Finish("Failed", remote.path \in Restorations) /\ UNCHANGED cal

ReplyFailed ==
  /\ CASE remote.path = "StartCalibration" -> SetCal("Failed", "Unknown")
       [] remote.path \in Restorations     -> SetCal("Failed", "Failed")
       [] OTHER                            -> UNCHANGED cal
  /\ Finish("Failed", remote.path \in Restorations)

RemoteReply(reply) ==
  /\ remote.at = "await"
  /\ ~MainHoldsLock
  /\ IF reply = "accepted" THEN ReplyAccepted ELSE ReplyFailed
  /\ Publish
  /\ remote' = AtRest
  /\ UNCHANGED <<confVars, main, evidVars, restarts>>

-----------------------------------------------------------------------------
(* _remote_write: the attribute is written first, and only then, without   *)
(* the lock, is the command marked for the main loop.                      *)

WriteAttribute ==
  /\ remote.at = "write"
  /\ node' = [node EXCEPT ![remote.path] = remote.arg]
  /\ remote' = [remote EXCEPT !.at = "written"]
  /\ UNCHANGED <<gateVars, disk, last, main, evidVars, outcome, restarts>>

(* The attribute service refuses the write, for instance for its type.     *)
WriteRefused ==
  /\ remote.at = "write"
  /\ ~MainHoldsLock
  /\ FinishCommand(remote.id, "Failed")
  /\ remote' = AtRest
  /\ UNCHANGED <<confVars, main, evidVars, restarts>>

(* The command object may have ended in the meantime: then nobody sees it. *)
MarkPending ==
  /\ remote.at = "written"
  /\ active' = IF active.id = remote.id
               THEN [active EXCEPT !.ver = "pending-write",
                                   !.expected = remote.arg]
               ELSE active
  /\ remote' = AtRest
  /\ UNCHANGED <<audit, cal, locked, disk, confVars, main, evidVars, outcome,
                 restarts>>

-----------------------------------------------------------------------------
(* _forward_configuration_writes, once per turn of the main loop and       *)
(* without the lock: the active command is read once, then each setting is *)
(* read, decided on and, when it differs, sent.                            *)

ToAdvance == [LoopStart EXCEPT !.at = "advance"]
NextSetting ==
  IF main.setting = "ThresholdOhm"
  THEN [main EXCEPT !.at = "read", !.setting = "AveragesPerCalculation",
                    !.value = NoValue]
  ELSE ToAdvance

Capture ==
  /\ main.at = "capture"
  /\ main' = [main EXCEPT !.at = "read", !.id = active.id, !.path = active.path]
  /\ UNCHANGED <<gateVars, disk, confVars, remote, evidVars, outcome,
                 restarts>>

ReadNode ==
  /\ main.at = "read"
  /\ main' = [main EXCEPT !.at = "decide", !.value = node[main.setting]]
  /\ UNCHANGED <<gateVars, disk, confVars, remote, evidVars, outcome,
                 restarts>>

(* The captured command still waits for its write to be looked at.         *)
CapturedIsPending ==
  /\ main.id # 0
  /\ main.path = main.setting
  /\ active.id = main.id
  /\ active.ver = "pending-write"

(* The server takes it for the value in force.  A waiting write is done.   *)
AlreadyInForce ==
  /\ main.at = "decide"
  /\ main.value = last[main.setting]
  /\ IF CapturedIsPending
     THEN ~RemoteHoldsLock /\ FinishCommand(main.id, "Succeeded")
     ELSE UNCHANGED <<gateVars, disk, outcome>>
  /\ main' = NextSetting
  /\ UNCHANGED <<confVars, remote, evidVars, restarts>>

(* run(): any exception of the forwarding fails a command that waits.      *)
ForwardingFailed ==
  /\ IF active.ver = "pending-write"
     THEN ~RemoteHoldsLock /\ FinishCommand(active.id, "Failed")
     ELSE UNCHANGED <<gateVars, disk, outcome>>
  /\ main' = ToAdvance

(* The value is outside the accepted range: the node is put back.          *)
RejectValue ==
  /\ main.at = "decide"
  /\ main.value # last[main.setting]
  /\ main.value \in OutOfRange
  /\ node' = [node EXCEPT ![main.setting] = last[main.setting]]
  /\ ForwardingFailed
  /\ UNCHANGED <<last, remote, evidVars, restarts>>

ForwardValue ==
  /\ main.at = "decide"
  /\ main.value # last[main.setting]
  /\ main.value \in Value
  /\ main' = [main EXCEPT !.at = "await"]
  /\ UNCHANGED <<gateVars, disk, confVars, remote, evidVars, outcome, restarts>>

(* A bug for WritesAreTakenUp to catch: the node is left as it is.         *)
ForwardLostKeepsNode ==
  /\ main.at = "await"
  /\ ForwardingFailed
  /\ UNCHANGED <<confVars, remote, evidVars, restarts>>

(* No answer: the node is put back, whatever it holds by now.              *)
ForwardLost ==
  /\ main.at = "await"
  /\ node' = [node EXCEPT ![main.setting] = last[main.setting]]
  /\ ForwardingFailed
  /\ UNCHANGED <<last, remote, evidVars, restarts>>

(* A bug for AuditSpec to catch: the command may have ended meanwhile.     *)
ForwardReplyRevives(reply) ==
  /\ main.at = "await"
  /\ last' = [last EXCEPT ![main.setting] = main.value]
  /\ node' = [node EXCEPT ![main.setting] = main.value]
  /\ IF main.path = main.setting /\ reply = "accepted"
     THEN ~RemoteHoldsLock /\ SetRunning(main.value) /\ UNCHANGED cal /\ Publish
     ELSE UNCHANGED <<gateVars, disk, outcome>>
  /\ main' = NextSetting
  /\ UNCHANGED <<remote, evidVars, restarts>>

(* An answer, a refusal included, makes the value the one the server takes *)
(* for that in force; only then is it looked at, and only for a captured   *)
(* write of this setting.                                                  *)
ForwardReply(reply) ==
  /\ main.at = "await"
  /\ last' = [last EXCEPT ![main.setting] = main.value]
  /\ node' = [node EXCEPT ![main.setting] = main.value]
  /\ IF main.path # main.setting
     THEN UNCHANGED <<gateVars, disk, outcome>> /\ main' = NextSetting
     ELSE IF reply = "accepted" /\ active.id = main.id
          THEN /\ ~RemoteHoldsLock
               /\ SetRunning(main.value)
               /\ UNCHANGED cal
               /\ Publish
               /\ main' = NextSetting
          ELSE ForwardingFailed
  /\ UNCHANGED <<remote, evidVars, restarts>>

-----------------------------------------------------------------------------
(* Evidence.  _finish_jobs applies a finished collection at the start of a *)
(* turn.  "recent" says that the sample is stamped, by the wall clock, no  *)
(* earlier than the active command was requested; the last good sample     *)
(* alone decides, so that a clock set back unsettles what was fresh.       *)

ApplyMeasurement(m, recent) ==
  /\ main.at = "capture"
  /\ snap' = m
  /\ active' = IF active.id # 0 /\ m.good
               THEN [active EXCEPT !.fresh = recent]
               ELSE active
  /\ UNCHANGED <<audit, cal, locked, disk, confVars, remote, main, zmonPid,
                 outcome, restarts>>

ApplyServices(pid) ==
  /\ main.at = "capture"
  /\ zmonPid' = pid
  /\ UNCHANGED <<gateVars, disk, confVars, remote, main, snap, outcome,
                 restarts>>

DeadlinePasses ==
  /\ active.ver \in Verifying
  /\ ~active.overdue
  /\ active' = [active EXCEPT !.overdue = TRUE]
  /\ UNCHANGED <<audit, cal, locked, disk, confVars, remote, main, evidVars,
                 outcome, restarts>>

(* _normal_mode_verified.  sameHash: the executable still has the hash it  *)
(* had when the command was accepted.                                      *)
NormalModeVerified(sameHash) ==
  /\ active.fresh
  /\ zmonPid > 0
  /\ ~(active.startPid > 0 /\ zmonPid = active.startPid)
  /\ sameHash

LatchVerified == active.fresh /\ (~snap.latched \/ snap.alarm)

(* What else each verification asks for.  readback: the clock, or the ADC  *)
(* file, shows what was asked for.                                         *)
ReadbackAgrees(readback) ==
  CASE active.ver = "threshold" -> /\ snap.threshold # NoValue
                                   /\ snap.threshold = active.expected
    [] active.ver = "averages"  -> snap.averages = active.expected
    [] active.ver \in {"set-time", "capture-adc"} -> readback
    [] OTHER -> active.ver # "clear-latch"

Verified(sameHash, readback) ==
  \/ active.ver = "clear-latch" /\ LatchVerified
  \/ NormalModeVerified(sameHash) /\ ReadbackAgrees(readback)

(* _advance_active_command, verified.  A calibration that had to be        *)
(* stopped is TimedOut even when the normal state is back; a verified      *)
(* restoration is what releases the fault lock.                            *)
Complete ==
  /\ CASE active.ver = "calibration" -> SetCal("Completed", "Verified")
       [] active.ver = "calibration-timeout-restore" ->
            SetCal("Failed", "Verified")
       [] active.ver = "restore" ->
            SetCal(IF active.path = "AbortCalibration" THEN "Aborted" ELSE "Idle",
                   "Verified")
       [] OTHER -> UNCHANGED cal
  /\ audit' = [audit EXCEPT !.state =
                 IF active.ver = "calibration-timeout-restore" THEN "TimedOut"
                                                               ELSE "Succeeded"]
  /\ active' = NoCommand
  /\ locked' = (locked /\ active.ver # "restore")

(* Bugs to catch.  LockInv: an overdue restoration does not lock.          *)
(* CalibrationReadbackEnds: it leaves the readback at Restoring.           *)
TimeOutUnlocked ==
  /\ IF active.ver \in Sweeping \cup {"restore"} THEN SetCal("Failed", "Failed")
                                                 ELSE UNCHANGED cal
  /\ Finish("TimedOut", active.ver \in Sweeping \cup {"restart"})

TimeOutKeepsReadback ==
  /\ IF active.ver \in Sweeping THEN SetCal("Failed", "Failed") ELSE UNCHANGED cal
  /\ Finish("TimedOut", active.ver \in Sweeping \cup {"restore", "restart"})

(* _advance_active_command, out of time: what may have left the instrument *)
(* in another state than the normal one locks the gate.                    *)
TimeOut ==
  /\ IF active.ver \in Sweeping \cup {"restore"} THEN SetCal("Failed", "Failed")
                                                 ELSE UNCHANGED cal
  /\ Finish("TimedOut", active.ver \in Sweeping \cup {"restore", "restart"})

AtAdvance == main.at = "advance" /\ ~RemoteHoldsLock

AdvanceComplete(sameHash, readback) ==
  /\ AtAdvance
  /\ active.ver \in Verifying
  /\ Verified(sameHash, readback)
  /\ Complete
  /\ Publish
  /\ main' = LoopStart
  /\ UNCHANGED <<confVars, remote, evidVars, restarts>>

(* An overdue calibration is stopped by a request, under the lock.         *)
AdvanceRestore(sameHash, readback) ==
  /\ AtAdvance
  /\ active.ver = "calibration"
  /\ ~Verified(sameHash, readback)
  /\ active.overdue
  /\ main' = [main EXCEPT !.at = "restore"]
  /\ UNCHANGED <<gateVars, disk, confVars, remote, evidVars, outcome,
                 restarts>>

AdvanceTimeOut(sameHash, readback) ==
  /\ AtAdvance
  /\ active.ver \in Verifying \ {"calibration"}
  /\ ~Verified(sameHash, readback)
  /\ active.overdue
  /\ TimeOut
  /\ Publish
  /\ main' = LoopStart
  /\ UNCHANGED <<confVars, remote, evidVars, restarts>>

(* Nothing to advance: no command, one that is not dispatched yet, or one  *)
(* that still has time.                                                    *)
AdvanceNothing(sameHash, readback) ==
  /\ AtAdvance
  /\ active.ver \in Verifying =>
       ~Verified(sameHash, readback) /\ ~active.overdue
  /\ main' = LoopStart
  /\ UNCHANGED <<gateVars, disk, confVars, remote, evidVars, outcome,
                 restarts>>

(* A bug for EveryCommandEnds to catch: a failed request is tried again.   *)
RestoreReplyRetries(reply) ==
  /\ main.at = "restore"
  /\ IF reply = "accepted"
     THEN /\ active' = [active EXCEPT !.ver = "calibration-timeout-restore",
                                      !.fresh = FALSE, !.startPid = zmonPid,
                                      !.overdue = FALSE]
          /\ SetCal("Restoring", "Commanded")
          /\ UNCHANGED <<audit, locked>>
     ELSE UNCHANGED gateVars
  /\ Publish
  /\ main' = LoopStart
  /\ UNCHANGED <<confVars, remote, evidVars, restarts>>

RestoreReply(reply) ==
  /\ main.at = "restore"
  /\ IF reply = "accepted"
     THEN /\ active' = [active EXCEPT !.ver = "calibration-timeout-restore",
                                      !.fresh = FALSE, !.startPid = zmonPid,
                                      !.overdue = FALSE]
          /\ SetCal("Restoring", "Commanded")
          /\ UNCHANGED <<audit, locked>>
     ELSE TimeOut
  /\ Publish
  /\ main' = LoopStart
  /\ UNCHANGED <<confVars, remote, evidVars, restarts>>

-----------------------------------------------------------------------------
(* The server stops, in whatever it was doing, and starts again:           *)
(* __init__ and _restore_command_state.  A state file that cannot be read  *)
(* back locks the gate and is left alone.                                  *)

(* A step that changes both the calibration readback and the command saves *)
(* twice, the readback first; when it is cut off between the two, the file *)
(* holds the new readback, and perhaps no lock, with the old record.       *)
HalfSaved ==
  IF audit.state \notin InFlight THEN {}
  ELSE [audit : {audit},
        cal : {Readback("Running", "Unknown"), Readback("Failed", "Unknown"),
               Readback("Failed", "Failed"), Readback("Failed", "Verified"),
               Readback("Completed", "Verified"), Readback("Aborted", "Verified"),
               Readback("Idle", "Verified")},
        locked : {locked, FALSE}]

(* Bugs to catch.  InterruptionLocks: the interrupted command is failed,   *)
(* the lock only restored.  RestartNeverFabricatesSuccess: the command is  *)
(* judged by the calibration readback that was saved before it.            *)
RestoredUnlocked(image) ==
  /\ audit' = IF image.audit.state \in InFlight
              THEN [image.audit EXCEPT !.state = "Failed"]
              ELSE image.audit
  /\ cal' = image.cal
  /\ locked' = image.locked
  /\ disk' = [audit |-> audit', cal |-> cal', locked |-> locked']

RestoredByReadback(image) ==
  /\ audit' = IF image.audit.state \in InFlight
              THEN [image.audit EXCEPT !.state =
                      IF image.cal.state = "Completed" THEN "Succeeded" ELSE "Failed"]
              ELSE image.audit
  /\ cal' = image.cal
  /\ locked' = (image.locked \/ image.audit.state \in InFlight)
  /\ disk' = [audit |-> audit', cal |-> cal', locked |-> locked']

Restored(image) ==
  IF image.audit.state \in InFlight
  THEN /\ audit' = [image.audit EXCEPT !.state = "Failed"]
       /\ SetCal("Unknown", "Unknown")
       /\ locked' = TRUE
       /\ \/ disk' = [audit |-> audit', cal |-> cal', locked |-> locked']
          \/ DiskFaults /\ disk' = image
  ELSE /\ audit' = image.audit
       /\ cal' = image.cal
       /\ locked' = image.locked
       /\ disk' = image

Unreadable ==
  /\ audit' = IdleAudit
  /\ cal' = IdleCal
  /\ locked' = TRUE
  /\ UNCHANGED disk

Restart ==
  /\ restarts < MaxRestart
  /\ restarts' = restarts + 1
  /\ \/ \E image \in HalfSaved \cup {disk} : Restored(image)
     \/ DiskFaults /\ Unreadable
  /\ Record
  /\ active' = NoCommand
  /\ remote' = AtRest
  /\ main' = LoopStart
  /\ snap' = NoSnapshot
  /\ zmonPid' = 0
  /\ last' \in [Settings -> Value]
  /\ node' = last'

-----------------------------------------------------------------------------

Init ==
  /\ active = NoCommand
  /\ audit = IdleAudit
  /\ cal = IdleCal
  /\ locked = FALSE
  /\ disk = [audit |-> IdleAudit, cal |-> IdleCal, locked |-> FALSE]
  /\ last \in [Settings -> Value]
  /\ node = last
  /\ remote = AtRest
  /\ main = LoopStart
  /\ snap = NoSnapshot
  /\ zmonPid = 0
  /\ outcome = [i \in Command |-> "Idle"]
  /\ restarts = 0

ClientRequest ==
  \E request \in Requests :
    \/ Reject(request[1], request[2])
    \/ \E i \in Command, arg \in AnyValue \cup {NoValue} :
         Begin(request[1], request[2], i, arg)
    \/ request[2] = "AbortCalibration" /\ Supersede(request[1])

RemoteStep ==
  \/ \E i \in Command : BeginAbort(i)
  \/ InvalidArgument
  \/ DispatchFailed
  \/ Normalize
  \/ Transmit
  \/ \E reply \in Replies : RemoteReply(reply)
  \/ WriteAttribute
  \/ WriteRefused
  \/ MarkPending

MainStep ==
  \/ Capture
  \/ ReadNode
  \/ AlreadyInForce
  \/ RejectValue
  \/ ForwardValue
  \/ ForwardLost
  \/ \E reply \in Replies \ {"lost"} : ForwardReply(reply)
  \/ \E sameHash, readback \in BOOLEAN :
       \/ AdvanceComplete(sameHash, readback)
       \/ AdvanceRestore(sameHash, readback)
       \/ AdvanceTimeOut(sameHash, readback)
       \/ AdvanceNothing(sameHash, readback)
  \/ \E reply \in Replies : RestoreReply(reply)

Evidence ==
  \/ \E m \in Measurements, recent \in BOOLEAN : ApplyMeasurement(m, recent)
  \/ \E pid \in Pids : ApplyServices(pid)

Next == ClientRequest \/ RemoteStep \/ MainStep \/ Evidence \/ DeadlinePasses
          \/ Restart

Spec == Init /\ [][Next]_vars

(* Both threads keep running (a request ends after REQUEST_TIMEOUT_MS at   *)
(* the latest), and monotonic time passes every deadline.                  *)
FairSpec ==
  Spec /\ WF_vars(RemoteStep) /\ WF_vars(MainStep) /\ WF_vars(DeadlinePasses)

-----------------------------------------------------------------------------
(* Types.                                                                  *)

ActiveType ==
  [id : 0..MaxCommand, path : Paths \cup {"none"},
   ver : Unverified \cup Verifying \cup {"none"},
   expected : AnyValue \cup {NoValue}, fresh : BOOLEAN, startPid : Nat,
   overdue : BOOLEAN]
AuditType ==
  [id : 0..MaxCommand, path : Paths \cup {"none"}, state : CommandStates]
CalType == [state : CalStates, restoration : RestorationStates]
SnapshotType ==
  [good : BOOLEAN, threshold : Value \cup {NoValue},
   averages : Value \cup {NoValue}, latched : BOOLEAN, alarm : BOOLEAN]
RemoteType ==
  [at : {"idle", "superseding", "call", "await", "write", "written"},
   path : Paths \cup {"none"}, id : 0..MaxCommand,
   arg : AnyValue \cup {NoValue}]
MainType ==
  [at : {"capture", "read", "decide", "await", "advance", "restore"},
   id : 0..MaxCommand, path : Paths \cup {"none"}, setting : Settings,
   value : AnyValue \cup {NoValue}]

(* Every variable ranges over the values the program gives it.             *)
TypeOK ==
  /\ active \in ActiveType
  /\ audit \in AuditType
  /\ cal \in CalType
  /\ locked \in BOOLEAN
  /\ disk \in [audit : AuditType, cal : CalType, locked : BOOLEAN]
  /\ node \in [Settings -> AnyValue]
  /\ last \in [Settings -> Value]
  /\ remote \in RemoteType
  /\ main \in MainType
  /\ snap \in SnapshotType
  /\ zmonPid \in Nat
  /\ outcome \in [Command -> CommandStates]
  /\ restarts \in 0..MaxRestart

-----------------------------------------------------------------------------
(* Safety.                                                                 *)

(* docs/opcua.md: a failed restoration fault-locks the gate.  Whatever the *)
(* two threads, a restart or a failing disk do, the published restoration  *)
(* state never says Failed while the gate takes commands.                  *)
FailedRestorationLocks == cal.restoration = "Failed" => locked

(* While the gate is fault-locked the only command in progress is the one  *)
(* that may release the lock.                                              *)
LockAdmitsOnlyRecovery ==
  locked /\ active.id # 0 => active.path = "RestoreNormalState"

(* The record of a command that is, or may be, acting on the instrument is *)
(* in the state file, so that a crash at this moment is noticed.           *)
DispatchedIsDurable ==
  active.id # 0 =>
    disk.audit.id = active.id /\ disk.audit.state \in InFlight

(* A method body's command is its own until the reply is in: neither the   *)
(* main loop nor another client ends it or lets it run.                    *)
ReservationHeld ==
  remote.at \in {"call", "await"} =>
    active.id = remote.id /\ active.ver = "dispatching"

(* A calibration readback that says work is in progress has a command that *)
(* will end it.                                                            *)
CalibrationAttended ==
  cal.state \in {"Starting", "Running", "Restoring"} =>
    \/ active.path \in {"StartCalibration"} \cup Restorations
    \/ remote.at = "superseding"

(* A restart fails the command it interrupts and locks the gate.           *)
InterruptionLocks ==
  [][restarts' # restarts /\ active.id # 0 =>
       locked' /\ outcome'[active.id] = "Failed"]_vars

(* docs/architecture.md: a server restart cannot turn an interrupted       *)
(* command into success, not even when the state file is stale.            *)
RestartNeverFabricatesSuccess ==
  [][restarts' # restarts =>
       \A i \in Command : outcome'[i] = "Succeeded" => outcome[i] = "Succeeded"]_vars

(* The gate as its abstract specification sees it.                         *)
Audit == INSTANCE CommandAudit WITH
  open <- active.id, recovery <- (active.path = "RestoreNormalState")

(* Its threads, requests and restarts together do to the open command and  *)
(* the lock what CommandAudit allows: begin one at a time, end each once,  *)
(* lock by an interruption, unlock by the recovery command alone.          *)
AuditSpec == Audit!Spec

-----------------------------------------------------------------------------
(* Why these hold: the inductive invariants that CommandGateProofs proves. *)

(* The fault lock.  A failed restoration is saved with the lock, or with a *)
(* command in flight that makes a restart lock; and a supersession, between*)
(* its two saves, excludes the main loop's use of the lock.                *)
FileLocks ==
  disk.cal.restoration = "Failed" =>
    disk.locked \/ disk.audit.state \in InFlight

(* The lock: what it guards, what it admits, and what a restart reads of   *)
(* it from the files.                                                      *)
LockInv ==
  /\ FailedRestorationLocks
  /\ LockAdmitsOnlyRecovery
  /\ FileLocks
  /\ remote.at = "superseding" => ~locked /\ active.id = 0
  /\ ~(RemoteHoldsLock /\ MainHoldsLock)

(* The active command is the one the audit record is about, and the other  *)
(* way round; its verification is the one of its path.                     *)
AgreementInv ==
  /\ active.id = 0 => active = NoCommand /\ audit.state \notin InFlight
  /\ active.id # 0 => /\ audit.id = active.id
                      /\ audit.state \in InFlight
                      /\ active.path \in Paths
  /\ audit.id # 0 => outcome[audit.id] = audit.state
  /\ \A record \in {audit, disk.audit} :
       record.id = 0 <=> record.state \in {"Idle", "Rejected"}
  /\ active.ver \in Sweeping => active.path = "StartCalibration"
  /\ active.ver = "restore" => active.path \in Methods
  /\ active.path = "RestoreNormalState" => active.ver \in {"dispatching", "restore"}

(* What the threads remember of a command is about that command: numbers   *)
(* are not reused.                                                         *)
ThreadInv ==
  /\ ReservationHeld
  /\ remote.at \in {"call", "await"} =>
       remote.id # 0 /\ remote.path = active.path /\ remote.path \in Methods
  /\ remote.at \in {"write", "written"} =>
       /\ remote.id # 0
       /\ outcome[remote.id] # "Idle"
       /\ remote.path \in Settings
       /\ active.id = remote.id => active.path = remote.path
  /\ main.id = 0 => main.path = "none"
  /\ main.id # 0 => /\ outcome[main.id] # "Idle"
                    /\ main.id = active.id => main.path = active.path
  /\ main.at = "restore" => active.id # 0 /\ active.ver = "calibration"

(* Without disk faults the state file mirrors the record, and every other  *)
(* command than the active one has ended or was never accepted.            *)
DurableInv ==
  /\ disk = [audit |-> audit, cal |-> cal, locked |-> locked]
  /\ \A i \in Command : outcome[i] \in InFlight => i = active.id
  /\ \A i \in Command : outcome[i] # "Rejected"

(* A configuration write that succeeds is in force: whatever the two       *)
(* threads did to its command meanwhile, and whether a measurement or the  *)
(* server's memory verified it, what it wrote is what the server last      *)
(* forwarded (gizmo_opcua.py:2828 and :3746 race for the verification).    *)
WriteSuccessIsInForce ==
  [][\A i \in Command :
       /\ active.id = i /\ active.path \in Settings
       /\ outcome[i] # "Succeeded" /\ outcome'[i] = "Succeeded"
       => last[active.path] = active.expected]_vars

-----------------------------------------------------------------------------
(* Liveness, under FairSpec.                                               *)

(* A client that follows LastCommandState sees a terminal state.           *)
EveryCommandEnds == \A i \in Command : active.id = i ~> active.id # i

(* A client that follows the calibration readbacks sees a terminal state.  *)
CalibrationReadbackEnds ==
  cal.state \in {"Starting", "Running", "Restoring"}
    ~> cal.state \in {"Idle", "Completed", "Failed", "Aborted", "Unknown"}

(* What a client writes is not left standing, also when it comes while an  *)
(* earlier value is on its way: the main loop sends it or puts the node    *)
(* back.  That is what the server did, not what the instrument has: `last' *)
(* is the value of the last request that was answered, be it by a refusal, *)
(* and one whose answer was lost may be in force.                          *)
WritesAreTakenUp == <>[](node = last)
=============================================================================
