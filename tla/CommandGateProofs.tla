-------------------------- MODULE CommandGateProofs --------------------------
(***************************************************************************)
(* Theorems about the command gate, for every gate mode, every set of      *)
(* clients' requests, every value and measurement, and every bound.        *)
(***************************************************************************)
EXTENDS CommandGate, TLAPS

-----------------------------------------------------------------------------
(* Type correctness.  Two facts about the threads' own variables make it   *)
(* inductive: a write in progress has a value, and a value in flight to    *)
(* the instrument is one the server accepts.                               *)

TypeInv ==
  /\ TypeOK
  /\ remote.at = "write" => remote.arg \in AnyValue
  /\ main.at = "await" => main.value \in Value

LEMMA RestingTypes ==
  /\ NoCommand \in ActiveType /\ IdleAudit \in AuditType
  /\ IdleCal \in CalType /\ NoSnapshot \in SnapshotType
  /\ AtRest \in RemoteType /\ LoopStart \in MainType
  /\ ToAdvance \in MainType
<1>1. 0 \in 0..MaxCommand /\ 0 \in Nat
  BY GateAssumption
<1>2. NoCommand \in ActiveType
  BY <1>1 DEF NoCommand, ActiveType
<1>3. IdleAudit \in AuditType /\ IdleCal \in CalType
  BY <1>1 DEF IdleAudit, AuditType, IdleCal, CalType, CommandStates, CalStates,
              RestorationStates
<1>4. NoSnapshot \in SnapshotType
  BY DEF NoSnapshot, SnapshotType
<1>5. AtRest \in RemoteType /\ LoopStart \in MainType /\ ToAdvance \in MainType
  BY <1>1 DEF AtRest, RemoteType, LoopStart, MainType, ToAdvance, Settings
<1>6. QED
  BY <1>2, <1>3, <1>4, <1>5

LEMMA TypeInit == Init => TypeInv
<1> SUFFICES ASSUME Init PROVE TypeInv
  OBVIOUS
<1>1. outcome \in [Command -> CommandStates]
  BY DEF Init, CommandStates
<1>2. node \in [Settings -> AnyValue] /\ last \in [Settings -> Value]
  BY DEF Init, AnyValue
<1>3. zmonPid \in Nat /\ restarts \in 0..MaxRestart
  BY GateAssumption DEF Init
<1>4. disk \in [audit : AuditType, cal : CalType, locked : BOOLEAN]
  BY RestingTypes DEF Init
<1>5. remote.at # "write" /\ main.at # "await"
  BY DEF Init, AtRest, LoopStart
<1>6. QED
  BY <1>1, <1>2, <1>3, <1>4, <1>5, RestingTypes DEF Init, TypeInv, TypeOK

LEMMA ReadbackType ==
  ASSUME NEW state \in CalStates, NEW restoration \in RestorationStates
  PROVE  Readback(state, restoration) \in CalType
BY DEF Readback, CalType

(* What a step that publishes leaves in the state file and in the history. *)
LEMMA PublishType ==
  ASSUME TypeOK, Publish, audit' \in AuditType, cal' \in CalType,
         locked' \in BOOLEAN
  PROVE  /\ disk' \in [audit : AuditType, cal : CalType, locked : BOOLEAN]
         /\ outcome' \in [Command -> CommandStates]
BY DEF TypeOK, Publish, Persist, Record, AuditType

LEMMA FinishType ==
  ASSUME TypeOK, NEW state \in Terminal, NEW fault, Finish(state, fault)
  PROVE  active' \in ActiveType /\ audit' \in AuditType /\ locked' \in BOOLEAN
BY RestingTypes DEF TypeOK, Finish, AuditType, CommandStates, Terminal

LEMMA FinishCommandType ==
  ASSUME TypeOK, NEW i, NEW state \in Terminal, FinishCommand(i, state)
  PROVE  /\ active' \in ActiveType /\ audit' \in AuditType
         /\ cal' \in CalType /\ locked' \in BOOLEAN
         /\ disk' \in [audit : AuditType, cal : CalType, locked : BOOLEAN]
         /\ outcome' \in [Command -> CommandStates]
<1>1. CASE active.id = i
  <2>1. Finish(state, FALSE) /\ cal' = cal /\ Publish
    BY <1>1 DEF FinishCommand
  <2>2. QED
    BY <2>1, FinishType, PublishType DEF TypeOK
<1>2. CASE active.id # i
  BY <1>2 DEF FinishCommand, TypeOK, gateVars
<1>3. QED
  BY <1>1, <1>2

LEMMA SetRunningType ==
  ASSUME TypeOK, NEW expected \in AnyValue \cup {NoValue}, SetRunning(expected)
  PROVE  active' \in ActiveType /\ audit' \in AuditType /\ locked' \in BOOLEAN
<1>1. VerificationOf(active.path) \in Verifying
  BY DEF VerificationOf, Verifying, Sweeping
<1>2. QED
  BY <1>1 DEF TypeOK, SetRunning, ActiveType, AuditType, CommandStates, InFlight

(* The steps of ClientRequest.                                             *)
LEMMA ReserveType ==
  ASSUME TypeInv, NEW i \in Command, NEW p \in Paths,
         NEW arg \in AnyValue \cup {NoValue},
         p \in Settings => arg \in AnyValue, Reserve(i, p, arg)
  PROVE  TypeInv'
<1>1. i \in 0..MaxCommand
  BY GateAssumption DEF Command
<1>2. active' \in ActiveType
  BY <1>1 DEF Reserve, NewCommand, ActiveType, TypeInv, TypeOK, Unverified
<1>3. audit' \in AuditType
  BY <1>1 DEF Reserve, AuditType, CommandStates, InFlight
<1>4. remote' \in RemoteType
  BY <1>1 DEF Reserve, RemoteType
<1>5. remote'.at = "write" => remote'.arg \in AnyValue
  BY DEF Reserve
<1>6. /\ disk' \in [audit : AuditType, cal : CalType, locked : BOOLEAN]
      /\ outcome' \in [Command -> CommandStates]
  BY <1>3, PublishType DEF Reserve, TypeInv, TypeOK
<1>7. QED
  BY <1>2, <1>3, <1>4, <1>5, <1>6
  DEF Reserve, TypeInv, TypeOK, confVars, evidVars

LEMMA ClientRequestType == TypeInv /\ ClientRequest => TypeInv'
<1> SUFFICES ASSUME TypeInv, NEW request \in Requests,
                    \/ Reject(request[1], request[2])
                    \/ \E i \in Command, arg \in AnyValue \cup {NoValue} :
                         Begin(request[1], request[2], i, arg)
                    \/ request[2] = "AbortCalibration" /\ Supersede(request[1])
             PROVE  TypeInv'
  BY DEF ClientRequest
<1> request[2] \in Paths
  BY GateAssumption
<1>1. CASE Reject(request[1], request[2])
  <2>1. audit' \in AuditType
    BY <1>1, GateAssumption DEF Reject, AuditType, CommandStates
  <2>2. /\ disk' \in [audit : AuditType, cal : CalType, locked : BOOLEAN]
        /\ outcome' \in [Command -> CommandStates]
    BY <1>1, <2>1, PublishType DEF Reject, TypeInv, TypeOK
  <2>3. QED
    BY <1>1, <2>1, <2>2 DEF Reject, TypeInv, TypeOK, confVars, evidVars
<1>2. ASSUME NEW i \in Command, NEW arg \in AnyValue \cup {NoValue},
             Begin(request[1], request[2], i, arg)
      PROVE  TypeInv'
  <2>1. request[2] \in Settings => arg \in AnyValue
    BY <1>2 DEF Begin
  <2>2. QED
    BY <1>2, <2>1, ReserveType DEF Begin
<1>3. CASE Supersede(request[1])
  <2>1. active' \in ActiveType /\ audit' \in AuditType /\ locked' \in BOOLEAN
    BY <1>3, FinishType DEF Supersede, Terminal, TypeInv
  <2>2. /\ disk' \in [audit : AuditType, cal : CalType, locked : BOOLEAN]
        /\ outcome' \in [Command -> CommandStates]
    BY <1>3, <2>1, PublishType DEF Supersede, TypeInv, TypeOK
  <2>3. remote' \in RemoteType /\ remote'.at # "write"
    BY <1>3 DEF Supersede, TypeInv, TypeOK, RemoteType
  <2>4. QED
    BY <1>3, <2>1, <2>2, <2>3 DEF Supersede, TypeInv, TypeOK, confVars, evidVars
<1>4. QED
  BY <1>1, <1>2, <1>3

(* The steps of the dispatch thread.                                       *)
LEMMA RemoteReplyType ==
  ASSUME TypeInv, NEW reply, RemoteReply(reply)
  PROVE  TypeInv'
<1>1. /\ active' \in ActiveType /\ audit' \in AuditType
      /\ cal' \in CalType /\ locked' \in BOOLEAN
  <2>1. CASE ReplyAccepted
    <3>1. active' \in ActiveType /\ audit' \in AuditType /\ locked' \in BOOLEAN
      BY <2>1, SetRunningType DEF ReplyAccepted, TypeInv
    <3>2. cal' \in CalType
      BY <2>1 DEF ReplyAccepted, SetCal, Readback, CalType, CalStates, RestorationStates,
                  TypeInv, TypeOK
    <3>3. QED
      BY <3>1, <3>2
  <2>2. CASE ReplyFailed
    <3>1. active' \in ActiveType /\ audit' \in AuditType /\ locked' \in BOOLEAN
      BY <2>2, FinishType DEF ReplyFailed, TypeInv, Terminal
    <3>2. cal' \in CalType
      BY <2>2 DEF ReplyFailed, SetCal, Readback, CalType, CalStates, RestorationStates,
                  TypeInv, TypeOK
    <3>3. QED
      BY <3>1, <3>2
  <2>3. QED
    BY <2>1, <2>2 DEF RemoteReply
<1>2. /\ disk' \in [audit : AuditType, cal : CalType, locked : BOOLEAN]
      /\ outcome' \in [Command -> CommandStates]
  BY <1>1, PublishType DEF RemoteReply, TypeInv
<1>3. remote' \in RemoteType /\ remote'.at # "write"
  BY RestingTypes DEF RemoteReply, AtRest
<1>4. QED
  BY <1>1, <1>2, <1>3 DEF RemoteReply, TypeInv, TypeOK, confVars, evidVars

LEMMA RemoteStepType == TypeInv /\ RemoteStep => TypeInv'
<1> SUFFICES ASSUME TypeInv, RemoteStep PROVE TypeInv'
  OBVIOUS
<1>1. ASSUME NEW i \in Command, BeginAbort(i) PROVE TypeInv'
  BY <1>1, ReserveType
  DEF BeginAbort, Paths, Methods, MaintenanceMethods, Restorations, Settings
<1>2. ASSUME NEW state \in Terminal, FinishCommand(remote.id, state),
             remote' = AtRest, UNCHANGED <<confVars, main, evidVars, restarts>>
      PROVE  TypeInv'
  <2>1. remote'.at # "write"
    BY <1>2 DEF AtRest
  <2>2. QED
    BY <1>2, <2>1, RestingTypes, FinishCommandType
    DEF TypeInv, TypeOK, confVars, evidVars
<1>3. CASE InvalidArgument
  BY <1>2, <1>3 DEF InvalidArgument, Terminal
<1>4. CASE Normalize \/ DispatchFailed
  BY <1>2, <1>4 DEF Normalize, DispatchFailed, Terminal
<1>5. CASE Transmit
  <2>1. cal' \in CalType
    BY <1>5, ReadbackType DEF Transmit, SetCal, Readback, CalStates, RestorationStates,
       TypeInv, TypeOK
  <2>2. disk' = disk \/ disk' = [audit |-> audit, cal |-> cal', locked |-> locked]
    BY <1>5 DEF Transmit, Persist
  <2>3. remote' \in RemoteType /\ remote'.at # "write"
    BY <1>5 DEF Transmit, TypeInv, TypeOK, RemoteType
  <2>4. QED
    BY <1>5, <2>1, <2>2, <2>3 DEF Transmit, TypeInv, TypeOK, confVars, evidVars
<1>6. ASSUME NEW reply \in Replies, RemoteReply(reply) PROVE TypeInv'
  BY <1>6, RemoteReplyType
<1>7. CASE WriteAttribute
  <2>1. node' \in [Settings -> AnyValue]
    BY <1>7 DEF WriteAttribute, TypeInv, TypeOK
  <2>2. remote' \in RemoteType /\ remote'.at # "write"
    BY <1>7 DEF WriteAttribute, TypeInv, TypeOK, RemoteType
  <2>3. QED
    BY <1>7, <2>1, <2>2 DEF WriteAttribute, TypeInv, TypeOK, gateVars, evidVars
<1>8. CASE WriteRefused
  BY <1>2, <1>8 DEF WriteRefused, Terminal
<1>9. CASE MarkPending
  <2>1. active' \in ActiveType
    BY <1>9 DEF MarkPending, TypeInv, TypeOK, ActiveType, RemoteType, Unverified
  <2>2. remote' \in RemoteType /\ remote'.at # "write"
    BY <1>9, RestingTypes DEF MarkPending, AtRest
  <2>3. QED
    BY <1>9, <2>1, <2>2 DEF MarkPending, TypeInv, TypeOK, confVars, evidVars
<1>10. QED
  BY <1>1, <1>3, <1>4, <1>5, <1>6, <1>7, <1>8, <1>9 DEF RemoteStep

(* The steps of the main loop.                                             *)
LEMMA MainTypes ==
  ASSUME TypeInv
  PROVE  NextSetting \in MainType /\ NextSetting.at # "await"
BY RestingTypes DEF TypeInv, TypeOK, NextSetting, ToAdvance, LoopStart, MainType,
                    Settings

LEMMA ForwardingFailedType ==
  ASSUME TypeInv, ForwardingFailed
  PROVE  /\ active' \in ActiveType /\ audit' \in AuditType
         /\ cal' \in CalType /\ locked' \in BOOLEAN
         /\ disk' \in [audit : AuditType, cal : CalType, locked : BOOLEAN]
         /\ outcome' \in [Command -> CommandStates]
         /\ main' \in MainType /\ main'.at # "await"
<1>1. main' \in MainType /\ main'.at # "await"
  BY RestingTypes DEF ForwardingFailed, ToAdvance, LoopStart
<1>2. CASE active.ver = "pending-write"
  BY <1>1, <1>2, FinishCommandType DEF ForwardingFailed, TypeInv, Terminal
<1>3. CASE active.ver # "pending-write"
  BY <1>1, <1>3 DEF ForwardingFailed, TypeInv, TypeOK, gateVars
<1>4. QED
  BY <1>2, <1>3

LEMMA ForwardType ==
  ASSUME TypeInv,
         \/ AlreadyInForce \/ RejectValue \/ ForwardValue \/ ForwardLost
         \/ \E reply \in Replies : ForwardReply(reply)
  PROVE  TypeInv'
<1>1. CASE AlreadyInForce
  <2>1. /\ active' \in ActiveType /\ audit' \in AuditType
        /\ cal' \in CalType /\ locked' \in BOOLEAN
        /\ disk' \in [audit : AuditType, cal : CalType, locked : BOOLEAN]
        /\ outcome' \in [Command -> CommandStates]
    <3>1. CASE CapturedIsPending
      BY <1>1, <3>1, FinishCommandType DEF AlreadyInForce, TypeInv, Terminal
    <3>2. CASE ~CapturedIsPending
      BY <1>1, <3>2 DEF AlreadyInForce, TypeInv, TypeOK, gateVars
    <3>3. QED
      BY <3>1, <3>2
  <2>2. QED
    BY <1>1, <2>1, MainTypes DEF AlreadyInForce, TypeInv, TypeOK, confVars, evidVars
<1>2. CASE RejectValue
  <2>1. node' \in [Settings -> AnyValue]
    BY <1>2 DEF RejectValue, TypeInv, TypeOK, MainType, AnyValue
  <2>2. QED
    BY <1>2, <2>1, ForwardingFailedType DEF RejectValue, TypeInv, TypeOK, evidVars
<1>3. CASE ForwardValue
  <2>1. main' \in MainType /\ main'.value \in Value
    BY <1>3 DEF ForwardValue, TypeInv, TypeOK, MainType
  <2>2. QED
    BY <1>3, <2>1
    DEF ForwardValue, TypeInv, TypeOK, gateVars, confVars, evidVars
<1>4. CASE ForwardLost
  <2>1. node' \in [Settings -> AnyValue]
    BY <1>4 DEF ForwardLost, TypeInv, TypeOK, MainType, AnyValue
  <2>2. QED
    BY <1>4, <2>1, ForwardingFailedType DEF ForwardLost, TypeInv, TypeOK, evidVars
<1>5. ASSUME NEW reply \in Replies, ForwardReply(reply) PROVE TypeInv'
  <2>1. node' \in [Settings -> AnyValue] /\ last' \in [Settings -> Value]
    BY <1>5 DEF ForwardReply, TypeInv, TypeOK, MainType, AnyValue
  <2>2. /\ active' \in ActiveType /\ audit' \in AuditType
        /\ cal' \in CalType /\ locked' \in BOOLEAN
        /\ disk' \in [audit : AuditType, cal : CalType, locked : BOOLEAN]
        /\ outcome' \in [Command -> CommandStates]
        /\ main' \in MainType /\ main'.at # "await"
    <3>1. CASE main.path # main.setting
      BY <1>5, <3>1, MainTypes DEF ForwardReply, TypeInv, TypeOK, gateVars
    <3>2. CASE /\ main.path = main.setting
               /\ reply = "accepted" /\ active.id = main.id
      <4>1. SetRunning(main.value) /\ cal' = cal /\ Publish /\ main' = NextSetting
        BY <1>5, <3>2 DEF ForwardReply
      <4>2. main.value \in AnyValue \cup {NoValue}
        BY DEF TypeInv, TypeOK, MainType
      <4>3. active' \in ActiveType /\ audit' \in AuditType /\ locked' \in BOOLEAN
        BY <4>1, <4>2, SetRunningType DEF TypeInv
      <4>4. QED
        BY <4>1, <4>3, MainTypes, PublishType DEF TypeInv, TypeOK
    <3>3. CASE /\ main.path = main.setting
               /\ ~(reply = "accepted" /\ active.id = main.id)
      BY <1>5, <3>3, ForwardingFailedType DEF ForwardReply
    <3>4. QED
      BY <3>1, <3>2, <3>3
  <2>3. QED
    BY <1>5, <2>1, <2>2 DEF ForwardReply, TypeInv, TypeOK, evidVars
<1>6. QED
  BY <1>1, <1>2, <1>3, <1>4, <1>5

LEMMA TimeOutType ==
  ASSUME TypeInv, TimeOut
  PROVE  /\ active' \in ActiveType /\ audit' \in AuditType
         /\ cal' \in CalType /\ locked' \in BOOLEAN
<1>1. active' \in ActiveType /\ audit' \in AuditType /\ locked' \in BOOLEAN
  BY FinishType DEF TimeOut, TypeInv, Terminal
<1>2. cal' \in CalType
  BY DEF TimeOut, SetCal, Readback, CalType, CalStates, RestorationStates, TypeInv, TypeOK
<1>3. QED
  BY <1>1, <1>2

(* A step that changes the gate alone and returns the loop to its start.   *)
LEMMA AdvanceFrame ==
  ASSUME TypeInv, active' \in ActiveType, audit' \in AuditType, cal' \in CalType,
         locked' \in BOOLEAN, Publish, main' = LoopStart,
         UNCHANGED <<confVars, remote, evidVars, restarts>>
  PROVE  TypeInv'
<1>1. /\ disk' \in [audit : AuditType, cal : CalType, locked : BOOLEAN]
      /\ outcome' \in [Command -> CommandStates]
  BY PublishType DEF TypeInv
<1>2. main' \in MainType /\ main'.at # "await"
  BY RestingTypes DEF LoopStart
<1>3. QED
  BY <1>1, <1>2 DEF TypeInv, TypeOK, confVars, evidVars

LEMMA AdvanceType ==
  ASSUME TypeInv, NEW sameHash, NEW readback, NEW reply,
         \/ AdvanceComplete(sameHash, readback) \/ AdvanceRestore(sameHash, readback)
         \/ AdvanceTimeOut(sameHash, readback) \/ AdvanceNothing(sameHash, readback)
         \/ RestoreReply(reply)
  PROVE  TypeInv'
<1>1. CASE AdvanceComplete(sameHash, readback)
  <2>1. cal' \in CalType
    BY <1>1 DEF AdvanceComplete, Complete, SetCal, Readback, CalType, CalStates,
                RestorationStates, TypeInv, TypeOK
  <2>2. audit' \in AuditType
    BY <1>1 DEF AdvanceComplete, Complete, AuditType, CommandStates, Terminal,
                TypeInv, TypeOK
  <2>3. active' \in ActiveType /\ locked' \in BOOLEAN
    BY <1>1, RestingTypes DEF AdvanceComplete, Complete
  <2>4. QED
    BY <1>1, <2>1, <2>2, <2>3, AdvanceFrame DEF AdvanceComplete
<1>2. CASE AdvanceRestore(sameHash, readback)
  <2>1. main' \in MainType /\ main'.at # "await"
    BY <1>2 DEF AdvanceRestore, TypeInv, TypeOK, MainType
  <2>2. QED
    BY <1>2, <2>1 DEF AdvanceRestore, TypeInv, TypeOK, gateVars, confVars, evidVars
<1>3. CASE AdvanceTimeOut(sameHash, readback)
  BY <1>3, TimeOutType, AdvanceFrame DEF AdvanceTimeOut
<1>4. CASE AdvanceNothing(sameHash, readback)
  <2>1. main' \in MainType /\ main'.at # "await"
    BY <1>4, RestingTypes DEF AdvanceNothing, LoopStart
  <2>2. QED
    BY <1>4, <2>1 DEF AdvanceNothing, TypeInv, TypeOK, gateVars, confVars, evidVars
<1>5. CASE RestoreReply(reply)
  <2>1. /\ active' \in ActiveType /\ audit' \in AuditType
        /\ cal' \in CalType /\ locked' \in BOOLEAN
    <3>1. CASE reply = "accepted"
      <4>1. active' \in ActiveType
        BY <1>5, <3>1 DEF RestoreReply, TypeInv, TypeOK, ActiveType, Verifying,
                          Sweeping
      <4>2. QED
        BY <1>5, <3>1, <4>1 DEF RestoreReply, SetCal, Readback, CalType, CalStates,
           RestorationStates, TypeInv, TypeOK
    <3>2. CASE reply # "accepted"
      BY <1>5, <3>2, TimeOutType DEF RestoreReply
    <3>3. QED
      BY <3>1, <3>2
  <2>2. QED
    BY <1>5, <2>1, AdvanceFrame DEF RestoreReply
<1>6. QED
  BY <1>1, <1>2, <1>3, <1>4, <1>5

LEMMA MainStepType == TypeInv /\ MainStep => TypeInv'
<1> SUFFICES ASSUME TypeInv, MainStep PROVE TypeInv'
  OBVIOUS
<1>1. CASE Capture
  <2>1. main' \in MainType /\ main'.at # "await"
    BY <1>1 DEF Capture, TypeInv, TypeOK, MainType, ActiveType
  <2>2. QED
    BY <1>1, <2>1 DEF Capture, TypeInv, TypeOK, gateVars, confVars, evidVars
<1>2. CASE ReadNode
  <2>1. main' \in MainType /\ main'.at # "await"
    BY <1>2 DEF ReadNode, TypeInv, TypeOK, MainType
  <2>2. QED
    BY <1>2, <2>1 DEF ReadNode, TypeInv, TypeOK, gateVars, confVars, evidVars
<1>3. QED
  BY <1>1, <1>2, ForwardType, AdvanceType DEF MainStep

(* The environment, deadlines and restarts.                                *)
LEMMA EnvironmentType ==
  TypeInv /\ (Evidence \/ DeadlinePasses \/ UNCHANGED vars) => TypeInv'
<1> SUFFICES ASSUME TypeInv, Evidence \/ DeadlinePasses \/ UNCHANGED vars
             PROVE  TypeInv'
  OBVIOUS
<1>1. ASSUME NEW m \in Measurements, NEW recent \in BOOLEAN,
             ApplyMeasurement(m, recent)
      PROVE  TypeInv'
  <2>1. active' \in ActiveType
    BY <1>1 DEF ApplyMeasurement, TypeInv, TypeOK, ActiveType
  <2>2. snap' \in SnapshotType
    BY <1>1, GateAssumption DEF ApplyMeasurement, SnapshotType
  <2>3. QED
    BY <1>1, <2>1, <2>2 DEF ApplyMeasurement, TypeInv, TypeOK, confVars
<1>2. ASSUME NEW pid \in Pids, ApplyServices(pid) PROVE TypeInv'
  <2>1. zmonPid' \in Nat
    BY <1>2, GateAssumption DEF ApplyServices
  <2>2. QED
    BY <1>2, <2>1 DEF ApplyServices, TypeInv, TypeOK, gateVars, confVars
<1>3. CASE DeadlinePasses
  <2>1. active' \in ActiveType
    BY <1>3 DEF DeadlinePasses, TypeInv, TypeOK, ActiveType
  <2>2. QED
    BY <1>3, <2>1 DEF DeadlinePasses, TypeInv, TypeOK, confVars, evidVars
<1>4. CASE UNCHANGED vars
  BY <1>4 DEF vars, TypeInv, TypeOK
<1>5. QED
  BY <1>1, <1>2, <1>3, <1>4 DEF Evidence

LEMMA HalfSavedType ==
  ASSUME TypeInv
  PROVE  HalfSaved \subseteq [audit : AuditType, cal : CalType, locked : BOOLEAN]
<1>1. {Readback("Running", "Unknown"), Readback("Failed", "Unknown"),
       Readback("Failed", "Failed"), Readback("Failed", "Verified"),
       Readback("Completed", "Verified"), Readback("Aborted", "Verified"),
       Readback("Idle", "Verified")} \subseteq CalType
  BY DEF Readback, CalType, CalStates, RestorationStates
<1>2. audit \in AuditType /\ locked \in BOOLEAN
  BY DEF TypeInv, TypeOK
<1>3. QED
  BY <1>1, <1>2 DEF HalfSaved

LEMMA RestartType == TypeInv /\ Restart => TypeInv'
<1> SUFFICES ASSUME TypeInv, Restart PROVE TypeInv'
  OBVIOUS
<1>1. /\ audit' \in AuditType /\ cal' \in CalType /\ locked' \in BOOLEAN
      /\ disk' \in [audit : AuditType, cal : CalType, locked : BOOLEAN]
  <2>1. ASSUME NEW image \in HalfSaved \cup {disk}, Restored(image)
        PROVE  /\ audit' \in AuditType /\ cal' \in CalType /\ locked' \in BOOLEAN
               /\ disk' \in [audit : AuditType, cal : CalType, locked : BOOLEAN]
    <3>1. image \in [audit : AuditType, cal : CalType, locked : BOOLEAN]
      BY HalfSavedType DEF TypeInv, TypeOK
    <3>2. CASE image.audit.state \in InFlight
      <4>1. /\ audit' = [image.audit EXCEPT !.state = "Failed"]
            /\ cal' = Readback("Unknown", "Unknown") /\ locked' = TRUE
            /\ \/ disk' = [audit |-> audit', cal |-> cal', locked |-> locked']
               \/ disk' = image
        BY <2>1, <3>2 DEF Restored, SetCal, Readback
      <4>2. audit' \in AuditType
        BY <3>1, <4>1 DEF AuditType, CommandStates, Terminal
      <4>3. cal' \in CalType
        BY <4>1, ReadbackType DEF CalStates, RestorationStates
      <4>4. [audit |-> audit', cal |-> cal', locked |-> locked']
              \in [audit : AuditType, cal : CalType, locked : BOOLEAN]
        BY <4>1, <4>2, <4>3
      <4>5. disk' \in [audit : AuditType, cal : CalType, locked : BOOLEAN]
        BY <3>1, <4>1, <4>4
      <4>6. QED
        BY <4>1, <4>2, <4>3, <4>5
    <3>3. CASE image.audit.state \notin InFlight
      BY <2>1, <3>1, <3>3 DEF Restored
    <3>4. QED
      BY <3>2, <3>3
  <2>2. CASE Unreadable
    BY <2>2, RestingTypes DEF Unreadable, TypeInv, TypeOK
  <2>3. QED
    BY <2>1, <2>2 DEF Restart
<1>2. outcome' \in [Command -> CommandStates]
  BY <1>1 DEF Restart, Record, AuditType, TypeInv, TypeOK
<1>3. /\ last' \in [Settings -> Value] /\ node' \in [Settings -> AnyValue]
  BY DEF Restart, AnyValue
<1>4. restarts' \in 0..MaxRestart
  BY GateAssumption DEF Restart, TypeInv, TypeOK
<1>5. /\ active' \in ActiveType /\ remote' \in RemoteType /\ main' \in MainType
      /\ snap' \in SnapshotType /\ zmonPid' \in Nat
      /\ remote'.at # "write" /\ main'.at # "await"
  BY RestingTypes DEF Restart, AtRest, LoopStart
<1>6. QED
  BY <1>1, <1>2, <1>3, <1>4, <1>5 DEF TypeInv, TypeOK

(* What a restart finds: a record in flight, which fails and locks; a      *)
(* record at rest, taken over as it is; or a file it cannot read.          *)
FoundInFlight(found) ==
  /\ found.state \in InFlight
  /\ audit'.id = found.id /\ audit'.state = "Failed"
  /\ locked' = TRUE
  /\ \/ disk' = [audit |-> audit', cal |-> cal', locked |-> locked']
     \/ DiskFaults /\ disk'.audit = found

FoundAtRest ==
  /\ disk.audit.state \notin InFlight
  /\ audit' = disk.audit /\ cal' = disk.cal /\ locked' = disk.locked
  /\ disk' = disk

FoundNothing ==
  /\ DiskFaults
  /\ audit' = IdleAudit /\ cal' = IdleCal /\ locked' = TRUE
  /\ disk' = disk

LEMMA RestartCases ==
  ASSUME TypeInv, Restart
  PROVE  FoundInFlight(audit) \/ FoundInFlight(disk.audit) \/ FoundAtRest
           \/ FoundNothing
<1>1. CASE DiskFaults /\ Unreadable
  BY <1>1 DEF Unreadable, FoundNothing
<1>2. ASSUME NEW image, image.audit \in AuditType, Restored(image),
             image.audit.state \in InFlight
      PROVE  FoundInFlight(image.audit)
  BY <1>2 DEF Restored, FoundInFlight, AuditType
<1>3. ASSUME NEW image \in HalfSaved, Restored(image) PROVE FoundInFlight(audit)
  <2>1. audit.state \in InFlight /\ image.audit = audit /\ audit \in AuditType
    BY <1>3 DEF HalfSaved, TypeInv, TypeOK
  <2>2. QED
    BY <1>2, <1>3, <2>1
<1>4. CASE Restored(disk) /\ disk.audit.state \in InFlight
  BY <1>2, <1>4 DEF TypeInv, TypeOK
<1>5. CASE Restored(disk) /\ disk.audit.state \notin InFlight
  BY <1>5 DEF Restored, FoundAtRest
<1>6. QED
  BY <1>1, <1>3, <1>4, <1>5 DEF Restart

LEMMA TypeStep == TypeInv /\ [Next]_vars => TypeInv'
BY ClientRequestType, RemoteStepType, MainStepType, EnvironmentType, RestartType
DEF Next

(* Every variable of the gate keeps to the values the program gives it.    *)
THEOREM TypeCorrect == Spec => []TypeOK
<1>1. TypeInv => TypeOK
  BY DEF TypeInv
<1>2. QED
  BY <1>1, TypeInit, TypeStep, PTL DEF Spec

-----------------------------------------------------------------------------
(* The fault lock.  The steps that leave the command's path, the lock and  *)
(* the restoration state alone, or that end the command, keep LockInv.     *)

USE DEF FileLocks

(* A save keeps the state file's restoration state under its lock.         *)
LEMMA SavedLock ==
  ASSUME Persist, cal'.restoration = "Failed" => locked', FileLocks
  PROVE  FileLocks'
BY DEF Persist, FileLocks

LEMMA FinishCommandLock ==
  ASSUME TypeInv, LockInv, NEW i, NEW state, FinishCommand(i, state)
  PROVE  /\ cal' = cal /\ locked' = locked
         /\ active' = active \/ active'.id = 0
         /\ FileLocks'
<1>1. CASE active.id = i
  <2>1. cal' = cal /\ locked' = locked /\ active' = NoCommand /\ Persist
    BY <1>1 DEF FinishCommand, Finish, Publish, TypeInv, TypeOK
  <2>2. QED
    BY <2>1, SavedLock DEF LockInv, FailedRestorationLocks, NoCommand
<1>2. CASE active.id # i
  BY <1>2 DEF FinishCommand, gateVars, LockInv
<1>3. QED
  BY <1>1, <1>2

LEMMA ClientRequestLock == TypeInv /\ LockInv /\ ClientRequest => LockInv'
<1> SUFFICES ASSUME TypeInv, LockInv, NEW request \in Requests,
                    \/ Reject(request[1], request[2])
                    \/ \E i \in Command, arg \in AnyValue \cup {NoValue} :
                         Begin(request[1], request[2], i, arg)
                    \/ request[2] = "AbortCalibration" /\ Supersede(request[1])
             PROVE  LockInv'
  BY DEF ClientRequest
<1>1. CASE Reject(request[1], request[2])
  BY <1>1, SavedLock
  DEF Reject, Publish, LockInv, FailedRestorationLocks, LockAdmitsOnlyRecovery,
      RemoteHoldsLock, MainHoldsLock
<1>2. ASSUME NEW i \in Command, NEW arg \in AnyValue \cup {NoValue},
             Begin(request[1], request[2], i, arg)
      PROVE  LockInv'
  <2>1. locked => request[2] = "RestoreNormalState"
    BY <1>2 DEF Begin, Refused
  <2>2. active'.path = request[2] /\ remote'.at # "superseding"
    BY <1>2 DEF Begin, Reserve, NewCommand
  <2>3. QED
    BY <1>2, <2>1, <2>2, SavedLock
    DEF Begin, Reserve, Publish, LockInv, FailedRestorationLocks,
        LockAdmitsOnlyRecovery, RemoteHoldsLock
<1>3. CASE Supersede(request[1])
  <2>1. ~locked /\ ~locked' /\ active'.id = 0 /\ cal' = cal
    BY <1>3 DEF Supersede, Refused, Finish, NoCommand
  <2>2. FileLocks'
    BY <1>3, <2>1, SavedLock DEF Supersede, Publish, LockInv, FailedRestorationLocks
  <2>3. QED
    BY <1>3, <2>1, <2>2
    DEF Supersede, LockInv, FailedRestorationLocks, LockAdmitsOnlyRecovery,
        MainHoldsLock
<1>4. QED
  BY <1>1, <1>2, <1>3

LEMMA RemoteStepLock == TypeInv /\ LockInv /\ RemoteStep => LockInv'
<1> SUFFICES ASSUME TypeInv, LockInv, RemoteStep PROVE LockInv'
  OBVIOUS
<1>1. ASSUME NEW i \in Command, BeginAbort(i) PROVE LockInv'
  <2>1. ~locked /\ ~locked' /\ cal' = cal /\ remote'.at # "superseding"
    BY <1>1 DEF BeginAbort, Reserve, LockInv
  <2>2. QED
    BY <1>1, <2>1, SavedLock
    DEF BeginAbort, Reserve, Publish, LockInv, FailedRestorationLocks,
        LockAdmitsOnlyRecovery, RemoteHoldsLock
<1>2. ASSUME NEW state \in Terminal, FinishCommand(remote.id, state), remote' = AtRest
      PROVE  LockInv'
  BY <1>2, FinishCommandLock
  DEF LockInv, FailedRestorationLocks, LockAdmitsOnlyRecovery, RemoteHoldsLock, AtRest
<1>3. CASE InvalidArgument
  BY <1>2, <1>3 DEF InvalidArgument, Terminal
<1>4. CASE Normalize \/ DispatchFailed
  BY <1>2, <1>4 DEF Normalize, DispatchFailed, Terminal
<1>5. CASE Transmit
  <2>1. cal'.restoration = "Failed" => cal.restoration = "Failed"
    BY <1>5 DEF Transmit, SetCal, Readback
  <2>2. remote'.at # "superseding"
    BY <1>5 DEF Transmit, TypeInv, TypeOK, RemoteType
  <2>3. FileLocks'
    BY <1>5, <2>1, SavedLock DEF Transmit, LockInv, FailedRestorationLocks
  <2>4. QED
    BY <1>5, <2>1, <2>2, <2>3
    DEF Transmit, LockInv, FailedRestorationLocks, LockAdmitsOnlyRecovery,
        RemoteHoldsLock
<1>6. ASSUME NEW reply \in Replies, RemoteReply(reply) PROVE LockInv'
  <2>1. remote'.at # "superseding"
    BY <1>6 DEF RemoteReply, AtRest
  <2>2. FailedRestorationLocks' /\ LockAdmitsOnlyRecovery'
    <3>1. CASE ReplyAccepted
      BY <3>1 DEF ReplyAccepted, SetRunning, SetCal, Readback, LockInv, TypeInv, TypeOK,
                  ActiveType, FailedRestorationLocks, LockAdmitsOnlyRecovery
    <3>2. CASE ReplyFailed
      <4>1. active'.id = 0 /\ locked' = (locked \/ remote.path \in Restorations)
        BY <3>2 DEF ReplyFailed, Finish, NoCommand
      <4>2. cal'.restoration = "Failed" =>
              remote.path \in Restorations \/ cal.restoration = "Failed"
        BY <3>2 DEF ReplyFailed, SetCal, Readback
      <4>3. QED
        BY <4>1, <4>2 DEF LockInv, FailedRestorationLocks, LockAdmitsOnlyRecovery
    <3>3. QED
      BY <1>6, <3>1, <3>2 DEF RemoteReply
  <2>3. QED
    BY <1>6, <2>1, <2>2, SavedLock
    DEF RemoteReply, Publish, LockInv, FailedRestorationLocks, RemoteHoldsLock
<1>7. CASE WriteAttribute
  BY <1>7 DEF WriteAttribute, gateVars, LockInv, FailedRestorationLocks,
              LockAdmitsOnlyRecovery, RemoteHoldsLock, TypeInv, TypeOK, RemoteType
<1>8. CASE WriteRefused
  BY <1>2, <1>8 DEF WriteRefused, Terminal
<1>9. CASE MarkPending
  <2>1. active'.id = active.id /\ active'.path = active.path /\ remote'.at = "idle"
    BY <1>9 DEF MarkPending, AtRest, TypeInv, TypeOK, ActiveType
  <2>2. QED
    BY <1>9, <2>1 DEF MarkPending, LockInv, FailedRestorationLocks,
                      LockAdmitsOnlyRecovery, RemoteHoldsLock
<1>10. QED
  BY <1>1, <1>3, <1>4, <1>5, <1>6, <1>7, <1>8, <1>9 DEF RemoteStep

LEMMA ForwardingFailedLock ==
  ASSUME TypeInv, LockInv, ForwardingFailed
  PROVE  /\ cal' = cal /\ locked' = locked
         /\ active' = active \/ active'.id = 0
         /\ FileLocks'
         /\ main'.at = "advance"
<1>1. main'.at = "advance"
  BY DEF ForwardingFailed, ToAdvance, LoopStart
<1>2. CASE active.ver = "pending-write"
  BY <1>1, <1>2, FinishCommandLock DEF ForwardingFailed
<1>3. CASE active.ver # "pending-write"
  BY <1>1, <1>3 DEF ForwardingFailed, gateVars, LockInv
<1>4. QED
  BY <1>2, <1>3

LEMMA NextSettingAt == ASSUME TypeInv PROVE NextSetting.at \in {"read", "advance"}
BY DEF NextSetting, ToAdvance, LoopStart, TypeInv, TypeOK, MainType

(* Forwarding decides under the lock only when the other thread is not     *)
(* using it, and never touches the restoration state.                      *)
LEMMA ForwardLock ==
  ASSUME TypeInv, LockInv,
         \/ AlreadyInForce \/ RejectValue \/ ForwardValue \/ ForwardLost
         \/ \E reply \in Replies : ForwardReply(reply)
  PROVE  LockInv'
<1> USE DEF RemoteHoldsLock, MainHoldsLock
<1>1. ASSUME cal' = cal, locked' = locked, remote' = remote, main'.at # "restore",
             FileLocks',
             \/ active' = active \/ active'.id = 0
             \/ ~RemoteHoldsLock /\ active'.id = active.id /\ active'.path = active.path
      PROVE  LockInv'
  BY <1>1 DEF LockInv, FailedRestorationLocks, LockAdmitsOnlyRecovery
<1>2. CASE AlreadyInForce
  <2>1. CASE CapturedIsPending
    BY <1>1, <1>2, <2>1, FinishCommandLock, NextSettingAt DEF AlreadyInForce
  <2>2. CASE ~CapturedIsPending
    BY <1>1, <1>2, <2>2, NextSettingAt DEF AlreadyInForce, gateVars, LockInv
  <2>3. QED
    BY <2>1, <2>2
<1>3. CASE RejectValue
  BY <1>1, <1>3, ForwardingFailedLock DEF RejectValue
<1>4. CASE ForwardValue
  <2>1. main'.at = "await"
    BY <1>4 DEF ForwardValue, TypeInv, TypeOK, MainType
  <2>2. QED
    BY <1>1, <1>4, <2>1 DEF ForwardValue, gateVars, LockInv
<1>5. CASE ForwardLost
  BY <1>1, <1>5, ForwardingFailedLock DEF ForwardLost
<1>6. ASSUME NEW reply \in Replies, ForwardReply(reply) PROVE LockInv'
  <2>1. CASE main.path # main.setting
    BY <1>1, <1>6, <2>1, NextSettingAt DEF ForwardReply, gateVars, LockInv
  <2>2. CASE /\ main.path = main.setting
             /\ reply = "accepted" /\ active.id = main.id
    <3>1. /\ ~RemoteHoldsLock /\ SetRunning(main.value) /\ cal' = cal /\ Publish
          /\ main' = NextSetting /\ remote' = remote
      BY <1>6, <2>2 DEF ForwardReply
    <3>2. active'.id = active.id /\ active'.path = active.path /\ locked' = locked
      BY <3>1 DEF SetRunning, TypeInv, TypeOK, ActiveType
    <3>3. FileLocks'
      BY <3>1, <3>2, SavedLock DEF Publish, LockInv, FailedRestorationLocks
    <3>4. QED
      BY <1>1, <3>1, <3>2, <3>3, NextSettingAt
  <2>3. CASE /\ main.path = main.setting
             /\ ~(reply = "accepted" /\ active.id = main.id)
    BY <1>1, <1>6, <2>3, ForwardingFailedLock DEF ForwardReply
  <2>4. QED
    BY <2>1, <2>2, <2>3
<1>7. QED
  BY <1>2, <1>3, <1>4, <1>5, <1>6

(* Running out of time with the instrument in doubt locks the gate.        *)
LEMMA TimeOutLock ==
  ASSUME TypeInv, LockInv, TimeOut
  PROVE  active'.id = 0 /\ (cal'.restoration = "Failed" => locked')
<1>1. /\ active'.id = 0
      /\ locked' = (locked \/ active.ver \in Sweeping \cup {"restore", "restart"})
  BY DEF TimeOut, Finish, NoCommand
<1>2. cal'.restoration = "Failed" =>
        active.ver \in Sweeping \cup {"restore"} \/ cal.restoration = "Failed"
  BY DEF TimeOut, SetCal, Readback
<1>3. QED
  BY <1>1, <1>2 DEF LockInv, FailedRestorationLocks

LEMMA AdvanceLock ==
  ASSUME TypeInv, LockInv, NEW sameHash, NEW readback, NEW reply,
         \/ AdvanceComplete(sameHash, readback) \/ AdvanceRestore(sameHash, readback)
         \/ AdvanceTimeOut(sameHash, readback) \/ AdvanceNothing(sameHash, readback)
         \/ RestoreReply(reply)
  PROVE  LockInv'
<1> USE DEF RemoteHoldsLock, MainHoldsLock, AtAdvance
<1>1. ASSUME remote.at # "superseding", remote' = remote, main' = LoopStart, Publish,
             FailedRestorationLocks', LockAdmitsOnlyRecovery'
      PROVE  LockInv'
  BY <1>1, SavedLock DEF LockInv, Publish, FailedRestorationLocks, LoopStart
<1>2. CASE AdvanceComplete(sameHash, readback)
  <2>1. active'.id = 0
    BY <1>2 DEF AdvanceComplete, Complete, NoCommand
  <2>2. cal'.restoration = "Failed" => locked'
    <3>1. CASE active.ver \in Sweeping \cup {"restore"}
      <4>1. cal'.restoration = "Verified"
        BY <1>2, <3>1 DEF AdvanceComplete, Complete, SetCal, Readback, Sweeping
      <4>2. QED
        BY <4>1
    <3>2. CASE active.ver \notin Sweeping \cup {"restore"}
      <4>1. cal' = cal
        BY <1>2, <3>2 DEF AdvanceComplete, Complete, Sweeping
      <4>2. locked => locked'
        BY <1>2, <3>2 DEF AdvanceComplete, Complete
      <4>3. QED
        BY <4>1, <4>2 DEF LockInv, FailedRestorationLocks
    <3>3. QED
      BY <3>1, <3>2
  <2>3. QED
    BY <1>1, <1>2, <2>1, <2>2
    DEF AdvanceComplete, FailedRestorationLocks, LockAdmitsOnlyRecovery
<1>3. CASE AdvanceRestore(sameHash, readback)
  BY <1>3 DEF AdvanceRestore, gateVars, LockInv, FailedRestorationLocks,
              LockAdmitsOnlyRecovery
<1>4. CASE AdvanceTimeOut(sameHash, readback)
  BY <1>1, <1>4, TimeOutLock
  DEF AdvanceTimeOut, FailedRestorationLocks, LockAdmitsOnlyRecovery
<1>5. CASE AdvanceNothing(sameHash, readback)
  BY <1>5 DEF AdvanceNothing, gateVars, LockInv, FailedRestorationLocks,
              LockAdmitsOnlyRecovery, LoopStart
<1>6. CASE RestoreReply(reply)
  <2>1. remote.at # "superseding"
    BY <1>6 DEF RestoreReply, LockInv
  <2>2. CASE reply = "accepted"
    <3>1. active'.id = active.id /\ active'.path = active.path
      BY <1>6, <2>2 DEF RestoreReply, TypeInv, TypeOK, ActiveType
    <3>2. cal'.restoration = "Commanded" /\ locked' = locked
      BY <1>6, <2>2 DEF RestoreReply, SetCal, Readback
    <3>3. QED
      BY <1>1, <1>6, <2>1, <3>1, <3>2
      DEF RestoreReply, LockInv, FailedRestorationLocks, LockAdmitsOnlyRecovery
  <2>3. CASE reply # "accepted"
    BY <1>1, <1>6, <2>1, <2>3, TimeOutLock
    DEF RestoreReply, FailedRestorationLocks, LockAdmitsOnlyRecovery
  <2>4. QED
    BY <2>2, <2>3
<1>7. QED
  BY <1>2, <1>3, <1>4, <1>5, <1>6

LEMMA MainStepLock == TypeInv /\ LockInv /\ MainStep => LockInv'
<1> SUFFICES ASSUME TypeInv, LockInv, MainStep PROVE LockInv'
  OBVIOUS
<1>1. CASE Capture \/ ReadNode
  <2>1. main'.at # "restore" /\ UNCHANGED <<gateVars, disk, remote>>
    BY <1>1 DEF Capture, ReadNode, TypeInv, TypeOK, MainType
  <2>2. QED
    BY <2>1 DEF gateVars, LockInv, FailedRestorationLocks, LockAdmitsOnlyRecovery,
                RemoteHoldsLock, MainHoldsLock
<1>2. QED
  BY <1>1, ForwardLock, AdvanceLock DEF MainStep

LEMMA OtherStepLock ==
  TypeInv /\ LockInv /\ (Evidence \/ DeadlinePasses \/ Restart \/ UNCHANGED vars)
    => LockInv'
<1> SUFFICES ASSUME TypeInv, LockInv,
                    Evidence \/ DeadlinePasses \/ Restart \/ UNCHANGED vars
             PROVE  LockInv'
  OBVIOUS
<1> USE DEF RemoteHoldsLock, MainHoldsLock, FailedRestorationLocks,
            LockAdmitsOnlyRecovery
<1>1. CASE Evidence \/ DeadlinePasses \/ UNCHANGED vars
  <2>1. /\ active'.id = active.id /\ active'.path = active.path
        /\ UNCHANGED <<cal, locked, disk, remote, main>>
    BY <1>1 DEF Evidence, ApplyMeasurement, ApplyServices, DeadlinePasses, vars,
                gateVars, TypeInv, TypeOK, ActiveType
  <2>2. QED
    BY <2>1 DEF LockInv
<1>2. CASE Restart
  <2>1. active'.id = 0 /\ remote'.at = "idle"
    BY <1>2 DEF Restart, NoCommand, AtRest
  <2>2. /\ cal'.restoration = "Failed" => locked'
        /\ FileLocks'
    <3>1. CASE FoundInFlight(audit) \/ FoundInFlight(disk.audit)
      BY <3>1 DEF FoundInFlight
    <3>2. CASE FoundAtRest
      BY <3>2 DEF FoundAtRest, LockInv
    <3>3. CASE FoundNothing
      BY <3>3 DEF FoundNothing, LockInv, IdleCal
    <3>4. QED
      BY <1>2, <3>1, <3>2, <3>3, RestartCases
  <2>3. QED
    BY <2>1, <2>2 DEF LockInv
<1>3. QED
  BY <1>1, <1>2

LEMMA LockInit == Init => LockInv
BY DEF Init, LockInv, FailedRestorationLocks, LockAdmitsOnlyRecovery, NoCommand,
       IdleCal, AtRest, LoopStart, RemoteHoldsLock, MainHoldsLock

LEMMA LockStep == TypeInv /\ LockInv /\ [Next]_vars => LockInv'
BY ClientRequestLock, RemoteStepLock, MainStepLock, OtherStepLock DEF Next

HIDE DEF FileLocks

(* Whatever the threads, restarts and the disk do, the lock guards a       *)
(* failed restoration and admits the recovery command alone.               *)
THEOREM LockCorrect == Spec => []LockInv
BY TypeInit, TypeStep, LockInit, LockStep, PTL DEF Spec

(* While the last restoration counts as failed, the gate is locked or the  *)
(* command that will lock it is in flight; any clients, commands and disk. *)
THEOREM FailedRestorationIsLocked == Spec => []FailedRestorationLocks
<1>1. LockInv => FailedRestorationLocks
  BY DEF LockInv
<1>2. QED
  BY <1>1, LockCorrect, PTL

(* Under the lock the gate takes no command but RestoreNormalState.        *)
THEOREM RecoveryOnlyUnderLock == Spec => []LockAdmitsOnlyRecovery
<1>1. LockInv => LockAdmitsOnlyRecovery
  BY DEF LockInv
<1>2. QED
  BY <1>1, LockCorrect, PTL

-----------------------------------------------------------------------------
(* The kinds of step the gate takes, as far as the record is concerned.    *)
(* Every step is of one of these kinds or a restart (StepKinds); that the  *)
(* record and the threads agree, and that the gate implements its audit,   *)
(* then follow kind by kind.                                               *)

(* The command in progress, if any, goes on.                               *)
QuietStep ==
  /\ UNCHANGED <<audit, locked, outcome>>
  /\ Persist \/ UNCHANGED <<cal, disk>>
  /\ active'.id = active.id /\ active'.path = active.path
  /\ active.id = 0 => active' = active
  /\ \/ active'.ver = active.ver
     \/ active.path \in Settings /\ active'.ver = "pending-write"
     \/ active.ver = "calibration" /\ active'.ver = "calibration-timeout-restore"

RejectStep ==
  /\ active.id = 0 /\ active' = active /\ locked' = locked
  /\ audit'.id = 0 /\ audit'.state = "Rejected"
  /\ Publish

ReserveStep ==
  \E i \in Command, p \in Paths :
    /\ active.id = 0 /\ outcome[i] = "Idle"
    /\ active' = NewCommand(i, p)
    /\ audit' = [id |-> i, path |-> p, state |-> "Accepted"]
    /\ locked' = locked /\ (locked => p = "RestoreNormalState")
    /\ Publish

RunStep ==
  /\ active.id # 0
  /\ active'.id = active.id /\ active'.path = active.path
  /\ active'.ver = VerificationOf(active.path)
  /\ audit' = [audit EXCEPT !.state = "Running"]
  /\ locked' = locked
  /\ Publish

EndStep ==
  \E s \in Terminal :
    /\ active.id # 0 /\ active' = NoCommand
    /\ audit' = [audit EXCEPT !.state = s]
    /\ \/ locked' = (locked /\ s # "Succeeded")
       \/ s # "Succeeded" /\ locked' = TRUE
    /\ Publish

GateInv == TypeInv /\ LockInv /\ AgreementInv /\ ThreadInv

LEMMA RecordSame ==
  ASSUME GateInv, Record, audit' = audit PROVE outcome' = outcome
<1>1. CASE audit.id \in Command
  <2>1. outcome[audit.id] = audit.state
    BY <1>1 DEF GateInv, AgreementInv, Command
  <2>2. outcome' = [outcome EXCEPT ![audit.id] = outcome[audit.id]]
    BY <1>1, <2>1 DEF Record
  <2>3. QED
    BY <2>2 DEF GateInv, TypeInv, TypeOK
<1>2. CASE audit.id \notin Command
  BY <1>2 DEF Record
<1>3. QED
  BY <1>1, <1>2

LEMMA ActiveNumbered ==
  ASSUME GateInv, active.ver # "none" PROVE active.id # 0
BY DEF GateInv, AgreementInv, NoCommand

LEMMA FinishEnds ==
  ASSUME GateInv, NEW s \in Terminal, NEW fault, active.id # 0,
         Finish(s, fault), Publish, s = "Succeeded" => ~locked /\ ~fault
  PROVE  EndStep
<1>1. locked \in BOOLEAN
  BY DEF GateInv, TypeInv, TypeOK
<1>2. \/ locked' = (locked /\ s # "Succeeded")
      \/ s # "Succeeded" /\ locked' = TRUE
  BY <1>1 DEF Finish
<1>3. QED
  BY <1>2 DEF Finish, EndStep

LEMMA FinishCommandKind ==
  ASSUME GateInv, NEW i, NEW s \in Terminal, FinishCommand(i, s),
         i # 0, s = "Succeeded" => ~locked
  PROVE  QuietStep \/ EndStep
<1>1. CASE active.id = i
  BY <1>1, FinishEnds DEF FinishCommand
<1>2. CASE active.id # i
  BY <1>2 DEF FinishCommand, QuietStep, gateVars
<1>3. QED
  BY <1>1, <1>2

LEMMA RunKind ==
  ASSUME GateInv, NEW expected, active.id # 0, SetRunning(expected), Publish
  PROVE  RunStep
BY DEF RunStep, SetRunning, GateInv, TypeInv, TypeOK, ActiveType

LEMMA UnlockedSuccess ==
  ASSUME GateInv, active.id # 0, active.path # "RestoreNormalState"
  PROVE  ~locked
BY DEF GateInv, LockInv, LockAdmitsOnlyRecovery

LEMMA ClientRequestKind ==
  ASSUME GateInv, ClientRequest
  PROVE  RejectStep \/ ReserveStep \/ EndStep
<1>1. ASSUME NEW request \in Requests, Reject(request[1], request[2])
      PROVE  RejectStep
  BY <1>1 DEF Reject, RejectStep
<1>2. ASSUME NEW request \in Requests, NEW i \in Command,
             NEW arg \in AnyValue \cup {NoValue},
             Begin(request[1], request[2], i, arg)
      PROVE  ReserveStep
  <2>1. request[2] \in Paths
    BY GateAssumption
  <2>2. locked => request[2] = "RestoreNormalState"
    BY <1>2 DEF Begin, Refused
  <2>3. QED
    BY <1>2, <2>1, <2>2 DEF Begin, Reserve, ReserveStep
<1>3. ASSUME NEW request \in Requests, Supersede(request[1])
      PROVE  EndStep
  BY <1>3, FinishEnds DEF Supersede, Terminal
<1>4. QED
  BY <1>1, <1>2, <1>3 DEF ClientRequest

LEMMA RemoteStepKind ==
  ASSUME GateInv, RemoteStep
  PROVE  QuietStep \/ ReserveStep \/ RunStep \/ EndStep
<1>1. ASSUME NEW i \in Command, BeginAbort(i) PROVE ReserveStep
  <2>1. active.id = 0 /\ ~locked
    BY <1>1 DEF BeginAbort, GateInv, LockInv
  <2>2. "AbortCalibration" \in Paths
    BY DEF Paths, Methods, MaintenanceMethods, Restorations
  <2>3. QED
    BY <1>1, <2>1, <2>2 DEF BeginAbort, Reserve, ReserveStep
<1>2. remote.at \in {"call", "await"} => active.id = remote.id /\ remote.id # 0
                                       /\ active.path = remote.path
  BY DEF GateInv, ThreadInv, ReservationHeld
<1>3. CASE InvalidArgument
  BY <1>2, <1>3, FinishCommandKind DEF InvalidArgument, Terminal
<1>4. CASE Normalize \/ DispatchFailed
  BY <1>2, <1>4, FinishCommandKind, UnlockedSuccess
  DEF Normalize, DispatchFailed, Terminal
<1>5. CASE Transmit
  BY <1>5 DEF Transmit, QuietStep
<1>6. ASSUME NEW reply \in Replies, RemoteReply(reply)
      PROVE  RunStep \/ EndStep
  <2>1. CASE ReplyAccepted
    BY <1>2, <1>6, <2>1, RunKind DEF RemoteReply, ReplyAccepted
  <2>2. CASE ReplyFailed
    BY <1>2, <1>6, <2>2, FinishEnds DEF RemoteReply, ReplyFailed, Terminal
  <2>3. QED
    BY <1>6, <2>1, <2>2 DEF RemoteReply
<1>7. CASE WriteAttribute
  BY <1>7 DEF WriteAttribute, gateVars, QuietStep
<1>8. CASE WriteRefused
  BY <1>8, FinishCommandKind DEF WriteRefused, Terminal, GateInv, ThreadInv
<1>9. CASE MarkPending
  <2>1. CASE active.id = remote.id
    BY <1>9, <2>1 DEF MarkPending, QuietStep, GateInv, ThreadInv, TypeInv, TypeOK,
                      ActiveType
  <2>2. CASE active.id # remote.id
    BY <1>9, <2>2 DEF MarkPending, QuietStep
  <2>3. QED
    BY <2>1, <2>2
<1>10. QED
  BY <1>1, <1>3, <1>4, <1>5, <1>6, <1>7, <1>8, <1>9 DEF RemoteStep

LEMMA ForwardingFailedKind ==
  ASSUME GateInv, ForwardingFailed PROVE QuietStep \/ EndStep
<1>1. CASE active.ver = "pending-write"
  BY <1>1, FinishCommandKind, ActiveNumbered DEF ForwardingFailed, Terminal
<1>2. CASE active.ver # "pending-write"
  BY <1>2 DEF ForwardingFailed, gateVars, QuietStep
<1>3. QED
  BY <1>1, <1>2

LEMMA ForwardKind ==
  ASSUME GateInv,
         \/ AlreadyInForce \/ RejectValue \/ ForwardValue \/ ForwardLost
         \/ \E reply \in Replies : ForwardReply(reply)
  PROVE  QuietStep \/ RunStep \/ EndStep
<1>1. CASE AlreadyInForce
  <2>1. CASE CapturedIsPending
    <3>1. active.id # 0 /\ active.path # "RestoreNormalState"
      BY <2>1 DEF CapturedIsPending, GateInv, ThreadInv, TypeInv, TypeOK, MainType,
                  Settings
    <3>2. QED
      BY <1>1, <2>1, <3>1, FinishCommandKind, UnlockedSuccess
      DEF AlreadyInForce, CapturedIsPending, Terminal
  <2>2. CASE ~CapturedIsPending
    BY <1>1, <2>2 DEF AlreadyInForce, gateVars, QuietStep
  <2>3. QED
    BY <2>1, <2>2
<1>2. CASE RejectValue
  BY <1>2, ForwardingFailedKind DEF RejectValue
<1>3. CASE ForwardValue
  BY <1>3 DEF ForwardValue, gateVars, QuietStep
<1>4. CASE ForwardLost
  BY <1>4, ForwardingFailedKind DEF ForwardLost
<1>5. ASSUME NEW reply \in Replies, ForwardReply(reply)
      PROVE  QuietStep \/ RunStep \/ EndStep
  <2>1. CASE main.path # main.setting
    BY <1>5, <2>1 DEF ForwardReply, gateVars, QuietStep
  <2>2. CASE main.path = main.setting /\ reply = "accepted" /\ active.id = main.id
    <3>1. main.id # 0
      BY <2>2 DEF GateInv, ThreadInv, TypeInv, TypeOK, MainType, Settings
    <3>2. SetRunning(main.value) /\ Publish
      BY <1>5, <2>2 DEF ForwardReply
    <3>3. QED
      BY <2>2, <3>1, <3>2, RunKind
  <2>3. CASE main.path = main.setting /\ ~(reply = "accepted" /\ active.id = main.id)
    BY <1>5, <2>3, ForwardingFailedKind DEF ForwardReply
  <2>4. QED
    BY <2>1, <2>2, <2>3
<1>6. QED
  BY <1>1, <1>2, <1>3, <1>4, <1>5

LEMMA TimeOutKind ==
  ASSUME GateInv, active.id # 0, TimeOut, Publish PROVE EndStep
BY FinishEnds DEF TimeOut, Terminal

LEMMA AdvanceKind ==
  ASSUME GateInv, NEW sameHash \in BOOLEAN, NEW readback \in BOOLEAN,
         NEW reply \in Replies,
         \/ AdvanceComplete(sameHash, readback) \/ AdvanceRestore(sameHash, readback)
         \/ AdvanceTimeOut(sameHash, readback) \/ AdvanceNothing(sameHash, readback)
         \/ RestoreReply(reply)
  PROVE  QuietStep \/ EndStep
<1>1. active.ver \in Verifying => active.id # 0
  BY ActiveNumbered DEF Verifying, Sweeping
<1>2. CASE AdvanceComplete(sameHash, readback)
  <2>1. active.id # 0 /\ active' = NoCommand /\ Publish
    BY <1>1, <1>2 DEF AdvanceComplete, Complete
  <2>2. CASE active.ver = "calibration-timeout-restore"
    BY <1>2, <2>1, <2>2 DEF AdvanceComplete, Complete, EndStep, Terminal, GateInv,
                            TypeInv, TypeOK
  <2>3. CASE active.ver # "calibration-timeout-restore"
    <3>1. audit' = [audit EXCEPT !.state = "Succeeded"]
      BY <1>2, <2>3 DEF AdvanceComplete, Complete
    <3>2. active.ver = "restore" \/ ~locked
      BY <1>2, <2>1, UnlockedSuccess
      DEF AdvanceComplete, Verifying, Sweeping, GateInv, AgreementInv
    <3>3. locked' = FALSE
      BY <1>2, <3>2 DEF AdvanceComplete, Complete
    <3>4. QED
      BY <2>1, <3>1, <3>3 DEF EndStep, Terminal
  <2>4. QED
    BY <2>2, <2>3
<1>3. CASE AdvanceRestore(sameHash, readback)
  BY <1>3 DEF AdvanceRestore, gateVars, QuietStep
<1>4. CASE AdvanceTimeOut(sameHash, readback)
  BY <1>1, <1>4, TimeOutKind DEF AdvanceTimeOut
<1>5. CASE AdvanceNothing(sameHash, readback)
  BY <1>5 DEF AdvanceNothing, gateVars, QuietStep
<1>6. CASE RestoreReply(reply)
  <2>1. active.id # 0 /\ active.ver = "calibration"
    BY <1>6 DEF RestoreReply, GateInv, ThreadInv
  <2>2. CASE reply = "accepted"
    <3>1. /\ active'.id = active.id /\ active'.path = active.path
          /\ active'.ver = "calibration-timeout-restore"
      BY <1>6, <2>2 DEF RestoreReply, GateInv, TypeInv, TypeOK, ActiveType
    <3>2. UNCHANGED <<audit, locked>> /\ Persist /\ Record
      BY <1>6, <2>2 DEF RestoreReply, Publish
    <3>3. QED
      BY <2>1, <3>1, <3>2, RecordSame DEF QuietStep
  <2>3. CASE reply # "accepted"
    BY <1>6, <2>1, <2>3, TimeOutKind DEF RestoreReply
  <2>4. QED
    BY <2>2, <2>3
<1>7. QED
  BY <1>2, <1>3, <1>4, <1>5, <1>6

LEMMA EvidenceKind ==
  ASSUME GateInv, Evidence \/ DeadlinePasses PROVE QuietStep
<1>1. /\ active'.id = active.id /\ active'.path = active.path
      /\ active'.ver = active.ver
      /\ UNCHANGED <<audit, cal, locked, disk, outcome>>
  BY DEF Evidence, ApplyMeasurement, ApplyServices, DeadlinePasses, gateVars,
         GateInv, TypeInv, TypeOK, ActiveType
<1>2. active.id = 0 => active' = active
  BY ActiveNumbered
  DEF Evidence, ApplyMeasurement, ApplyServices, DeadlinePasses, gateVars,
      Verifying, Sweeping
<1>3. QED
  BY <1>1, <1>2 DEF QuietStep

LEMMA StepKinds ==
  ASSUME GateInv, [Next]_vars
  PROVE  \/ QuietStep \/ RejectStep \/ ReserveStep \/ RunStep \/ EndStep
         \/ Restart
<1>1. CASE Evidence \/ DeadlinePasses
  BY <1>1, EvidenceKind
<1>2. CASE Capture \/ ReadNode
  BY <1>2 DEF Capture, ReadNode, gateVars, QuietStep
<1>3. CASE MainStep
  <2>1. BOOLEAN # {} /\ Replies # {}
    BY DEF Replies
  <2>2. QED
    BY <1>2, <1>3, <2>1, ForwardKind, AdvanceKind DEF MainStep
<1>4. CASE UNCHANGED vars
  BY <1>4 DEF vars, QuietStep
<1>5. QED
  BY <1>1, <1>3, <1>4, ClientRequestKind, RemoteStepKind DEF Next

(* The record is about the active command, whatever the kind of step.      *)
LEMMA SavedRecord ==
  ASSUME Persist \/ UNCHANGED disk, GateInv,
         audit'.id = 0 <=> audit'.state \in {"Idle", "Rejected"}
  PROVE  disk'.audit.id = 0 <=> disk'.audit.state \in {"Idle", "Rejected"}
BY DEF Persist, GateInv, AgreementInv

LEMMA Recorded ==
  ASSUME GateInv, Record, audit'.id \in Nat, audit' \in AuditType, audit'.id # 0
  PROVE  outcome'[audit'.id] = audit'.state
BY GateAssumption DEF GateInv, TypeInv, TypeOK, Record, AuditType, Command

LEMMA AgreementStep == GateInv /\ [Next]_vars /\ TypeInv' => AgreementInv'
<1> SUFFICES ASSUME GateInv, [Next]_vars, TypeInv' PROVE AgreementInv'
  OBVIOUS
<1>1. audit' \in AuditType /\ audit'.id \in Nat
  BY GateAssumption DEF TypeInv, TypeOK, AuditType
<1>2. CASE QuietStep
  <2>1. disk'.audit.id = 0 <=> disk'.audit.state \in {"Idle", "Rejected"}
    BY <1>2, SavedRecord DEF QuietStep, GateInv, AgreementInv
  <2>2. QED
    BY <1>2, <2>1 DEF QuietStep, GateInv, AgreementInv, Settings, Sweeping,
                      NoCommand
<1>3. CASE RejectStep
  <2>1. disk'.audit.id = 0 <=> disk'.audit.state \in {"Idle", "Rejected"}
    BY <1>3, SavedRecord DEF RejectStep, Publish
  <2>2. QED
    BY <1>3, <2>1 DEF RejectStep, GateInv, AgreementInv, InFlight
<1>4. ASSUME NEW i \in Command, NEW p \in Paths,
             active' = NewCommand(i, p), Publish,
             audit' = [id |-> i, path |-> p, state |-> "Accepted"]
      PROVE  AgreementInv'
  <2>1. i # 0
    BY DEF Command
  <2>2. disk'.audit.id = 0 <=> disk'.audit.state \in {"Idle", "Rejected"}
    BY <1>4, <2>1, SavedRecord DEF Publish
  <2>3. outcome'[audit'.id] = audit'.state
    BY <1>1, <1>4, <2>1, Recorded DEF Publish
  <2>4. QED
    BY <1>4, <2>1, <2>2, <2>3 DEF AgreementInv, NewCommand, InFlight, Sweeping
<1>5. CASE RunStep
  <2>1. audit'.id = audit.id /\ audit'.state = "Running" /\ audit.id # 0
    BY <1>5 DEF RunStep, GateInv, AgreementInv, TypeInv, TypeOK, AuditType
  <2>2. disk'.audit.id = 0 <=> disk'.audit.state \in {"Idle", "Rejected"}
    BY <1>5, <2>1, SavedRecord DEF RunStep, Publish
  <2>3. outcome'[audit'.id] = audit'.state
    BY <1>1, <1>5, <2>1, Recorded DEF RunStep, Publish
  <2>4. /\ active'.ver \in Sweeping => active'.path = "StartCalibration"
        /\ active'.ver = "restore" => active'.path \in Methods
        /\ active'.path = "RestoreNormalState" => active'.ver = "restore"
    BY <1>5 DEF RunStep, VerificationOf, Sweeping, GateInv, AgreementInv, Paths,
                Settings
  <2>5. QED
    BY <1>5, <2>1, <2>2, <2>3, <2>4
    DEF RunStep, GateInv, AgreementInv, InFlight, NoCommand
<1>6. ASSUME NEW s \in Terminal, active.id # 0, active' = NoCommand,
             audit' = [audit EXCEPT !.state = s], Publish
      PROVE  AgreementInv'
  <2>1. audit'.id = audit.id /\ audit'.state = s /\ audit.id # 0
    BY <1>6 DEF GateInv, AgreementInv, TypeInv, TypeOK, AuditType
  <2>2. disk'.audit.id = 0 <=> disk'.audit.state \in {"Idle", "Rejected"}
    BY <1>6, <2>1, SavedRecord DEF Terminal, Publish
  <2>3. outcome'[audit'.id] = audit'.state
    BY <1>1, <1>6, <2>1, Recorded DEF Publish
  <2>4. QED
    BY <1>6, <2>1, <2>2, <2>3
    DEF AgreementInv, NoCommand, Terminal, InFlight, Sweeping
<1>7. CASE Restart
  <2>1. /\ audit'.id = 0 <=> audit'.state \in {"Idle", "Rejected"}
        /\ audit'.state \notin InFlight
        /\ disk'.audit.id = 0 <=> disk'.audit.state \in {"Idle", "Rejected"}
    <3>1. TypeInv /\ audit \in AuditType /\ disk.audit \in AuditType
      BY DEF GateInv, TypeInv, TypeOK
    <3>2. \A found \in {audit, disk.audit} :
            found.id = 0 <=> found.state \in {"Idle", "Rejected"}
      BY DEF GateInv, AgreementInv
    <3>3. CASE FoundInFlight(audit) \/ FoundInFlight(disk.audit)
      BY <3>2, <3>3 DEF FoundInFlight, InFlight
    <3>4. CASE FoundAtRest
      BY <3>2, <3>4 DEF FoundAtRest
    <3>5. CASE FoundNothing
      BY <3>2, <3>5 DEF FoundNothing, IdleAudit, InFlight
    <3>6. QED
      BY <1>7, <3>1, <3>3, <3>4, <3>5, RestartCases
  <2>3. audit'.id # 0 => outcome'[audit'.id] = audit'.state
    BY <1>1, <1>7, Recorded DEF Restart
  <2>4. active' = NoCommand
    BY <1>7 DEF Restart
  <2>5. QED
    BY <2>1, <2>3, <2>4 DEF AgreementInv, NoCommand, Sweeping
<1>8. QED
  BY <1>2, <1>3, <1>4, <1>5, <1>6, <1>7, StepKinds DEF ReserveStep, EndStep

(* Numbers are not reused: a command once accepted stays accepted.         *)
LEMMA OutcomeStays ==
  ASSUME GateInv, [Next]_vars, TypeInv', NEW i \in Command, outcome[i] # "Idle"
  PROVE  outcome'[i] # "Idle"
<1>1. AgreementInv'
  BY AgreementStep
<1>2. CASE outcome' = outcome
  BY <1>2
<1>3. CASE Record /\ audit'.id \in Command
  <2>1. audit'.state # "Idle"
    BY <1>1, <1>3 DEF AgreementInv, Command
  <2>2. QED
    BY <1>3, <2>1 DEF Record, GateInv, TypeInv, TypeOK
<1>4. CASE Record /\ audit'.id \notin Command
  BY <1>4 DEF Record
<1>5. outcome' = outcome \/ Record
  BY StepKinds DEF QuietStep, RejectStep, ReserveStep, RunStep, EndStep, Publish,
                   Restart
<1>6. QED
  BY <1>2, <1>3, <1>4, <1>5

(* What the main loop and the environment do to the command that the       *)
(* dispatch thread is serving.                                             *)
LEMMA OthersKeepReservation ==
  ASSUME GateInv, MainStep \/ Evidence \/ DeadlinePasses, [Next]_vars
  PROVE  /\ remote' = remote
         /\ \/ active'.id = 0
            \/ active'.id = active.id /\ active'.path = active.path
         /\ active.ver = "dispatching" /\ active.path \in Methods =>
              /\ active'.id = active.id /\ active'.path = active.path
              /\ active'.ver = "dispatching"
<1>1. remote' = remote
  BY DEF MainStep, Capture, ReadNode, AlreadyInForce, RejectValue, ForwardValue,
         ForwardLost, ForwardReply, AdvanceComplete, AdvanceRestore, AdvanceTimeOut,
         AdvanceNothing, RestoreReply, Evidence, ApplyMeasurement, ApplyServices,
         DeadlinePasses
<1>2. QuietStep \/ RunStep \/ EndStep
  <2>1. CASE MainStep
    <3>1. CASE Capture \/ ReadNode
      BY <3>1 DEF Capture, ReadNode, gateVars, QuietStep
    <3>2. QED
      BY <2>1, <3>1, ForwardKind, AdvanceKind DEF MainStep, Replies
  <2>2. CASE Evidence \/ DeadlinePasses
    BY <2>2, EvidenceKind
  <2>3. QED
    BY <2>1, <2>2
<1>3. \/ active'.id = 0
      \/ active'.id = active.id /\ active'.path = active.path
  BY <1>2 DEF QuietStep, RunStep, EndStep, NoCommand
<1>4. ASSUME active.ver = "dispatching", active.path \in Methods
      PROVE  /\ active'.id = active.id /\ active'.path = active.path
             /\ active'.ver = "dispatching"
  <2>1. active.path \notin Settings
    BY <1>4 DEF Methods, MaintenanceMethods, Restorations, Settings
  <2>2. ~CapturedIsPending /\ active.ver \notin Verifying
    BY <1>4 DEF CapturedIsPending, Verifying, Sweeping
  <2>3. ForwardingFailed => active' = active
    BY <1>4 DEF ForwardingFailed, gateVars
  <2>4. \A reply \in Replies : ForwardReply(reply) => active' = active
    BY <2>1, <2>3 DEF ForwardReply, gateVars, GateInv, ThreadInv, TypeInv, TypeOK,
                      MainType, Settings
  <2>5. ~(main.at = "restore")
    BY <1>4 DEF GateInv, ThreadInv
  <2>6. QED
    BY <1>4, <2>1, <2>2, <2>3, <2>4, <2>5
    DEF MainStep, Capture, ReadNode, AlreadyInForce, RejectValue, ForwardValue,
        ForwardLost, AdvanceComplete, AdvanceRestore, AdvanceTimeOut, AdvanceNothing,
        RestoreReply, Evidence, ApplyMeasurement, ApplyServices, DeadlinePasses,
        gateVars, GateInv, TypeInv, TypeOK, ActiveType, Replies
<1>5. QED
  BY <1>1, <1>3, <1>4

(* The dispatch thread's part of ThreadInv and the main loop's part.       *)
RemoteThreadInv ==
  /\ ReservationHeld
  /\ remote.at \in {"call", "await"} =>
       remote.id # 0 /\ remote.path = active.path /\ remote.path \in Methods
  /\ remote.at \in {"write", "written"} =>
       /\ remote.id # 0
       /\ outcome[remote.id] # "Idle"
       /\ remote.path \in Settings
       /\ active.id = remote.id => active.path = remote.path
MainThreadInv ==
  /\ main.id = 0 => main.path = "none"
  /\ main.id # 0 => /\ outcome[main.id] # "Idle"
                    /\ main.id = active.id => main.path = active.path
  /\ main.at = "restore" => active.id # 0 /\ active.ver = "calibration"

LEMMA ThreadParts == ThreadInv <=> RemoteThreadInv /\ MainThreadInv
BY DEF ThreadInv, RemoteThreadInv, MainThreadInv

LEMMA ReserveThread ==
  ASSUME GateInv, NEW i \in Command, NEW p \in Paths,
         NEW arg \in AnyValue \cup {NoValue}, Reserve(i, p, arg), TypeInv',
         AgreementInv'
  PROVE  RemoteThreadInv'
<1>1. /\ active'.id = i /\ active'.path = p /\ active'.ver = "dispatching"
      /\ remote'.id = i /\ remote'.path = p /\ i # 0
      /\ remote'.at = IF p \in Settings THEN "write" ELSE "call"
  BY DEF Reserve, NewCommand, Command
<1>2. outcome'[i] = "Accepted"
  BY <1>1 DEF Reserve, AgreementInv
<1>3. p \notin Settings => p \in Methods
  BY DEF Paths
<1>4. QED
  BY <1>1, <1>2, <1>3 DEF RemoteThreadInv, ReservationHeld

LEMMA RemoteThreadStep ==
  ASSUME GateInv, [Next]_vars, TypeInv', AgreementInv' PROVE RemoteThreadInv'
<1>1. ASSUME remote' = remote,
             \/ active'.id = 0
             \/ active'.id = active.id /\ active'.path = active.path,
             active.ver = "dispatching" /\ active.path \in Methods =>
               /\ active'.id = active.id /\ active'.path = active.path
               /\ active'.ver = "dispatching"
      PROVE  RemoteThreadInv'
  <2>1. remote.at \in {"write", "written"} =>
          remote.id \in Command /\ outcome'[remote.id] # "Idle"
    <3>1. remote.at \in {"write", "written"} => remote.id \in Command
      BY GateAssumption DEF GateInv, TypeInv, TypeOK, RemoteType, ThreadInv, Command
    <3>2. QED
      BY <3>1, OutcomeStays DEF GateInv, ThreadInv
  <2>2. QED
    BY <1>1, <2>1 DEF RemoteThreadInv, ReservationHeld, GateInv, ThreadInv, Command
<1>2. CASE remote'.at \in {"idle", "superseding"}
  BY <1>2 DEF RemoteThreadInv, ReservationHeld
<1>3. CASE MainStep \/ Evidence \/ DeadlinePasses
  BY <1>1, <1>3, OthersKeepReservation
<1>4. CASE UNCHANGED vars
  BY <1>1, <1>4 DEF vars
<1>5. CASE Restart
  BY <1>2, <1>5 DEF Restart, AtRest
<1>6. CASE ClientRequest
  <2>1. ASSUME NEW request \in Requests, Reject(request[1], request[2])
        PROVE  RemoteThreadInv'
    BY <1>1, <2>1 DEF Reject
  <2>2. ASSUME NEW request \in Requests, NEW i \in Command,
               NEW arg \in AnyValue \cup {NoValue},
               Begin(request[1], request[2], i, arg)
        PROVE  RemoteThreadInv'
    <3>1. request[2] \in Paths
      BY GateAssumption
    <3>2. QED
      BY <2>2, <3>1, ReserveThread DEF Begin
  <2>3. ASSUME NEW request \in Requests, Supersede(request[1])
        PROVE  RemoteThreadInv'
    BY <1>2, <2>3 DEF Supersede, GateInv, TypeInv, TypeOK, RemoteType
  <2>4. QED
    BY <1>6, <2>1, <2>2, <2>3 DEF ClientRequest
<1>7. CASE RemoteStep
  <2>1. ASSUME NEW i \in Command, BeginAbort(i) PROVE RemoteThreadInv'
    BY <2>1, ReserveThread DEF BeginAbort, Paths, Methods, MaintenanceMethods,
       Restorations
  <2>2. CASE Transmit
    <3>1. /\ remote'.at = "await" /\ remote'.id = remote.id
          /\ remote'.path = remote.path /\ remote.at = "call" /\ active' = active
      BY <2>2 DEF Transmit, GateInv, TypeInv, TypeOK, RemoteType
    <3>2. QED
      BY <3>1 DEF RemoteThreadInv, ReservationHeld, GateInv, ThreadInv
  <2>3. CASE WriteAttribute
    <3>1. /\ remote'.at = "written" /\ remote'.id = remote.id
          /\ remote'.path = remote.path /\ remote.at = "write" /\ active' = active
          /\ outcome' = outcome
      BY <2>3 DEF WriteAttribute, gateVars, GateInv, TypeInv, TypeOK, RemoteType
    <3>2. QED
      BY <3>1 DEF RemoteThreadInv, ReservationHeld, GateInv, ThreadInv
  <2>4. CASE \/ InvalidArgument \/ Normalize \/ DispatchFailed
             \/ WriteRefused \/ MarkPending
             \/ \E reply \in Replies : RemoteReply(reply)
    BY <1>2, <2>4
    DEF InvalidArgument, Normalize, DispatchFailed, WriteRefused, MarkPending,
        RemoteReply, AtRest
  <2>5. QED
    BY <1>7, <2>1, <2>2, <2>3, <2>4 DEF RemoteStep
<1>8. QED
  BY <1>3, <1>4, <1>5, <1>6, <1>7 DEF Next

LEMMA MainThreadStep ==
  ASSUME GateInv, [Next]_vars, TypeInv' PROVE MainThreadInv'
<1>1. main.id \in 0..MaxCommand /\ (main.id # 0 => main.id \in Command)
  BY GateAssumption DEF GateInv, TypeInv, TypeOK, MainType, Command
<1>2. main.id # 0 => outcome'[main.id] # "Idle"
  BY <1>1, OutcomeStays DEF GateInv, ThreadInv
<1>3. main.id # 0 /\ active'.id = main.id =>
        active'.id = active.id /\ active'.path = active.path
  <2>1. CASE ReserveStep
    BY <2>1 DEF ReserveStep, NewCommand, GateInv, ThreadInv
  <2>2. CASE QuietStep \/ RejectStep \/ RunStep \/ EndStep \/ Restart
    BY <2>2 DEF QuietStep, RejectStep, RunStep, EndStep, Restart, NoCommand
  <2>3. QED
    BY <2>1, <2>2, StepKinds
<1>4. ASSUME main'.id = main.id, main'.path = main.path, main'.at # "restore"
      PROVE  MainThreadInv'
  BY <1>2, <1>3, <1>4 DEF MainThreadInv, GateInv, ThreadInv
<1>5. ASSUME main'.id = 0, main'.path = "none", main'.at # "restore"
      PROVE  MainThreadInv'
  BY <1>5 DEF MainThreadInv
<1>6. ASSUME main' = main, main.at = "restore" => active'.id = active.id /\ active'.ver = active.ver
      PROVE  MainThreadInv'
  BY <1>2, <1>3, <1>6 DEF MainThreadInv, GateInv, ThreadInv
<1>7. CASE Restart
  BY <1>5, <1>7 DEF Restart, LoopStart
<1>8. CASE UNCHANGED vars
  BY <1>6, <1>8 DEF vars
<1>9. CASE Evidence \/ DeadlinePasses
  BY <1>6, <1>9 DEF Evidence, ApplyMeasurement, ApplyServices, DeadlinePasses,
                    gateVars, GateInv, TypeInv, TypeOK, ActiveType
<1>10. CASE ClientRequest
  BY <1>6, <1>10 DEF ClientRequest, Reject, Begin, Reserve, Supersede, MainHoldsLock
<1>11. CASE RemoteStep
  <2>1. main' = main
    BY <1>11 DEF RemoteStep, BeginAbort, Reserve, InvalidArgument, Normalize, 
       DispatchFailed, Transmit, RemoteReply, WriteAttribute, WriteRefused, MarkPending
  <2>2. main.at = "restore" => active' = active
    <3>1. main.at = "restore" =>
            remote.at # "superseding" /\ active.path = "StartCalibration"
      BY DEF GateInv, LockInv, ThreadInv, AgreementInv, RemoteHoldsLock,
             MainHoldsLock, Sweeping
    <3>2. MarkPending /\ main.at = "restore" => active' = active
      BY <3>1 DEF MarkPending, GateInv, ThreadInv, Settings
    <3>3. QED
      BY <1>11, <3>1, <3>2 DEF RemoteStep, BeginAbort, InvalidArgument, Normalize,
         DispatchFailed, Transmit, RemoteReply, WriteAttribute, WriteRefused, gateVars, MainHoldsLock
  <2>3. QED
    BY <1>6, <2>1, <2>2
<1>12. CASE MainStep
  <2>1. CASE Capture
    <3>1. /\ main'.id = active.id /\ main'.path = active.path
          /\ main'.at = "read" /\ active' = active /\ outcome' = outcome
      BY <2>1 DEF Capture, gateVars, GateInv, TypeInv, TypeOK, MainType
    <3>2. active.id # 0 => outcome[active.id] # "Idle"
      BY DEF GateInv, AgreementInv, InFlight
    <3>3. QED
      BY <3>1, <3>2 DEF MainThreadInv, GateInv, AgreementInv, NoCommand
  <2>2. CASE ReadNode \/ ForwardValue
    BY <1>4, <2>2 DEF ReadNode, ForwardValue, GateInv, TypeInv, TypeOK, MainType
  <2>3. main' = NextSetting => MainThreadInv'
    <3>1. CASE main.setting = "ThresholdOhm"
      <4>1. main' = NextSetting =>
              main'.id = main.id /\ main'.path = main.path /\ main'.at = "read"
        BY <3>1 DEF NextSetting, GateInv, TypeInv, TypeOK, MainType
      <4>2. QED
        BY <1>4, <4>1
    <3>2. CASE main.setting # "ThresholdOhm"
      BY <1>5, <3>2 DEF NextSetting, ToAdvance, LoopStart
    <3>3. QED
      BY <3>1, <3>2
  <2>4. main' \in {ToAdvance, LoopStart} => MainThreadInv'
    BY <1>5 DEF ToAdvance, LoopStart
  <2>5. ASSUME NEW sameHash \in BOOLEAN, NEW readback \in BOOLEAN,
               AdvanceRestore(sameHash, readback)
        PROVE  MainThreadInv'
    <3>1. /\ main'.id = main.id /\ main'.path = main.path /\ active' = active
          /\ active.ver = "calibration"
      BY <2>5 DEF AdvanceRestore, gateVars, GateInv, TypeInv, TypeOK, MainType
    <3>2. active.id # 0
      BY <3>1, ActiveNumbered
    <3>3. QED
      BY <1>2, <1>3, <3>1, <3>2 DEF MainThreadInv, GateInv, ThreadInv
  <2>6. CASE \/ AlreadyInForce \/ RejectValue \/ ForwardLost
             \/ \E reply \in Replies : ForwardReply(reply)
    BY <2>3, <2>4, <2>6
    DEF AlreadyInForce, RejectValue, ForwardLost, ForwardReply, ForwardingFailed
  <2>7. CASE \E sameHash, readback \in BOOLEAN :
               \/ AdvanceComplete(sameHash, readback)
               \/ AdvanceTimeOut(sameHash, readback)
               \/ AdvanceNothing(sameHash, readback)
    BY <2>4, <2>7 DEF AdvanceComplete, AdvanceTimeOut, AdvanceNothing
  <2>8. CASE \E reply \in Replies : RestoreReply(reply)
    BY <2>4, <2>8 DEF RestoreReply
  <2>9. QED
    BY <1>12, <2>1, <2>2, <2>5, <2>6, <2>7, <2>8 DEF MainStep
<1>13. QED
  BY <1>7, <1>8, <1>9, <1>10, <1>11, <1>12 DEF Next

LEMMA GateInit == Init => GateInv
<1> SUFFICES ASSUME Init PROVE GateInv
  OBVIOUS
<1>1. AgreementInv
  BY DEF Init, AgreementInv, NoCommand, IdleAudit, InFlight, Sweeping
<1>2. ThreadInv
  BY DEF Init, ThreadInv, ReservationHeld, AtRest, LoopStart
<1>3. QED
  BY <1>1, <1>2, TypeInit, LockInit DEF GateInv

LEMMA GateStep == GateInv /\ [Next]_vars => GateInv'
<1> SUFFICES ASSUME GateInv, [Next]_vars PROVE GateInv'
  OBVIOUS
<1>1. TypeInv' /\ LockInv'
  BY TypeStep, LockStep DEF GateInv
<1>2. AgreementInv'
  BY <1>1, AgreementStep
<1>3. RemoteThreadInv' /\ MainThreadInv'
  BY <1>1, <1>2, RemoteThreadStep, MainThreadStep
<1>4. ThreadInv'
  BY <1>3 DEF ThreadInv, RemoteThreadInv, MainThreadInv
<1>5. QED
  BY <1>1, <1>2, <1>4 DEF GateInv

LEMMA GateCorrect == Spec => []GateInv
BY GateInit, GateStep, PTL DEF Spec

(* A method body's command is its own until its reply is in.               *)
THEOREM ReservationIsHeld == Spec => []ReservationHeld
<1>1. GateInv => ReservationHeld
  BY DEF GateInv, ThreadInv
<1>2. QED
  BY <1>1, GateCorrect, PTL

-----------------------------------------------------------------------------
(* Restarts.  The state file may be stale when saves fail; but a terminal  *)
(* state in it is the state the command still has.                         *)

SavedInv ==
  disk.audit.state \in Terminal => outcome[disk.audit.id] = disk.audit.state

LEMMA OnlyRestart ==
  ASSUME [Next]_vars, restarts' # restarts PROVE Restart
BY DEF Next, vars, ClientRequest, Reject, Begin, Reserve, Supersede, RemoteStep,
       BeginAbort, InvalidArgument, Normalize, DispatchFailed, Transmit, RemoteReply,
       WriteAttribute, WriteRefused, MarkPending, MainStep, Capture, ReadNode, AlreadyInForce,
       RejectValue, ForwardValue, ForwardLost, ForwardReply, AdvanceComplete,
       AdvanceRestore, AdvanceTimeOut, AdvanceNothing, RestoreReply, Evidence,
       ApplyMeasurement, ApplyServices, DeadlinePasses

LEMMA SavedStep == GateInv /\ SavedInv /\ [Next]_vars => SavedInv'
<1> SUFFICES ASSUME GateInv, SavedInv, [Next]_vars PROVE SavedInv'
  OBVIOUS
<1>1. GateInv'
  BY GateStep
<1>2. CASE disk' = [audit |-> audit', cal |-> cal', locked |-> locked']
  <2>1. audit'.state \in Terminal => outcome'[audit'.id] = audit'.state
    BY <1>1 DEF GateInv, AgreementInv, Terminal
  <2>2. QED
    BY <1>2, <2>1 DEF SavedInv
<1>3. CASE disk' = disk /\ disk.audit.state \in Terminal
  <2>1. disk.audit.id \in Command
    BY <1>3, GateAssumption
    DEF GateInv, TypeInv, TypeOK, AgreementInv, AuditType, Terminal, Command
  <2>2. outcome[disk.audit.id] \in Terminal
    BY <1>3 DEF SavedInv
  <2>3. CASE outcome' = outcome
    BY <1>3, <2>3 DEF SavedInv
  <2>4. CASE RejectStep
    BY <1>3, <2>1, <2>4 DEF RejectStep, Publish, Record, SavedInv, Command
  <2>5. CASE ReserveStep \/ RunStep \/ EndStep
    <3>1. outcome[audit'.id] \notin Terminal /\ Record
      <4>1. CASE ReserveStep
        BY <4>1 DEF ReserveStep, Publish, Terminal
      <4>2. CASE RunStep \/ EndStep
        <5>1. audit'.id = audit.id /\ Record /\ active.id # 0
          BY <4>2 DEF RunStep, EndStep, Publish, GateInv, TypeInv, TypeOK, AuditType
        <5>2. QED
          BY <5>1 DEF GateInv, AgreementInv, InFlight, Terminal
      <4>3. QED
        BY <2>5, <4>1, <4>2
    <3>2. audit'.id # disk.audit.id
      BY <2>2, <3>1
    <3>3. outcome'[disk.audit.id] = outcome[disk.audit.id]
      BY <2>1, <3>1, <3>2 DEF Record, GateInv, TypeInv, TypeOK
    <3>4. QED
      BY <1>3, <3>3 DEF SavedInv
  <2>6. CASE Restart
    <3>1. audit' = disk.audit \/ audit'.id = 0
      <4>1. CASE FoundInFlight(audit) \/ FoundInFlight(disk.audit)
        BY <1>3, <4>1 DEF FoundInFlight, Terminal, InFlight
      <4>2. CASE FoundAtRest
        BY <4>2 DEF FoundAtRest
      <4>3. CASE FoundNothing
        BY <4>3 DEF FoundNothing, IdleAudit
      <4>4. QED
        BY <2>6, <4>1, <4>2, <4>3, RestartCases DEF GateInv
    <3>2. outcome'[disk.audit.id] = outcome[disk.audit.id]
      BY <1>3, <2>1, <2>6, <3>1
      DEF Restart, Record, SavedInv, GateInv, TypeInv, TypeOK, Command
    <3>3. QED
      BY <1>3, <3>2 DEF SavedInv
  <2>7. QED
    BY <2>3, <2>4, <2>5, <2>6, StepKinds DEF QuietStep
<1>4. CASE disk'.audit.state \notin Terminal
  BY <1>4 DEF SavedInv
<1>5. \/ disk' = disk
      \/ disk' = [audit |-> audit', cal |-> cal', locked |-> locked']
      \/ disk'.audit.state \in InFlight
  <2>1. CASE Restart
    BY <2>1, RestartCases DEF FoundInFlight, FoundAtRest, FoundNothing, GateInv
  <2>2. QED
    BY <2>1, StepKinds
    DEF QuietStep, RejectStep, ReserveStep, RunStep, EndStep, Publish, Persist
<1>6. QED
  BY <1>2, <1>3, <1>4, <1>5 DEF InFlight, Terminal

(* A restart turns no command into a success, even from a stale file.      *)
THEOREM NoFabricatedSuccess == Spec => RestartNeverFabricatesSuccess
<1>1. Init => SavedInv
  BY DEF Init, SavedInv, IdleAudit, Terminal
<1>2. ASSUME GateInv, SavedInv, [Next]_vars
      PROVE  [restarts' # restarts =>
               \A i \in Command : outcome'[i] = "Succeeded" => outcome[i] = "Succeeded"]_vars
  <2>1. SUFFICES ASSUME restarts' # restarts, NEW i \in Command,
                        outcome'[i] = "Succeeded"
                 PROVE  outcome[i] = "Succeeded"
    OBVIOUS
  <2>2. Restart
    BY <1>2, <2>1, OnlyRestart
  <2>3. CASE audit'.id # i
    BY <2>1, <2>2, <2>3, <1>2 DEF Restart, Record, GateInv, TypeInv, TypeOK
  <2>4. CASE audit'.id = i
    <3>1. audit'.state = "Succeeded"
      BY <2>1, <2>2, <2>4, <1>2 DEF Restart, Record, GateInv, TypeInv, TypeOK
    <3>2. audit' = disk.audit
      <4>1. ~FoundInFlight(audit) /\ ~FoundInFlight(disk.audit) /\ ~FoundNothing
        BY <3>1 DEF FoundInFlight, FoundNothing, IdleAudit
      <4>2. QED
        BY <1>2, <2>2, <4>1, RestartCases DEF FoundAtRest, GateInv
    <3>3. QED
      BY <2>4, <3>1, <3>2, <1>2 DEF SavedInv, Terminal
  <2>5. QED
    BY <2>3, <2>4
<1>3. QED
  BY <1>1, <1>2, GateCorrect, SavedStep, PTL DEF Spec, RestartNeverFabricatesSuccess

-----------------------------------------------------------------------------
(* When every save succeeds, the state file mirrors the record; then no    *)
(* crash loses a command, and the gate implements its abstract audit.      *)

LEMMA DurableInit == Init => DurableInv
BY DEF Init, DurableInv, IdleAudit, InFlight

LEMMA MirrorStep ==
  ASSUME ~DiskFaults, GateInv, DurableInv, [Next]_vars
  PROVE  disk' = [audit |-> audit', cal |-> cal', locked |-> locked']
<1>1. Persist => disk' = [audit |-> audit', cal |-> cal', locked |-> locked']
  BY DEF Persist
<1>2. CASE Restart
  BY <1>1, <1>2, RestartCases
  DEF FoundInFlight, FoundAtRest, FoundNothing, GateInv, DurableInv
<1>3. QED
  BY <1>1, <1>2, StepKinds
  DEF QuietStep, RejectStep, ReserveStep, RunStep, EndStep, Publish, DurableInv

LEMMA RecordedOnly ==
  ASSUME GateInv, Record, NEW i \in Command, audit'.id # i
  PROVE  outcome'[i] = outcome[i]
BY DEF Record, GateInv, TypeInv, TypeOK

LEMMA DurableStep ==
  ASSUME ~DiskFaults, GateInv, DurableInv, [Next]_vars
  PROVE  DurableInv'
<1>1. GateInv'
  BY GateStep
<1>2. ASSUME NEW i \in Command, outcome'[i] \in InFlight PROVE i = active'.id
  <2>1. CASE QuietStep \/ RejectStep
    BY <1>2, <2>1, RecordedOnly DEF QuietStep, RejectStep, Publish, DurableInv, Command
  <2>2. CASE ReserveStep \/ RunStep \/ EndStep
    <3>1. CASE audit'.id = i
      BY <1>1, <1>2, <2>2, <3>1 DEF GateInv, AgreementInv, Command
    <3>2. CASE audit'.id # i
      <4>1. i = active.id
        BY <1>2, <2>2, <3>2, RecordedOnly
        DEF ReserveStep, RunStep, EndStep, Publish, DurableInv
      <4>2. CASE ReserveStep
        BY <4>1, <4>2 DEF ReserveStep, Command
      <4>3. CASE RunStep \/ EndStep
        BY <3>2, <4>1, <4>3
        DEF RunStep, EndStep, GateInv, AgreementInv, TypeInv, TypeOK, AuditType
      <4>4. QED
        BY <2>2, <4>2, <4>3
    <3>3. QED
      BY <3>1, <3>2
  <2>3. CASE Restart
    <3>1. audit'.id = audit.id /\ audit'.state \notin InFlight /\ Record
      BY <2>3, RestartCases
      DEF Restart, FoundInFlight, FoundAtRest, FoundNothing, DurableInv, GateInv,
          InFlight
    <3>2. audit.id # i
      BY <1>1, <1>2, <3>1 DEF GateInv, AgreementInv, Command
    <3>3. i = active.id
      BY <1>2, <3>1, <3>2, RecordedOnly DEF DurableInv
    <3>4. QED
      BY <3>2, <3>3 DEF GateInv, AgreementInv, Command
  <2>4. QED
    BY <2>1, <2>2, <2>3, StepKinds
<1>3. ASSUME NEW i \in Command PROVE outcome'[i] # "Rejected"
  <2>1. CASE audit'.id = i
    BY <1>1, <2>1 DEF GateInv, AgreementInv, Command
  <2>2. CASE audit'.id # i
    BY <2>2, StepKinds, RecordedOnly
    DEF QuietStep, RejectStep, ReserveStep, RunStep, EndStep, Publish, Restart,
        DurableInv
  <2>3. QED
    BY <2>1, <2>2
<1>4. QED
  BY <1>2, <1>3, MirrorStep DEF DurableInv

LEMMA DurableCorrect == ASSUME ~DiskFaults PROVE Spec => [](GateInv /\ DurableInv)
BY GateInit, GateStep, DurableInit, DurableStep, PTL DEF Spec

(* A command that may be acting on the instrument is in the state file.    *)
THEOREM DispatchDurable == ASSUME ~DiskFaults PROVE Spec => []DispatchedIsDurable
<1>1. GateInv /\ DurableInv => DispatchedIsDurable
  BY DEF GateInv, AgreementInv, DurableInv, DispatchedIsDurable
<1>2. QED
  BY <1>1, DurableCorrect, PTL

(* A restart fails the command it interrupts and locks the gate.           *)
THEOREM InterruptionIsLocked == ASSUME ~DiskFaults PROVE Spec => InterruptionLocks
<1>1. ASSUME GateInv, DurableInv, [Next]_vars
      PROVE  [restarts' # restarts /\ active.id # 0 =>
                locked' /\ outcome'[active.id] = "Failed"]_vars
  <2>1. SUFFICES ASSUME restarts' # restarts, active.id # 0
                 PROVE  locked' /\ outcome'[active.id] = "Failed"
    OBVIOUS
  <2>2. Restart
    BY <1>1, <2>1, OnlyRestart
  <2>3. disk.audit.state \in InFlight /\ disk.audit.id = active.id
    BY <1>1, <2>1 DEF GateInv, AgreementInv, DurableInv
  <2>4. /\ locked' /\ audit'.state = "Failed" /\ audit'.id = active.id
    BY <1>1, <2>2, <2>3, RestartCases
    DEF FoundInFlight, FoundAtRest, FoundNothing, GateInv, DurableInv
  <2>5. GateInv'
    BY <1>1, GateStep
  <2>6. QED
    BY <2>1, <2>4, <2>5 DEF GateInv, AgreementInv
<1>2. QED
  BY <1>1, DurableCorrect, PTL DEF Spec, InterruptionLocks

(* The refinement: each kind of step is a step of the audit, or stutters.  *)
LEMMA AuditInit == Init => Audit!Init
BY DEF Init, Audit!Init, Audit!Command, Command, NoCommand

LEMMA AuditStep ==
  ASSUME ~DiskFaults, GateInv, DurableInv, [Next]_vars
  PROVE  [Audit!Next]_(Audit!vars)
<1>1. GateInv'
  BY GateStep
<1>2. CASE QuietStep
  BY <1>2 DEF QuietStep, Audit!vars
<1>3. CASE RejectStep
  <2>1. outcome' = outcome
    BY <1>3 DEF RejectStep, Publish, Record, Command
  <2>2. QED
    BY <1>3, <2>1 DEF RejectStep, Audit!vars
<1>4. CASE ReserveStep
  <2>1. PICK i \in Command, p \in Paths :
          /\ active.id = 0 /\ outcome[i] = "Idle"
          /\ active' = NewCommand(i, p)
          /\ audit' = [id |-> i, path |-> p, state |-> "Accepted"]
          /\ locked' = locked /\ (locked => p = "RestoreNormalState")
          /\ Publish
    BY <1>4 DEF ReserveStep
  <2>2. outcome' = [outcome EXCEPT ![i] = "Accepted"]
    BY <2>1 DEF Publish, Record
  <2>3. active'.id = i /\ active'.path = p
    BY <2>1 DEF NewCommand
  <2>4. Audit!Accept(i)
    BY <2>1, <2>2, <2>3 DEF Audit!Accept
  <2>5. QED
    BY <2>4 DEF Audit!Next, Audit!Command, Command
<1>5. CASE RunStep
  <2>1. audit'.id = active.id /\ audit'.state = "Running" /\ audit'.id \in Command
    BY <1>5, GateAssumption
    DEF RunStep, GateInv, AgreementInv, TypeInv, TypeOK, AuditType, Command
  <2>2. outcome' = [outcome EXCEPT ![active.id] = "Running"]
    BY <1>5, <2>1 DEF RunStep, Publish, Record
  <2>3. Audit!Run
    BY <1>5, <2>2 DEF RunStep, Audit!Run
  <2>4. QED
    BY <2>3 DEF Audit!Next
<1>6. CASE EndStep
  <2>1. PICK s \in Terminal :
          /\ active.id # 0 /\ active' = NoCommand
          /\ audit' = [audit EXCEPT !.state = s]
          /\ \/ locked' = (locked /\ s # "Succeeded")
             \/ s # "Succeeded" /\ locked' = TRUE
          /\ Publish
    BY <1>6 DEF EndStep
  <2>2. audit'.id = active.id /\ audit'.state = s /\ audit'.id \in Command
    BY <2>1, GateAssumption
    DEF GateInv, AgreementInv, TypeInv, TypeOK, AuditType, Command
  <2>3. outcome' = [outcome EXCEPT ![active.id] = s]
    BY <2>1, <2>2 DEF Publish, Record
  <2>4. active'.id = 0 /\ (active'.path = "RestoreNormalState") = FALSE
    BY <2>1 DEF NoCommand
  <2>5. Audit!Finish
    BY <2>1, <2>3, <2>4 DEF Audit!Finish, Audit!Terminal, Terminal
  <2>6. QED
    BY <2>5 DEF Audit!Next
<1>7. CASE Restart
  <2>1. active'.id = 0 /\ (active'.path = "RestoreNormalState") = FALSE
    BY <1>7 DEF Restart, NoCommand
  <2>2. CASE active.id = 0
    <3>1. audit' = audit /\ locked' = locked
      BY <1>7, <2>2, RestartCases
      DEF FoundInFlight, FoundAtRest, FoundNothing, DurableInv, GateInv, AgreementInv
    <3>2. outcome' = outcome
      BY <1>7, <3>1, RecordSame DEF Restart
    <3>3. QED
      BY <2>1, <2>2, <3>1, <3>2 DEF Audit!Interrupt, Audit!Next, GateInv, TypeInv, TypeOK
  <2>3. CASE active.id # 0
    <3>1. /\ locked' = TRUE /\ audit'.id = active.id /\ audit'.state = "Failed"
          /\ audit'.id \in Command
      <4>1. /\ disk.audit = audit /\ audit.id = active.id /\ audit.state \in InFlight
            /\ audit.id \in Command
        BY <2>3, GateAssumption
        DEF DurableInv, GateInv, AgreementInv, TypeInv, TypeOK, AuditType, Command
      <4>2. FoundInFlight(audit)
        BY <1>7, <4>1, RestartCases DEF FoundAtRest, FoundNothing, GateInv
      <4>3. QED
        BY <4>1, <4>2 DEF FoundInFlight
    <3>2. outcome' = [outcome EXCEPT ![active.id] = "Failed"]
      BY <1>7, <3>1 DEF Restart, Record
    <3>3. Audit!Interrupt
      BY <2>1, <2>3, <3>1, <3>2 DEF Audit!Interrupt
    <3>4. QED
      BY <3>3 DEF Audit!Next
  <2>4. QED
    BY <2>2, <2>3
<1>8. QED
  BY <1>2, <1>3, <1>4, <1>5, <1>6, <1>7, StepKinds

(* On a disk that takes its writes, the gate with its threads, requests    *)
(* and restarts does to the open command and the lock what CommandAudit    *)
(* allows.                                                                 *)
THEOREM GateImplementsAudit == ASSUME ~DiskFaults PROVE Spec => AuditSpec
BY AuditInit, AuditStep, DurableCorrect, PTL DEF Spec, AuditSpec, Audit!Spec

-----------------------------------------------------------------------------
(* The calibration readback.  A command that ends leaves it in a terminal  *)
(* state, so that what is in progress was begun by the active command, or  *)
(* by the one that AbortCalibration has just superseded.                   *)

Calibrating == {"StartCalibration"} \cup Restorations
Working == {"Starting", "Running", "Restoring"}

AttendInv ==
  /\ cal.state \in Working =>
       \/ remote.at = "superseding"
       \/ /\ active.path \in Calibrating
          /\ remote.at = "call" => remote.path = "AbortCalibration"
  /\ active.ver = "pending-write" => active.path \in Settings
  /\ active.ver \in Verifying =>
       \/ active.ver = VerificationOf(active.path)
       \/ active.ver = "calibration-timeout-restore" /\ active.path = "StartCalibration"

(* No restart falls between the two saves of a supersession, and python-   *)
(* opcua refuses no AbortCalibration.                                      *)
Undisturbed ==
  [][/\ remote.at = "superseding" => restarts' = restarts
     /\ remote.path = "AbortCalibration" => ~DispatchFailed]_vars

LEMMA AttendInit == Init => AttendInv
BY DEF Init, AttendInv, NoCommand, IdleCal, Working, Verifying, Sweeping

LEMMA PathsApart ==
  /\ Calibrating \cap Settings = {}
  /\ "none" \notin Calibrating \cup Settings
  /\ \A p \in Calibrating : VerificationOf(p) \in {"calibration", "restore"}
BY DEF Calibrating, Restorations, Settings, VerificationOf

(* A command of another path ends, or one of no command at all.            *)
LEMMA FinishAttend ==
  ASSUME AttendInv, NEW i, NEW state, FinishCommand(i, state), remote.at # "superseding",
         remote'.at # "call",
         active.id = i => cal.state \notin Working \/ active.path \notin Calibrating
  PROVE  AttendInv'
<1>1. CASE active.id = i
  <2>1. cal' = cal /\ active' = NoCommand
    BY <1>1 DEF FinishCommand, Finish
  <2>2. cal.state \notin Working
    BY <1>1 DEF AttendInv
  <2>3. QED
    BY <2>1, <2>2 DEF AttendInv, NoCommand, Verifying, Sweeping
<1>2. CASE active.id # i
  BY <1>2 DEF FinishCommand, gateVars, AttendInv
<1>3. QED
  BY <1>1, <1>2

LEMMA ClientRequestAttend ==
  ASSUME GateInv, AttendInv, ClientRequest PROVE AttendInv'
<1> SUFFICES ASSUME NEW request \in Requests,
                    \/ Reject(request[1], request[2])
                    \/ \E i \in Command, arg \in AnyValue \cup {NoValue} :
                         Begin(request[1], request[2], i, arg)
                    \/ request[2] = "AbortCalibration" /\ Supersede(request[1])
             PROVE  AttendInv'
  BY DEF ClientRequest
<1>1. CASE Reject(request[1], request[2])
  BY <1>1 DEF Reject, AttendInv
<1>2. ASSUME NEW i \in Command, NEW arg \in AnyValue \cup {NoValue},
             Begin(request[1], request[2], i, arg)
      PROVE  AttendInv'
  <2>1. cal' = cal /\ active'.ver = "dispatching"
    BY <1>2 DEF Begin, Reserve, NewCommand
  <2>2. active = NoCommand /\ remote.at = "idle"
    BY <1>2 DEF Begin, GateInv, AgreementInv
  <2>3. cal.state \notin Working
    BY <2>2, PathsApart DEF AttendInv, NoCommand
  <2>4. QED
    BY <2>1, <2>3 DEF AttendInv, Verifying, Sweeping
<1>3. CASE Supersede(request[1])
  BY <1>3 DEF Supersede, Finish, AttendInv, NoCommand, Verifying, Sweeping, GateInv,
              TypeInv, TypeOK, RemoteType
<1>4. QED
  BY <1>1, <1>2, <1>3

LEMMA RemoteReplyAttend ==
  ASSUME GateInv, AttendInv, NEW reply \in Replies, RemoteReply(reply) PROVE AttendInv'
<1>1. /\ remote.path = active.path /\ remote'.at = "idle"
      /\ active.ver = "dispatching"
  BY DEF RemoteReply, GateInv, ThreadInv, ReservationHeld, AtRest
<1>2. CASE ReplyAccepted
  <2>1. /\ active'.path = active.path /\ active'.ver = VerificationOf(active.path)
        /\ active'.ver # "pending-write"
    BY <1>2 DEF ReplyAccepted, SetRunning, VerificationOf, GateInv, TypeInv, TypeOK, ActiveType
  <2>2. cal' = cal \/ active.path = "StartCalibration"
    BY <1>1, <1>2 DEF ReplyAccepted
  <2>3. QED
    BY <1>1, <2>1, <2>2 DEF AttendInv, Calibrating, RemoteReply
<1>3. CASE ReplyFailed
  <2>1. active' = NoCommand
    BY <1>3 DEF ReplyFailed, Finish
  <2>2. (cal' = cal /\ active.path \notin Calibrating) \/ cal'.state = "Failed"
    BY <1>1, <1>3 DEF ReplyFailed, SetCal, Readback, Calibrating
  <2>3. cal'.state \notin Working
    BY <2>2 DEF AttendInv, Working, RemoteReply
  <2>4. QED
    BY <2>1, <2>3 DEF AttendInv, NoCommand, Verifying, Sweeping
<1>4. QED
  BY <1>2, <1>3 DEF RemoteReply

LEMMA RemoteStepAttend ==
  ASSUME GateInv, AttendInv, RemoteStep,
         remote.path = "AbortCalibration" => ~DispatchFailed
  PROVE  AttendInv'
<1>1. ASSUME NEW i \in Command, BeginAbort(i) PROVE AttendInv'
  BY <1>1 DEF BeginAbort, Reserve, NewCommand, AttendInv, Calibrating, Restorations,
              Verifying, Sweeping
<1>2. CASE InvalidArgument \/ DispatchFailed
  <2>1. /\ FinishCommand(remote.id, "Failed") /\ remote.at = "call"
        /\ remote'.at = "idle"
    BY <1>2 DEF InvalidArgument, DispatchFailed, AtRest
  <2>2. remote.path # "AbortCalibration"
    BY <1>2 DEF InvalidArgument
  <2>3. cal.state \notin Working
    BY <2>1, <2>2 DEF AttendInv
  <2>4. QED
    BY <2>1, <2>3, FinishAttend
<1>3. CASE Normalize
  <2>1. /\ remote.path \notin Calibrating /\ remote.at = "call" /\ remote'.at = "idle"
    BY <1>3 DEF Normalize, Calibrating, Restorations, AtRest
  <2>2. cal.state \notin Working
    BY <2>1 DEF AttendInv, Calibrating, Restorations
  <2>3. QED
    BY <1>3, <2>1, <2>2, FinishAttend DEF Normalize
<1>4. CASE Transmit
  <2>1. /\ remote.path = active.path /\ remote'.at = "await" /\ active' = active
        /\ remote.at = "call"
    BY <1>4 DEF Transmit, GateInv, ThreadInv, TypeInv, TypeOK, RemoteType
  <2>2. cal' = cal \/ remote.path \in Calibrating
    BY <1>4 DEF Transmit, Calibrating
  <2>3. QED
    BY <2>1, <2>2 DEF AttendInv
<1>5. ASSUME NEW reply \in Replies, RemoteReply(reply) PROVE AttendInv'
  BY <1>5, RemoteReplyAttend
<1>6. CASE WriteAttribute
  BY <1>6 DEF WriteAttribute, AttendInv, gateVars, GateInv, TypeInv, TypeOK, RemoteType
<1>7. CASE WriteRefused
  <2>1. /\ FinishCommand(remote.id, "Failed") /\ remote.at = "write" /\ remote'.at = "idle"
    BY <1>7 DEF WriteRefused, AtRest
  <2>2. active.id = remote.id => active.path \notin Calibrating
    BY <2>1, PathsApart DEF GateInv, ThreadInv
  <2>3. QED
    BY <2>1, <2>2, FinishAttend
<1>8. CASE MarkPending
  <2>1. cal' = cal /\ remote.at = "written" /\ remote'.at = "idle"
    BY <1>8 DEF MarkPending, AtRest
  <2>2. active.id = remote.id => active.path \in Settings
    BY <2>1 DEF GateInv, ThreadInv
  <2>3. \/ active' = active
        \/ /\ active.path \in Settings /\ active'.path = active.path
           /\ active'.ver = "pending-write"
    BY <1>8, <2>2 DEF MarkPending, GateInv, TypeInv, TypeOK, ActiveType
  <2>4. QED
    BY <2>1, <2>3 DEF AttendInv, Verifying, Sweeping
<1>9. QED
  BY <1>1, <1>2, <1>3, <1>4, <1>5, <1>6, <1>7, <1>8 DEF RemoteStep

LEMMA ForwardingFailedAttend ==
  ASSUME AttendInv, ForwardingFailed, remote' = remote PROVE AttendInv'
<1>1. CASE active.ver = "pending-write"
  <2>1. /\ cal' = cal /\ active' = NoCommand /\ remote.at # "superseding"
    BY <1>1 DEF ForwardingFailed, FinishCommand, Finish, RemoteHoldsLock
  <2>2. cal.state \notin Working
    BY <1>1, <2>1, PathsApart DEF AttendInv
  <2>3. QED
    BY <2>1, <2>2 DEF AttendInv, NoCommand, Verifying, Sweeping
<1>2. CASE active.ver # "pending-write"
  BY <1>2 DEF ForwardingFailed, gateVars, AttendInv
<1>3. QED
  BY <1>1, <1>2

LEMMA ForwardAttend ==
  ASSUME GateInv, AttendInv,
         \/ AlreadyInForce \/ RejectValue \/ ForwardValue \/ ForwardLost
         \/ \E reply \in Replies : ForwardReply(reply)
  PROVE  AttendInv'
<1>1. CASE AlreadyInForce
  <2>1. CASE CapturedIsPending
    <3>1. /\ cal' = cal /\ active' = NoCommand /\ remote' = remote
          /\ remote.at # "superseding" /\ active.ver = "pending-write"
      BY <1>1, <2>1
      DEF AlreadyInForce, FinishCommand, Finish, RemoteHoldsLock, CapturedIsPending
    <3>2. cal.state \notin Working
      BY <3>1, PathsApart DEF AttendInv
    <3>3. QED
      BY <3>1, <3>2 DEF AttendInv, NoCommand, Verifying, Sweeping
  <2>2. CASE ~CapturedIsPending
    BY <1>1, <2>2 DEF AlreadyInForce, gateVars, AttendInv
  <2>3. QED
    BY <2>1, <2>2
<1>2. CASE RejectValue \/ ForwardLost
  BY <1>2, ForwardingFailedAttend DEF RejectValue, ForwardLost
<1>3. CASE ForwardValue
  BY <1>3 DEF ForwardValue, gateVars, AttendInv
<1>4. ASSUME NEW reply \in Replies, ForwardReply(reply) PROVE AttendInv'
  <2>1. CASE main.path # main.setting
    BY <1>4, <2>1 DEF ForwardReply, gateVars, AttendInv
  <2>2. CASE main.path = main.setting /\ reply = "accepted" /\ active.id = main.id
    <3>1. SetRunning(main.value) /\ cal' = cal /\ remote' = remote
      BY <1>4, <2>2 DEF ForwardReply
    <3>2. /\ active'.path = active.path /\ active'.ver = VerificationOf(active.path)
          /\ active'.ver # "pending-write"
      BY <3>1 DEF SetRunning, VerificationOf, GateInv, TypeInv, TypeOK, ActiveType
    <3>3. QED
      BY <3>1, <3>2 DEF AttendInv
  <2>3. CASE main.path = main.setting /\ ~(reply = "accepted" /\ active.id = main.id)
    BY <1>4, <2>3, ForwardingFailedAttend DEF ForwardReply
  <2>4. QED
    BY <2>1, <2>2, <2>3
<1>5. QED
  BY <1>1, <1>2, <1>3, <1>4

LEMMA TimeOutAttend ==
  ASSUME AttendInv, active.ver \in Verifying, TimeOut, remote' = remote,
         remote.at # "superseding"
  PROVE  AttendInv'
<1>1. active' = NoCommand
  BY DEF TimeOut, Finish
<1>2. \/ cal'.state = "Failed"
      \/ cal' = cal /\ active.ver \notin Sweeping \cup {"restore"}
  BY DEF TimeOut, SetCal, Readback
<1>3. cal'.state \notin Working
  BY <1>2, PathsApart DEF AttendInv, Working, Sweeping
<1>4. QED
  BY <1>1, <1>3 DEF AttendInv, NoCommand, Verifying, Sweeping

LEMMA AdvanceAttend ==
  ASSUME GateInv, AttendInv,
         \/ \E sameHash, readback \in BOOLEAN :
              \/ AdvanceComplete(sameHash, readback)
              \/ AdvanceRestore(sameHash, readback)
              \/ AdvanceTimeOut(sameHash, readback)
              \/ AdvanceNothing(sameHash, readback)
         \/ \E reply \in Replies : RestoreReply(reply)
  PROVE  AttendInv'
<1>1. ASSUME NEW sameHash \in BOOLEAN, NEW readback \in BOOLEAN,
             AdvanceComplete(sameHash, readback)
      PROVE  AttendInv'
  <2>1. /\ remote' = remote /\ remote.at # "superseding" /\ active' = NoCommand
        /\ active.ver \in Verifying /\ Complete
    BY <1>1 DEF AdvanceComplete, AtAdvance, RemoteHoldsLock, Complete
  <2>2. \/ cal'.state \in {"Completed", "Failed", "Aborted", "Idle"}
        \/ cal' = cal /\ active.ver \notin Sweeping \cup {"restore"}
    BY <2>1 DEF Complete, SetCal, Readback, Sweeping
  <2>3. cal'.state \notin Working
    BY <2>1, <2>2, PathsApart DEF AttendInv, Working, Sweeping
  <2>4. QED
    BY <2>1, <2>3 DEF AttendInv, NoCommand, Verifying, Sweeping
<1>2. ASSUME NEW sameHash \in BOOLEAN, NEW readback \in BOOLEAN,
             AdvanceRestore(sameHash, readback) \/ AdvanceNothing(sameHash, readback)
      PROVE  AttendInv'
  BY <1>2 DEF AdvanceRestore, AdvanceNothing, gateVars, AttendInv
<1>3. ASSUME NEW sameHash \in BOOLEAN, NEW readback \in BOOLEAN,
             AdvanceTimeOut(sameHash, readback)
      PROVE  AttendInv'
  BY <1>3, TimeOutAttend DEF AdvanceTimeOut, AtAdvance, RemoteHoldsLock
<1>4. ASSUME NEW reply \in Replies, RestoreReply(reply) PROVE AttendInv'
  <2>1. /\ active.ver = "calibration" /\ active.path = "StartCalibration"
        /\ active.id # 0 /\ remote' = remote
    BY <1>4 DEF RestoreReply, GateInv, ThreadInv, AgreementInv, Sweeping
  <2>2. remote.at \notin {"superseding", "call"}
    BY <1>4, <2>1 DEF RestoreReply, GateInv, LockInv, ThreadInv, ReservationHeld
  <2>3. CASE reply = "accepted"
    <3>1. /\ active'.path = "StartCalibration"
          /\ active'.ver = "calibration-timeout-restore"
      BY <1>4, <2>1, <2>3 DEF RestoreReply, GateInv, TypeInv, TypeOK, ActiveType
    <3>2. QED
      BY <2>1, <2>2, <3>1 DEF AttendInv, Calibrating
  <2>4. CASE reply # "accepted"
    BY <1>4, <2>1, <2>2, <2>4, TimeOutAttend DEF RestoreReply, Verifying, Sweeping
  <2>5. QED
    BY <2>3, <2>4
<1>5. QED
  BY <1>1, <1>2, <1>3, <1>4

LEMMA RestartAttend ==
  ASSUME ~DiskFaults, GateInv, DurableInv, AttendInv, Restart, remote.at # "superseding"
  PROVE  AttendInv'
<1>1. active' = NoCommand
  BY DEF Restart
<1>2. cal'.state \notin Working
  <2>1. PICK image \in HalfSaved \cup {disk} : Restored(image)
    BY DEF Restart
  <2>2. CASE image.audit.state \in InFlight
    BY <2>1, <2>2 DEF Restored, SetCal, Readback, Working
  <2>3. CASE image.audit.state \notin InFlight
    <3>1. image = disk
      BY <2>3 DEF HalfSaved
    <3>2. cal' = cal /\ audit.state \notin InFlight
      BY <2>1, <2>3, <3>1 DEF Restored, DurableInv
    <3>3. active = NoCommand
      BY <3>2 DEF GateInv, AgreementInv
    <3>4. QED
      BY <3>2, <3>3, PathsApart DEF AttendInv, NoCommand
  <2>4. QED
    BY <2>2, <2>3
<1>3. QED
  BY <1>1, <1>2 DEF AttendInv, NoCommand, Verifying, Sweeping

LEMMA OtherStepAttend ==
  ASSUME GateInv, AttendInv,
         Capture \/ ReadNode \/ Evidence \/ DeadlinePasses \/ UNCHANGED vars
  PROVE  AttendInv'
<1>1. /\ active'.path = active.path /\ active'.ver = active.ver
      /\ UNCHANGED <<cal, remote>>
  BY DEF Capture, ReadNode, Evidence, ApplyMeasurement, ApplyServices, DeadlinePasses,
         vars, gateVars, GateInv, TypeInv, TypeOK, ActiveType
<1>2. QED
  BY <1>1 DEF AttendInv

(* A calibration readback that says work is in progress has a command that *)
(* will end it, when no restart cuts a supersession in two and every       *)
(* AbortCalibration is run; other restarts and refused calls may happen.   *)
THEOREM CalibrationIsAttended ==
  ASSUME ~DiskFaults
  PROVE  Spec /\ Undisturbed => []CalibrationAttended
<1>1. ASSUME GateInv, DurableInv, AttendInv, [Next]_vars,
             [/\ remote.at = "superseding" => restarts' = restarts
              /\ remote.path = "AbortCalibration" => ~DispatchFailed]_vars
      PROVE  AttendInv'
  <2>1. CASE UNCHANGED vars
    BY <1>1, <2>1, OtherStepAttend
  <2>2. CASE ~(UNCHANGED vars) /\ Restart
    <3>1. restarts' # restarts
      BY <1>1, <2>2 DEF Restart, GateInv, TypeInv, TypeOK
    <3>2. remote.at # "superseding"
      BY <1>1, <2>2, <3>1
    <3>3. QED
      BY <1>1, <2>2, <3>2, RestartAttend
  <2>3. CASE ~(UNCHANGED vars) /\ RemoteStep
    BY <1>1, <2>3, RemoteStepAttend
  <2>4. CASE MainStep
    BY <1>1, <2>4, ForwardAttend, AdvanceAttend, OtherStepAttend DEF MainStep
  <2>5. QED
    BY <1>1, <2>1, <2>2, <2>3, <2>4, ClientRequestAttend, OtherStepAttend DEF Next
<1>2. AttendInv => CalibrationAttended
  BY DEF AttendInv, CalibrationAttended, Working, Calibrating
<1>3. QED
  BY <1>1, <1>2, AttendInit, DurableCorrect, PTL DEF Spec, Undisturbed
=============================================================================
