------------------------------ MODULE Instrument ------------------------------
(***************************************************************************)
(* What stands behind the requests of the command gate: the ZeroMQ command *)
(* server (src/python/gizmo_zmq.py), the privileged control helper         *)
(* (src/control/gizmo-control.c) and the measurement engine                *)
(* (src/zmon/gizmo-zmon.c), which talk to each other through files.        *)
(*                                                                         *)
(*   server   takes one request at a time, saves settings, writes the      *)
(*            three files of startup arguments one after the other, and    *)
(*            asks the helper for a restart;                               *)
(*   helper   takes one connection at a time, also of a server that has    *)
(*            stopped waiting for it;                                      *)
(*   engine   is started by systemd with the arguments in the files,       *)
(*            carries them out in order, and stays in the last of them,    *)
(*            `run`, where it measures, latches alarms and serves samples. *)
(*                                                                         *)
(* Left out: measured values, calibration tables, the requests that only   *)
(* read a file, and requests the parser refuses, which change nothing.     *)
(***************************************************************************)
EXTENDS Integers, Sequences

CONSTANTS
  Thresholds,    \* thresholds within the contract's limits
  Intervals,     \* read counts from 1 to 1_000_000
  Kinds,         \* the requests clients send
  StartLimit,    \* restarts systemd carries out within its limit interval
  ControlFaults, \* whether the server may stop waiting for the helper
  ServerFaults,  \* whether a save may fail, or the server be killed
  MaxRequest,    \* bound: requests received
  MaxCrash,      \* bound: crashes of the engine
  MaxLate        \* bound: restart requests at the helper

VARIABLES
  file,     \* setThreshold.env and setRunInterval.env
  args,     \* ZMonArg1.env, ZMonArg2.env and ZMonArg3.env
  latch,    \* latchState.env
  server,   \* the ZeroMQ server: where it is, the request and its locals
  helper,   \* the control helper: waiting connections, a restart under way
  engine,   \* gizmo-zmon.service and its process
  starts,   \* restarts within systemd's limit interval
  settled,  \* history: the last request that writes arguments was carried out
  requests, \* how many requests were received
  crashes   \* how often the engine crashed

history == <<settled, requests, crashes>>
vars == <<file, args, latch, server, helper, engine, starts,
          settled, requests, crashes>>

-----------------------------------------------------------------------------
(* Requests, and the startup arguments each of them writes.                *)

NoRequest == [kind |-> "none", n |-> 0]
RequestOf ==
  [kind : Kinds \cap {"set_th"}, n : Thresholds]
    \cup [kind : Kinds \cap {"run", "CAL"}, n : Intervals]
    \cup [kind : Kinds \ {"set_th", "run", "CAL"}, n : {0}]

Rewriting == {"run", "CAL", "set_th", "read_adc"}
AllKinds == Rewriting \cup {"set_time", "clear_latch", "get_data"}

InstrumentAssumption ==
  /\ Thresholds \subseteq Nat /\ Thresholds # {}
  /\ Intervals \subseteq Nat \ {0} /\ Intervals # {}
  /\ Kinds \subseteq AllKinds
  /\ StartLimit \in Nat
  /\ ControlFaults \in BOOLEAN /\ ServerFaults \in BOOLEAN
  /\ MaxRequest \in Nat /\ MaxCrash \in Nat /\ MaxLate \in Nat
ASSUME InstrumentIsSound == InstrumentAssumption

Argument(command, value) == [cmd |-> command, n |-> value]
NoArgument == Argument("empty", 0)

(* A bug for EngineReturns to catch: an ADC capture that does not go on to *)
(* the measurements.                                                       *)
ArgumentsEndWithCapture(request, threshold, interval) ==
  CASE request.kind \in {"run", "set_th"} ->
         <<Argument("set_th", threshold), Argument("run", interval), NoArgument>>
    [] request.kind = "CAL" ->
         <<Argument("CAL", request.n), Argument("set_th", threshold),
           Argument("run", request.n)>>
    [] OTHER ->
         <<Argument("set_th", threshold), Argument("read_adc", 0), NoArgument>>

(* restart_zmon(...) pads the arguments of a request to three.             *)
Arguments(request, threshold, interval) ==
  CASE request.kind = "run" ->
         <<Argument("set_th", threshold), Argument("run", request.n), NoArgument>>
    [] request.kind = "CAL" ->
         <<Argument("CAL", request.n), Argument("set_th", threshold),
           Argument("run", request.n)>>
    [] request.kind = "set_th" ->
         <<Argument("set_th", request.n), Argument("run", interval), NoArgument>>
    [] OTHER ->
         <<Argument("read_adc", 0), Argument("set_th", threshold),
           Argument("run", interval)>>

-----------------------------------------------------------------------------
(* Where the engine can be: not running, waiting for systemd to restart    *)
(* it, or given up by systemd; being started; in main(); in `run`.         *)

Loop == {"read", "measure", "latching", "publish"}
Up   == {"boot", "parse", "sweep"} \cup Loop
Alarms == {"none", "phase", "threshold"}

(* The process is gone, with all it remembered and its listening socket.   *)
Gone(at) == [at |-> at, argv |-> <<>>, pos |-> 1, th |-> 0, reads |-> 0,
             latched |-> FALSE, alarm |-> "none", cleared |-> FALSE,
             client |-> FALSE]

Idle == [at |-> "idle", request |-> NoRequest, written |-> 0,
         threshold |-> 0, interval |-> 0]

Init ==
  /\ file \in [threshold : Thresholds, interval : Intervals]
  /\ args = Arguments([kind |-> "run", n |-> file.interval],
                      file.threshold, file.interval)
  /\ latch = "clear"
  /\ server = Idle
  /\ helper = [queue |-> 0, busy |-> FALSE]
  /\ engine = Gone("off")
  /\ starts = 0
  /\ settled = TRUE
  /\ requests = 0
  /\ crashes = 0

-----------------------------------------------------------------------------
(* The ZeroMQ server: main() and handle_message().                         *)

FirstStep(kind) ==
  CASE kind \in {"run", "CAL", "set_th"} -> "save"
    [] kind = "read_adc"                  -> "arguments"
    [] kind = "set_time"                  -> "clock"
    [] kind = "clear_latch"               -> "latch"
    [] OTHER                              -> "connect"

(* A request arrives; both setting files are read before it is looked at.  *)
(* It may be one whose sender has long stopped waiting.                    *)
Receive(request) ==
  /\ server.at = "idle"
  /\ requests < MaxRequest
  /\ server' = [at |-> FirstStep(request.kind), request |-> request,
                written |-> 0, threshold |-> file.threshold,
                interval |-> file.interval]
  /\ requests' = requests + 1
  /\ UNCHANGED <<file, args, latch, helper, engine, starts, settled, crashes>>

(* The setting is saved before the arguments that are to apply it.         *)
SaveSetting ==
  /\ server.at = "save"
  /\ file' = IF server.request.kind = "set_th"
             THEN [file EXCEPT !.threshold = server.request.n]
             ELSE [file EXCEPT !.interval = server.request.n]
  /\ server' = [server EXCEPT !.at = "arguments"]
  /\ settled' = FALSE
  /\ UNCHANGED <<args, latch, helper, engine, starts, requests, crashes>>

ArgumentToWrite ==
  Arguments(server.request, server.threshold, server.interval)
    [server.written + 1]

(* write_zmon_arguments(): each file is replaced as a whole, the three of  *)
(* them one after the other.                                               *)
WriteArgument ==
  /\ server.at = "arguments"
  /\ args' = [args EXCEPT ![server.written + 1] = ArgumentToWrite]
  /\ server' = [server EXCEPT
                  !.written = server.written + 1,
                  !.at = IF server.written = 2 THEN "control" ELSE "arguments"]
  /\ settled' = FALSE
  /\ UNCHANGED <<file, latch, helper, engine, starts, requests, crashes>>

(* set-time reaches the helper after the restarts that wait there.  The    *)
(* arguments stay those of the last request that wrote any.                *)
SetClock ==
  /\ server.at = "clock"
  /\ helper.queue = 0
  /\ server' = [server EXCEPT !.at = "control"]
  /\ UNCHANGED <<file, args, latch, helper, engine, starts, history>>

RequestRestart ==
  /\ server.at = "control"
  /\ server' = [server EXCEPT !.at = "restarting"]
  /\ helper' = [helper EXCEPT !.queue = helper.queue + 1]
  /\ UNCHANGED <<file, args, latch, engine, starts, history>>

(* GIZMO_CONTROL_TIMEOUT passes: the request fails, the restart stays.     *)
ControlTimeout ==
  /\ ControlFaults
  /\ server.at \in {"clock", "restarting"}
  /\ server.at = "restarting" => helper.queue < MaxLate
  /\ server' = Idle
  /\ UNCHANGED <<file, args, latch, helper, engine, starts, history>>

(* atomic_write() raises, the helper cannot be reached or refuses, or the  *)
(* process is killed and started again: what was written stays.            *)
GiveUp ==
  /\ ServerFaults
  /\ server.at \notin {"idle", "connect", "data"}
  /\ server.at = "restarting" => helper.queue < MaxLate
  /\ server' = Idle
  /\ UNCHANGED <<file, args, latch, helper, engine, starts, history>>

ClearLatch ==
  /\ server.at = "latch"
  /\ latch' = "clear"
  /\ engine' = IF engine.at \in {"measure", "latching", "publish"}
               THEN [engine EXCEPT !.cleared = TRUE] ELSE engine
  /\ server' = Idle
  /\ UNCHANGED <<file, args, helper, starts, history>>

(* get_zmon_data(): nobody listens while the engine starts or sweeps.      *)
Connect ==
  /\ server.at = "connect"
  /\ engine.at \in Loop
  /\ server' = [server EXCEPT !.at = "data"]
  /\ engine' = [engine EXCEPT !.client = TRUE]
  /\ UNCHANGED <<file, args, latch, helper, starts, history>>

ConnectRefused ==
  /\ server.at = "connect"
  /\ server' = Idle
  /\ UNCHANGED <<file, args, latch, helper, engine, starts, history>>

(* Three seconds pass, or the engine has gone.                             *)
DataLost ==
  /\ server.at = "data"
  /\ server' = Idle
  /\ engine' = [engine EXCEPT !.client = FALSE]
  /\ UNCHANGED <<file, args, latch, helper, starts, history>>

ServerStep ==
  \/ SaveSetting \/ WriteArgument \/ SetClock \/ RequestRestart \/ ClearLatch
  \/ Connect \/ ConnectRefused \/ DataLost

-----------------------------------------------------------------------------
(* The control helper.  It serves one connection after the other, and a    *)
(* server that still waits has the last of them.                           *)

Answered == server.at = "restarting" /\ helper.queue = 1

(* The answer OK, and the end of the connection.  Answering a server that  *)
(* has gone ends the helper by SIGPIPE: its socket, and who waits there,   *)
(* are systemd's, which starts it again.                                   *)
AnswerOk ==
  /\ helper' = [queue |-> helper.queue - 1, busy |-> FALSE]
  /\ server' = IF Answered THEN Idle ELSE server
  /\ settled' =
       (settled \/ (Answered /\ server.request.kind \in Rewriting))

(* A bug for RunsAsConfigured to catch: the helper answers before the      *)
(* engine was started again.                                               *)
RestartEngineEarly ==
  /\ helper.queue > 0 /\ ~helper.busy
  /\ engine.at \in Up \cup {"off"}
  /\ AnswerOk
  /\ UNCHANGED <<file, args, latch, engine, starts, requests, crashes>>

(* try-restart: systemd kills the process and starts it with the files as  *)
(* they are when it reads them.                                            *)
RestartEngine ==
  /\ helper.queue > 0 /\ ~helper.busy
  /\ engine.at \in Up \cup {"off"}
  /\ starts < StartLimit
  /\ starts' = starts + 1
  /\ engine' = Gone("starting")
  /\ helper' = [queue |-> helper.queue, busy |-> TRUE]
  /\ UNCHANGED <<file, args, latch, server, history>>

(* systemctl returns once the process was started.                         *)
RestartDone ==
  /\ helper.busy
  /\ engine.at # "starting"
  /\ AnswerOk
  /\ UNCHANGED <<file, args, latch, engine, starts, requests, crashes>>

(* The start limit is hit: the engine was killed and stays down; ERR.      *)
RestartRefused ==
  /\ helper.queue > 0 /\ ~helper.busy
  /\ engine.at \in Up \cup {"off"}
  /\ starts >= StartLimit
  /\ engine' = Gone("failed")
  /\ helper' = [helper EXCEPT !.queue = helper.queue - 1]
  /\ server' = IF Answered THEN Idle ELSE server
  /\ UNCHANGED <<file, args, latch, starts, history>>

(* try-restart leaves a unit alone that is not active, and succeeds.       *)
RestartNothing ==
  /\ helper.queue > 0 /\ ~helper.busy
  /\ engine.at = "failed"
  /\ AnswerOk
  /\ UNCHANGED <<file, args, latch, engine, starts, requests, crashes>>

HelperStep == RestartEngine \/ RestartDone \/ RestartRefused \/ RestartNothing

-----------------------------------------------------------------------------
(* systemd: Restart=always, RestartSec=2.  Two seconds apart, automatic    *)
(* starts keep within the limit by themselves, and are not counted.        *)

AutoStart ==
  /\ engine.at = "off"
  /\ engine' = IF starts < StartLimit THEN Gone("starting") ELSE Gone("failed")
  /\ UNCHANGED <<file, args, latch, server, helper, starts, history>>

(* A restart leaves the limit interval.                                    *)
WindowMoves ==
  /\ starts > 0
  /\ starts' = starts - 1
  /\ UNCHANGED <<file, args, latch, server, helper, engine, history>>

(* The files of the unit are read one after the other.                     *)
LoadArgument ==
  /\ engine.at = "starting"
  /\ engine' = [engine EXCEPT
                  !.argv = Append(engine.argv, args[Len(engine.argv) + 1]),
                  !.at = IF Len(engine.argv) = 2 THEN "boot" ELSE "starting"]
  /\ UNCHANGED <<file, args, latch, server, helper, starts, history>>

-----------------------------------------------------------------------------
(* The engine: main() and parse().                                         *)

EngineOnly == UNCHANGED <<file, args, latch, server, helper, starts, history>>

LoadTH ==
  /\ engine.at = "boot"
  /\ engine' = [engine EXCEPT !.at = "parse", !.th = file.threshold]
  /\ EngineOnly

Parsing(command) ==
  engine.at = "parse" /\ engine.pos <= 3 /\ engine.argv[engine.pos].cmd = command

(* An empty argument matches no command; read_adc writes adc.csv.          *)
ParseNothing ==
  /\ Parsing("empty") \/ Parsing("read_adc")
  /\ engine' = [engine EXCEPT !.pos = engine.pos + 1]
  /\ EngineOnly

ParseThreshold ==
  /\ Parsing("set_th")
  /\ engine' = [engine EXCEPT !.pos = engine.pos + 1,
                  !.th = engine.argv[engine.pos].n]
  /\ EngineOnly

StartSweep ==
  /\ Parsing("CAL")
  /\ engine' = [engine EXCEPT !.at = "sweep"]
  /\ EngineOnly

EndSweep ==
  /\ engine.at = "sweep"
  /\ engine' = [engine EXCEPT !.at = "parse", !.pos = engine.pos + 1]
  /\ EngineOnly

StartRun ==
  /\ Parsing("run")
  /\ engine' = [engine EXCEPT !.at = "read",
                  !.reads = engine.argv[engine.pos].n]
  /\ EngineOnly

(* After the last argument main() reads commands from its standard input,  *)
(* finds the end of it, and exits.                                         *)
EndOfArguments ==
  /\ engine.at = "parse" /\ engine.pos > 3
  /\ engine' = Gone("off")
  /\ EngineOnly

(* A bug for AlarmIsLatched to catch: the process trusts what it           *)
(* remembers, and never sees the latch cleared.                            *)
ReadLatchOnce ==
  /\ engine.at = "read"
  /\ engine' = [engine EXCEPT !.at = "measure",
                  !.latched = engine.latched \/ latch = "latched"]
  /\ EngineOnly

(* readFromLatch(); an empty file leaves what the process remembers.       *)
ReadLatch ==
  /\ engine.at = "read"
  /\ engine' = [engine EXCEPT !.at = "measure",
                  !.latched = CASE latch = "latched" -> TRUE
                                [] latch = "clear"   -> FALSE
                                [] OTHER             -> engine.latched]
  /\ EngineOnly

(* The reads and the alarm decision, when there is nothing to latch.       *)
Measure(alarm) ==
  /\ engine.at = "measure"
  /\ alarm = "threshold" => engine.latched
  /\ engine' = [engine EXCEPT !.at = "publish", !.alarm = alarm]
  /\ EngineOnly

(* A bug for LatchSurvives to catch: every alarm writes the file again.    *)
LatchEveryAlarm ==
  /\ engine.at = "measure"
  /\ engine' = [engine EXCEPT !.at = "latching", !.alarm = "threshold",
                  !.latched = TRUE]
  /\ latch' = "empty"
  /\ UNCHANGED <<file, args, server, helper, starts, history>>

(* A threshold alarm and no latch: writeToLatch() begins by truncating the *)
(* file.                                                                   *)
LatchAlarm ==
  /\ engine.at = "measure" /\ ~engine.latched
  /\ engine' = [engine EXCEPT !.at = "latching", !.alarm = "threshold",
                  !.latched = TRUE]
  /\ latch' = "empty"
  /\ UNCHANGED <<file, args, server, helper, starts, history>>

(* The text reaches the file that was truncated.  When clear_latch has put *)
(* another one in its place since, nobody will read it.                    *)
WriteLatch ==
  /\ engine.at = "latching"
  /\ engine' = [engine EXCEPT !.at = "publish"]
  /\ latch' = IF latch = "empty" THEN "latched" ELSE latch
  /\ UNCHANGED <<file, args, server, helper, starts, history>>

(* One connection is accepted per measurement: none, the server's, or one  *)
(* that it gave up before.                                                 *)
Publish(served) ==
  /\ engine.at = "publish"
  /\ served => engine.client
  /\ engine' = [engine EXCEPT !.at = "read", !.alarm = "none",
                  !.cleared = FALSE,
                  !.client = IF served THEN FALSE ELSE engine.client]
  /\ server' = IF served THEN Idle ELSE server
  /\ UNCHANGED <<file, args, latch, helper, starts, history>>

Crash ==
  /\ engine.at \in Up
  /\ crashes < MaxCrash
  /\ engine' = Gone("off")
  /\ crashes' = crashes + 1
  /\ UNCHANGED <<file, args, latch, server, helper, starts,
                 settled, requests>>

EngineStep ==
  \/ LoadTH \/ ParseNothing \/ ParseThreshold \/ StartSweep \/ EndSweep
  \/ StartRun \/ EndOfArguments \/ ReadLatch
  \/ (\E alarm \in Alarms : Measure(alarm))
  \/ LatchAlarm \/ WriteLatch
  \/ (\E served \in BOOLEAN : Publish(served))

SystemdStep == AutoStart \/ LoadArgument

Next ==
  \/ (\E request \in RequestOf : Receive(request))
  \/ ServerStep \/ ControlTimeout \/ GiveUp
  \/ HelperStep
  \/ SystemdStep \/ WindowMoves
  \/ EngineStep \/ Crash

Spec == Init /\ [][Next]_vars

(* The processes run, the helper's restarts and the measurements end, and  *)
(* systemd starts what it has to start.  Nothing makes the start limit     *)
(* pass, a request arrive, or the engine crash.                            *)
FairSpec ==
  /\ Spec
  /\ WF_vars(ServerStep) /\ WF_vars(HelperStep)
  /\ WF_vars(SystemdStep) /\ WF_vars(EngineStep)

-----------------------------------------------------------------------------
(* Types.                                                                  *)

ArgumentType ==
  [cmd : {"empty", "run", "CAL", "set_th", "read_adc"},
   n : Thresholds \cup Intervals \cup {0}]
ServerPoint ==
  {"idle", "save", "arguments", "clock", "control", "restarting", "latch",
   "connect", "data"}

Number == Thresholds \cup Intervals \cup {0}
ServerType ==
  [at : ServerPoint, request : RequestOf \cup {NoRequest}, written : 0..3,
   threshold : Thresholds \cup {0}, interval : Intervals \cup {0}]
EngineType ==
  [at : Up \cup {"off", "failed", "starting"},
   argv : Seq(ArgumentType), pos : 1..4, th : Number, reads : Number,
   latched : BOOLEAN, alarm : Alarms, cleared : BOOLEAN, client : BOOLEAN]

(* Types of the engine, its configuration, its files and its alarm.        *)
TypeOK ==
  /\ file \in [threshold : Thresholds, interval : Intervals]
  /\ args \in [1..3 -> ArgumentType]
  /\ latch \in {"clear", "latched", "empty"}
  /\ server \in ServerType
  /\ helper \in [queue : Nat, busy : BOOLEAN]
  /\ engine \in EngineType
  /\ starts \in Nat
  /\ settled \in BOOLEAN
  /\ requests \in Nat /\ crashes \in Nat

-----------------------------------------------------------------------------
(* Settings, arguments, and the engine that runs with them.                *)

Rewrites == server.request.kind \in Rewriting

CurrentArguments ==
  {Arguments([kind |-> kind, n |-> file.interval],
             file.threshold, file.interval) : kind \in {"run", "CAL", "read_adc"}}

(* The engine is being started with the arguments of the files, was        *)
(* started with them, or is not there.                                     *)
EngineFollows ==
  /\ engine.at = "starting" =>
       \A i \in 1..Len(engine.argv) : engine.argv[i] = args[i]
  /\ engine.at \in Up =>
       \A i \in 1..3 : engine.argv[i] = args[i]
  /\ engine.at \in Up \ {"boot"} => engine.th = file.threshold
  /\ engine.at \in Loop => engine.reads = file.interval

(* Once the last request that changes settings was answered with success,  *)
(* an engine that measures does so with the settings saved in the state    *)
(* files, and a later restart, by whomever, will lead there again: also    *)
(* when earlier requests had failed half way, a restart came late, or the  *)
(* engine crashed in between.                                              *)
RunsAsConfigured ==
  settled =>
    /\ args \in CurrentArguments
    /\ engine.at \in Loop =>
         /\ engine.th = file.threshold
         /\ engine.reads = file.interval

(* Where each process is, its locals allow.                                *)
EngineShape ==
  /\ engine.at = "starting" => Len(engine.argv) < 3
  /\ engine.at \in Up => Len(engine.argv) = 3
  /\ engine.at = "sweep" => engine.pos <= 3

ServerShape ==
  /\ server.at = "save" => server.request.kind \in {"run", "CAL", "set_th"}
  /\ server.at = "arguments" => Rewrites /\ server.written < 3
  /\ server.at \in {"save", "clock"} => server.written = 0
  /\ server.at \notin {"save", "arguments", "control", "restarting"} => ~Rewrites
  /\ server.at = "restarting" => helper.queue > 0
  /\ helper.busy => helper.queue > 0

(* What the server remembers of the settings is what the files say, ...    *)
RequestDescribesFiles ==
  LET r == server.request
  IN  /\ server.at = "save" =>
           /\ file.threshold = server.threshold
           /\ file.interval = server.interval
      /\ (server.at \in {"arguments", "control", "restarting"} /\ Rewrites) =>
           /\ file.threshold =
                IF r.kind = "set_th" THEN r.n ELSE server.threshold
           /\ file.interval =
                IF r.kind \in {"run", "CAL"} THEN r.n ELSE server.interval

(* ... and the arguments written so far are those of its request.          *)
ArgumentsWritten ==
  (server.at \in {"arguments", "control", "restarting"} /\ Rewrites) =>
    /\ \A i \in 1..server.written :
         args[i] = Arguments(server.request, server.threshold, server.interval)[i]
    /\ server.at # "arguments" => server.written = 3 /\ ~settled

(* The restart that the server waits for, and the only one there is.       *)
OwnRestart == helper.busy /\ Answered /\ Rewrites

ConfiguredInv ==
  /\ EngineShape /\ ServerShape
  /\ RequestDescribesFiles
  /\ ArgumentsWritten
  /\ settled => args \in CurrentArguments
  /\ (settled \/ OwnRestart) => EngineFollows

-----------------------------------------------------------------------------
(* The latch file, between the engine and clear_latch.                     *)

LatchInv ==
  /\ engine.at \notin Loop => ~engine.latched
  /\ engine.at = "read" => (latch = "empty" => ~engine.latched)
  /\ engine.at = "measure" =>
       IF engine.latched
       THEN latch = "latched" \/ (latch = "clear" /\ engine.cleared)
       ELSE latch # "latched"
  /\ engine.at = "latching" =>
       latch = "empty" \/ (latch = "clear" /\ engine.cleared)
  /\ (engine.at = "publish" /\ engine.alarm = "threshold") =>
       latch = "latched" \/ engine.cleared
  /\ (engine.at = "publish" /\ latch = "empty") => ~engine.latched

(* A threshold alarm that a sample reports is in the latch file, unless a  *)
(* client cleared the latch after that measurement had begun.              *)
AlarmIsLatched ==
  (engine.at = "publish" /\ engine.alarm = "threshold") =>
    latch = "latched" \/ engine.cleared

(* A latch in the file survives everything but clear_latch: measurements,  *)
(* sweeps, restarts and crashes of the engine.                             *)
LatchSurvives ==
  [][latch = "latched" /\ latch' # "latched" => server.at = "latch"]_vars

-----------------------------------------------------------------------------
(* The engine returns to its measurements after every restart, sweep,      *)
(* capture and crash ("until ZMon returns").                               *)
EngineReturns == []<>(engine.at \in Loop)
=============================================================================
