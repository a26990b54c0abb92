--------------------------- MODULE InstrumentProofs ---------------------------
(***************************************************************************)
(* Theorems about the instrument behind the command gate, for every set of *)
(* thresholds, read counts and requests, for every start limit and bound,  *)
(* with and without faults of the server and of the helper.                *)
(***************************************************************************)
EXTENDS Instrument, SequenceTheorems, TLAPS

USE InstrumentIsSound DEF InstrumentAssumption

-----------------------------------------------------------------------------
(* Types.                                                                  *)

TypeInv == TypeOK /\ EngineShape /\ ServerShape

(* What a request can be, field by field.                                  *)
LEMMA RequestFields ==
  ASSUME NEW r \in RequestOf \cup {NoRequest}
  PROVE  /\ r.n \in Number
         /\ r.kind \in AllKinds \cup {"none"}
         /\ r.kind = "set_th" => r.n \in Thresholds
         /\ r.kind \in {"run", "CAL"} => r.n \in Intervals
<1>1. CASE r = NoRequest
  BY <1>1 DEF NoRequest, Number
<1>2. CASE r \in [kind : Kinds \cap {"set_th"}, n : Thresholds]
  BY <1>2 DEF Number, AllKinds
<1>3. CASE r \in [kind : Kinds \cap {"run", "CAL"}, n : Intervals]
  BY <1>3 DEF Number, AllKinds
<1>4. CASE r \in [kind : Kinds \ {"set_th", "run", "CAL"}, n : {0}]
  BY <1>4 DEF Number, AllKinds
<1>5. QED
  BY <1>1, <1>2, <1>3, <1>4 DEF RequestOf

LEMMA ArgumentsType ==
  ASSUME NEW kind, NEW n \in Number, NEW th \in Number, NEW iv \in Number
  PROVE  Arguments([kind |-> kind, n |-> n], th, iv) \in [1..3 -> ArgumentType]
<1> DEFINE A == Arguments([kind |-> kind, n |-> n], th, iv)
<1>1. \A c \in {"run", "CAL", "set_th", "read_adc"}, v \in Number :
        Argument(c, v) \in ArgumentType
  BY DEF Argument, ArgumentType, Number
<1>2. NoArgument \in ArgumentType /\ 0 \in Number
  BY DEF NoArgument, Argument, ArgumentType, Number
<1>3. CASE kind = "run"
  BY <1>1, <1>2, <1>3 DEF Arguments
<1>4. CASE kind = "CAL"
  BY <1>1, <1>2, <1>4 DEF Arguments
<1>5. CASE kind = "set_th"
  BY <1>1, <1>2, <1>5 DEF Arguments
<1>6. CASE kind \notin {"run", "CAL", "set_th"}
  BY <1>1, <1>2, <1>6 DEF Arguments
<1>7. QED
  BY <1>3, <1>4, <1>5, <1>6

(* The arguments of the request at hand.                                   *)
LEMMA RequestArguments ==
  ASSUME TypeOK
  PROVE  Arguments(server.request, server.threshold, server.interval)
           \in [1..3 -> ArgumentType]
<1>1. server.request \in RequestOf \cup {NoRequest}
  BY DEF TypeOK, ServerType
<1>2. server.request = [kind |-> server.request.kind, n |-> server.request.n]
  BY <1>1 DEF RequestOf, NoRequest
<1>3. server.threshold \in Number /\ server.interval \in Number
  BY DEF TypeOK, ServerType, Number
<1>4. server.request.n \in Number
  BY <1>1, RequestFields
<1>5. QED
  BY <1>2, <1>3, <1>4, ArgumentsType

LEMMA RestingTypes ==
  /\ \A at \in {"off", "failed", "starting"} : Gone(at) \in EngineType
  /\ Idle \in ServerType
<1>1. <<>> \in Seq(ArgumentType)
  OBVIOUS
<1>2. \A at \in {"off", "failed", "starting"} : Gone(at) \in EngineType
  BY <1>1 DEF Gone, EngineType, Number, Alarms
<1>3. Idle \in ServerType
  BY DEF Idle, ServerType, ServerPoint
<1>4. QED
  BY <1>2, <1>3

LEMMA TypeInit == Init => TypeInv
<1> SUFFICES ASSUME Init PROVE TypeInv
  OBVIOUS
<1>1. file.interval \in Number /\ file.threshold \in Number
  BY DEF Init, Number
<1>2. args \in [1..3 -> ArgumentType]
  BY <1>1, ArgumentsType DEF Init
<1>3. Gone("off") \in EngineType /\ Idle \in ServerType
  BY RestingTypes
<1>4. TypeOK
  BY <1>2, <1>3 DEF Init, TypeOK
<1>5. EngineShape /\ ServerShape
  BY DEF Init, EngineShape, ServerShape, Gone, Idle, Up, Loop, Rewrites,
         Rewriting, NoRequest
<1>6. QED
  BY <1>4, <1>5 DEF TypeInv

(* A step that leaves the process and its progress alone.                  *)
SameProcess ==
  /\ engine' \in EngineType
  /\ engine'.at = engine.at /\ engine'.argv = engine.argv
  /\ engine'.pos = engine.pos

LEMMA SameProcessShape == EngineShape /\ SameProcess => EngineShape'
BY DEF SameProcess, EngineShape

LEMMA TypeReceive ==
  ASSUME TypeInv, NEW request \in RequestOf, Receive(request)
  PROVE  TypeInv'
<1>1. request.kind \in AllKinds
  BY DEF RequestOf, AllKinds
<1>2. FirstStep(request.kind) \in ServerPoint
  BY DEF FirstStep, ServerPoint
<1>3. server' \in ServerType
  BY <1>2 DEF Receive, ServerType, TypeInv, TypeOK
<1>4. ServerShape'
  BY <1>1 DEF Receive, ServerShape, FirstStep, Rewrites, Rewriting, AllKinds,
              TypeInv
<1>5. EngineShape'
  BY DEF Receive, EngineShape, TypeInv
<1>6. TypeOK'
  BY <1>3 DEF Receive, TypeInv, TypeOK
<1>7. QED
  BY <1>4, <1>5, <1>6 DEF TypeInv

LEMMA TypeServerStep == ASSUME TypeInv, ServerStep PROVE TypeInv'
<1>0. TypeOK /\ EngineShape /\ ServerShape
  BY DEF TypeInv
<1>i. Idle \in ServerType
  BY RestingTypes
<1>s. server.request \in RequestOf \cup {NoRequest}
  BY <1>0 DEF TypeOK, ServerType
<1>r. /\ server.request.n \in Number
      /\ server.request.kind \in AllKinds \cup {"none"}
      /\ server.request.kind = "set_th" => server.request.n \in Thresholds
      /\ server.request.kind \in {"run", "CAL"} => server.request.n \in Intervals
  BY <1>s, RequestFields
<1>1. CASE SaveSetting
  <2>1. file' \in [threshold : Thresholds, interval : Intervals]
    BY <1>0, <1>1, <1>r DEF SaveSetting, ServerShape, TypeOK
  <2>2. server' \in ServerType
    BY <1>0, <1>1 DEF SaveSetting, TypeOK, ServerType, ServerPoint
  <2>3. ServerShape' /\ EngineShape'
    BY <1>0, <1>1 DEF SaveSetting, ServerShape, EngineShape, Rewrites, Rewriting,
                      TypeOK, ServerType
  <2>4. QED
    BY <1>0, <1>1, <2>1, <2>2, <2>3 DEF SaveSetting, TypeInv, TypeOK
<1>2. CASE WriteArgument
  <2>1. server.written \in 0..2
    BY <1>0, <1>2 DEF WriteArgument, ServerShape, TypeOK, ServerType
  <2>4. Arguments(server.request, server.threshold, server.interval)
          \in [1..3 -> ArgumentType]
    BY <1>0, RequestArguments
  <2>5. ArgumentToWrite \in ArgumentType
    BY <2>1, <2>4 DEF ArgumentToWrite
  <2>6. args' \in [1..3 -> ArgumentType]
    <3>1. args' = [args EXCEPT ![server.written + 1] = ArgumentToWrite]
      BY <1>2 DEF WriteArgument
    <3>2. args \in [1..3 -> ArgumentType] /\ server.written + 1 \in 1..3
      BY <1>0, <2>1 DEF TypeOK
    <3>3. QED
      BY <2>5, <3>1, <3>2
  <2>7. server' \in ServerType
    <3> DEFINE w == server.written + 1
               at == IF server.written = 2 THEN "control" ELSE "arguments"
    <3>1. server' = [server EXCEPT !.written = w, !.at = at]
      BY <1>2 DEF WriteArgument
    <3>2. w \in 0..3 /\ at \in ServerPoint
      BY <2>1 DEF ServerPoint
    <3> HIDE DEF w, at
    <3>3. QED
      BY <1>0, <3>1, <3>2 DEF TypeOK, ServerType
  <2>8. ServerShape' /\ EngineShape'
    BY <1>0, <1>2, <2>1 DEF WriteArgument, ServerShape, EngineShape, Rewrites,
                            Rewriting, TypeOK, ServerType
  <2>9. QED
    BY <1>0, <1>2, <2>6, <2>7, <2>8 DEF WriteArgument, TypeInv, TypeOK
<1>3. CASE SetClock \/ RequestRestart
  <2>1. server' \in ServerType
    BY <1>0, <1>3 DEF SetClock, RequestRestart, TypeOK, ServerType, ServerPoint
  <2>2. helper' \in [queue : Nat, busy : BOOLEAN]
    BY <1>0, <1>3 DEF SetClock, RequestRestart, TypeOK
  <2>3. ServerShape' /\ EngineShape'
    <3>1. CASE SetClock
      BY <1>0, <3>1 DEF SetClock, ServerShape, EngineShape, Rewrites, Rewriting,
                        TypeOK, ServerType
    <3>2. CASE RequestRestart
      <4>1. helper'.queue > 0
        BY <1>0, <3>2 DEF RequestRestart, TypeOK
      <4>2. server'.at = "restarting" /\ EngineShape'
        BY <1>0, <3>2 DEF RequestRestart, TypeOK, ServerType, EngineShape
      <4>3. QED
        BY <4>1, <4>2 DEF ServerShape
    <3>3. QED
      BY <1>3, <3>1, <3>2
  <2>4. QED
    BY <1>0, <1>3, <2>1, <2>2, <2>3
       DEF SetClock, RequestRestart, history, TypeInv, TypeOK
<1>4. CASE ClearLatch \/ DataLost
  <2>1. SameProcess
    <3>1. CASE ClearLatch
      BY <1>0, <3>1 DEF ClearLatch, SameProcess, TypeOK, EngineType
    <3>2. CASE DataLost
      BY <1>0, <3>2 DEF DataLost, SameProcess, TypeOK, EngineType
    <3>3. QED
      BY <1>4, <3>1, <3>2
  <2>2. EngineShape'
    BY <1>0, <2>1, SameProcessShape
  <2>3. ServerShape'
    BY <1>0, <1>4 DEF ClearLatch, DataLost, ServerShape, Rewrites, Rewriting, Idle,
                      NoRequest
  <2>4. QED
    BY <1>0, <1>4, <1>i, <2>1, <2>2, <2>3
       DEF ClearLatch, DataLost, history, TypeInv, TypeOK, SameProcess
<1>5. CASE Connect
  <2>1. SameProcess
    BY <1>0, <1>5 DEF Connect, SameProcess, TypeOK, EngineType
  <2>2. EngineShape'
    BY <1>0, <2>1, SameProcessShape
  <2>3. ServerShape' /\ server' \in ServerType
    BY <1>0, <1>5 DEF Connect, ServerShape, Rewrites, Rewriting, TypeOK,
                      ServerType, ServerPoint
  <2>4. QED
    BY <1>0, <1>5, <2>1, <2>2, <2>3
       DEF Connect, history, TypeInv, TypeOK, SameProcess
<1>6. CASE ConnectRefused
  BY <1>0, <1>6, <1>i DEF ConnectRefused, history, TypeInv, TypeOK, ServerShape,
                          EngineShape, Rewrites, Rewriting, Idle, NoRequest
<1>7. QED
  BY <1>1, <1>2, <1>3, <1>4, <1>5, <1>6 DEF ServerStep

LEMMA TypeGivenUp ==
  ASSUME TypeInv, ControlTimeout \/ GiveUp PROVE TypeInv'
<1>1. Idle \in ServerType
  BY RestingTypes
<1>2. server' = Idle /\ UNCHANGED <<file, args, latch, helper, engine, starts,
                                    settled, requests, crashes>>
  BY DEF ControlTimeout, GiveUp, history
<1>3. QED
  BY <1>1, <1>2 DEF TypeInv, TypeOK, ServerShape, EngineShape, Rewrites, Rewriting,
                    Idle, NoRequest

(* The process has gone, or is only about to be started.                   *)
LEMMA GoneShape ==
  ASSUME NEW at \in {"off", "failed", "starting"}, engine' = Gone(at)
  PROVE  engine' \in EngineType /\ EngineShape'
<1>1. Gone(at) \in EngineType
  BY RestingTypes
<1>2. QED
  BY <1>1 DEF Gone, EngineShape, Up, Loop

LEMMA TypeHelperStep == ASSUME TypeInv, HelperStep PROVE TypeInv'
<1>0. TypeOK /\ EngineShape /\ ServerShape
  BY DEF TypeInv
<1>i. Idle \in ServerType /\ Idle.at = "idle" /\ Idle.request.kind = "none"
  BY RestingTypes DEF Idle, NoRequest
<1>q. helper.queue \in Nat /\ helper.busy \in BOOLEAN
  BY <1>0 DEF TypeOK
<1>1. ASSUME helper.queue > 0, AnswerOk
      PROVE  /\ helper' \in [queue : Nat, busy : BOOLEAN]
             /\ server' \in ServerType /\ settled' \in BOOLEAN
             /\ ServerShape'
  <2>1. helper'.queue = helper.queue - 1 /\ ~helper'.busy
    BY <1>1 DEF AnswerOk
  <2>2. server.at = "restarting" /\ server' = server => helper'.queue > 0
    BY <1>1, <1>q, <1>i, <2>1 DEF AnswerOk, Answered
  <2>3. ServerShape'
    BY <1>0, <1>1, <1>i, <2>1, <2>2 DEF AnswerOk, ServerShape, Rewrites, Rewriting
  <2>4. settled' \in BOOLEAN
    BY <1>1, Zenon DEF AnswerOk
  <2>5. QED
    BY <1>0, <1>1, <1>i, <1>q, <2>3, <2>4 DEF AnswerOk, TypeOK
<1>2. CASE RestartEngine
  <2>1. engine' \in EngineType /\ EngineShape'
    BY <1>2, GoneShape DEF RestartEngine
  <2>2. ServerShape'
    BY <1>0, <1>2 DEF RestartEngine, ServerShape, Rewrites, TypeOK
  <2>3. helper' \in [queue : Nat, busy : BOOLEAN] /\ starts' \in Nat
    BY <1>0, <1>2 DEF RestartEngine, TypeOK
  <2>4. UNCHANGED <<file, args, latch, server, settled, requests, crashes>>
    BY <1>2 DEF RestartEngine, history
  <2>5. QED
    BY <1>0, <2>1, <2>2, <2>3, <2>4 DEF TypeInv, TypeOK
<1>3. CASE RestartDone \/ RestartNothing
  <2>1. helper.queue > 0 /\ AnswerOk
        /\ UNCHANGED <<file, args, latch, engine, starts, requests, crashes>>
    BY <1>0, <1>3 DEF RestartDone, RestartNothing, ServerShape
  <2>2. EngineShape'
    BY <1>0, <2>1 DEF EngineShape
  <2>3. helper' \in [queue : Nat, busy : BOOLEAN] /\ server' \in ServerType
        /\ settled' \in BOOLEAN /\ ServerShape'
    BY <1>1, <2>1
  <2>4. /\ file' \in [threshold : Thresholds, interval : Intervals]
        /\ args' \in [1..3 -> ArgumentType]
        /\ latch' \in {"clear", "latched", "empty"} /\ engine' \in EngineType
        /\ starts' \in Nat
        /\ requests' \in Nat /\ crashes' \in Nat
    BY <1>0, <2>1 DEF TypeOK
  <2>5. QED
    BY <2>2, <2>3, <2>4 DEF TypeInv, TypeOK
<1>4. CASE RestartRefused
  <2>1. engine' \in EngineType /\ EngineShape'
    BY <1>4, GoneShape DEF RestartRefused
  <2>2. helper'.queue = helper.queue - 1 /\ helper'.busy = helper.busy
        /\ helper' \in [queue : Nat, busy : BOOLEAN]
    BY <1>0, <1>4, <1>q DEF RestartRefused, TypeOK
  <2>3. server.at = "restarting" /\ server' = server => helper'.queue > 0
    BY <1>4, <1>q, <1>i, <2>2 DEF RestartRefused, Answered
  <2>4. ServerShape'
    BY <1>0, <1>4, <1>i, <2>2, <2>3 DEF RestartRefused, ServerShape, Rewrites,
                                        Rewriting
  <2>5. QED
    BY <1>0, <1>4, <1>i, <2>1, <2>2, <2>4
       DEF RestartRefused, history, TypeInv, TypeOK
<1>5. QED
  BY <1>2, <1>3, <1>4 DEF HelperStep

LEMMA TypeSystemd ==
  ASSUME TypeInv, SystemdStep \/ WindowMoves \/ Crash PROVE TypeInv'
<1>0. TypeOK /\ EngineShape /\ ServerShape
  BY DEF TypeInv
<1>1. CASE LoadArgument
  <2>1. engine.argv \in Seq(ArgumentType) /\ Len(engine.argv) \in 0..2
    <3>1. engine.argv \in Seq(ArgumentType)
      BY <1>0 DEF TypeOK, EngineType
    <3>2. Len(engine.argv) < 3
      BY <1>0, <1>1 DEF LoadArgument, EngineShape
    <3>3. Len(engine.argv) \in Nat
      BY <3>1, LenProperties
    <3> DEFINE n == Len(engine.argv)
    <3>4. n \in Nat /\ n < 3
      BY <3>2, <3>3
    <3> HIDE DEF n
    <3>5. n \in 0..2
      BY <3>4
    <3>6. QED
      BY <3>1, <3>5 DEF n
  <2>2. args[Len(engine.argv) + 1] \in ArgumentType
    <3>1. args \in [1..3 -> ArgumentType]
      BY <1>0 DEF TypeOK
    <3> DEFINE n == Len(engine.argv)
    <3>2. n \in 0..2
      BY <2>1
    <3> HIDE DEF n
    <3>3. n + 1 \in 1..3
      BY <3>2
    <3>4. args[n + 1] \in ArgumentType
      BY <3>1, <3>3
    <3>5. QED
      BY <3>4 DEF n
  <2> DEFINE argv == Append(engine.argv, args[Len(engine.argv) + 1])
             at == IF Len(engine.argv) = 2 THEN "boot" ELSE "starting"
  <2>3. /\ argv \in Seq(ArgumentType)
        /\ Len(argv) = Len(engine.argv) + 1
    BY <2>1, <2>2, AppendProperties
  <2>4. /\ at = "boot" => Len(argv) = 3
        /\ at = "starting" => Len(argv) < 3
        /\ at \in {"boot", "starting"}
    <3> DEFINE n == Len(engine.argv)
    <3>1. n \in 0..2 /\ Len(argv) = n + 1
      BY <2>1, <2>3
    <3>2. at = IF n = 2 THEN "boot" ELSE "starting"
      OBVIOUS
    <3> HIDE DEF n, at, argv
    <3>3. QED
      BY <3>1, <3>2
  <2>5. engine' = [engine EXCEPT !.argv = argv, !.at = at]
    BY <1>1 DEF LoadArgument
  <2> HIDE DEF argv, at
  <2>6. engine' \in EngineType
    BY <1>0, <2>3, <2>4, <2>5 DEF TypeOK, EngineType, Up
  <2>7. EngineShape'
    BY <1>0, <2>4, <2>5 DEF EngineShape, Up, Loop, TypeOK, EngineType
  <2>8. ServerShape'
    BY <1>0, <1>1 DEF LoadArgument, ServerShape, Rewrites
  <2>9. QED
    BY <1>0, <1>1, <2>6, <2>7, <2>8 DEF LoadArgument, history, TypeInv, TypeOK
<1>2. CASE AutoStart \/ Crash
  <2>1. engine' \in EngineType /\ EngineShape'
    BY <1>2, GoneShape DEF AutoStart, Crash
  <2>2. ServerShape'
    BY <1>0, <1>2 DEF AutoStart, Crash, ServerShape, Rewrites
  <2>3. crashes' \in Nat
    BY <1>0, <1>2 DEF AutoStart, Crash, TypeOK, history
  <2>4. QED
    BY <1>0, <1>2, <2>1, <2>2, <2>3
       DEF AutoStart, Crash, history, TypeInv, TypeOK
<1>3. CASE WindowMoves
  <2>1. starts' \in Nat
    BY <1>0, <1>3 DEF WindowMoves, TypeOK
  <2>2. QED
    BY <1>0, <1>3, <2>1 DEF WindowMoves, history, TypeInv, TypeOK, EngineShape,
                            ServerShape, Rewrites
<1>4. QED
  BY <1>1, <1>2, <1>3 DEF SystemdStep

(* A step of the process itself keeps its arguments.                       *)
LEMMA ProcessShape ==
  ASSUME EngineShape, engine.at \in Up, engine'.at \in Up,
         engine'.argv = engine.argv, engine'.at = "sweep" => engine'.pos <= 3
  PROVE  EngineShape'
BY DEF EngineShape, Up, Loop

LEMMA TypeEngineStep == ASSUME TypeInv, EngineStep PROVE TypeInv'
<1>0. TypeOK /\ EngineShape /\ ServerShape
  BY DEF TypeInv
<1>i. Idle \in ServerType /\ Idle.at = "idle" /\ Idle.request.kind = "none"
  BY RestingTypes DEF Idle, NoRequest
<1>e. /\ engine.argv \in Seq(ArgumentType) /\ engine.pos \in 1..4
      /\ engine \in EngineType
  BY <1>0 DEF TypeOK, EngineType
<1>1. engine' \in EngineType /\ EngineShape'
  <2>1. CASE LoadTH
    <3>1. file.threshold \in Number
      BY <1>0 DEF TypeOK, Number
    <3>2. QED
      BY <1>0, <1>e, <2>1, <3>1 DEF LoadTH, EngineType, EngineShape, Up, Loop
  <2>2. CASE ParseNothing
    <3>a. engine' = [engine EXCEPT !.pos = engine.pos + 1]
          /\ engine.at = "parse" /\ engine.pos <= 3
      BY <2>2 DEF ParseNothing, Parsing
    <3>b. engine.pos + 1 \in 1..4
      BY <1>e, <3>a
    <3>1. engine' = [engine EXCEPT !.pos = engine.pos + 1]
          /\ engine.at = "parse" /\ engine.pos + 1 \in 1..4
      BY <3>a, <3>b
    <3>2. engine' \in EngineType
      BY <1>e, <3>1 DEF EngineType
    <3>3. EngineShape'
      BY <1>0, <1>e, <3>1, ProcessShape DEF EngineType, Up
    <3>4. QED
      BY <3>2, <3>3
  <2>3. CASE ParseThreshold \/ StartRun
    <3>1. engine.pos \in 1..3 /\ Len(engine.argv) = 3
      BY <1>0, <1>e, <2>3 DEF ParseThreshold, StartRun, Parsing, EngineShape, Up
    <3>2. engine.argv[engine.pos] \in ArgumentType
      BY <1>e, <3>1, ElementOfSeq
    <3>3. engine.argv[engine.pos].n \in Number
      BY <3>2 DEF ArgumentType, Number
    <3>4. engine.pos + 1 \in 1..4
      BY <3>1
    <3>5. engine' \in EngineType
      BY <1>e, <2>3, <3>3, <3>4 DEF ParseThreshold, StartRun, EngineType, Up, Loop
    <3>6. EngineShape'
      BY <1>0, <1>e, <2>3, ProcessShape
         DEF ParseThreshold, StartRun, Parsing, EngineType, Up, Loop
    <3>7. QED
      BY <3>5, <3>6
  <2>4. CASE StartSweep \/ EndSweep
    <3>1. CASE StartSweep
      BY <1>0, <1>e, <3>1, ProcessShape DEF StartSweep, Parsing, EngineType, Up
    <3>2. CASE EndSweep
      <4>1. engine.at = "sweep" /\ engine.pos + 1 \in 1..4
            /\ engine' = [engine EXCEPT !.at = "parse", !.pos = engine.pos + 1]
        BY <1>0, <1>e, <3>2 DEF EndSweep, EngineShape
      <4>2. engine' \in EngineType
        BY <1>e, <4>1 DEF EngineType, Up
      <4>3. QED
        BY <1>0, <1>e, <4>1, <4>2, ProcessShape DEF EngineType, Up
    <3>3. QED
      BY <2>4, <3>1, <3>2
  <2>5. CASE EndOfArguments
    BY <2>5, GoneShape DEF EndOfArguments
  <2>6. CASE ReadLatch
    <3>1. engine.latched \in BOOLEAN
      BY <1>e DEF EngineType
    <3>2. PICK b \in BOOLEAN :
            engine' = [engine EXCEPT !.at = "measure", !.latched = b]
      BY <2>6, <3>1 DEF ReadLatch
    <3>3. QED
      BY <1>0, <1>e, <2>6, <3>2
         DEF ReadLatch, EngineType, EngineShape, Up, Loop
  <2>7. CASE \E alarm \in Alarms : Measure(alarm)
    BY <1>0, <1>e, <2>7 DEF Measure, EngineType, EngineShape, Up, Loop
  <2>8. CASE LatchAlarm \/ WriteLatch
    BY <1>0, <1>e, <2>8
       DEF LatchAlarm, WriteLatch, EngineType, EngineShape, Up, Loop, Alarms
  <2>9. CASE \E served \in BOOLEAN : Publish(served)
    BY <1>0, <1>e, <2>9 DEF Publish, EngineType, EngineShape, Up, Loop, Alarms
  <2>10. QED
    BY <2>1, <2>2, <2>3, <2>4, <2>5, <2>6, <2>7, <2>8, <2>9 DEF EngineStep
<1>2. /\ UNCHANGED <<file, args, helper, starts, settled, requests, crashes>>
      /\ latch' \in {"clear", "latched", "empty"}
      /\ server' \in {server, Idle}
  <2>1. CASE EngineOnly
    BY <1>0, <2>1 DEF EngineOnly, history, TypeOK
  <2>2. CASE LatchAlarm \/ WriteLatch
    BY <1>0, <2>2 DEF LatchAlarm, WriteLatch, history, TypeOK
  <2>3. CASE \E served \in BOOLEAN : Publish(served)
    BY <1>0, <2>3 DEF Publish, history, TypeOK
  <2>4. QED
    BY <2>1, <2>2, <2>3
       DEF EngineStep, LoadTH, ParseNothing, ParseThreshold, StartSweep, EndSweep,
           StartRun, EndOfArguments, ReadLatch, Measure
<1>3. ServerShape'
  BY <1>0, <1>2, <1>i DEF ServerShape, Rewrites, Rewriting
<1>4. QED
  BY <1>0, <1>i, <1>1, <1>2, <1>3 DEF TypeInv, TypeOK

LEMMA TypeStep == TypeInv /\ [Next]_vars => TypeInv'
<1> SUFFICES ASSUME TypeInv, [Next]_vars PROVE TypeInv'
  OBVIOUS
<1>1. CASE UNCHANGED vars
  BY <1>1 DEF vars, TypeInv, TypeOK, EngineShape, ServerShape, Rewrites
<1>2. CASE Next
  BY <1>2, TypeReceive, TypeServerStep, TypeGivenUp, TypeHelperStep, TypeSystemd,
     TypeEngineStep DEF Next
<1>3. QED
  BY <1>1, <1>2

(* The state of server, helper, systemd and engine stays well formed: the  *)
(* arguments are always three, and a read count is never a threshold.      *)
THEOREM TypeCorrect == Spec => []TypeOK
<1>1. TypeInv => TypeOK
  BY DEF TypeInv
<1>2. QED
  BY <1>1, TypeInit, TypeStep, PTL DEF Spec

-----------------------------------------------------------------------------
(* The latch file.                                                         *)

(* What LatchInv speaks of, as one step leaves it.                         *)
LatchKept ==
  /\ latch' = latch
  /\ engine'.at = engine.at /\ engine'.latched = engine.latched
  /\ engine'.alarm = engine.alarm /\ engine'.cleared = engine.cleared

(* The process is not, or not yet, in `run`, and remembers no latch.       *)
LatchForgotten == engine'.at \notin Loop /\ ~engine'.latched

LEMMA LatchUndisturbed ==
  ASSUME LatchInv, LatchKept \/ LatchForgotten PROVE LatchInv'
BY DEF LatchInv, LatchKept, LatchForgotten, Loop

LEMMA LatchInit == Init => LatchInv
BY DEF Init, LatchInv, Gone, Loop

LEMMA LatchStep == TypeInv /\ LatchInv /\ [Next]_vars => LatchInv'
<1> SUFFICES ASSUME TypeInv, LatchInv, [Next]_vars PROVE LatchInv'
  OBVIOUS
<1>e. engine \in EngineType
  BY DEF TypeInv, TypeOK
<1>g. \A at \in {"off", "failed", "starting"} :
        Gone(at).at \notin Loop /\ ~Gone(at).latched
  BY DEF Gone, Loop
<1>1. CASE UNCHANGED <<latch, engine>>
  BY <1>1, LatchUndisturbed DEF LatchKept
<1>2. CASE Connect \/ DataLost
  BY <1>e, <1>2, LatchUndisturbed DEF Connect, DataLost, LatchKept, EngineType
<1>3. CASE ClearLatch
  <2>1. CASE engine.at \in {"measure", "latching", "publish"}
    <3>1. /\ engine'.at = engine.at /\ engine'.latched = engine.latched
          /\ engine'.alarm = engine.alarm /\ engine'.cleared /\ latch' = "clear"
      BY <1>e, <1>3, <2>1 DEF ClearLatch, EngineType
    <3>2. QED
      BY <3>1 DEF LatchInv, Loop
  <2>2. CASE engine.at \notin {"measure", "latching", "publish"}
    BY <1>3, <2>2 DEF ClearLatch, LatchInv, Loop
  <2>3. QED
    BY <2>1, <2>2
<1>4. CASE RestartEngine \/ RestartRefused \/ AutoStart \/ Crash \/ EndOfArguments
  BY <1>g, <1>4, LatchUndisturbed
     DEF RestartEngine, RestartRefused, AutoStart, Crash, EndOfArguments,
         LatchForgotten
<1>5. CASE LoadArgument \/ LoadTH \/ ParseNothing \/ ParseThreshold \/ StartSweep
             \/ EndSweep
  <2>1. engine.at \notin Loop /\ ~engine.latched
    BY <1>5 DEF LoadArgument, LoadTH, ParseNothing, ParseThreshold, StartSweep,
                EndSweep, Parsing, LatchInv, Loop
  <2>2. engine'.at \notin Loop /\ engine'.latched = engine.latched
    BY <1>e, <1>5, <2>1
       DEF LoadArgument, LoadTH, ParseNothing, ParseThreshold, StartSweep,
           EndSweep, Parsing, EngineType, Loop
  <2>3. QED
    BY <2>1, <2>2, LatchUndisturbed DEF LatchForgotten
<1>6. CASE StartRun
  <2>1. engine'.at = "read" /\ ~engine'.latched
    BY <1>e, <1>6 DEF StartRun, Parsing, EngineType, LatchInv, Loop
  <2>2. QED
    BY <2>1 DEF LatchInv, Loop
<1>7. CASE ReadLatch
  <2>1. /\ engine.at = "read" /\ latch' = latch
        /\ latch \in {"clear", "latched", "empty"}
    BY <1>7 DEF ReadLatch, EngineOnly, TypeInv, TypeOK
  <2>2. engine'.at = "measure"
    BY <1>e, <1>7 DEF ReadLatch, EngineType
  <2>3. engine'.latched <=> latch = "latched"
    <3> DEFINE l == CASE latch = "latched" -> TRUE
                      [] latch = "clear"   -> FALSE
                      [] OTHER             -> engine.latched
    <3>1. engine'.latched = l
      BY <1>e, <1>7 DEF ReadLatch, EngineType
    <3>2. CASE latch = "latched"
      BY <3>1, <3>2
    <3>3. CASE latch = "clear"
      BY <3>1, <3>3
    <3>4. CASE latch = "empty"
      BY <2>1, <3>1, <3>4 DEF LatchInv
    <3>5. QED
      BY <2>1, <3>2, <3>3, <3>4
  <2>4. QED
    BY <2>1, <2>2, <2>3 DEF LatchInv, Loop
<1>8. CASE \E alarm \in Alarms : Measure(alarm)
  <2>1. PICK alarm \in Alarms : Measure(alarm)
    BY <1>8
  <2>2. /\ engine.at = "measure" /\ latch' = latch
        /\ alarm = "threshold" => engine.latched
    BY <2>1 DEF Measure, EngineOnly
  <2>3. /\ engine'.at = "publish" /\ engine'.alarm = alarm
        /\ engine'.latched = engine.latched /\ engine'.cleared = engine.cleared
    BY <1>e, <2>1 DEF Measure, EngineType
  <2>4. QED
    BY <2>2, <2>3 DEF LatchInv, Loop
<1>9. CASE LatchAlarm
  <2>1. engine'.at = "latching" /\ latch' = "empty"
    BY <1>e, <1>9 DEF LatchAlarm, EngineType
  <2>2. QED
    BY <2>1 DEF LatchInv, Loop
<1>10. CASE WriteLatch
  <2>1. /\ engine.at = "latching"
        /\ latch' = IF latch = "empty" THEN "latched" ELSE latch
    BY <1>10 DEF WriteLatch
  <2>2. engine'.at = "publish" /\ engine'.cleared = engine.cleared
    BY <1>e, <1>10 DEF WriteLatch, EngineType
  <2>3. QED
    BY <2>1, <2>2 DEF LatchInv, Loop
<1>11. CASE \E served \in BOOLEAN : Publish(served)
  <2>1. engine.at = "publish" /\ latch' = latch
    BY <1>11 DEF Publish
  <2>2. engine'.at = "read" /\ engine'.latched = engine.latched
    BY <1>e, <1>11 DEF Publish, EngineType
  <2>3. QED
    BY <2>1, <2>2 DEF LatchInv, Loop
<1>12. QED
  BY <1>1, <1>2, <1>3, <1>4, <1>5, <1>6, <1>7, <1>8, <1>9, <1>10, <1>11
     DEF Next, ServerStep, HelperStep, SystemdStep, EngineStep, Receive,
         SaveSetting, WriteArgument, SetClock, RequestRestart, ControlTimeout,
         GiveUp, ConnectRefused, RestartDone, RestartNothing, WindowMoves,
         history, vars

(* A threshold alarm that a sample reports is in the latch file, unless a  *)
(* client cleared the latch during that measurement: whatever the other    *)
(* requests, restarts and crashes.                                         *)
THEOREM AlarmLatched == Spec => []AlarmIsLatched
<1>1. LatchInv => AlarmIsLatched
  BY DEF LatchInv, AlarmIsLatched
<1>2. QED
  BY <1>1, TypeInit, TypeStep, LatchInit, LatchStep, PTL DEF Spec

(* No step but clear_latch takes a latch out of the file.  It is the       *)
(* engine's memory of the file, kept by LatchInv, that makes the engine    *)
(* leave a latched file alone.                                             *)
THEOREM LatchSurvivesSteps == Spec => LatchSurvives
<1>1. TypeInv /\ LatchInv /\ [Next]_vars =>
        [latch = "latched" /\ latch' # "latched" => server.at = "latch"]_vars
  <2> SUFFICES ASSUME LatchInv, Next, latch = "latched", latch' # "latched"
               PROVE  server.at = "latch"
    BY DEF vars
  <2>1. CASE ClearLatch
    BY <2>1 DEF ClearLatch
  <2>2. CASE LatchAlarm
    BY <2>2 DEF LatchAlarm, LatchInv
  <2>3. CASE WriteLatch
    BY <2>3 DEF WriteLatch
  <2>4. CASE latch' = latch
    BY <2>4
  <2>5. QED
    BY <2>1, <2>2, <2>3, <2>4
       DEF Next, ServerStep, HelperStep, SystemdStep, EngineStep, Receive,
           SaveSetting, WriteArgument, SetClock, RequestRestart, ControlTimeout,
           GiveUp, Connect, ConnectRefused, DataLost, RestartEngine, RestartDone,
           RestartRefused, RestartNothing, WindowMoves, AutoStart, LoadArgument,
           LoadTH, ParseNothing, ParseThreshold, StartSweep, EndSweep, StartRun,
           EndOfArguments, ReadLatch, Measure, Publish, Crash, EngineOnly, AnswerOk
<1>2. QED
  BY <1>1, TypeInit, TypeStep, LatchInit, LatchStep, PTL DEF Spec, LatchSurvives

-----------------------------------------------------------------------------
(* Settings, arguments, and the engine that runs with them.  While the     *)
(* server has not answered, what it remembers and what it has written      *)
(* describe the files; when it is answered, the restart was its own.       *)

(* The two settings, found again in every form of the arguments.           *)
LEMMA CurrentMeaning ==
  ASSUME args \in CurrentArguments, NEW i \in 1..3
  PROVE  /\ args[i].cmd = "set_th" => args[i].n = file.threshold
         /\ args[i].cmd = "run" => args[i].n = file.interval
<1>1. PICK kind \in {"run", "CAL", "read_adc"} :
        args = Arguments([kind |-> kind, n |-> file.interval],
                         file.threshold, file.interval)
  BY DEF CurrentArguments
<1>2. i = 1 \/ i = 2 \/ i = 3
  OBVIOUS
<1>3. CASE kind = "run"
  <2>1. args = <<Argument("set_th", file.threshold),
                 Argument("run", file.interval), NoArgument>>
    BY <1>1, <1>3 DEF Arguments
  <2>2. args[1] = Argument("set_th", file.threshold)
        /\ args[2] = Argument("run", file.interval) /\ args[3] = NoArgument
    BY <2>1
  <2>3. args[1].cmd = "set_th" /\ args[1].n = file.threshold
    BY <2>2 DEF Argument
  <2>4. args[2].cmd = "run" /\ args[2].n = file.interval
    BY <2>2 DEF Argument
  <2>5. args[3].cmd \notin {"set_th", "run"}
    BY <2>2 DEF Argument, NoArgument
  <2>6. QED
    BY <1>2, <2>3, <2>4, <2>5
<1>4. CASE kind = "CAL"
  BY <1>1, <1>2, <1>4 DEF Arguments, Argument
<1>5. CASE kind = "read_adc"
  BY <1>1, <1>2, <1>5 DEF Arguments, Argument
<1>6. QED
  BY <1>1, <1>3, <1>4, <1>5

(* A server that waits for its restart has written the arguments that the  *)
(* saved settings call for.                                                *)
LEMMA WrittenIsCurrent ==
  ASSUME TypeInv, RequestDescribesFiles, ArgumentsWritten,
         server.at = "restarting", Rewrites
  PROVE  args \in CurrentArguments
<1> DEFINE r == server.request
           A == Arguments(r, server.threshold, server.interval)
<1>1. args \in [1..3 -> ArgumentType]
  BY DEF TypeInv, TypeOK
<1>2. \A i \in 1..3 : args[i] = A[i]
  BY DEF ArgumentsWritten
<1>3. /\ file.threshold = IF r.kind = "set_th" THEN r.n ELSE server.threshold
      /\ file.interval = IF r.kind \in {"run", "CAL"} THEN r.n ELSE server.interval
  BY DEF RequestDescribesFiles
<1>4. A \in [1..3 -> ArgumentType]
  BY RequestArguments DEF TypeInv
<1>6. args = A
  <2> HIDE DEF A
  <2>1. QED
    BY <1>1, <1>2, <1>4
<1>7. CASE r.kind \in {"run", "set_th"}
  <2>1. A = Arguments([kind |-> "run", n |-> file.interval],
                      file.threshold, file.interval)
    BY <1>3, <1>7 DEF Arguments
  <2>2. QED
    BY <1>6, <2>1 DEF CurrentArguments
<1>8. CASE r.kind = "CAL"
  <2>1. A = Arguments([kind |-> "CAL", n |-> file.interval],
                      file.threshold, file.interval)
    BY <1>3, <1>8 DEF Arguments
  <2>2. QED
    BY <1>6, <2>1 DEF CurrentArguments
<1>9. CASE r.kind = "read_adc"
  <2>1. A = Arguments([kind |-> "read_adc", n |-> file.interval],
                      file.threshold, file.interval)
    BY <1>3, <1>9 DEF Arguments
  <2>2. QED
    BY <1>6, <2>1 DEF CurrentArguments
<1>10. QED
  BY <1>7, <1>8, <1>9 DEF Rewrites, Rewriting

(* ConfiguredInv without the shapes, which TypeStep keeps.                 *)
Follows ==
  /\ RequestDescribesFiles /\ ArgumentsWritten
  /\ settled => args \in CurrentArguments
  /\ (settled \/ OwnRestart) => EngineFollows

LEMMA FollowsCurrent ==
  ASSUME TypeInv, Follows, settled \/ OwnRestart
  PROVE  args \in CurrentArguments /\ EngineFollows
<1>1. CASE settled
  BY <1>1 DEF Follows
<1>2. CASE OwnRestart
  BY <1>2, WrittenIsCurrent DEF Follows, OwnRestart, Answered
<1>3. QED
  BY <1>1, <1>2

(* A server that is at rest, or asks for something else than a restart.    *)
LEMMA ServerResolved ==
  ASSUME server'.at \notin {"save", "arguments", "control", "restarting"}
  PROVE  RequestDescribesFiles' /\ ArgumentsWritten' /\ ~OwnRestart'
BY DEF RequestDescribesFiles, ArgumentsWritten, OwnRestart, Answered

LEMMA ServerUnchanged ==
  ASSUME Follows, UNCHANGED <<file, args, server, settled>>
  PROVE  /\ RequestDescribesFiles' /\ ArgumentsWritten'
         /\ settled' => args' \in CurrentArguments'
BY DEF Follows, RequestDescribesFiles, ArgumentsWritten, CurrentArguments, Rewrites

LEMMA SettledUnchanged ==
  ASSUME Follows, UNCHANGED <<file, args, settled>>
  PROVE  settled' => args' \in CurrentArguments'
BY DEF Follows, CurrentArguments

(* A step that leaves alone what EngineFollows speaks of.                  *)
LEMMA EngineKept ==
  ASSUME EngineFollows, UNCHANGED <<file, args>>,
         engine'.at = engine.at, engine'.argv = engine.argv,
         engine'.th = engine.th, engine'.reads = engine.reads
  PROVE  EngineFollows'
BY DEF EngineFollows

LEMMA EngineGone ==
  ASSUME NEW at \in {"off", "failed", "starting"}, engine' = Gone(at)
  PROVE  EngineFollows'
BY DEF EngineFollows, Gone, Up, Loop

LEMMA FollowsInit == Init => Follows
<1> SUFFICES ASSUME Init PROVE Follows
  OBVIOUS
<1>1. server.at = "idle" /\ engine.at = "off"
  BY DEF Init, Idle, Gone
<1>2. args \in CurrentArguments
  BY DEF Init, CurrentArguments
<1>3. QED
  BY <1>1, <1>2 DEF Follows, RequestDescribesFiles, ArgumentsWritten,
                    EngineFollows, Up, Loop

LEMMA FollowsReceive ==
  ASSUME TypeInv, Follows, NEW request \in RequestOf, Receive(request)
  PROVE  Follows'
<1>1. request.kind \in AllKinds
  BY DEF RequestOf, AllKinds
<1>2. /\ server'.at = FirstStep(request.kind) /\ server'.request = request
      /\ server'.written = 0 /\ server'.threshold = file.threshold
      /\ server'.interval = file.interval
      /\ UNCHANGED <<file, args, engine, settled>>
  BY DEF Receive
<1>3. /\ server'.at \notin {"control", "restarting"}
      /\ server'.at = "arguments" => request.kind = "read_adc"
  BY <1>1, <1>2 DEF FirstStep, AllKinds
<1>4. RequestDescribesFiles'
  BY <1>2, <1>3 DEF RequestDescribesFiles
<1>5. ArgumentsWritten' /\ ~OwnRestart'
  BY <1>2, <1>3 DEF ArgumentsWritten, OwnRestart, Answered
<1>6. QED
  BY <1>2, <1>4, <1>5, SettledUnchanged, EngineKept DEF Follows

LEMMA FollowsServer ==
  ASSUME TypeInv, Follows, ServerStep \/ ControlTimeout \/ GiveUp
  PROVE  Follows'
<1>0. TypeOK /\ ServerShape /\ server \in ServerType /\ engine \in EngineType
  BY DEF TypeInv, TypeOK
<1>1. CASE SaveSetting
  <2>1. /\ server.at = "save" /\ server'.at = "arguments" /\ ~settled'
        /\ server'.request = server.request /\ server'.written = 0
        /\ server'.threshold = server.threshold
        /\ server'.interval = server.interval
    BY <1>0, <1>1 DEF SaveSetting, ServerType, ServerShape
  <2>2. /\ file.threshold = server.threshold /\ file.interval = server.interval
        /\ server.request.kind \in {"run", "CAL", "set_th"}
    BY <1>0, <2>1 DEF Follows, RequestDescribesFiles, ServerShape
  <2>3. RequestDescribesFiles'
    BY <1>0, <1>1, <2>1, <2>2 DEF SaveSetting, RequestDescribesFiles, TypeOK
  <2>4. ArgumentsWritten' /\ ~OwnRestart'
    BY <2>1 DEF ArgumentsWritten, OwnRestart, Answered
  <2>5. QED
    BY <2>1, <2>3, <2>4 DEF Follows
<1>2. CASE WriteArgument
  <2> DEFINE w == server.written
             A == Arguments(server.request, server.threshold, server.interval)
  <2>1. /\ server.at = "arguments" /\ Rewrites /\ w \in 0..2 /\ ~settled'
        /\ file' = file
    BY <1>0, <1>2 DEF WriteArgument, ServerShape, ServerType
  <2>2. /\ server'.request = server.request /\ server'.written = w + 1
        /\ server'.threshold = server.threshold
        /\ server'.interval = server.interval
        /\ server'.at = IF w = 2 THEN "control" ELSE "arguments"
    BY <1>0, <1>2 DEF WriteArgument, ServerType
  <2>3. RequestDescribesFiles'
    BY <2>1, <2>2 DEF Follows, RequestDescribesFiles, Rewrites
  <2>4. args \in [1..3 -> ArgumentType] /\ args' = [args EXCEPT ![w + 1] = A[w + 1]]
    BY <1>0, <1>2 DEF WriteArgument, ArgumentToWrite, TypeOK
  <2>5. \A i \in 1..w : args[i] = A[i]
    BY <2>1 DEF Follows, ArgumentsWritten
  <2>6. \A i \in 1..(w + 1) : args'[i] = A[i]
    <3> HIDE DEF w, A
    <3>1. w \in 0..2
      BY <2>1 DEF w
    <3>2. QED
      BY <2>4, <2>5, <3>1
  <2>7. ArgumentsWritten' /\ ~OwnRestart'
    BY <2>1, <2>2, <2>6 DEF ArgumentsWritten, OwnRestart, Answered
  <2>8. QED
    BY <2>1, <2>3, <2>7 DEF Follows
<1>3. CASE SetClock
  <2>1. ~Rewrites'
    BY <1>0, <1>3 DEF SetClock, ServerShape, ServerType, Rewrites
  <2>2. server'.at = "control" /\ UNCHANGED <<file, args, engine, settled>>
    BY <1>0, <1>3 DEF SetClock, ServerType, history
  <2>3. RequestDescribesFiles' /\ ArgumentsWritten' /\ ~OwnRestart'
    BY <2>1, <2>2 DEF RequestDescribesFiles, ArgumentsWritten, OwnRestart
  <2>4. QED
    BY <2>2, <2>3, SettledUnchanged, EngineKept DEF Follows
<1>4. CASE RequestRestart
  <2>1. /\ server.at = "control" /\ server'.at = "restarting"
        /\ server'.request = server.request /\ server'.written = server.written
        /\ server'.threshold = server.threshold
        /\ server'.interval = server.interval
        /\ UNCHANGED <<file, args, engine, settled>>
    BY <1>0, <1>4 DEF RequestRestart, ServerType, history
  <2>2. RequestDescribesFiles' /\ ArgumentsWritten'
    BY <2>1 DEF Follows, RequestDescribesFiles, ArgumentsWritten, Rewrites
  <2>3. ~OwnRestart'
    <3>1. helper'.busy = helper.busy /\ helper'.queue = helper.queue + 1
      BY <1>0, <1>4 DEF RequestRestart, TypeOK
    <3>2. helper.busy => helper.queue > 0
      BY <1>0 DEF ServerShape
    <3>3. helper.queue \in Nat
      BY <1>0 DEF TypeOK
    <3>4. QED
      BY <3>1, <3>2, <3>3 DEF OwnRestart, Answered
  <2>4. QED
    BY <2>1, <2>2, <2>3, SettledUnchanged, EngineKept DEF Follows
<1>5. CASE ControlTimeout \/ GiveUp \/ ClearLatch \/ Connect \/ ConnectRefused
             \/ DataLost
  <2>1. /\ server'.at \in {"idle", "data"}
        /\ UNCHANGED <<file, args, settled>>
    BY <1>0, <1>5 DEF ControlTimeout, GiveUp, ClearLatch, Connect, ConnectRefused,
                      DataLost, Idle, ServerType, history
  <2>2. /\ engine'.at = engine.at /\ engine'.argv = engine.argv
        /\ engine'.th = engine.th /\ engine'.reads = engine.reads
    BY <1>0, <1>5 DEF ControlTimeout, GiveUp, ClearLatch, Connect, ConnectRefused,
                      DataLost, EngineType
  <2>3. RequestDescribesFiles' /\ ArgumentsWritten' /\ ~OwnRestart'
    BY <2>1, ServerResolved
  <2>4. QED
    BY <2>1, <2>2, <2>3, SettledUnchanged, EngineKept DEF Follows
<1>6. QED
  BY <1>1, <1>2, <1>3, <1>4, <1>5 DEF ServerStep

LEMMA FollowsHelper ==
  ASSUME TypeInv, Follows, HelperStep PROVE Follows'
<1>0. TypeOK /\ ServerShape
  BY DEF TypeInv
<1>1. ASSUME AnswerOk, UNCHANGED <<file, args, engine>>,
             helper.busy \/ EngineFollows
      PROVE  Follows'
  <2>1. ~helper'.busy /\ ~OwnRestart'
    BY <1>1 DEF AnswerOk, OwnRestart
  <2>2. CASE Answered /\ server.request.kind \in Rewriting
    <3>1. server'.at = "idle" /\ server.at = "restarting" /\ Rewrites
      BY <1>1, <2>2 DEF AnswerOk, Idle, Answered, Rewrites
    <3>2. RequestDescribesFiles' /\ ArgumentsWritten'
      BY <3>1, ServerResolved
    <3>3. args \in CurrentArguments
      BY <3>1, WrittenIsCurrent DEF Follows
    <3>4. EngineFollows
      BY <1>1, <2>2, <3>1 DEF Follows, OwnRestart
    <3>5. EngineFollows'
      BY <1>1, <3>4, EngineKept
    <3>6. args' \in CurrentArguments'
      BY <1>1, <3>3 DEF CurrentArguments
    <3>7. QED
      BY <3>2, <3>5, <3>6 DEF Follows
  <2>3. CASE ~(Answered /\ server.request.kind \in Rewriting)
    <3>1. settled' <=> settled
      BY <1>1, <2>3 DEF AnswerOk
    <3>2. RequestDescribesFiles' /\ ArgumentsWritten'
      <4>1. CASE server' = Idle
        BY <4>1, ServerResolved DEF Idle
      <4>2. CASE server' = server
        BY <1>1, <3>1, <4>2 DEF Follows, RequestDescribesFiles, ArgumentsWritten,
                                Rewrites
      <4>3. QED
        BY <1>1, <4>1, <4>2 DEF AnswerOk
    <3>3. settled' => args' \in CurrentArguments'
      BY <1>1, <3>1 DEF Follows, CurrentArguments
    <3>4. settled' => EngineFollows'
      BY <1>1, <3>1, EngineKept DEF Follows
    <3>5. QED
      BY <2>1, <3>2, <3>3, <3>4 DEF Follows
  <2>4. QED
    BY <2>2, <2>3
<1>2. CASE RestartEngine
  BY <1>2, EngineGone, ServerUnchanged DEF RestartEngine, history, Follows
<1>3. CASE RestartDone
  BY <1>1, <1>3 DEF RestartDone
<1>4. CASE RestartNothing
  <2>1. EngineFollows
    BY <1>4 DEF RestartNothing, EngineFollows, Up, Loop
  <2>2. QED
    BY <1>1, <1>4, <2>1 DEF RestartNothing
<1>5. CASE RestartRefused
  <2>1. /\ engine' = Gone("failed") /\ server' \in {server, Idle}
        /\ UNCHANGED <<file, args, settled>>
    BY <1>5 DEF RestartRefused, history
  <2>2. ~helper'.busy
    BY <1>0, <1>5 DEF RestartRefused, TypeOK
  <2>3. RequestDescribesFiles' /\ ArgumentsWritten'
    <3>1. CASE server' = Idle
      BY <3>1, ServerResolved DEF Idle
    <3>2. CASE server' = server
      BY <2>1, <3>2, ServerUnchanged
    <3>3. QED
      BY <2>1, <3>1, <3>2
  <2>4. QED
    BY <2>1, <2>2, <2>3, EngineGone, SettledUnchanged DEF Follows, OwnRestart
<1>6. QED
  BY <1>2, <1>3, <1>4, <1>5 DEF HelperStep

(* Everything but the engine stays: then only the engine has to be looked  *)
(* at, and only when it follows the arguments the settings call for.       *)
LEMMA FollowsEngineOnly ==
  ASSUME TypeInv, Follows, UNCHANGED <<file, args, server, helper, settled>>,
         args \in CurrentArguments /\ EngineFollows => EngineFollows'
  PROVE  Follows'
<1>1. OwnRestart' => OwnRestart
  BY DEF OwnRestart, Answered, Rewrites
<1>2. (settled' \/ OwnRestart') => EngineFollows'
  BY <1>1, FollowsCurrent
<1>3. QED
  BY <1>2, ServerUnchanged DEF Follows

LEMMA FollowsSystemd ==
  ASSUME TypeInv, Follows, SystemdStep \/ WindowMoves \/ Crash PROVE Follows'
<1>e. engine \in EngineType /\ EngineShape
  BY DEF TypeInv, TypeOK
<1>1. CASE WindowMoves
  BY <1>1, FollowsEngineOnly, EngineKept DEF WindowMoves, history
<1>2. CASE AutoStart \/ Crash
  BY <1>2, FollowsEngineOnly, EngineGone DEF AutoStart, Crash, history
<1>3. CASE LoadArgument
  <2> DEFINE n == Len(engine.argv)
             argv == Append(engine.argv, args[n + 1])
  <2>1. UNCHANGED <<file, args, server, helper, settled>> /\ engine.at = "starting"
    BY <1>3 DEF LoadArgument, history
  <2>2. engine.argv \in Seq(ArgumentType) /\ n \in Nat /\ n < 3
    BY <1>e, <2>1, LenProperties DEF EngineType, EngineShape
  <2>3. args[n + 1] \in ArgumentType
    <3> HIDE DEF n
    <3>1. n + 1 \in 1..3
      BY <2>2
    <3>2. QED
      BY <3>1 DEF TypeInv, TypeOK
  <2>4. /\ Len(argv) = n + 1
        /\ \A i \in 1..n : argv[i] = engine.argv[i]
        /\ argv[n + 1] = args[n + 1]
    BY <2>2, <2>3, AppendProperties
  <2>5. /\ engine'.argv = argv
        /\ engine'.at = IF n = 2 THEN "boot" ELSE "starting"
    BY <1>e, <1>3 DEF LoadArgument, EngineType
  <2>6. ASSUME EngineFollows PROVE EngineFollows'
    <3>1. \A i \in 1..n : engine.argv[i] = args[i]
      BY <2>1, <2>6 DEF EngineFollows
    <3>2. \A i \in 1..(n + 1) : argv[i] = args[i]
      <4> HIDE DEF n, argv
      <4>1. QED
        BY <2>2, <2>4, <3>1
    <3>3. engine'.at = "starting" =>
            \A i \in 1..Len(engine'.argv) : engine'.argv[i] = args'[i]
      BY <2>1, <2>4, <2>5, <3>2
    <3>4. engine'.at = "boot" =>
            \A i \in 1..3 : engine'.argv[i] = args'[i]
      <4> HIDE DEF n, argv
      <4>1. engine'.at = "boot" => n = 2
        BY <2>5
      <4>2. QED
        BY <2>1, <2>5, <3>2, <4>1
    <3>5. engine'.at \in {"starting", "boot"}
      BY <2>5
    <3>6. QED
      BY <3>3, <3>4, <3>5 DEF EngineFollows, Up, Loop
  <2>7. QED
    BY <2>1, <2>6, FollowsEngineOnly
<1>4. QED
  BY <1>1, <1>2, <1>3 DEF SystemdStep

LEMMA FollowsEngine ==
  ASSUME TypeInv, Follows, EngineStep PROVE Follows'
<1>e. engine \in EngineType
  BY DEF TypeInv, TypeOK
<1>1. CASE \E served \in BOOLEAN : Publish(served)
  <2>1. /\ engine.at = "publish" /\ engine'.at = "read"
        /\ engine'.argv = engine.argv /\ engine'.th = engine.th
        /\ engine'.reads = engine.reads
        /\ server' \in {server, Idle}
        /\ UNCHANGED <<file, args, helper, settled>>
    BY <1>e, <1>1 DEF Publish, EngineType, history
  <2>2. EngineFollows => EngineFollows'
    BY <2>1 DEF EngineFollows, Up, Loop
  <2>3. CASE server' = Idle
    <3>1. RequestDescribesFiles' /\ ArgumentsWritten' /\ ~OwnRestart'
      BY <2>3, ServerResolved DEF Idle
    <3>2. QED
      BY <2>1, <2>2, <3>1, SettledUnchanged DEF Follows
  <2>4. CASE server' = server
    BY <2>1, <2>2, <2>4, FollowsEngineOnly
  <2>5. QED
    BY <2>1, <2>3, <2>4
<1>2. CASE EngineStep /\ ~(\E served \in BOOLEAN : Publish(served))
  <2>1. UNCHANGED <<file, args, server, helper, settled>>
    BY <1>2 DEF EngineStep, LoadTH, ParseNothing, ParseThreshold, StartSweep,
                EndSweep, StartRun, EndOfArguments, ReadLatch, Measure, LatchAlarm,
                WriteLatch, EngineOnly, history
  <2> SUFFICES ASSUME args \in CurrentArguments, EngineFollows
               PROVE  EngineFollows'
    BY <2>1, FollowsEngineOnly
  <2>2. CASE LoadTH
    <3>1. /\ engine.at = "boot" /\ engine'.at = "parse"
          /\ engine'.argv = engine.argv /\ engine'.th = file.threshold
      BY <1>e, <2>2 DEF LoadTH, EngineType
    <3>2. QED
      BY <2>1, <3>1 DEF EngineFollows, Up, Loop
  <2>3. CASE ParseNothing \/ StartSweep \/ EndSweep
    <3>1. /\ engine.at \in {"parse", "sweep"} /\ engine'.at \in {"parse", "sweep"}
          /\ engine'.argv = engine.argv /\ engine'.th = engine.th
      BY <1>e, <2>3 DEF ParseNothing, StartSweep, EndSweep, Parsing, EngineType
    <3>2. QED
      BY <2>1, <3>1 DEF EngineFollows, Up, Loop
  <2>4. CASE ParseThreshold \/ StartRun
    <3> DEFINE a == engine.argv[engine.pos]
    <3>1. engine.at = "parse" /\ engine.pos \in 1..3
      BY <1>e, <2>4 DEF ParseThreshold, StartRun, Parsing, EngineType
    <3>2. a = args[engine.pos] /\ engine.th = file.threshold
      BY <3>1 DEF EngineFollows, Up
    <3>3. /\ a.cmd = "set_th" => a.n = file.threshold
          /\ a.cmd = "run" => a.n = file.interval
      BY <3>1, <3>2, CurrentMeaning
    <3>4. engine'.argv = engine.argv
      BY <1>e, <2>4 DEF ParseThreshold, StartRun, EngineType
    <3>5. CASE ParseThreshold
      <4>1. engine'.at = "parse" /\ engine'.th = a.n /\ a.cmd = "set_th"
        BY <1>e, <3>5 DEF ParseThreshold, Parsing, EngineType
      <4>2. QED
        BY <2>1, <3>1, <3>3, <3>4, <4>1 DEF EngineFollows, Up, Loop
    <3>6. CASE StartRun
      <4>1. /\ engine'.at = "read" /\ engine'.th = engine.th
            /\ engine'.reads = a.n /\ a.cmd = "run"
        BY <1>e, <3>6 DEF StartRun, Parsing, EngineType
      <4>2. QED
        BY <2>1, <3>1, <3>2, <3>3, <3>4, <4>1 DEF EngineFollows, Up, Loop
    <3>7. QED
      BY <2>4, <3>5, <3>6
  <2>5. CASE EndOfArguments
    BY <2>5, EngineGone DEF EndOfArguments
  <2>6. CASE \/ ReadLatch \/ LatchAlarm \/ WriteLatch
             \/ \E alarm \in Alarms : Measure(alarm)
    <3>1. /\ engine.at \in Loop /\ engine'.at \in Loop
          /\ engine'.argv = engine.argv /\ engine'.th = engine.th
          /\ engine'.reads = engine.reads
      BY <1>e, <2>6
         DEF ReadLatch, LatchAlarm, WriteLatch, Measure, EngineType, Loop
    <3>2. QED
      BY <2>1, <3>1 DEF EngineFollows, Up, Loop
  <2>7. QED
    BY <1>2, <2>2, <2>3, <2>4, <2>5, <2>6 DEF EngineStep
<1>3. QED
  BY <1>1, <1>2

LEMMA FollowsStep == TypeInv /\ Follows /\ [Next]_vars => Follows'
<1> SUFFICES ASSUME TypeInv, Follows, [Next]_vars PROVE Follows'
  OBVIOUS
<1>1. CASE UNCHANGED vars
  BY <1>1, FollowsEngineOnly, EngineKept DEF vars
<1>2. CASE Next
  BY <1>2, FollowsReceive, FollowsServer, FollowsHelper, FollowsSystemd,
     FollowsEngine DEF Next
<1>3. QED
  BY <1>1, <1>2

(* The inductive invariant of the settings.                                *)
THEOREM Configured == Spec => []ConfiguredInv
<1>1. TypeInv /\ Follows => ConfiguredInv
  BY DEF TypeInv, Follows, ConfiguredInv
<1>2. QED
  BY <1>1, TypeInit, TypeStep, FollowsInit, FollowsStep, PTL DEF Spec

(* An engine that measures after a successful answer does so with the      *)
(* saved settings, and so will the one that any later restart brings up.   *)
THEOREM SettingsRun == Spec => []RunsAsConfigured
<1>1. ConfiguredInv => RunsAsConfigured
  BY DEF ConfiguredInv, RunsAsConfigured, EngineFollows, Up, Loop
<1>2. QED
  BY <1>1, Configured, PTL
=============================================================================
