# GIZMo runtime: specifications, model checks and proofs

GIZMo measures the resistance between the building ground and the detector
ground.  A measurement engine (`gizmo-zmon`, C) drives the hardware; a set of
small servers publishes what it measures, records it, mirrors the record, and
lets authorized clients change the instrument.  This directory holds TLA+
specifications of that software, TLC configurations that check them on small
instances, and TLAPS proofs of the properties that matter most, for every
value of the constants.

Paths below are relative to the repository root.

## 1. The system

| Component | Where | State it keeps | Operations and interactions |
|---|---|---|---|
| Command gate | `src/python/gizmo_opcua.py` | active command, audit record, calibration readback, fault lock, `opcua-command-state.json` | remote methods and writes; `request()` to the ZeroMQ server; advanced by the main loop |
| OPC UA publication, jobs, health | `src/python/gizmo_opcua.py` | points and their status, jobs in flight, health summary | collectors on a pool of 8 threads, applied by the main loop |
| ZeroMQ command server | `src/python/gizmo_zmq.py`, `gizmo_common.py` | `setRunInterval.env`, `setThreshold.env`, `ZMonArg1..3.env`, `latchState.env` | one request at a time; asks the control helper for a restart |
| Control helper | `src/control/gizmo-control.c` | none | `restart-zmon`, `set-time`, `ping` on a group-restricted socket |
| Measurement engine | `src/zmon/gizmo-zmon.c` | calibration tables, latch, relay, running averages | arguments from `ZMonArg*.env`; `CAL` sweep, then a run loop that answers `get_data` |
| OPC UA monitor | `src/python/gizmo_dashboard.py` | session, subscription, last value of every point | run by the dashboard and by the historian; a thread that reads, another that is notified |
| Historian store and recorder | `src/python/gizmo_historian.py` | SQLite: streams, samples, minute rollups, events, platform rows | the recorder takes a snapshot of the monitor every second; queries; retention |
| Historian replication | `src/python/gizmo_historian.py` | a second SQLite database, a cursor per table | the replica fetches batches over HTTP and imports them |
| Parsers, credentials | `gizmo_model.py`, `gizmo_security.py` | none | text to snapshots; password hashes |
| Temperature, SDR, display, web | `gizmo_temperature.py`, `gizmo_sdr.py`, `src/display`, `web/dashboard` | none that outlives a request | pure input and output |
| Packaging, deployment | `packaging`, `deploy`, `scripts`, `tools` | none | units with `Restart=always`, installers, generated schema |

What is hard about it, and what makes each part correct:

* **Command gate.**  Two threads work on it, the dispatch thread of
  python-opcua and the main loop, only partly under one lock; a request to the
  instrument takes up to three seconds, may be refused, and may be carried out
  although its reply is lost; the server may be killed at any moment and
  recovers from a file whose save may have failed or be cut off between two
  saves of the same step.  It is correct when one command is open at a time,
  terminal states are final, a failed or interrupted restoration locks the
  gate until a recovery is verified, a success is a verified success, and
  every command ends.
* **Instrument** (ZeroMQ server, control helper, engine).  A request that
  times out may run late; the argument files outlive the restart they were
  written for; the engine does not listen while it sweeps; engine and
  `clear_latch` write the same file.  Correct when after a success the engine
  runs with the saved settings and so does whatever restarts it, when an alarm
  that is published is latched and a latch is only lost by clearing it, and
  when the engine always returns to its measurements.
* **Publication.**  A collector may fail, hang, or deliver what cannot be
  applied to the end; health is summed up beside the points.  Correct when
  nothing of a category that failed looks good, health says what the points
  say, and one category does not hold up another.
* **Monitor.**  A slow read of everything may overwrite a newer notification,
  changes of status are not always notified, sessions break, and the server
  may come back with other points.  Correct when nothing of an earlier session
  shows as current and the cache agrees with the server in the end.
* **Historian.**  Each of a tick's five or more writes may fail, none is
  rolled back, the process may be killed between any two, the board may boot
  and its clock be set back.  Correct when nothing committed is lost or
  changed, samples lie in streams that go forward, a rollup is the rollup of
  its samples, and a query neither hides nor smooths away what was recorded.
* **Replication.**  Answers are lost, come from another board, or arrive
  twice; the edge prunes and writes rows between two of them; streams arrive in
  gaps.  Correct when no row is passed over, none is taken twice, two boards
  are never mixed, and every row that stays at the edge arrives.

`PROJECT.json` lists each hazard at its line, with the properties that cover it
or the reason why none does.

## 2. What is modelled

| Module | Models | Extends or instantiates |
|---|---|---|
| `CommandAudit` | the abstract promise of the gate | |
| `CommandGate` | the gate, its two threads, its file | `CommandAudit` by `INSTANCE`, as a refinement |
| `Instrument` | ZeroMQ server, control helper, engine, systemd | |
| `Publication` | collection jobs, points, health, READY | |
| `DashboardMonitor` | `OpcUaMonitor` and the server it reads | |
| `HistorianRecorder` | the recorder's writes and their failures | |
| `HistorianQueries` | rollup arithmetic, retention, queries | |
| `Mirror` | the abstract promise of the replica | |
| `HistorianReplication` | edge tables, batches, import, replica thread | `Mirror` by `INSTANCE`, as a refinement |

Each `...Proofs` module extends the module it is named after; the `MC...` modules
only define the small sets that a `.cfg` cannot write down.

A few definitions that no specification uses follow the comment "a bug for ...
to catch" (`RefusedBlindToLock`, `TimeOfSnapshot` and so on).  Each is a
plausible wrong version of the definition after it; put in its place, it makes
TLC report the property the comment names.

### CommandAudit: what the gate promises

Four variables: the outcome of every command ever accepted, the one that is
open, whether it is the recovery, and the lock.  Four actions: `Accept`, `Run`,
`Finish`, `Interrupt`.  It knows nothing of threads, files or the instrument.

### CommandGate: how the code does it

One variable per attribute of `GizmoOpcUaServer` that the gate reads or
writes:

| Variable | Code |
|---|---|
| `active` | `_active_command` (an `ActiveCommand`; id 0 is `None`) |
| `audit` | `_audit`: number, name and state; the texts and times are left out |
| `cal` | `_calibration_operation`: state and restoration |
| `locked` | `_command_fault_locked` |
| `disk` | `opcua-command-state.json` |
| `node`, `last` | the writable Configuration nodes; `_last_threshold`, `_last_run_interval` |
| `remote` | where the dispatch thread is in `_remote_call` or `_remote_write` |
| `main` | where the main loop is in `run()`, and the locals it has read so far |
| `snap`, `zmonPid` | `_last_measurement_snapshot`, `_zmon_pid` |
| `outcome`, `forwarded`, `restarts` | history, for the properties |

A step is what happens between two points at which the other thread or a crash
can see the state.  The lock is therefore not a variable: it is held within a
step, and across steps only at `remote.at = "superseding"` and
`main.at = "restore"`, where the steps of the other thread that need it wait.

| Code | Actions |
|---|---|
| `_begin_remote_command`, `_record_rejected` | `Begin`, `Supersede` then `BeginAbort`, `Reject` |
| `_remote_call` and the eight methods | `InvalidArgument`, `DispatchFailed`, `Normalize`, `Transmit` then `RemoteReply` |
| `_remote_write` | `WriteAttribute` then `MarkPending`, or `WriteRefused` |
| `_finish_jobs` (measurement, services) | `ApplyMeasurement`, `ApplyServices` |
| `_forward_configuration_writes` | `Capture`, then for each setting `ReadNode` and one of `AlreadyInForce`, `RejectValue`, `ForwardValue` then `ForwardReply` or `ForwardLost` |
| `_advance_active_command` | `AdvanceComplete`, `AdvanceTimeOut`, `AdvanceNothing`, `AdvanceRestore` then `RestoreReply` |
| `__init__`, `_restore_command_state` | `Restart` |

What the abstraction leaves to chance, and why that is sound: a deadline may
pass at any moment after it was set (`DeadlinePasses`); any sample of the
given set may arrive, stamped before or after the command was requested
(`recent`, because a wall clock decides); any PID may be observed; the
executable's hash, the clock readback and the ADC file may or may not agree
(`sameHash`, `readback`); a request may be accepted, refused or lost.

Two fault switches are constants.  With `DiskFaults` a save may fail (the code
prints the error and goes on) and the file may be unreadable at a restart.
With `DispatchFaults` clients send calls the library refuses to run.  A crash
between the two saves of one step needs no switch: `HalfSaved` gives the files
it can leave.

### Instrument: what stands behind a request

Three programs and systemd, which meet in files and on two sockets:

| Variable | Code |
|---|---|
| `file` | `setThreshold.env`, `setRunInterval.env` |
| `args` | `ZMonArg1.env` to `ZMonArg3.env`: a command and its number each |
| `latch` | `latchState.env`: clear, latched, or empty, as `fopen(..., "w")` leaves it |
| `server` | where `handle_message` is, its request, the settings it read, how many arguments it has written |
| `helper` | connections at `gizmo-control.sock`, and whether a `systemctl try-restart` is under way |
| `engine` | where the process is, or that it is down, failed, or being started; the arguments it got; `global_th`, `num_Reads`, `latched`; the alarm of this measurement |
| `starts` | restarts within systemd's limit interval |
| `settled`, `asked`, `engine.cleared`, `requests`, `crashes` | history, for the properties and bounds |

| Code | Actions |
|---|---|
| `main`, `handle_message` | `Receive`, then per kind of request |
| `run`, `CAL`, `set_th` | `SaveSetting`, three `WriteArgument`, `RequestRestart` |
| `read_adc` | three `WriteArgument`, `RequestRestart` |
| `set_time`, `set_time_epoch` | `SetClock`, `RequestRestart` |
| `clear_latch`, `get_data` | `ClearLatch`; `Connect` or `ConnectRefused`, then a sample or `DataLost` |
| `request_control` raises, `atomic_write` raises, a kill | `ControlTimeout`, `GiveUp` |
| `handle_client`, `run_systemctl_restart` | `RestartEngine` then `RestartDone`; `RestartRefused`; `RestartNothing` |
| `gizmo-zmon.service` | `AutoStart`, `LoadArgument` (one file at a time), `WindowMoves` |
| `main` of the engine | `LoadTH`, `ParseNothing`, `ParseThreshold`, `StartSweep`, `EndSweep`, `StartRun`, `EndOfArguments` |
| the loop of `run` | `ReadLatch`, `Measure` or `LatchAlarm` then `WriteLatch`, `Publish` |

A file that `atomic_write` replaces changes in one step; the engine's latch
file is truncated in one step and written in another.  What a measurement
finds is a choice (`Measure`, `LatchAlarm`), and so is whether a connection is
accepted in this measurement or a later one.  The engine may be killed
anywhere (`Crash`, and every restart), the server between any two of its steps.
When the helper answers a server that stopped waiting, it ends by `SIGPIPE`;
the listening socket is systemd's, which starts the helper again, so that
nothing of its state changes.  Two things are left to systemd: a start limit
of `StartLimit` restarts (five within ten seconds where the unit says nothing),
and a `try-restart` that leaves a failed unit alone.  Automatic restarts are two
seconds apart (`RestartSec=2`), and keep within that limit by themselves.

### Publication: what a client can believe

A point stands for all that are written alike and is known by its status; its
value is left out, but for that of `<category>.Quality`, which is the summary a
client reads.  What a collection finds is one of `Found[c]`, a quality and the
parts (interfaces, sensors, file systems, units, tables) that were there.
`Collective` are the categories with points that take the quality of the whole
snapshot; those of Thermal, Storage and Services go by the part alone
(`gizmo_opcua.py:3297-3303`, `3434-3448`, `3489-3509`).  The points under
`Calibration` that tell how a calibration goes belong to the category by their
names, and are written by commands (`OperationPoint`).

| Variable | Code |
|---|---|
| `point` | the status of the nodes, and the value of `<category>.Quality` |
| `categoryQuality`, `hasData`, `attempted` | `_category_quality`, `_category_has_data`, and the categories that were tried |
| `health` | the nodes `Health.*` |
| `job`, `pool` | `_jobs`; the queue of the `ThreadPoolExecutor`, first come first served |
| `ready` | `READY=1` was sent |
| `fault`, `breaks`, `outcome` | what is wrong with each source; a bound; how the last job ended |

| Code | Actions |
|---|---|
| `_schedule_jobs`, the pool | `Schedule`, `StartJob` |
| the collectors | `Collected`, `CollectorRaises`, `Hang`; `Break` and `Repair` of their sources |
| `_finish_jobs`, the `_apply_...` methods | `ApplySnapshot`; `ApplyRaises`, which leaves the writes before the error; `MarkFailed` |
| `_update_health` | part of each of these three |
| `_publish_calibration_operation`, which each step of a command calls | `PublishOperation` |
| `run` | `SayReady` |

`_mark_prefix_failed` reads a node and writes it back with another status, on
the main loop, while a command publishes on its own thread: the mark can put an
older value back.  Statuses show whichever write came last, which the model has;
values are left out.

### DashboardMonitor: the cache two programs live on

The server writes one point at a time.  A value that arrives is a notification;
a change of status alone may not be one, and a notification of an uncertain
point may carry no value, or `NaN`, of which `_refresh_values` makes none before
it looks (1066) and `record_datachange` after (1175): `Read` and `Received`.  The
server may stop and come back with other points, a session may break, and the
calibration table may be rewritten.  A monitor leaves a session in two steps,
between which its notifications go on; that python-opcua delivers none after
`_disconnect` has closed the client is taken for granted.

| Variable | Code |
|---|---|
| `pc`, `nodes`, `seen` | where `_connect`, `_refresh_values` and `_run` are, `_nodes`, and what the read at work found |
| `cache` | `_values`, each with the session it was received in |
| `connected`, `subscribed`, `calibration` | `_connected`, `_subscription`, `_resistance_calibration` |
| `sent` | notifications under way to `record_datachange` |
| `exists`, `served`, `table`, `serverUp`, `alive` | the server, and the session with it |

| Code | Actions |
|---|---|
| `_connect` | `Connect`, `Probe`, `CreateSubscription`, `SubscribeDataChange` |
| `_refresh_values` | `ReadValues` then `ApplyValues`: notifications are delivered between the two |
| `record_datachange` | `DeliverValue`, `DeliverTable` |
| `_run`: `_mark_disconnected`, then `_disconnect` | `MarkDisconnected`, `Disconnect` |
| the server | `Publish`, `LoseSource`, `WriteTable`, `ServerStops`, `ServerStarts`, `SessionBreaks` |

### HistorianRecorder: five writes a second, each of which may fail

`db` is what is committed, `work` what the writing connection sees.  The code
rolls nothing back: what a failed write left in SQLite's open transaction goes
with the next commit.  A write therefore either commits all of `work`, or fails
and leaves `work` as it was, with the write, or empty (`WriteFails`).  A sample is
the number of its tick, a rollup the set of samples it counts.  One path stands
for those whose changes make events.

| Variable | Code |
|---|---|
| `me` | stream, boot, last sequence, disk limit, rollup, last values of `HistorianRecorder` |
| `tick` | where `_run` is in its turn, and the snapshot it took |
| `board`, `clock` | boot and sequence as the server publishes them; `now_us()` |
| `missed`, `lost`, `unknowns`, `ended`, `dropped` | history: samples a rollup may lack, events that failed, snapshots without a sequence, processes that ended; `_dropped_samples` |

| Code | Actions |
|---|---|
| `_run`, `_event_for_connection` | `TickConnected`, `TickDisconnected` |
| `_check_disk` | `DiskAsBefore`, `DiskChanges` |
| `_ensure_stream` | `SameStream`, or `EndStream`, `BeginStream`, `AnnounceStream` |
| `record_fast`, `_update_rollup` | `RecordSample`, `CloseMinute`, `CountSample`, `LoadFails` |
| `_record_transitions`, `record_platform` | `RecordTransition`, `RecordPlatform` |
| `stop`, a kill, a start | `StopRollup`, `StopStream`; `Kill`; `Restart` |

### HistorianQueries: rollups against the samples

The numbers that `HistorianRecorder` leaves out: `MinuteAccumulator` sample by
sample (`Updated`), its storage in the middle of a minute, what retention
removes, and what `HistorianStore.query` makes of it.

| Variable | Code |
|---|---|
| `memory` | `_rollup` of the recorder: none or one |
| `work`, `db` | the tables as the writing connection sees them, and as they are committed |
| `pc` | how far `_run` is in its tick |
| `clock` | `now_us()`; it may move at any point of a tick, and without one |
| `query`, `answer` | the query between its two transactions, and what it was answered |
| `log`, `missed`, `faults` | history: every sample, those that a failure or a kill kept out of the raw rows or of a rollup, and a bound |

| Code | Actions |
|---|---|
| `record_fast` | `RecordSample` |
| `_update_rollup` | `CloseMinute`, `Count`, `Flush`: a commit or a load each |
| `record_platform`, `apply_retention` | `RecordPlatform`, `Retention`, an age for each table |
| `stop` and the next start | `Stop` |
| the process dies, and the next starts | `Kill` |
| a tick without a sample, because the client is apart or writing is limited | `TimePasses` |
| `query`: the counts, then the rows | `CountRows`, then `ReadRaw` or `ReadRollups` with `Coarsened`; the recorder may write in between |

Each write may fail as in `HistorianRecorder`: the tick ends, nothing is rolled
back, and what stays in SQLite's open transaction is committed with the next
write (`Save`).  The properties compare each rollup and each point of an answer
with `Reference`, computed from the samples alone.  They say which samples: a
rollup stands for those it has counted (`of`), which is all of its minute up to
the last one but for those in `missed`.  Up to ten seconds of samples are in the
recorder's memory alone, and the minute they belong to stays there while no
sample comes that begins another; a query does not see them, and a kill loses
them to the rollup for good, while their raw rows stay.

A table is a set of rows and an answer a set of points: the order of the code's
lists is that of their times, so `Turn` counts the points before one, and
`Groups` are the slices of the list.  `CountRows` is one step where the code
counts table by table, and `ReadRaw` one where it reads two; each statement is
its own snapshot.  Left out besides: two samples within a microsecond, of which
the code moves one (`HistorianRecorder` has it); the time a platform row gets,
which is that of its sample here; and the ten seconds `stop()` waits for its
thread.  A `stop()` that fails leaves what a `Kill` leaves.  How often a rollup
is flushed, a platform row written or retention run is a choice at each tick.

### Mirror and HistorianReplication: what arrives

`Mirror` knows what was recorded and how often each record was taken: `Write`,
and `Take` of any that were not yet taken.  `HistorianReplication` has the four
tables of the edge with positions (`key`, `tie`) as the code orders them, the
batches it answers with, the replica's database and its thread.  `recorded` is
mapped to the writes of `log`, `copies` to `inserts`.

| Variable | Code |
|---|---|
| `edge`, `ended`, `clock` | the tables and streams of the edge's database, its clock |
| `store` | the replica's rows, cursors, sources and stream numbers |
| `thread`, `batch`, `pinned`, `connected` | where `ReplicaRecorder._run` is, in which table; the answer; `_source_id`; `_last_connection_state` |
| `log`, `late`, `top`, `inserts` | history: each row ever committed, those stamped behind an earlier row, the greatest position, how often each was inserted |

| Code | Actions |
|---|---|
| the writing methods of the store, `apply_retention` | `EdgeWrite`, `EdgeStream`, `EdgeRetention` |
| `_check_disk`, `_fetch`, `_sync_table` | `CheckDisk`, `Fetch`, `FetchFromOther`, `FetchFails`, `FetchGarbled` |
| `import_replication_batch`, one transaction | `ImportBatch`, `ImportFails`; `Replay` of a batch that was imported |
| the end of `_run`'s turn | `Upkeep` |
| a kill and a start | `Kill`, `Restart` |

An import is one step because it is one SQLite transaction; a lost answer, a
failure and a kill before or after it are the cases the code can meet.

## 3. Runs

`tlc -config <name>.cfg <module>`; the module is that in `PROJECT.json`.

| Run | Question | Distinct states |
|---|---|---|
| `audit` | Does the abstract promise keep the lock? 4 commands | 1 968 |
| `gate_requests` | All eight methods and a write of an accepted or an out-of-range threshold, two commands, good and unreadable samples, refused dispatches, a restart: reservation, durability, interruption, refinement | 1 064 272 |
| `gate_disk_faults` | Calibration and restoration requests, with failing saves, unreadable files and two restarts: the lock, no fabricated success | 1 025 657 |
| `gate_live` | Under fairness: calibrations, aborts, recoveries, a threshold and a restart of the engine, two commands: every command and every calibration readback ends, every write of a node is sent or undone | 231 368 |
| `instrument_settings` | Two requests that restart the engine, two thresholds and two read counts, a start limit of one, a crash, failed saves, killed servers, late restarts: settings, arguments and engine agree | 883 944 |
| `instrument_returns` | Under fairness: two requests of any kind, time-outs of the helper, a crash: the latch file between engine and server, and the engine measures again | 233 988 |
| `publication` | Under fairness: three categories on two threads, two that fail, one that hangs and whose part appears, commands that publish a calibration | 56 092 |
| `dashboard_monitor` | Under fairness: two points, two values, two losses, two notifications under way | 1 307 074 |
| `historian_recorder` | Three ticks, two boots, a clock that is set back, a failed write, a process that ends anywhere | 4 266 770 |
| `historian_queries` | Three samples of three kinds over three minutes, a failure or a kill at any step, stops, an age for each table, and a query of all of it in two points at any moment | 2 594 856 |
| `historian_replication` | Under fairness: two rows in any tables and streams, one of them undecodable, two faults, a batch that comes again, batches of one row | 167 245 |
| `gate_write_success` | expected to fail, see below | |

**One run is expected to fail.**  `docs/architecture.md:67` promises that
"acceptance and verified terminal state are separate".  The attribute of a write
is set before its command is marked; the main loop, which takes no lock here,
may have read the old value of the node just before.  Then the dispatch thread
writes and marks the command, and the main loop, which compares the value it
read with the one in force, takes the command for one that is in force already
and ends it as a success, although nothing was sent.  TLC's shortest trace has
seven steps.

**Bounds.**  `MaxCommand` bounds the commands accepted, `MaxRestart` the
restarts of the gate.  Two commands are enough for one to overtake, supersede
or be mistaken for the other; one restart meets every state, a second one meets
the state a restart leaves.  Two values tell in force from requested, and one
value is out of range.  PIDs are the old one and the new one.

In `Instrument`, `MaxRequest` bounds the requests, `MaxCrash` the crashes and
`MaxLate` the restarts queued at the helper.  Two requests are enough for a
late restart of the first to fall among the writes of the second.  The start
limit is one where it is a hazard among others, so that two requests reach it;
it passes, so that they may also both be carried out.

In `Publication` the categories are two that are essential and fail, of which one
has points that commands write, and one that hangs and whose part appears: with
two threads the others share what the hanging one leaves.  In `DashboardMonitor` two points let one be
there without the other, two losses let a session begin with notifications of
the one before gone, and two notifications under way let them be reordered
against a read.

In `HistorianRecorder` three ticks are enough for a stream to go on, to break
and to break again, and for a minute to be left, entered and, with the clock
set back, entered once more; one failure meets every write, and what it leaves
open meets every write after it.  In `HistorianQueries` three samples fill one
minute and open another, or lie in three, which a limit of two makes the query
merge; one fault falls on any write, load or step, and what it leaves open
meets every write after it.  In `HistorianReplication` two rows are enough for one to hide
behind the other, and batches of one row put a request between any two.

What goes beyond these bounds is covered by the proofs below, which depend on
none of them, with the exceptions named there.

**Deadlock** is checked in the runs of the gate, of `Publication` and of
`DashboardMonitor`.  It is not in the `instrument_*` and `historian_*` runs: the
first stop when no request comes any more and systemd has given the engine up,
the others when their bounds on rows, ticks and faults are used up, and
`historian_queries` ends each behaviour with an answer.

**Fairness.**  In `CommandGate`: weak fairness of `RemoteStep`, because the
dispatch thread runs and a request ends after `REQUEST_TIMEOUT_MS` at the
latest; of `MainStep`, because `run()` loops until the process stops; of
`DeadlinePasses`, because deadlines are set on the monotonic clock.  Nothing is
assumed of the instrument, the collectors or the clients.  In `Instrument`: of
each program, because the server's calls end by an answer or a time-out, the
helper waits for a `systemctl` that ends, systemd starts what is to be started
(`Restart=always`), and the engine's sweep and measurements are loops of bounded
length; nothing makes a request arrive, the engine crash, or the interval of
the start limit pass, and `instrument_returns` says what follows while the limit
is not reached and the server does not fail.  In `Publication`: of the pool, of
each category's schedule, of the end of a collection that does not hang, and of
its application, because the main loop turns every 50 ms and the collectors'
sockets and commands have time-outs; nothing repairs a source.  In
`DashboardMonitor`: of the thread, which tries again after at most 15 seconds,
of the delivery of what was notified, and of the server's start by systemd.  In
`HistorianReplication`: of the replica's thread and of its restart; requests may
fail as often as `MaxFault` allows.

## 4. Departures met while modelling

Besides `gate_write_success`, the models contain these behaviours because the
code has them; where a document says otherwise it is quoted.  The properties
are stated so that they do not deny them.

* *The latch bit and its freshness.*  `ClearLatch` awaits "fresh measurement"
  (`gizmo_opcua.py:3885`); freshness is that of the last good sample, the latch
  bit that of the last sample of any quality, and an unreadable record has none.
* *A restart between two saves of `AbortCalibration`.*  Clients "follow the
  calibration restoration readbacks until a terminal state is reached"
  (`docs/opcua.md:180`).  The method ends the calibration before it reserves its
  own command; a restart in between leaves `Running` in the readback and an
  unlocked gate, and so does a call the library refuses to run.
  `CalibrationAttended` therefore runs without either; its theorem excludes no
  other restart and no other refused call.
* *An end that is shown before it is saved.*  `_finish_command` publishes the
  record (2617) and then saves it (2619): when the server is killed in between, a
  client that has read `Succeeded` reads `Failed` after the restart.  The nodes
  that copy the record are left out; `TerminalIsFinal` is about the record.
* *What is in force.*  A threshold or read count that the instrument refuses is
  remembered as sent (3727) and shows in the node, and one whose answer is lost
  is put back although it may be in force.  `WritesAreTakenUp` says that the
  server dealt with a write, not what the instrument has.
* *The start limit.*  Consumers "expose a brief non-good source status until
  ZMon returns" (`docs/architecture.md:120`).  A sixth restart within ten seconds
  leaves the unit failed, and later restarts answer `OK` without starting it:
  `EngineReturns` holds below the limit.
* *Torn arguments.*  A server that fails between the second and the third
  argument file of a calibration leaves `CAL`, `set_th` and no `run`; once
  restarted, the engine sweeps, reaches the end of its input, exits, and is
  started again.
* *A sweep nobody asked for.*  `SetSystemTime` "is a controlled manual
  correction" of the two clocks (`docs/opcua.md:205`) and restarts the engine
  with the arguments in the files: after a calibration they still begin with
  `CAL`.
* *`Alarm` stays good.*  The points under `Alarm` are written by a measurement
  and do not begin with its name; `_mark_prefix_failed` passes them over
  (`docs/opcua.md:108-110` promises the opposite).  `StaleIsMarked` speaks of the
  points that begin with the name of the category.  Of an interface that is gone,
  only `Present` is updated (`gizmo_opcua.py:3380`), and the one point whose
  status is `BadNotSupported` becomes uncertain when its category fails.
* *The operation of a calibration* is marked with the rest of `Calibration` when
  its collection fails, stays so after it recovered until a command takes its
  next step, and that step makes it good also while the collection still fails:
  `docs/opcua.md:108-110` says that after a source disconnects "an existing sample
  is retained with `UncertainLastUsableValue`".  `StaleIsMarked` excepts those
  points, which no collection writes.
* *A collector that hangs* keeps its job, its points and a thread of the pool;
  with as many of them as threads nothing is collected any more.
* *A few raw rows hide the rollups.*  A query reads rollups when there are more
  raw rows than were asked for, or none: at the edge of retention an interval
  is answered by its last few samples.  `NothingHidden` speaks of what each kind
  of answer is made of.
* *Rows stamped behind an earlier one* are at or before the cursor when they
  appear, and are never mirrored (`late`).  *Some errors end the replica's
  thread*: one of `http.client`, `zlib`, or a missing key is not caught, while
  the process stays up (`Blocked`).
* *A counter that starts again unseen.*  `docs/historian.md:105-106` promises a new
  stream when the sequence moves backward.  A snapshot without a sequence is
  remembered as one without (1860), and the next one is compared with nothing:
  `StreamGoesForward` excepts what such a snapshot hides.
* *Samples that no rollup has.*  A failed write or load ends a tick whose sample
  is stored and not counted, and a kill takes the samples since the last flush
  out of the rollup of their minute; nothing counts them later, although the raw
  rows are there.  `missed` names them in `RollupsCount`, `RollupsAreExact` and
  `NothingHidden`.
* *An uncertain point without a value* keeps its older number in the monitor's
  cache, also across a reconnect (`Agrees` allows it); when it comes as a
  notification of `NaN` it loses the number, until a read.
* *A table that is good while apart.*  A calibration table that is notified after
  `_mark_disconnected` (927) and before `_disconnect` (941) shows as good until
  the next connection.  `ShownIsOfSession` is about what shows as connected.

## 5. Proofs

`tlapm <module>` on each of the eight modules.  A run of TLC meets each property
on a small instance; a theorem says it for every value of the constants.  None
assumes more than the `ASSUME`s of the module it is about, which the runs
evaluate, but where the table says so.

| Module | Theorem | States | Assumes besides |
|---|---|---|---|
| `CommandAuditProofs` | `AtMostOneOpen`, `TerminalStays`, `RecoveryUnlocks` | `OneOpenCommand`, `TerminalIsFinal`, `OnlyRecoveryUnlocks`, which the gate inherits through the refinement | |
| `CommandGateProofs` | `TypeCorrect`, `LockCorrect`, `FailedRestorationIsLocked`, `RecoveryOnlyUnderLock`, `ReservationIsHeld` | `TypeOK`, `LockInv`, `FailedRestorationLocks`, `LockAdmitsOnlyRecovery`, `ReservationHeld` | |
| | `NoFabricatedSuccess` | `RestartNeverFabricatesSuccess` | |
| | `DispatchDurable`, `InterruptionIsLocked` | `DispatchedIsDurable`, `InterruptionLocks` | no disk faults |
| | `GateImplementsAudit` | `AuditSpec` | no disk faults: a stale file can bring back an older record |
| | `CalibrationIsAttended` | `CalibrationAttended` | no disk faults; no restart between the two saves of a supersession, no `AbortCalibration` that the library refuses to run (`Undisturbed`) |
| `InstrumentProofs` | `TypeCorrect`, `Configured`, `SettingsRun` | `TypeOK`, `ConfiguredInv`, `RunsAsConfigured` | |
| | `AlarmLatched`, `LatchSurvivesSteps` | `AlarmIsLatched`, `LatchSurvives` | |
| `PublicationProofs` | `TypeCorrect`, `StaleMarked`, `HealthTrue`, `ReadyComplete` | `TypeOK`, `StaleIsMarked`, `HealthIsTrue`, `ReadyIsComplete` | |
| `DashboardMonitorProofs` | `TypeCorrect`, `ShownOfSession` | `TypeOK`, `ShownIsOfSession` | |
| `HistorianRecorderProofs` | `SamplesInTheirBoot`, `StreamsGoForward`, `OnlyOneOpen` | `SampleInItsBoot`, `StreamGoesForward`, `OneOpenStream` | |
| | `HistoryStays`, `RollupsCountSamples`, `EventsAreConnected`, `TypeCorrect` | `HistoryGrows`, `RollupsCount`, `EventsConnect`, `TypeOK` | |
| `HistorianReplicationProofs` | `TypeCorrect`, `NoRowSkipped`, `StreamsKept`, `OneSourceOnly`, `NothingLost` | `TypeOK`, `NothingSkipped`, `StreamsAreKept`, `OneSource`, `KeepsWhatItTook` | |
| | `ReplicaImplementsMirror` | `MirrorSpec` | |
| `HistorianQueriesProofs` | `TypeCorrect`, `RollupsSayWhatWasRecorded` | `TypeOK`, `RollupsAreExact` | |
| | `AnswersSayWhatWasRecorded`, `AnswersFit`, `NothingIsHidden` | `PointsAreExact`, `AnswerFits`, `NothingHidden` | |

Few of these properties are inductive.  What was added, and why:

* **Gate** (`GateInv`).  `FailedRestorationLocks` and `LockAdmitsOnlyRecovery`
  speak of memory, but a restart restores the lock and the readback from the
  file: the file has to lock as well, or hold a command in flight (`FileLocks`).
  Between the two saves of a supersession nothing is active and nothing may be
  locked (`LockInv`).  The audit record is about the active command and a
  verification belongs to its path, or a verified restoration could be that of
  another command (`AgreementInv`).  What each thread remembers of a command is
  about the command with that number (`ThreadInv`).  `SavedInv` says that what
  the file says of a command was said of it at some time, so that a stale file
  holds no success that did not happen; `DurableInv`, that without disk faults
  the file mirrors the record.  The step is proved by kinds of steps (a command
  is reserved, set running, ended; a rejection; a step that touches no command;
  the cases of a restart), and each action is shown to be of a kind.
  `AttendInv` is for the readback of the calibration alone: work in progress
  belongs to the active command, which has not yet been called only if it is the
  `AbortCalibration` that the call is going to end, and a verification belongs to
  the path of its command, so that a command that ends says so in the readback.
* **Instrument.**  `RunsAsConfigured` is about the moment after a success and
  says nothing of the steps before it, among them restarts that earlier requests
  left behind.  `ConfiguredInv` adds that a server at work remembers the settings
  as the files have them, that the arguments it has written are those of its
  request, and that the answer it gets is that of a restart that began after
  its last write: the helper serves one connection after the other.  From then on
  the engine follows the arguments.  `LatchInv` relates the engine's copy of the
  latch to the file at each point of a measurement.
* **Publication** (`PublicationInv`).  Health is kept beside the points, so
  `SummaryInv` ties both to the quality of each category and to the categories
  that were tried; `JobInv` keeps the snapshot of a job one that may be found.
* **Monitor** (`MonitorInv`).  `FreshInv` says, for each place of the thread,
  which points hold what was received in this session: those that are gone first,
  those that exist after the read.  `ThreadInv` ties the subscription and the
  notifications under way to that place, so that none of an earlier session
  arrives once it is left.  `TableInv`: a good table is of the session at work, or
  of the last one while apart.
* **Recorder** (`RecorderInv`).  The streams and samples of the committed
  database and of the open transaction *each* agree with what the recorder
  remembers (`Fits(db)`, `Fits(work)`): a failed write makes them differ, and the
  next one commits either.  `Boots`: what is remembered of the boot is that of
  the stream in memory, or older than the board's, so that a stream that was
  begun and not announced is not taken for the one that follows.  `Open` and
  `Forward` do the same for ends and sequences.
* **Rollups** (`RollupInv`).  The open transaction holds all that is committed,
  and of rollups nothing but the one in memory, which counts what the stored one
  counts (`Grown`): whichever of the two a later commit makes permanent, nothing
  is forgotten.  The rollup in memory may be let go only when it is stored in
  full and nothing else is open (`Settled`): at a new minute, after it was
  written, and at a stop.  `Complete` and `Sound` are the two halves of
  `RollupsCount`, for the open transaction too, and `Pending` says of a sample
  between its commit and its count that it is stored under the time it will be
  counted by.  `Wider(db, db')`, which every step satisfies, is `HistoryGrows`.
* **Events** (`EventInv`).  In the committed database and in the open
  transaction alike, the last event of a key that this run of the recorder wrote
  says what the recorder remembers of the key, unless the write of one failed; no
  event belongs to a later run, and a value that was never seen has no event.
* **Types of the recorder** (`TypeInv`).  That no two samples have one time needs
  that `FreeTime` finds a time: no two rows have one number, so there are no more
  rows than ticks, and one of the `MaxTick + 1` times is free (pigeonhole); the
  first of them exists because the numbers below each number are finitely many
  (`Smallest`).  A tick at work has not yet dropped its sample (`InTicks`).
* **Replication** (`MirrorInv`).  A cursor moves to where a batch ends, so
  `NothingSkipped` needs that a batch that can still be imported covers all that
  the edge holds between the cursor and its end, whatever was written and pruned
  since it was made (`BatchInv`), and that it was sent by the source the database
  knows (`SourceInv`).  That each write is inserted once, which the refinement
  needs, follows from `TakenInv`: what was taken lies at or before the cursor.
  `RollupInv` orders the states of a minute at the edge, in a batch and in the
  replica; `StreamInv` says that local numbers have no gap, so that a new one is
  free.

* **Queries** (`Inv` of `HistorianQueriesProofs`).  `Reference` is a closed
  form, and a rollup is built one sample at a time: `Says(log, p, S)` says of a
  row or a point what it should hold when it stands for the samples with the
  numbers `S`.  One more sample keeps it (`Adds`), so does a merge of points that
  follow each other (`MergedSays`), and it gives `Reference` (`SaysReference`).
  `RowOk` says that a row does so for the samples it has counted, all of its
  minute up to the last of them but for those that are `Out`: kept out by a
  failure or a kill, or at work in this tick.  The row in memory has its whole
  minute (`MemoryOk`).  Failures make the open transaction and the committed
  tables differ, and either may be what the next process finds, so both hold
  rows that are right (`StoresInv`), in each of them a sample is counted unless it
  is out, in memory or old (`CountedOk`), and its raw row is there unless it was
  lost or is old (`RawOk`).  `UnderwayInv` is for the moment a sample is counted:
  the row it is added to, be it in memory, loaded, or new, has the others of its
  minute.  `QueryInv` says of a query between its two transactions why it will
  read raw rows: that it counted no more than were asked for.  The groups are
  intervals of the points (`GroupsPart`) and no more than the limit (`GroupsFit`,
  which needs the width to be rounded up).

**Sums without induction over an operator.**  The totals and counts of
`HistorianQueries` are sums over finite sets, whose library definition is a
recursive function on subsets.  The library's induction theorems take a
predicate as a parameter, which these provers cannot instantiate;
`HistorianQueriesProofs` states induction with a set of numbers in its place
(`Induction`, from the well-foundedness of strict inclusion) and derives from it
that the recursive function exists (`IterExists`), that a sum does not depend on
the order (`SumPick`), and that it adds up over a partition (`SumPartition`).

**Only model-checked.**  Liveness, which is beyond the prover: `EveryCommandEnds`,
`CalibrationReadbackEnds`, `WritesAreTakenUp`, `EngineReturns`, `OthersGoOn`,
`CacheCatchesUp`, `RowsArrive`.  Every invariant and action
property of a passing run is proved, some under the conditions in the table.

The type invariants of the other modules are proved and not repeated in a run,
but for that of `Mirror`, which is left to its refinement; so are
`OneOpenCommand`, `TerminalIsFinal`, `ConfiguredInv` and `OneOpenStream`.

## 6. What is not modelled

* **Gate**: texts, times and requesters; the nodes that copy the audit record;
  the legacy namespace, which no remote write reaches; a state file damaged in a
  way `atomic_write` cannot produce is one case of `Unreadable`.
* **Instrument**: measured values, calibration tables, relays and signal
  arithmetic; the requests `get_adc`, `get_Rcal`, `get_Ccal`, which read a file;
  requests the parser refuses; failing writes of the engine; an operator who
  resets a failed unit.
* **Gate and instrument together**: their product is out of TLC's reach, so the
  gate takes any answer, sample and PID where the instrument would give some.
  What follows from a lost reply to `CAL`, or from the PID of an engine that was
  started before the command, is not checked.
* **Publication**: the values of points and how they are decoded, which
  `gizmo_model.py` does; only the qualities reach the model.
* **Monitor**: the HTTP server and the event streams, which hand out its
  snapshots; that a snapshot may hold points of two measurements
  (`docs/historian.md:49-55`), since nothing ties them together.
* **Historian**: JSON and compression of rows, floating-point rounding when a
  rollup is decoded and encoded again, queries of events, gaps that are marked in
  answers, HTTP; the events that the replica records of its own connection, and
  its disk check but for the verdict.
* Left aside for good: drawing, streaming and parsing code without state of its
  own, the credential store, a pure check, the packaging but for
  `gizmo-zmon.service`, and the generated schema.
