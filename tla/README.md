# Formal model of ctc_server

`ctc_server` is an asynchronous Rust service (tokio, axum) beside a CTC heat
pump. It talks Modbus RTU to the heat pump over a serial line, drives its two
SmartGrid inputs over GPIO, switches a circulation pump through a Homey hub,
runs hot-water boosts, follows spot prices and a power tariff, and keeps sensor
history. This directory holds TLA+ modules of its parts, the TLC configurations
that check them on small instances, and theorems that TLAPS proves for every
value of the constants. `PROJECT.json` maps each definition to source lines.

## 1. Inventory

Each task of the server is an actor or a loop that owns its state; tasks share
nothing but channels, a few `watch` values and locked caches.

| component | state | operations | talks to |
|---|---|---|---|
| SmartGrid actor `smartgrid/actor.rs`, `gpio.rs`, `mode.rs`, `scheduler.rs` | mode on the K24/K25 lines, generation counter, at most one scheduled resume with its timer task | SetMode, CancelScheduledResume, ResumeFire, three reads, shutdown | Homey push, DHW actor and routes as clients |
| Homey plug `homey/*` | cache of the plug (value, stale), two `watch` inputs: desired (SmartGrid) and override (boost) | eager push, reconciliation tick | Homey hub over HTTP, the user's app |
| DHW boosts `dhw/*` | active boost, persisted boost, two watcher tasks, the immersion gate, an event channel | StartShower, StartBath, Cancel, comfort, reads, recovery, shutdown | Modbus actor, SmartGrid actor, override lane, file, price state |
| Modbus actor `modbus/actor.rs`, `operations.rs` | request queue, visibility cache, statistics, supervisor counters | read, write with validation and read-back, visibility reads, raw read and write, stats, retry, respawn | heat pump, every client |
| Register catalogue `modbus/bms_parameters.rs` | none (tables) | | |
| Startup, supervisor, shutdown `main.rs`, `supervisor.rs` | task set, cancel token | spawn, watch, drain | every task |
| Spot prices `energy/price.rs`, `elpris.rs`, loop in `main.rs` | two buckets of slots, called today and tomorrow when they were fetched; last update | fetch with retries; every reader works out by date what the buckets are now | elprisetjustnu.se, SmartGrid scheduler, bath gate, routes |
| Tariff and calendar `energy/tariff.rs` | none (pure) | | |
| Grid peaks `energy/grid.rs` | hours and quarters of the month, top three days | record hour, record quarter, live update | Tibber, routes |
| Tibber stream `energy/tibber.rs` | hour and quarter in progress, backoff | reconnect, sync of the month, live message | Tibber, grid peaks |
| Store `storage/*` | an in-memory mirror (sample ring, open minutes, pending cycles and days, counters, dirty flag and its generation) and a redb database | record, upsert, flush, open, import of a legacy file; the sensor poller | Modbus actor, statistics, routes |
| Heat-pump statistics `heatpump/stats.rs`, `poller.rs` | cycle in progress, day and lifetime totals | update, failed poll, rollover | store (status in, history out) |
| Step recorder `heatpump/step_detector.rs` | one window at a time | sample, finish | statistics poller |
| Alarm texts `routes/alarms.rs`, `messages/types.rs` | text cache, first-seen times, a lock around each request; the heater's shared text buffer | write reference, wait 200 ms, read text | Modbus actor |
| Configuration `config.rs`, `error.rs` | none (read once) | defaults, file, environment, validation | decides which parts start |
| HTTP server `routes/*`, `create_router`, `shutdown_signal` in `main.rs` | the requests in flight | 22 kinds of request answered from memory, by an actor or by a status | every actor, the store |
| Message tables, dashboard, tools | none | translation, display | |

What is hard here. Two actors write the heater and the pump at the same time
(the bath watcher and the DHW handler; the eager push and the poller). State is
read before an `await` and used after it (the gate, the boost, the resume
slot). Timers post into mailboxes that hold newer commands. A client gives up
on a request that is still carried out. Tasks write to the store while a flush
commits what they wrote before. Any step of a several-step sequence can
fail, and the process can die between two of them with only a JSON file or an
hour-old database to recover from. `PROJECT.json` lists each such hazard at its line, with the
properties that catch it or the reason why none does yet.

What makes each component correct:

* SmartGrid: a newer user mode is never undone by an older schedule, the
  schedule the dashboard shows will be delivered, and comes.
* Homey: when everything is quiet the plug is what the lane or the mode wants,
  and the cache says so.
* DHW: the user's 61636 setting is never lost; the file mirrors the boost; an
  ended boost leaves nothing behind on the heater, the lane or the mode; a
  watcher never outlives its boost; every boost ends.
* Modbus: a write acknowledged by the read-back is in the register; no value
  outside the register's bounds is ever written by a parameter write; a request
  is answered or its client is told; a client that left is not served.
* Store and statistics: what is not dirty is on disk; no cycle is overwritten or
  imported twice; cycles, days and lifetime totals agree, over flushes, failed
  commits and crashes; a graceful stop leaves nothing unwritten.
* Prices: what is served, scheduled on and gated on is what was published for
  that day and slot, although nothing rotates the buckets at midnight; a
  proposed resume is the cheapest run; after an outage the prices come back.
* Grid: the peaks kept are the dearest days of the month; the quarter curve
  invents nothing and doubles nothing, over reconnects, late messages and
  restarts.
* Alarm texts: a cached text belongs to its message; a partial report is not
  passed for a complete one; first-seen times survive what failed; every
  request ends.
* Step recorder and timeline: an event served is whole and is what a restart
  would serve; series and lanes are what the sensors said; an event ends.
* HTTP: a status is true of what happened; a request ends, also in a shutdown.

## 2. Plan

1. `HomeyPump`, `SmartGrid` and their composition (done).
2. `DhwBoost` (done).
3. `Registers`, `RegisterService`, `ModbusActor`: queue, retries, validation,
   verification, visibility, supervision (done, with its refinement proved).
4. `Storage`: pending rows, the dirty flag, failed commits, crashes, and
   `HeatPumpStats` on it: cycles across midnight, outages, restarts (done, with
   theorems of every invariant). `SensorSeries` and `StepRecorder`: the step recorder, the
   ring of samples and the timeline (done, with theorems of every invariant).
5. `GridState` (with the tariff calendar), `TibberStream`: the incremental peaks against their
   definition, hour and quarter rotation. `PriceState`, `PriceFeed`: the fetch
   loop and the readers of the two buckets (done, with theorems of every invariant).
6. `AlarmText`: several requests and one text buffer (done).
7. `Config`, `HttpApi`: which parts start, what each request is told, the
   shutdown as clients see it, over `RegisterService` (done).
8. Left. `DhwBoost` step by step against the real SmartGrid actor and a user:
   both modules exist and `HttpApi` composes them command by command; the
   product of their steps is too large for TLC, so it needs a `DhwBoost` cut
   down to its mode writes.

Abstract specifications: the register service that the Modbus actor implements
(stated and proved, and used by `HttpApi` in place of the actor); the top days
as a function of all hours ever offered, which the incremental peaks implement
(stated through the ghost `best`, proved). Worth stating: a boost that starts
and ends in one step, which `DhwBoost` implements between handlers and which
`HttpApi` assumes.

Every safety invariant and action property that a passing run checks is stated
by a theorem (section 6).
Still worth proving: that a `DhwBoost` cut down to its mode writes implements
the boost of one step that `HttpApi` assumes.

## 3. Modules

### HomeyPump and SmartGrid

`SmartGrid` EXTENDS `HomeyPump`; `vars` is the pair of both states.

| code | model |
|---|---|
| `GpioController.current_mode`, `mode_generation` | `mode`, `generation` |
| `scheduled_resume: Option<..>` and its abort handle | `slot`, `timers` (a timer is a record of its instant and generation) |
| the actor's mpsc receiver | `mailbox`, bounded by `MailboxCap` |
| `do_set_mode` | `HandleSetMode`: bump, drop the old schedule, write the lines, push the pump, arm the new timer, or stop after the failed write |
| `CancelScheduledResume` | `HandleCancel` |
| `on_resume_fire`, `set_mode_if_not_superseded` | `HandleStaleFire`, `HandleResumeFire` |
| the sleeping timer task | `TimerPosts` |
| cancel token, new process | `Shutdown`, `Restart` |
| `push_pump_to_homey` and its task | `PushPumpToHomey`, then `HomeyAppliesPush`, `PushSucceeds`, `PushFails` |
| the poller's tick | `PollerTick` (target read), `HomeyAnswersGet`, `PollerReads`, `HomeyAppliesReconcile`, `PollerReconciled`, `PollerFails` |

`last` is a history variable: what the last handled SetMode was promised. The
clock, the price comparison behind the automatic resume (a free choice of an
instant) and the read-only commands are abstracted. An HTTP request and its
reply are two steps; a request the client gave up on may land later (`late`).

### DhwBoost

A handler of the DHW actor is the list of steps it still has (`h.steps`); each
step is one awaited write or read. `SendRequest` queues a register access on
`bus`, the Modbus actor's queue; `ServeActor`, `ServeWatcher`, `ServeNobody`
carry the oldest one out. A call may report an error whether or not it reached
the heater; `ActorGivesUp` and `WatcherGivesUp` leave the request on the bus
with nobody waiting. The bath watcher is `bath` (its gate, whether its time is
up, its pending write); its news reaches the actor through `events` and
`OnBathDone`. `Crash` loses everything but the heater, the file and the user's
setting, and starts recovery from the file.

| code | model |
|---|---|
| `handle_start_bath`, `apply_bath_side_effects` | `StartBath`, `ApplySteps`, `FinishBathStart` |
| `rollback_partial_bath` | `RollbackSteps` through `AfterError`, `FinishRollback` |
| `stop_boost` for a cancel or a trigger | `StopSteps`, `FinishCancel`, `FinishBathDone` |
| `run_recovery` | `RecoverySteps`, `FinishRecovery` |
| `on_bath_event`, `on_bath_done`, `on_shower_done` | `OnBathEvent`, `OnBathDone`, `OnShowerDone` |
| `watcher.rs` tick | `BathTriggers`, `GateCrosses`, `WatcherReports` |
| `state.rs` save | `Save` |

`limits` counts faults and crashes down, and remembers three things the
properties tell apart: whether a crash hit a start that was not persisted
(`torn`), whether a rollback went on after a call of its own had failed
(`skipped`, set by `StepFails`), and whether clients and news are `orderly`.
Temperatures are two values (the user's and the boost's), a register is on or
off, and prices, room and tank temperatures are free choices.

### Registers, RegisterService and ModbusActor

`Registers` holds the catalogue (access, sign, bounds, which parameters this
heater has) and the arithmetic of words. `RegisterService` is the abstract
specification: heater registers and calls, where a call is opened, may be sent
to the heater any number of times, is answered once and may be left by its
client, and a parameter write is sent only when its value is one a word can
carry and lies in the parameter's range. It has no queue, stages, retries,
read-back or restarts.
`ModbusActor` implements it: `ServicePromise` is `RegisterService` with the
calls mapped from the requests (`calls`).

| code | model |
|---|---|
| `mpsc` channel, `respond_to` | `queue`, `req[r].pc` ("waiting" until a result, "left" after a timeout) |
| `run` | `Skip` (client gone), `Take` |
| the awaits of a handler, each a `with_retry!` | `job.stage`; `FirstStage`, `AfterSuccess`, `AfterFailure` say which comes next or what is answered |
| one attempt | `Succeeds`, `Fails(fault)`: timeout, exception, transport error |
| `is_transient`, `max_retries` | `IsLast` |
| `write_parameter` checks | `Representable`, `WithinBounds`, `Accepted` |
| `visibility_cache` | `cache` |
| counters of the actor | `stats` |
| `spawn_supervised` | `Panic`, `Build`, `BuildFails` |
| the heater, its display | `Lands`, `Illegal`, `DisplaySets` |

An attempt that reports an error may have reached the heater, an acknowledged
write may have been ignored, and the display may change a register between the
write and its read-back. Words have two bits in the runs (`Half = 2`), scaled
values are whole numbers of the factor. Left out: delays and gaps, histograms,
the ring of recent retries, the count of consecutive failures, the range check
of the alarm text register, requests for a visibility register that does not
exist, and the closing of the channel.

### Storage and HeatPumpStats

`HeatPumpStats` EXTENDS `Storage` and adds the tracker. Together they are the
history: what is recorded, what a flush takes, what survives.

| code | model |
|---|---|
| `MemState` | `mem`; `moved` stands for `dirty_gen != gen_at_snapshot` |
| the redb tables | `disk`; a row replaces the one under its key (`Inserted`) |
| `flush`: first lock section, transaction, second lock section | `FlushTakes`, `FlushCommits` or `FlushFails`, `FlushEnds`; called by `HourlyFlush`, `ImportFlush`, `FinalFlush` |
| `record_sample`, `record_cycle`, `upsert_daily`, `set_accumulators` | `WithSample`, `WithCycle`, `WithDaily`, `WithAccumulators` |
| `run_sensor_poll_loop` | `SweepStarts` (one stamp for the sweep), `SensorRead`, `SensorMissed` |
| `open`, `migrate_from_legacy_json` | `Open`, `ImportStarts`, `ImportsCycle`, `ImportFlush`, `NoImport` |
| `update_state` under its lock, then its calls | `StatsTick` (`AfterRollover`, `Followed`, `CallsFor`), then `StatsWrites` |
| `mark_poll_failed` | `PollFailed` |
| SIGTERM, the wait for the tasks, the last flush | `Signal`, `TasksSettled`, `FinalFlush` or `NoFinalFlush` |
| `spawn_with_shutdown` of another task that panics | `TaskPanics` |
| SIGKILL, power loss | `Crash` |

The clock counts units, `PerMinute` and `PerDay` of them making a minute and a
day. A status is "on" or not; the mean of a minute is the set of its samples,
and how the mean of several codes reads back is free. `limits` also holds
history: whether a flush has failed (`lost`), the process has died (`died`), a
sample came after its minute was taken (`late`), and the last failed status
read (`outage`), the legacy file has been imported (`imported`); `stats.from` is
where the tracker started. `LegacyUnlisted` is what the total of a legacy file
has of cycles the file does not list: the two are separate fields of the JSON,
and of the constants only that a start was counted for each cycle is assumed.
Left out: the daily rows of a legacy file (queued and written like the rest),
windows other than the day, temperatures. Step events, the pruning after 24
hours and the read queries are in `StepRecorder`.

Three behaviours the properties excuse, because the code is like this and no
document denies it. A failed commit loses the rows it took, although the mirror
stays dirty. A sample that ends in a minute already written replaces that
minute's mean by its own. A flush clears `dirty` while the current minute is
still open, so a minute whose sensor goes silent waits for the next write of
anything. One more behaviour was seen and is not a run: after a restart the ring
holds minute means of the previous process, so the tracker's first status can be
an old one, and a compressor that is running counts as a start when the first
live sample arrives.

### PriceState and PriceFeed

`PriceState` is what the program reads out of two buckets of prices; `PriceFeed`
EXTENDS it with the loop that fills them. Time is counted in slots from the
local midnight before now: at midnight nothing in the program moves, so in the
model the buckets age (`Midnight`), as they do against the calendar.

| code | model |
|---|---|
| `PriceStateInner.today`, `.tomorrow` | `today`, `tomorrow`: a curve and the distance of its day from today |
| `calculate_price_levels` | `LevelOf` over nearest-rank percentiles |
| `get_current`, `resolve_served_prices` | `Current`, `Served` |
| `cheapest_run_within`, `cheapest_runs_within`, `cheap_window_end`, `cheapest_within` | `CheapestRunWithin`, `CheapestRunsWithin`, `CheapWindowEnd`, `CheapestWithin`; averages are compared without dividing |
| `compute_resume_target` | `ResumeTarget` |
| `run_price_fetch_loop` | `loop`: `AskElpris` (two requests sent together), `TakeAnswers` (what failed keeps what was there), `AfterFetch` (retry or wait for the hour), `Wake`, `Stop` |
| elpris, the network, the clock, the token | `Publish`, `NetworkChanges`, `Tick`, `Cancel` |

A request may be answered before midnight and applied after it. Prices are whole
öre. A run ends where the chain of slots is first long enough (`RunEnds`), with
its length and its cost as sums over the slots (`LengthOf`, `CostOf`); the picker
is a walk (`Chosen`, `Take`) over the runs by rank (`Sorted`), which is what a
stable sort makes of them. Levels, served days and resume targets are chains of
IF: their conditions overlap, and the first one that holds decides. Left out:
EUR and exchange rates, zones, daylight-saving days (a curve may have fewer,
longer slots).

### GridState and TibberStream

`GridState` is the tariff calendar, and the peaks and quarters as functions of
one record; `TibberStream` the loop over them.

| code | model |
|---|---|
| `is_high_tariff`, `is_swedish_holiday`, `calculate_easter` | `IsHighTariff`, `IsSwedishHoliday`, `CalculateEaster` |
| `maybe_update_peak`, `update_current_hour` | `MaybeUpdatePeak`, `UpdateCurrentHour`; the lowest of equal peaks is any of them, because the source takes the first of a `HashMap` |
| `record_quarter`, `update_current_quarter` | `RecordQuarter`, `UpdateCurrentQuarter` |
| `sync_historical_data` | `SyncAnswers`, `SyncFails`, `SyncRecords` (hour by hour) |
| `run_websocket_loop` | `Connect`, `Break` (closed, error, silence), `Stop`; each connection has a fresh `rot` |
| `process_message` | `HandleReading`: `HourPath`, then `QuarterPath`; a counter that the message lacks is 0 (`OrZero`) |
| house, meter, clock | `Consume`, `MeterSends`, `Tick` |

A reading is stamped by the meter and handled by the wall clock, which may have
left the quarter (`late`). `grid.best` is a ghost: the dearest hour ever offered
for each day of the month. Each of a reading's two counters is an `Option` in
the code and may be missing; `MaxGaps` bounds how often. Without the counter of
the day a reading looks like one after midnight: the snapshot is anchored at 0,
and the next reading of the quarter forwards all that was used since midnight.
The ghost `blank` has the quarters in which one was handled. Consumption is in
whole units; the counter's jitter below `RESET_JITTER_KWH` and the live display
of the state are left out.

### AlarmText

| code | model |
|---|---|
| the transfer register, the text buffer, the bitmasks | `heater`; `Raise`, `Clear`, `Fill` |
| the Modbus actor as the handler sees it | `line`: `Serves`, `Fails` |
| `ALARMS_HANDLER_LOCK` | `lock`, `Locks`, `Released` |
| `get_alarms` | `call[c]`: count, bitmasks, then per message `transfer`, a wait (`Settles`), `buffer`; `Gets` and `Misses` say what an answer or an error leads to |
| `ALARM_TEXT_CACHE`, `ALARM_FIRST_SEEN`, `cleanup_inactive_codes` | `texts`, `firstSeen`, `Cleaned` |
| the handler's timeout, axum dropping a handler | `TimesOut`, `HangsUp`: a request under way goes on for nobody |

The model takes the 200 ms to be enough for the heater (`Settled`); that they
are is a fact of the equipment the code relies on. `steady`, `ever` and
`reported` are ghosts: which messages were active throughout a request, at some
time of it, and since their report.

### SensorSeries and StepRecorder

| code | model |
|---|---|
| `record_sample`, `series_range`, `bucket_minutes`, `latest_sample` | `Recorded`, `SeriesRange`, `BucketMinutes`, `Latest` |
| `pending_minutes`, the rows of `SERIES_MINUTES`, `open` | `open` with `Finalized`, `StillOpen`; `disk.means`; `Refilled` |
| `get_series`, `get_activity`, `segment` | `GetSeries`, `GetActivity`, `Segments` |
| `run_sensor_poll_loop` | `SweepStarts` (one stamp), `SensorRead`, `SensorMissed` |
| a tick of `run_recorder_loop` | `RecorderTick`: `ClockAnomaly`, `Observes`, `StepDetected` or `FlowStable` |
| `elapsed_since`, its sentinel | `Elapsed`, `Backstep` |
| `record_step_event`, `recent_step_events` | `Cached`, `GetStepResponse` |
| `flush`, `open` for step events | `FlushTakes`, `FlushCommits`, `FlushFails`, `Kept`, `HydratedEvents` |
| stop, kill, a clock that is set back | `Stops`, `Dies`, `ClockSetBack` |

One unit of the clock is one tick of the poller and one of the recorder, in any
order, the recorder's also in the middle of a sweep. `open` has for each sensor
a bucket of sum and number per minute, `pending` the rows by their key, and the
samples that a query selects are their places in the ring (`SeriesRange`,
`SumOver`). `age` is a ghost: the units that passed since the event in progress
began, or since the clock was last set back, whatever the clock says. A sweep names each sensor once, as the poller's list does. The dirty flag and its
generation are the subject of `Storage` and left out here.

### Config and HttpApi

`Config` computes the settings from environment and file and says which starts
are refused. `HttpApi` EXTENDS it and `RegisterService`.

| code | model |
|---|---|
| `Config::load`, its overrides and clamps, the serial builder | `Settings`, `LoadFails`, `SerialFails` |
| `main` | `Starts`: `parts` are those that were started |
| `create_router`, each handler up to its first `await` | `Accept`, which picks a request and answers it or says whom it asks (`Handler`) |
| the Modbus client helpers | `AskModbus`, `ModbusWorks` (the actor, as `RegisterService`), `ModbusAnswers`, `HandlerTimesOut` |
| the SmartGrid handle, its actor | `AskActor`, `SgServes`, `ResumeFires`, `SgEnds` |
| the DHW handle, its actor | `AskActor`, `DhwServes`, `BoostEnds` |
| `error.rs`, `DhwError::into_response` | `RefusedAs`, `FailedAs`, `StatusOf` |
| `shutdown_signal`, `with_graceful_shutdown` | `Signal`, `StopsListening`, `Exits` |

A DHW command with all its writes is one step with the outcomes it can have
(`Outcomes`), and its registers are not among `Params`: the steps are those of
`DhwBoost`. Left out: the heater's own display, fractions of hours, waiting for
room in a mailbox, more than one register call in a request. A bath watcher
whose stop has failed may try again in the model. The catalogue has an entry
for every visibility register that is asked for. `HttpAssumption` is what serde
enforces before a handler runs: a request has one of the `Routes`, and its body
the types of that route.

## 4. Runs

| run | asks | bounds, and why they are enough |
|---|---|---|
| `SmartGrid_schedule` | does any interleaving undo a newer mode or show a dead schedule, and does a promised resume come? | three SetModes (old schedule, new one, one more behind a queued fire), two instants so two schedules differ, one GPIO error, one restart, a mailbox that can be full so a fire has to wait |
| `SmartGrid_pump` | do the plug and its cache settle? | two pushes in flight, so they can cross; one lost or late request, one user toggle, one boost, one restart |
| `DhwBoost_boosts` | does a boost hold, write down and give back what it took, and end? | one failed call that may land late, one failed save, two crashes anywhere, so that recovery itself is interrupted; both a lane with a listener and one without; `limits.orderly` chosen at the start; an event channel of two, as full as it gets here |
| `DhwBoost_immersion` | is 61591 off when idle? (violated with a manual cancel) | no fault, no crash |
| `ModbusActor_calls` | does the actor implement `RegisterService`, is a call lost, served twice, served for nobody or never answered, do the counters add up? | two requests of any operation, the writes legal, refused and raw, so one waits through the retries of the other; a queue of one, so that a client waits for room; one retry, one panic, one failed opening, one change at the display |
| `HeatPumpStats_history` | does the history stay whole over flushes, failures, stops and crashes? | four instants of two per minute and per day, so a cycle can span midnight and a minute can be over and written; one hourly flush beside those of import and stop, one failed commit, one missed read, one end (stop, panic or crash) followed by a new start; a legacy file with two cycles of the same second, or none |
| `PriceFeed_day` | is every price that is used the one published for its slot, are resumes the cheapest runs, and do prices come back? | days of four slots that go round for ever, so every lag of the buckets occurs; three curves, one with a negative price, one of two longer slots; a window of a day and runs of two slots, which span the seam of the buckets |
| `TibberStream_peaks` | are the kept peaks the dearest days, and does the curve tell only of what was used? | one top day, so that a day is displaced; five quarters around the end of a high hour, of a day and of a month, three of them in a row; two units of consumption, so an hour can be dearer or tie; one reading on its way, which can be late, and one in all that lacks a counter; two starts with or without the month's history |
| `AlarmText_texts` | does a cached text belong to its message, is a report honest, does every request end? | two clients, one alarm and one info with the same code, which share a first-seen key up to its kind; two requests, two changes, two instants, two starts; any operation may fail, time out or be abandoned |
| `StepRecorder_events` | are events whole and kept, and is what is served what the sensors said? | two situations of the heater that differ in every polled sensor, so flow and return of two sweeps mix; a database with an event and a minute of means, a list of one event, so that it overflows; a window of two ticks, three hours of retention (24 in the code), two units of time and one mishap of any kind, the clock set back among them |
| `StepRecorder_ends` | is an event in progress for no longer than its window, whatever the clock does? | four units of time and a window of two, so an event may begin before or after the mishap and has time to outlive its window; the clock set back by two or more units, into the event or past its start, or a read missed, a stop, a death; no flush, which has no part in it |
| `HttpApi_requests` | does a status tell what happened, and does every request end? | nine starts, four that serve (with and without Homey, GPIO, the pump's poller and power saving) and five refused for one reason each; one request of any kind against one that changes the mode, starts a Bath or cancels it |

Some properties of `DhwBoost_boosts` name what they excuse. `OnRecord` is a run
without a crash in which no rollback skipped a step (`limits.skipped`), or one
whose crashes hit no unpersisted Bath start (`limits.torn`) and in which no call
and no save failed. So three ways are excused in which the user's temperature
can be lost: a rollback whose own call fails (it goes on to the next step and
then forgets the record; the run has a single failed call and does not reach it,
the attempt at the proof did), a crash inside the start (by design), and a crash in a
run with a failed call or save (the behaviour `DhwBoost_record.cfg` shows).
The third part of `HeaterIsGivenBack`,
`OrderlyStopEndsImmersion`, is `IdleImmersionIsOff` for clients that do not
cancel and an actor that handles events within the watcher's tick; without
either it fails. In the same way `HistoryIsTrue` and `ServedEventsAreKept`
excuse a clock that was set back and rows lost with a failed commit, and
`NothingInvented`, the part of `CurveIsGenuine` about amounts, excuses readings
handled after their quarter, and of the quarters those with a reading that lacked
the counter of the day: the code spoils that quarter, and the property says that
it spoils no other and no peak.

`ModbusActor_service.cfg` is a second instance of the refinement, with writes to
the write-only text buffer and a queue of two. It holds as well and is not among
the runs, because `ServiceCorrect` proves the property for every instance.

`CHECK_DEADLOCK FALSE` is used where the bounds on clients, time and restarts
let the system come to rest.

### Where the code departs from its own words

`DhwBoost_immersion` is listed in `PROJECT.json` under `findings`: a manual
cancel decides from the persisted flag whether 61591 must be cleared, while the
watcher that is still alive may be writing it.

The other disagreements have a `.cfg` of their own that is not among the
runs; TLC finds the property violated.

| cfg (module) | the words | what happens |
|---|---|---|
| `SmartGrid_cancel` (`MCSmartGrid`) | `routes/smartgrid.rs:279` "Cancel any pending auto-resume without changing the current `SmartGrid` mode." | a cancel removes the slot and aborts the timer, but a fire already in the mailbox still has the current generation and flips the mode |
| `DhwBoost_record` (`DhwBoost`) | `docs/superpowers/specs/2026-05-14-dhw-controls-design.md:438` "prior value snapshot at start, exact restore at stop, regardless of stop cause" | when recovery fails half way its record stays in the file, but commands are accepted: the next boost overwrites the record, and a Bath reads the boost's own temperature as the user's |
| `ModbusActor_signed` (`MCModbusActor`) | `modbus/actor.rs:1208` "Check if value is within range" | the check compares unsigned words, also for signed parameters: with bounds on both sides of zero every value is refused (proved: `StraddlingRefusesAll`) |
| `HeatPumpStats_outage` (`MCHeatPumpStats`) | `heatpump/stats.rs:268-270`, `poller.rs:75` | a failed read leaves the last status in the ring, so the poller never sees an outage and a cycle is credited with it |
| `HeatPumpStats_panic` (`MCHeatPumpStats`) | `supervisor.rs:20-22` | a panic of a background task cancels the token and every loop ends; `main()` waits for a signal only, so the process stays and flushes nothing |
| `PriceFeed_blip` (`MCPriceFeed`) | `main.rs:725-728` "a 5-min network blip should not blank the SmartGrid scheduler's price view until the next 14:00 fetch" | after midnight the day's prices are in the bucket called tomorrow; a fetch that gets the next day but fails for today overwrites them and keeps yesterday's |
| `PriceFeed_nextday` (`MCPriceFeed`) | `energy/price.rs:206` "rather than serving a wrong day" | when the request for the next day fails after midnight, the bucket called tomorrow keeps what has become today's, and today is served as both days |
| `TibberStream_quarter` (`MCTibberStream`) | `energy/tibber.rs:560` "Close the prior quarter with the best estimate of its delta", and its test at line 706 | `record_quarter` refuses the quarter, which is still the running one, and the closing reading's difference is dropped (`ClosedQuarterGetsItsDelta`) |
| `TibberStream_quarter` (`MCTibberStream`) | `energy/tibber.rs:483` "`accumulatedConsumption` value at the start of `quarter_start_secs`. Subtracting from the current accumulated gives this quarter's kWh." | a reading without the counter sets this value to 0 (line 511), and the next one gives the quarter the kWh of the whole day (`QuarterIsItsDifference`) |
| `StepRecorder_outage` (`MCStepRecorder`) | `heatpump/step_detector.rs:18-21` "between consecutive ticks" | the baseline survives an outage of the sensor, so a drift over it is recorded as a step (`StepsAreSudden`) |
| `StepRecorder_outage` (`MCStepRecorder`) | `storage/mod.rs` "the dashboard's graphs render the pre-restart history immediately" | a restart serves means of minutes, also of status codes: the mean of codes 4 and 6 is the 5 of hot water, which never ran (`RestartKeepsLanes`) |
| `HttpApi_environment` (`MCHttpApi`) | `README.md:332` "All settings can be overridden with environment variables using the `CTC_` prefix", `:349`, and line 294 of the DHW design | a variable whose field has two words lands beside it; one of the `dhw` section makes the load fail |
| `HttpApi_torn` (`MCHttpApi`) | one GET answers mode and resume | three messages are three moments: the mode of one, the resume of another |
| `HttpApi_rollback` (`MCHttpApi`) | `dhw/actor.rs:331-334` "undo what we wrote" | a Bath start that fails at the lane has written nothing, and yet its rollback sets the SmartGrid mode to normal; with `homey.poll_interval_secs = 0` every Bath start does |

`TibberStream_quarter.cfg` and `StepRecorder_outage.cfg` name two properties
each. TLC stops at the first it finds violated; without that one in the `.cfg`
it finds the other.

More were met and have no `.cfg`:

* `on_bath_watcher_done` (`dhw/actor.rs:956`) says that local state is cleared
  also when the stop fails, but returns before, and leaves an active Bath
  without a watcher (`BathEnds` excuses runs with a failed call).
* An "illegal address" exception, which `error.rs:183` says should fail fast, is
  retried like a timeout, because the stages wrap exceptions in error classes
  that count as transient.
* `main.rs:645` has failures retried "every 15 min until both today + tomorrow
  populate or local midnight"; before the fetch hour nothing is retried
  (`main.rs:755`).
* `routes/grid.rs:51` serves "the top 3 peak hours this month"; a late message
  of the month before sets the month back and clears the peaks of this one.
* `main.rs:107` names `CTC_DB_PATH`; the variable that is read is
  `CTC_STORAGE_DB_PATH`. A comment of `config.rs` has `fetch_hour_local` clamped;
  it is refused.
* `main.rs:399` says the SmartGrid actor has seeded the desired pump state; with
  GPIO off, or an actor that failed to start, nobody has. Then every sender of
  the poller's channel is gone and its loop spins (`homey/poller.rs:60`); with
  polling off and no SmartGrid the pump's badge is never refreshed.

## 5. Fairness

Tokio schedules every runnable task, so the steps of an actor, the end of a
sleep and the end of a call with a timeout are weakly fair. Clients, the user,
faults, crashes and shutdown are never fair. The SmartGrid timer competes for
room in a mailbox that is served fairly and whose clients are bounded, so weak
fairness suffices. The heater's own countdown is fair: it is a clock. An HTTP
call or a bus access ends by its timeout, which is why its steps together, not
each of its outcomes, are fair. No retry, price change or gate crossing is
assumed to happen. In `ModbusActor` the actor's loop, the supervisor's rebuild
and a client's waiting `send` are fair; nothing is assumed of the outcome of an
attempt or of the clients' patience, because retries are finite and every
attempt ends by its timeout.

`PriceFeed`: time, the two requests (they have timeouts), a wait that is over
and the token are fair. `PricesComeBack` assumes a market that publishes in time
and a network that works from some moment on, and nothing before it.
`AlarmText`: the heater fills its buffer, and a client's steps are strongly
fair, because tokio's mutex hands itself on in the order of arrival: a waiter
whose turn comes again and again takes it. A request in the line is answered or
times out, and the timeout is one of the client's steps. `HttpApi`: the handlers, both actors and the steps of the
shutdown. That the DHW actor gets through a command rests on the timeouts of its
register calls; a handler's `send` into a full queue has no timeout of its own,
and that room comes is `EveryCallIsAnswered` of `ModbusActor`.

`HeatPumpStats`, `TibberStream` and `StepRecorder` are checked for safety without
any fairness. In `StepRecorder` time passes only after both tickers had their
turn, so that an event ends in time is an invariant there, `EventsEnd`.
`FairSpec` of `HeatPumpStats`, used by `HeatPumpStats_panic.cfg`, makes everything
fair but signals, panics and crashes.

## 6. Proofs

All proofs use only the assumptions on constants that the modules name.

* `SmartGridProofs`: `TypeCorrect`; `UserModeCorrect` and `ShownResumeCorrect`
  from the inductive invariant `SchedInv`. The properties alone are not
  inductive: a step has to know that the only sleeping timer is the slot's
  (`timers \subseteq {slot}`), that the slot carries the current generation and
  the last promise (`SlotIsCurrent`), that a queued fire never carries a newer
  generation and, when it carries the current one, is the promised resume and
  leaves no timer behind (`FireIsKnown`), and that the shown resume is on its
  way (`FireIsComing`). The generation is what makes a queued fire harmless: a
  SetMode moves it past every fire in the mailbox.
* `DhwBoostProofs`: `TypeCorrect` from `DhwInv`, which adds that a Bath start
  has read the user's temperature before any step that needs it (`PriorRead`):
  without it the rollback list would not be typed. `FileMirrorsCorrect` from
  `FileInv`, which adds that recovery runs only with no boost in memory
  (`RecoverAlone`), so that its final save cannot erase a running boost.
  `BoostHoldsItsOwnCorrect` and `HeaterIsGivenBackCorrect` from invariants in
  layers, where each step lemma may use the layers before. `ShapeInv`: what a
  handler has left is the end of the list it began with (`IsRest`, counted from
  the end by `FromEnd`), so the number of steps left says what has been done;
  and which handlers and watchers go with which boost. `BusInv`: the bus holds
  at most one request of the handler and one of the watcher, and which those
  are; anything else is a request nobody waits for. `LaneInv` and `ClosedInv`:
  where the pump lane and the SmartGrid mode are, by the steps left, with and
  without a receiver. `RecordInv`: while nothing fails, no boost means an empty
  file. `TempInv`: 61636 is the user's and nothing on the bus changes it, or the
  user's value is written down and its writer still has the step that restores
  it. `KwInv`: in an orderly run without faults 61591 follows the flags.
* `ModbusActorProofs`: `TypeCorrect` and `WaitingCorrect` from `ModbusInv`.
  Beside the places of the calls it says what a stage knows (`Fits`): at
  "write" the value has passed the checks, at "verify" it has been sent, before
  either nothing was sent. `AcceptedInRange` is the lemma about the unsigned
  comparison: it never accepts a word that a signed reader would refuse.
  `StraddlingRefusesAll` is its price: with bounds around zero nothing is
  accepted, whatever the width of a word. `TelemetryCorrect`: the counters
  balance at every moment once the attempt under way is counted in
  (`Balanced`, `Pending`), through retries, panics and new counters.
  `InVainCorrect`: a request whose client left while it waited is never taken
  up, and none asks for a parameter known to be hidden. `ServiceCorrect`:
  every behaviour of the actor is one of the register service. Each step that touches a register or a call maps to
  one step of the service (`SendAnswerMaps`, `AnswerMaps`), the rest to a
  stutter; `Fits` gives the guards of the abstract steps.
* `HeatPumpStatsProofs`: `TypeCorrect` and `KeysCorrect` from one invariant
  (`IInv`): neither is inductive without the other. The next number of a second
  is a number only if the numbers on disk have a bound (`Bounded`), and it is
  new only if every number in flight is below it (`SeqIsAbove`, carried over a
  restart by `NextSeqAbove`). A dead process must leave no cycle in memory
  (`DownIsEmpty`), or `open` would not see it. `CleanCorrect`, that a store that
  is not dirty is written (`CleanMeansWritten`), from `CInv`, which follows a
  flush: while nobody writes, the mirror is what was taken (`TakenIsHeld`), and
  after the commit the disk is (`CommittedIsOnDisk`). `StopCorrect`, the action
  property that a graceful stop leaves nothing behind, from `DInv`: the totals of
  the tracker are those of the mirror or are in the calls still to be made
  (`TotalsFollow`), a caller of a flush waits for it (`CallerWaits`), and when
  the last flush begins no task is left to write (`NobodyLeft`).
  `HistoryCorrect`, that the history adds up, is three theorems, over sums of
  finite sets (`Sums`: a sum with one element less is less by that element,
  in whatever order MapThenSumSet takes them). `TotalsCorrect` from `HInv` and
  `TInv`: a start is counted before its cycle is recorded, and a cycle before
  its seconds are handed over (`CallsInTurn`), so wherever the totals are,
  tracker, mirror, flush or disk, what they say of the cycles there is known
  (`CyclesCounted`, `SecsCounted`), also over an import that a crash repeats.
  `MinutesCorrect` from `MInv`: every live sample of the ring is in the bucket,
  the taken or the written mean of its minute (`MinutesHaveAll`), and a minute
  is taken only when it is over (`NothingIsAhead`). `DaysCorrect` from `DaysInv`:
  a day has one row and only when it is over, and a running cycle's share of the
  days before is what it was credited (`Split`).
* `GridProofs`: `TypeCorrect` and `TopDaysCorrect` from `GInv`: types, the peaks
  property and that hour, quarter and snapshot of a connection are known
  together (`RotationPaired`), without which a difference would not be a number.
  The work is in one lemma about `NewPeaks`: dropping the lowest of a full set
  for a dearer day keeps the set the dearest of all, also when days tie or a day
  that was dropped comes back with more. `CurveCorrect` from `CurveInv`: what
  the meter has counted of the quarter in progress (`MeterInv`), a window of
  quarters in order, each once (`WindowInv`, by lemmas about insertion into an
  ordered sequence), and entries no larger than what the house used, until a
  reading was handled late (`TruthInv`). A reading that lacks the day's counter
  stays in its quarter: that the snapshot of the running quarter is no less than
  the counter at its start is claimed only of a quarter that is not `blank`.
* The second part of `SmartGridProofs`, about `PriceFeed`: `PriceTypeCorrect` and
  `GenuineCorrect` from `PriceInv`, which adds that the answers in flight are
  those of the day they were asked for (`AnswersAreGenuine`): an answer may
  cross midnight once, and is filed with the day it has then.
  `ResumesCorrect` needs only the types and that prices are genuine
  (`PricesHeld`); the rest is about what is read out of two buckets. A bucket is
  a day of slots without gap or overlap (`DayOfPoints`), and two of them joined
  are a timeline (`IsTimeline`), whether they are the same day, a day apart or
  one stale: an instant has one price, and a slot or its copy comes before every
  later one. A run of the chain is then what one reads off the timeline, in its
  end (`RunIsCover`) and in its cost (`RunCostIs`, a sum over places against a
  sum over prices). To cost less per hour, compared by multiplying crosswise, is
  an order (`CheaperIsOrder`), so each run has a rank and `Sorted` lists them
  all (`SortedIsSorted`); the picker's walk keeps, run by run, that what it left
  out overlaps something cheaper or came when the list was full
  (`TakeIsChoice`).
* `StepRecorderProofs`: `RecorderTypeCorrect`, `WholeCorrect` and `ServedCorrect`
  from `RInv`. `BegunInv`: an event in progress has had no answer yet, so the
  sample that ends it is the first. `TimesInv`: unless the clock was set back,
  an event starts later than all before it, so no key is taken twice.
  `CacheInv`: the list is the newest of the events pending, in a flush and on
  disk, and `NewestAreKept` says that these are the ones a restart would read.
  `HistoryCorrect` from `SamplesInv` besides: a ring is the end of the samples of
  this process, and what is before it is older than is kept (`Trail`); stamps
  ascend, because the sensors yet to be read have no sample with the stamp of
  the sweep (`SweepInv`). From there it is the queries: the places of a window
  in the ring and in the samples correspond one to one, and so do the sums that
  make the means; a walk that stops at the first later sample has the latest
  value; the segments of a lane cover the times it is on and no two of them
  touch. `EventsEndCorrect` from `EndsInv`, which relates the ghost `age` to the
  clock: while the event's start is not ahead of the clock, no more units have
  passed than the clock says, and one that is ahead of it is dropped by the
  recorder's next tick, before time passes again.
* `AlarmTextProofs`: `AlarmTypeCorrect`, `TextCorrect` and the action property
  `ReportsCorrect` from `AInv`. `QueueInv` is what the lock buys: the line holds
  at most one request somebody waits for, the last, and it is the lock holder's;
  at most one more is before it, that of a client that left. So register, wait
  and buffer belong to one request, and `TextInv` follows its reference from the
  transfer register to the buffer to the cache: the left one cannot overwrite
  the register after its successor wrote it. `LookInv` is what a request has
  seen of the messages active throughout, and of the keys reported before.
* `HttpApiProofs`: `TypeCorrect` and `StatusCorrect` from `HInv`. A request's
  plan fits its route (`PlanFits`), its call the plan (`CallFits`), its status
  what happened to both (`StatusFits`); each message in a mailbox is the next
  command of a request that waits for it, or of one that left (`MailFits`); and
  while the process serves, an actor that was started lives (`PhaseInv`), which
  is why a 503 can be told from a timeout. It rests on `HttpAssumption`, and on
  `RegisterService` in place of the Modbus actor, which `ServiceCorrect`
  justifies.

Proving found two things to change in the models. A CASE with overlapping
guards may have the value of any of them, so the choices of `PriceState` in
which the first condition decides had to become IF. And the total of a legacy
file need not be what its cycles add up to; `TotalsMatchCycles` says by how much
it may differ (`Unlisted`).

Only model-checked, because liveness under fairness and ENABLED are outside the
prover's reach: `RequestsEnd`, `PromisedResumeComes`, `PlugSettles`, `BathEnds`,
`LeftBoostIsRecovered`, `EveryCallIsAnswered`, `PricesComeBack` and
`EveryRequestEnds`.

## 7. What is not modelled

* The register catalogue and the tables of texts: constants without state; the
  models take from them what they branch on (access, sign, bounds, visibility).
* The bodies of the grid, price and statistics routes, summaries, trends, JSON,
  snapshots and histograms: formatting of state the models have.
* The dashboard, tools and docs: outside the server.
* In the statistics, windows other than the day and the temperatures; in the
  store, the migration of a database of schema version 1.
* In the shutdown, the abort after five seconds of tasks that do not end, except
  for the sensor sweep, which may be left at any read. The closing of watch
  channels, which makes the poller spin (section 4).
* Wall-clock durations, time zones' offsets, log output, and the contents of
  prices and temperatures where no property tells them apart.
