----------------------------- MODULE StepRecorder ------------------------------
(***************************************************************************)
(* The recorder of heatpump/step_detector.rs beside the sensor poller that *)
(* feeds it and the store that keeps what it records.  The poller reads    *)
(* one register after the other, stamps the whole sweep with one reading   *)
(* of the clock and skips what it cannot read; the recorder looks at the   *)
(* latest flow and return temperature at ticks of its own, between any two *)
(* of these reads.  A sudden change of the flow opens an event, which      *)
(* follows the return temperature until it has settled or a window is      *)
(* over.  Events go to a list that the API serves and to the rows the next *)
(* flush writes; a process that opens the database has the list from the   *)
(* rows.  The wall clock can be set back, flushes fail, the process stops  *)
(* and dies.                                                               *)
(*                                                                         *)
(* A tick of either task takes one unit of the clock.  `dirty` and the     *)
(* generation of the store are the subject of Storage and left out here:   *)
(* a flush that finds nothing new writes what is there.                    *)
(***************************************************************************)
EXTENDS SensorSeries

CONSTANTS
    SENSORS,       \* the sensors of a sweep, in the poller's order
    Situations,    \* what a sweep can find: the value of each sensor
    Threshold,     \* STEP_THRESHOLD_C, in the unit of the two temperatures
    Observe,       \* OBSERVE_SECS, in units of the clock
    MaxStepEvents, \* MAX_STEP_EVENTS
    Nothing,       \* None
    StartTime,     \* the clock when the first process starts
    LeftBehind,    \* the database it opens
    FlushTimes,    \* bound: the units in which the hourly flush can come
    SetBackTo,     \* bound: what the clock can be set back to
    MaxUnits,      \* bound: units that pass
    MaxMishaps     \* bound: reads and transactions that fail, deaths and stops of the
                   \* process and settings of the clock, together

MaxTime == StartTime + MaxUnits
Polled  == Range(SENSORS)

Samples == [at : 0..MaxTime, v : Int]
\* ActiveEvent and StepEventBlob
StepEvents == [at : 0..MaxTime, before : Int, after : Int, ret : Int,
               samples : Seq([el : Nat, flow : Int, ret : Int])]

Abs(x) == IF x < 0 THEN -x ELSE x

\* A sample shows the answer: the return temperature had made nine tenths of the
\* way, or the window was over (SETTLE_FRACTION and OBSERVE_SECS).
Answered(e, x) ==
    \/ x.el >= Observe
    \/ e.after >= e.ret /\ 10 * (e.after - x.ret) <= e.after - e.ret
    \/ e.after <= e.ret /\ 10 * (x.ret - e.after) <= e.ret - e.after

\* An event shows a step and its answer from the start to the end: the flow
\* moved by the threshold, the first sample is the step itself, and the last
\* one is the first that shows the answer.
IsWhole(e) ==
    LET n == Len(e.samples) IN
    /\ Abs(e.after - e.before) >= Threshold
    /\ e.samples[1] = [el |-> 0, flow |-> e.after, ret |-> e.ret]
    /\ n >= 2 /\ Answered(e, e.samples[n])
    /\ \A i \in 2..n - 1 : ~Answered(e, e.samples[i])

\* The tables are keyed by the start of an event and by the minute of a mean.
HasKeys(table) == \A a, b \in table : a.at = b.at => a = b

\* The database is one that this program has written before it started.
ASSUME RecorderAssumption ==
    /\ SENSORS \in Seq(Sensors) /\ IsInjective(SENSORS)
    /\ {"Flow", "Return"} \cup ActivitySensors \subseteq Polled
    /\ Situations # {} /\ Situations \subseteq [Polled -> Int]
    /\ {Threshold, Observe, MaxStepEvents} \subseteq Nat \ {0}
    /\ FlushTimes \cup SetBackTo \cup {StartTime, MaxUnits, MaxMishaps} \subseteq Nat
    /\ LeftBehind \in [events : SUBSET StepEvents, means : [Polled -> SUBSET Samples]]
    /\ Cardinality(LeftBehind.events) <= MaxStepEvents
    /\ \A e \in LeftBehind.events : IsWhole(e)
    /\ \A table \in {LeftBehind.events} \cup Range(LeftBehind.means) :
          /\ HasKeys(table) /\ IsFiniteSet(table)
          /\ \A row \in table : row.at < StartTime

VARIABLES
    now,      \* SystemTime::now()
    proc,     \* "up"; "final": the last flush of a graceful stop; "down"
    rings,    \* MemState::series
    open,     \* MemState::pending_minutes: the bucket of each minute
    cache,    \* step_events_cache: the events that are served
    pending,  \* pending_step_events, as the rows its inserts make
    disk,     \* the tables STEP_EVENTS and SERIES_MINUTES
    flush,    \* the flush in progress
    sweep,    \* the sweep of the poller: its stamp, and what it has yet to read
    base,     \* baseline_flow
    active,   \* the event in progress
    age,      \* for EventsEnd: units that passed since the event in progress began
              \* or the clock was last set back, whatever the clock says
    ticks,    \* which tasks have had their tick in this unit
    limits,   \* what is left of the bounds
    seen      \* for the properties: this process's samples, and what went wrong

vars == <<now, proc, rings, open, cache, pending, disk, flush, sweep, base, active,
          age, ticks, limits, seen>>
store    == <<rings, open, cache, pending>>
recorder == <<base, active, age>>

\* What a sweep will read, sensor by sensor.
Found(f) == [i \in DOMAIN SENSORS |-> [sensor |-> SENSORS[i], v |-> f[SENSORS[i]]]]

AreBuckets(b) == DOMAIN b \subseteq 0..MaxTime /\ b \in [DOMAIN b -> [sum : Int, n : Nat]]

TypeOK ==
    /\ now \in 0..MaxTime
    /\ proc \in {"up", "final", "down"}
    /\ rings \in [Polled -> Seq(Samples)]
    /\ DOMAIN open = Polled /\ \A s \in Polled : AreBuckets(open[s])
    /\ cache \in Seq(StepEvents) /\ Len(cache) <= MaxStepEvents
    /\ pending \subseteq StepEvents
    /\ disk \in [events : SUBSET StepEvents, means : [Polled -> SUBSET Samples]]
    /\ flush \in [pc : {"idle", "taken"}, events : SUBSET StepEvents,
                   means : [Polled -> SUBSET Samples], cutoff : Int]
    /\ sweep \in [at : 0..MaxTime, left : Seq([sensor : Polled, v : Int])]
    /\ \E i \in 0..Len(SENSORS), f \in Situations :
          sweep.left = SubSeq(Found(f), i + 1, Len(SENSORS))
    /\ base \in Int \cup {Nothing}
    /\ active \in StepEvents \cup {Nothing} /\ age \in Nat
    /\ ticks \in [sweep : BOOLEAN, recorder : BOOLEAN, flush : BOOLEAN]
    /\ limits \in [units : 0..MaxUnits, mishaps : 0..MaxMishaps]
    /\ seen \in [samples : [Polled -> Seq(Samples)], back : BOOLEAN, lost : BOOLEAN]

NoMeans == [s \in Polled |-> {}]
NoRings == [s \in Polled |-> <<>>]
NoBuckets == [s \in Polled |-> [m \in {} |-> 0]]
Idle    == [pc |-> "idle", events |-> {}, means |-> NoMeans, cutoff |-> 0]
Unticked == [sweep |-> FALSE, recorder |-> FALSE, flush |-> FALSE]

Init ==
    /\ now = StartTime /\ proc = "down"
    /\ rings = NoRings /\ open = NoBuckets /\ cache = <<>> /\ pending = {}
    /\ disk = LeftBehind
    /\ flush = Idle
    /\ sweep = [at |-> 0, left |-> <<>>]
    /\ base = Nothing /\ active = Nothing /\ age = 0
    /\ ticks = Unticked
    /\ limits = [units |-> MaxUnits, mishaps |-> MaxMishaps]
    /\ seen = [samples |-> [s \in Polled |-> Refilled(LeftBehind.means[s], StartTime)],
               back |-> FALSE, lost |-> FALSE]

(***************************************************************************)
(* The sensor poller.                                                      *)
(***************************************************************************)

SweepStarts ==
    /\ proc = "up" /\ ~ticks.sweep /\ sweep.left = <<>>
    /\ \E f \in Situations : sweep' = [at |-> now, left |-> Found(f)]
    /\ ticks' = [ticks EXCEPT !.sweep = TRUE]
    /\ UNCHANGED <<now, proc, store, disk, flush, recorder, limits, seen>>

Mishap == limits.mishaps > 0 /\ limits' = [limits EXCEPT !.mishaps = @ - 1]

SensorRead ==
    /\ sweep.left # <<>>
    /\ LET s == Head(sweep.left).sensor
           v == Head(sweep.left).v IN
       /\ rings' = [rings EXCEPT ![s] = Recorded(@, sweep.at, v)]
       /\ open' = [open EXCEPT ![s] = Added(@, sweep.at, v)]
       /\ seen' = [seen EXCEPT !.samples[s] = Append(@, [at |-> sweep.at, v |-> v])]
    /\ sweep' = [sweep EXCEPT !.left = Tail(@)]
    /\ UNCHANGED <<now, proc, cache, pending, disk, flush, recorder, ticks, limits>>

\* A timeout or a Modbus error: the sensor is skipped.
SensorMissed ==
    /\ sweep.left # <<>>
    /\ Mishap
    /\ sweep' = [sweep EXCEPT !.left = Tail(@)]
    /\ UNCHANGED <<now, proc, store, disk, flush, recorder, ticks, seen>>

(***************************************************************************)
(* The recorder.                                                           *)
(***************************************************************************)

\* 90 % of the way from the return temperature to the new flow temperature.
\* There is no way to go when the two are equal.
Settled(e, ret) ==
    LET span == e.after - e.ret
        observed == ret - e.ret
    IN \/ span > 0 /\ 10 * observed >= 9 * span
       \/ span < 0 /\ 10 * observed <= 9 * span
AlwaysStep(e) == FALSE   \* slip: an event with nowhere to go waits for the window
NoStep(e) == e.after = e.ret
Closes(e, ret, elapsed) == Settled(e, ret) \/ NoStep(e) \/ elapsed >= Observe

FirstOf(s, n) == SubSeq(s, 1, IF n > Len(s) THEN Len(s) ELSE n)

\* record_step_event
CachedUnbounded(e) == <<e>> \o cache   \* slip: no cap on the list
Cached(e) == FirstOf(<<e>> \o cache, MaxStepEvents)

\* Inserts of rows under their keys, in order.
Inserted(table, rows) == {t \in table : \A r \in rows : r.at # t.at} \cup rows

Flow == Latest(rings.Flow).v
Return == Latest(rings.Return).v
Readable == rings.Flow # <<>> /\ rings.Return # <<>>

\* elapsed_since; Backstep stands for the sentinel u32::MAX.
Backstep == -1
ElapsedSaturating(start) == IF start > now THEN 0 ELSE now - start   \* the earlier code
Elapsed(start) == IF start > now THEN Backstep ELSE now - start

\* The clock stands before the event's start: the event is dropped.
ClockAnomaly ==
    /\ active # Nothing
    /\ Elapsed(active.at) = Backstep
    /\ active' = Nothing /\ base' = Flow
    /\ UNCHANGED <<cache, pending>>

Observes ==
    /\ active # Nothing
    /\ Elapsed(active.at) # Backstep
    /\ LET elapsed == Elapsed(active.at)
           e == [active EXCEPT !.samples =
                    Append(@, [el |-> elapsed, flow |-> Flow, ret |-> Return])]
       IN \/ /\ Closes(active, Return, elapsed)
             /\ cache' = Cached(e)
             /\ pending' = Inserted(pending, {e})
             /\ base' = Flow /\ active' = Nothing
          \/ /\ ~Closes(active, Return, elapsed)
             /\ active' = e
             /\ UNCHANGED <<cache, pending, base>>

IsStep == base # Nothing /\ Abs(Flow - base) >= Threshold

\* The baseline stays while an event is in progress.
StepDetected ==
    /\ active = Nothing
    /\ IsStep
    /\ active' = [at |-> now, before |-> base, after |-> Flow, ret |-> Return,
                  samples |-> <<[el |-> 0, flow |-> Flow, ret |-> Return]>>]
    /\ UNCHANGED <<base, cache, pending>>

FlowStable ==
    /\ active = Nothing
    /\ ~IsStep
    /\ base' = Flow
    /\ UNCHANGED <<active, cache, pending>>

RecorderTick ==
    /\ proc = "up" /\ ~ticks.recorder
    /\ ticks' = [ticks EXCEPT !.recorder = TRUE]
    /\ \/ Readable /\ (ClockAnomaly \/ Observes \/ StepDetected \/ FlowStable)
       \/ ~Readable /\ UNCHANGED <<base, active, cache, pending>>
    /\ age' = IF Nothing \in {active, active'} THEN 0 ELSE age
    /\ UNCHANGED <<now, proc, rings, open, disk, flush, sweep, limits, seen>>

(***************************************************************************)
(* flush(): what is pending is taken under the lock and committed without. *)
(***************************************************************************)

FlushTakes ==
    /\ flush.pc = "idle"
    /\ flush' = [pc |-> "taken", events |-> pending,
                 means |-> [s \in Polled |-> Finalized(open[s], now)],
                 cutoff |-> now - Retention]
    /\ pending' = {}
    /\ open' = [s \in Polled |-> StillOpen(open[s], now)]
    /\ UNCHANGED <<now, proc, rings, cache, disk, sweep, recorder, seen>>

HourlyFlush ==
    /\ proc = "up"
    /\ now \in FlushTimes /\ ~ticks.flush
    /\ ticks' = [ticks EXCEPT !.flush = TRUE]
    /\ FlushTakes
    /\ UNCHANGED limits

FinalFlush == proc = "final" /\ FlushTakes /\ UNCHANGED <<ticks, limits>>

KeptOldest(events) ==   \* slip: the newest rows are the ones dropped
    {e \in events : Cardinality({f \in events : f.at < e.at}) < MaxStepEvents}
Kept(events) == {e \in events : Cardinality({f \in events : f.at > e.at}) < MaxStepEvents}

\* The final flush is the last thing the process does.
Resumed == IF proc = "final" THEN "down" ELSE proc

FlushCommits ==
    /\ flush.pc = "taken"
    /\ disk' = [events |-> Kept(Inserted(disk.events, flush.events)),
                means  |-> [s \in Polled |->
                    {m \in Inserted(disk.means[s], flush.means[s]) : m.at >= flush.cutoff}]]
    /\ flush' = Idle
    /\ proc' = Resumed
    /\ UNCHANGED <<now, store, sweep, recorder, ticks, limits, seen>>

FlushFails ==
    /\ flush.pc = "taken"
    /\ Mishap
    /\ flush' = Idle
    /\ seen' = [seen EXCEPT !.lost = TRUE]
    /\ proc' = Resumed
    /\ UNCHANGED <<now, store, disk, sweep, recorder, ticks>>

(***************************************************************************)
(* The process and the clock.                                              *)
(***************************************************************************)

\* A graceful stop: poller and recorder end, and with it an event in progress.
Stops ==
    /\ proc = "up" /\ Mishap
    /\ flush.pc = "idle"   \* main() waits for the task of the hourly flush
    /\ proc' = "final"
    /\ sweep' = [sweep EXCEPT !.left = <<>>]
    /\ active' = Nothing /\ base' = Nothing /\ age' = 0
    /\ UNCHANGED <<now, store, disk, flush, ticks, seen>>

Dies ==
    /\ proc # "down" /\ Mishap
    /\ proc' = "down"
    /\ sweep' = [sweep EXCEPT !.left = <<>>]
    /\ active' = Nothing /\ base' = Nothing /\ age' = 0
    /\ flush' = Idle
    /\ UNCHANGED <<now, store, disk, ticks, seen>>

NewestFirst(events) ==
    CHOOSE list \in [1..Cardinality(events) -> events] :
        \A i, j \in DOMAIN list : i < j => list[i].at > list[j].at
HydratedEvents(events) == NewestFirst(Kept(events))

\* recent_step_events, for get_step_response
LimitOf(q) == IF q < 1 THEN 1 ELSE IF q > MaxStepEvents THEN MaxStepEvents ELSE q
GetStepResponse(q) == FirstOf(cache, LimitOf(q))

\* Store::open
Opens ==
    /\ proc = "down"
    /\ proc' = "up"
    /\ rings' = [s \in Polled |-> Refilled(disk.means[s], now)]
    /\ open' = NoBuckets
    /\ cache' = HydratedEvents(disk.events)
    /\ pending' = {}
    /\ ticks' = Unticked
    /\ seen' = [seen EXCEPT !.samples = rings', !.lost = FALSE]
    /\ UNCHANGED <<now, disk, flush, sweep, recorder, limits>>

\* A unit in which both tasks have had their tick, or the process is down.
TimePasses ==
    /\ limits.units > 0
    /\ limits' = [limits EXCEPT !.units = @ - 1]
    /\ proc = "up" => ticks.recorder /\ (ticks.sweep \/ sweep.left # <<>>)
    /\ now' = now + 1
    /\ age' = IF active = Nothing THEN 0 ELSE age + 1
    /\ ticks' = Unticked
    /\ UNCHANGED <<proc, store, disk, flush, sweep, base, active, seen>>

ClockSetBack ==
    /\ Mishap
    /\ now' \in {t \in SetBackTo : t < now}
    /\ age' = 0
    /\ seen' = [seen EXCEPT !.back = TRUE]
    /\ ticks' = Unticked
    /\ UNCHANGED <<proc, store, disk, flush, sweep, base, active>>

Next ==
    \/ SweepStarts \/ SensorRead \/ SensorMissed \/ RecorderTick
    \/ HourlyFlush \/ FinalFlush \/ FlushCommits \/ FlushFails
    \/ Stops \/ Dies \/ Opens \/ TimePasses \/ ClockSetBack

Spec == Init /\ [][Next]_vars

(***************************************************************************)
(* Properties.                                                             *)
(***************************************************************************)

\* The events that exist: written, being written or waiting to be.
Events == disk.events \cup flush.events \cup pending

\* What the API serves is what a restart would serve: the list holds the
\* newest of all events there are, newest first, though it is filled in the
\* order events close and read back in the order of their keys, cut off in
\* memory and pruned on disk by two different rules.  Not when a flush failed
\* and its events are gone, nor when the clock was set back.
ServedEventsAreKept ==
    proc = "up" /\ ~seen.back /\ ~seen.lost =>
        \A q \in 0..MaxStepEvents + 1 :
            GetStepResponse(q) = FirstOf(HydratedEvents(Events), LimitOf(q))

\* Whatever is served or written is an event from its step to its answer
\* (IsWhole), over missed readings, restarts and settings of the clock: neither
\* cut off by the process nor carried on after the answer.
EventsAreWhole == \A e \in Range(cache) \cup Events : IsWhole(e)

\* What is served of the last hours is what the sensors said.  The series of a
\* sensor has a point for each minute with a sample, the mean of all samples
\* the process has seen in it.  On the timeline a lane is on at an instant
\* exactly when the latest samples by then say so, and before the first sample
\* as at the first; two bars of a lane do not touch.  Meanwhile the ring has
\* evicted samples, was filled from means, and the poller is in the middle of a
\* sweep or has skipped sensors.
InWindow(s, q) == {x \in Range(seen.samples[s]) : x.at >= From(now, q)}
AsOf(s, u, q) ==
    LET by == {x \in InWindow(s, q) : x.at <= u}
    IN IF by = {} THEN Unknown ELSE (CHOOSE x \in by : \A y \in by : y.at <= x.at).v
Says(lane, u, q) ==
    LET sys == AsOf("SystemStatus", u, q)
        hp  == AsOf("HpStatus", u, q)
    IN \/ lane = "brine" /\ AsOf("BrinePump", u, q) > 0
       \/ lane = "heating" /\ HeatingOn(sys, hp)
       \/ lane = "dhw" /\ DhwOn(sys, hp)
LanesMatchFor(q) ==
    LET all   == UNION {InWindow(s, q) : s \in ActivitySensors}
        first == Min({x.at : x \in all})
        shown == GetActivity(rings, now, q)
    IN IF all = {} THEN shown = {}
       ELSE /\ \A lane \in Lanes, u \in From(now, q)..now - 1 :
                  (\E b \in shown : b.lane = lane /\ b.start <= u /\ u < b.end)
                  <=> Says(lane, IF u < first THEN first ELSE u, q)
            /\ \A a, b \in shown :
                  a.lane = b.lane /\ a # b => a.end < b.start \/ b.end < a.start
SeriesMatchFor(q) ==
    \A s \in Polled :
        LET in == InWindow(s, q)
            minutes == {x.at \div PerMinute : x \in in}
            of(m) == {x \in in : x.at \div PerMinute = m}
        IN GetSeries(rings, s, now, q).points =
              {[at |-> m * PerMinute,
                v  |-> MapThenSumSet(LAMBDA x : x.v, of(m)) \div Cardinality(of(m))] :
                  m \in minutes}
HistoryIsTrue ==
    proc = "up" /\ ~seen.back =>
        \A q \in {1, MaxHours} : LanesMatchFor(q) /\ SeriesMatchFor(q)

\* An event is over when a window's length of time has passed since it began, or
\* since the clock was last set back, and the recorder has had its ticks: whether
\* the clock stands before the start of the event then or after, whatever sensor
\* was missed (elapsed_since: an earlier version "kept `elapsed >= OBSERVE_SECS`
\* permanently false and froze the recorder in the in-progress cycle").
EventsEnd == active # Nothing => age <= Observe

\* Flow readings a tick apart make a step: "flow-temperature delta between
\* consecutive ticks ...  Below this, normal heat-curve drift is ignored".
\* After an outage or a restart the reading before it is compared.
StepsAreSudden ==
    [][active = Nothing /\ active' # Nothing =>
        LET n == Len(rings.Flow) IN rings.Flow[n].at - rings.Flow[n - 1].at <= PerMinute]_vars

\* A restart leaves the timeline of the minutes on disk alone: "the dashboard's
\* graphs render the pre-restart history immediately" (storage/mod.rs).  The
\* code of a status averaged over a minute may be another status.
RestartKeepsLanes ==
    [][proc = "down" /\ proc' = "up" /\ ~seen.back =>
        \A b \in GetActivity(rings', now, MaxHours) :
            \E x \in UNION {Range(seen.samples[s]) : s \in ActivitySensors} :
                \E u \in b.start..b.end - 1 : Says(b.lane, u, MaxHours)]_vars
=============================================================================
