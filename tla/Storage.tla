------------------------------ MODULE Storage -------------------------------
(***************************************************************************)
(* The store of storage/mod.rs: an in-memory mirror that every task        *)
(* writes, and a redb database that `flush` writes, at most once an hour,  *)
(* from what the mirror holds as pending.  A flush takes the pending rows  *)
(* under the lock, commits them without it, and takes the lock again to    *)
(* mark the mirror clean: other tasks write in between, the commit can     *)
(* fail and the process can die.  The sensor poller of storage/poller.rs   *)
(* is here too, because it stamps a whole sweep with one reading of the    *)
(* clock.                                                                  *)
(*                                                                         *)
(* Time is counted in units; a minute has PerMinute of them.  A sample of  *)
(* HpStatus is "compressor on" or not, the values of other sensors are not *)
(* told apart; the mean of a minute is the set of its samples.  Runs are   *)
(* shorter than the 24 h after which samples are dropped.  Step events are *)
(* queued and written like daily rows and left out.                        *)
(***************************************************************************)
EXTENDS Integers, Sequences, FiniteSets, FiniteSetsExt

CONSTANTS
    SENSORS,         \* the sensors of a sweep, in the poller's order
    PerMinute,       \* units in a minute
    LegacyCycles,    \* the cycles in a heatpump_stats JSON of the old program
    LegacyTotal,     \* and its lifetime counters
    MaxTime,         \* bound: the clock
    MaxFlushes,      \* bound: flushes of the hourly task
    MaxCommitFaults, \* bound: flushes whose transaction fails
    MaxMissed,       \* bound: reads of a sensor that fail
    MaxEnds          \* bound: deaths and graceful stops of the process

ASSUME StorageAssumption ==
    /\ PerMinute \in Nat \ {0}
    /\ SENSORS \in Seq(STRING) /\ SENSORS # <<>>
    /\ MaxTime \in Nat /\ MaxFlushes \in Nat /\ MaxCommitFaults \in Nat
    /\ MaxMissed \in Nat /\ MaxEnds \in Nat
    /\ LegacyCycles \in Seq([at : 0..MaxTime, secs : Nat])
    /\ LegacyTotal \in [tracked : {TRUE}, starts : Nat, secs : Nat]
    /\ Len(LegacyCycles) <= LegacyTotal.starts   \* it counted a start for each

VARIABLES
    now,     \* SystemTime::now()
    proc,    \* where main.rs is; see Procs
    mem,     \* MemState
    disk,    \* the tables of the database
    legacy,  \* the JSON of the old program: in place, and cycles yet to import
    sweep,   \* the sensor poller's last sweep: its stamp and the sensors left
    flush,   \* the flush in progress
    limits   \* what is left of the bounds, and what this run has seen

storeVars == <<now, proc, mem, disk, legacy, sweep, flush, limits>>

\* "opened": the tables are read; "importing", "imported": the legacy file;
\* "up": every task runs; "cancelled": main() has a signal and waits for them;
\* "final": the last flush; "stopped": main() returns; "stranded": a task has
\* cancelled the token and main() knows nothing of it.
Procs == {"down", "opened", "importing", "imported", "up", "stranded", "cancelled",
          "final", "stopped"}

Instants == 0..MaxTime
Minute(t) == t \div PerMinute
Sensors == {SENSORS[i] : i \in DOMAIN SENSORS}

Accumulators == [tracked : BOOLEAN, starts : Nat, secs : Nat]
DefaultAccumulators == [tracked |-> FALSE, starts |-> 0, secs |-> 0]
Cycles  == [at : Instants, seq : Nat, secs : Nat]
Daily   == [day : Nat, starts : Nat, secs : Nat]
Samples == [at : Instants, on : BOOLEAN]
Buckets == [sensor : Sensors, minute : Nat, of : SUBSET Samples]
Means   == [sensor : Sensors, minute : Nat, of : SUBSET Samples, on : BOOLEAN]
Points  == [sensor : Sensors, at : Nat, on : BOOLEAN, live : BOOLEAN]
MemStates == [ring : SUBSET Points, acc : Accumulators, cycles : SUBSET Cycles,
              daily : SUBSET Daily, open : SUBSET Buckets, seq : [Instants -> Nat],
              dirty : BOOLEAN, moved : BOOLEAN]
Tables  == [acc : Accumulators, cycles : SUBSET Cycles, daily : SUBSET Daily,
            means : SUBSET Means]
Flushes == [pc : {"idle", "taken", "committed"},
            caller : {"none", "hourly", "import", "final"}, cycles : SUBSET Cycles,
            daily : SUBSET Daily, means : SUBSET Means, acc : Accumulators]
Imports == [file : BOOLEAN, left : Seq([at : Instants, secs : Nat])]
Sweeps  == [at : Instants \cup {-1}, left : Seq(Sensors)]
Limits  == [flushes : Nat, commits : Nat, missed : Nat, ends : Nat, died : BOOLEAN,
            lost : BOOLEAN, late : BOOLEAN, imported : BOOLEAN, outage : Instants \cup {-1}]

TotalSecs(rows) == MapThenSumSet(LAMBDA r : r.secs, rows)
SameCycle(a, b) == a.at = b.at /\ a.seq = b.seq
SameMean(a, b)  == a.sensor = b.sensor /\ a.minute = b.minute
SameDay(a, b)   == a.day = b.day
\* Table::insert: a row replaces the one under its key.
Inserted(table, rows, Same(_, _)) ==
    {t \in table : \A r \in rows : ~Same(t, r)} \cup rows

Emptied == [pc |-> "idle", caller |-> "none", cycles |-> {}, daily |-> {},
            means |-> {}, acc |-> DefaultAccumulators]
NoSweep == [at |-> -1, left |-> <<>>]

\* The next sequence number of a second: one more than any on disk at open,
\* counted on from there.
NextSeq(rows, s) ==
    LET used == {c.seq : c \in {r \in rows : r.at = s}}
    IN IF used = {} THEN 0 ELSE Max(used) + 1

\* What a fresh MemState holds after open() has read the tables.  The trend
\* ring is filled with one point for each minute on disk.
Hydrated(d) ==
    [ring   |-> {[sensor |-> m.sensor, at |-> m.minute * PerMinute, on |-> m.on,
                  live |-> FALSE] : m \in d.means},
     acc    |-> d.acc, cycles |-> {}, daily |-> {}, open |-> {},
     seq    |-> [s \in Instants |-> NextSeq(d.cycles, s)],
     dirty  |-> FALSE, moved |-> FALSE]

EmptyDisk == [acc |-> DefaultAccumulators, cycles |-> {}, daily |-> {}, means |-> {}]

StoreInit ==
    /\ now = 0
    /\ proc = "down"
    /\ disk = EmptyDisk
    /\ mem = Hydrated(EmptyDisk)
    /\ legacy \in [file : BOOLEAN, left : {<<>>}]
    /\ sweep = NoSweep
    /\ flush = Emptied
    /\ limits = [flushes |-> MaxFlushes, commits |-> MaxCommitFaults, missed |-> MaxMissed,
                 ends |-> MaxEnds, died |-> FALSE, lost |-> FALSE, late |-> FALSE,
                 imported |-> FALSE, outage |-> -1]

\* mark_dirty.  `moved` stands for dirty_gen # gen_at_snapshot.
Marked(m) == [m EXCEPT !.dirty = TRUE, !.moved = TRUE]

WithSameSeq(m, at, secs) ==   \* slip: the second's sequence is not bumped
    Marked([m EXCEPT !.cycles = @ \cup {[at |-> at, seq |-> m.seq[at], secs |-> secs]}])
\* record_cycle
WithCycle(m, at, secs) ==
    Marked([m EXCEPT !.seq[at] = @ + 1,
                     !.cycles = @ \cup {[at |-> at, seq |-> m.seq[at], secs |-> secs]}])
\* upsert_daily
WithDaily(m, row) == Marked([m EXCEPT !.daily = Inserted(@, {row}, SameDay)])
\* set_accumulators
WithAccumulators(m, acc) == Marked([m EXCEPT !.acc = acc])

\* record_sample: into the trend ring and into the bucket of its minute.
BucketOf(m, sensor, t) ==
    UNION {b.of : b \in {o \in m.open : o.sensor = sensor /\ o.minute = Minute(t)}}
WithSample(m, sensor, t, on) ==
    Marked([m EXCEPT
        !.ring = @ \cup {[sensor |-> sensor, at |-> t, on |-> on, live |-> TRUE]},
        !.open = Inserted(@, {[sensor |-> sensor, minute |-> Minute(t),
                               of |-> BucketOf(m, sensor, t) \cup {[at |-> t, on |-> on]}]},
                          SameMean)])

\* latest_sample
Latest(sensor) ==
    LET points == {p \in mem.ring : p.sensor = sensor}
    IN {p \in points : \A q \in points : q.at <= p.at}

(***************************************************************************)
(* The sensor poller.                                                      *)
(***************************************************************************)

SweepStarts ==
    /\ proc \in {"opened", "importing", "imported", "up"}
    /\ sweep.left = <<>>
    /\ sweep.at < now   \* one sweep in a unit
    /\ sweep' = [at |-> now, left |-> SENSORS]
    /\ UNCHANGED <<now, proc, mem, disk, legacy, flush, limits>>

\* The sweep goes on to the next sensor, unless the token is cancelled.
SweepGoesOn ==
    sweep' = [sweep EXCEPT !.left = IF proc \in {"stranded", "cancelled"}
                                       THEN <<>> ELSE Tail(@)]

\* A sample for a minute that is over and written, or about to be.
IsLate(sensor, t) ==
    /\ Minute(t) < Minute(now)
    /\ \E r \in disk.means \cup flush.means : r.sensor = sensor /\ r.minute = Minute(t)

SensorRead(on) ==
    /\ sweep.left # <<>>
    /\ Head(sweep.left) # "HpStatus" => ~on
    /\ mem' = WithSample(mem, Head(sweep.left), sweep.at, on)
    /\ limits' = [limits EXCEPT !.late = @ \/ IsLate(Head(sweep.left), sweep.at)]
    /\ SweepGoesOn
    /\ UNCHANGED <<now, proc, disk, legacy, flush>>

\* A timeout or a Modbus error: the sensor is skipped.
SensorMissed ==
    /\ sweep.left # <<>>
    /\ limits.missed > 0
    /\ limits' = [limits EXCEPT !.missed = @ - 1,
         !.outage = IF Head(sweep.left) = "HpStatus" THEN sweep.at ELSE @]
    /\ SweepGoesOn
    /\ UNCHANGED <<now, proc, mem, disk, legacy, flush>>

(***************************************************************************)
(* flush(), called by the hourly task, by the import of the legacy file    *)
(* and at the end of a graceful shutdown.                                  *)
(***************************************************************************)

\* What `as u16` and 3..=5 make of the mean of a minute of HpStatus.  The mean
\* of codes on both sides, or of several codes that mean "off", may be any.
MeanReads(of) ==
    IF \A x \in of : x.on THEN {TRUE}
    ELSE IF Cardinality(of) = 1 THEN {FALSE} ELSE BOOLEAN

IsOver(b) == b.minute < Minute(now)

\* The first lock section.  Buckets of minutes that are over become means.
FlushTakes(caller) ==
    /\ flush.pc = "idle"
    /\ mem.dirty
    /\ LET over == {b \in mem.open : IsOver(b)} IN
       /\ \E reads \in [over -> BOOLEAN] :
            /\ \A b \in over : reads[b] \in MeanReads(b.of)
            /\ flush' = [pc |-> "taken", caller |-> caller, cycles |-> mem.cycles,
                         daily |-> mem.daily, acc |-> mem.acc,
                         means |-> {[sensor |-> b.sensor, minute |-> b.minute,
                                     of |-> b.of, on |-> reads[b]] : b \in over}]
       /\ mem' = [mem EXCEPT !.cycles = {}, !.daily = {}, !.open = @ \ over,
                             !.moved = FALSE]
    /\ UNCHANGED <<now, proc, disk, legacy, sweep>>

\* The transaction commits, all tables at once.
FlushCommits ==
    /\ flush.pc = "taken"
    /\ disk' = [acc    |-> flush.acc,
                cycles |-> Inserted(disk.cycles, flush.cycles, SameCycle),
                daily  |-> Inserted(disk.daily, flush.daily, SameDay),
                means  |-> Inserted(disk.means, flush.means, SameMean)]
    /\ flush' = [flush EXCEPT !.pc = "committed"]
    /\ limits' = [limits EXCEPT !.imported = @ \/ flush.caller = "import"]
    /\ UNCHANGED <<now, proc, mem, legacy, sweep>>

\* What main.rs goes on to when the flush it waits for is over.
Resumed(caller) ==
    CASE caller = "import" -> "imported"
      [] caller = "final"  -> "stopped"
      [] OTHER             -> proc

\* Any `?` before the end of commit(): what was taken is gone, and the mirror
\* stays dirty.  An import that fails leaves the legacy file in place.
FlushFails ==
    /\ flush.pc = "taken"
    /\ limits.commits > 0
    /\ limits' = [limits EXCEPT !.commits = @ - 1, !.lost = TRUE]
    /\ flush' = Emptied
    /\ proc' = Resumed(flush.caller)
    /\ UNCHANGED <<now, mem, disk, legacy, sweep>>

\* The second lock section; an import then renames the legacy file.
CleanMark(m) == IF m.moved THEN m ELSE [m EXCEPT !.dirty = FALSE]
FlushEnds ==
    /\ flush.pc = "committed"
    /\ mem' = CleanMark(mem)
    /\ flush' = Emptied
    /\ proc' = Resumed(flush.caller)
    /\ legacy' = [legacy EXCEPT !.file = @ /\ flush.caller # "import"]
    /\ UNCHANGED <<now, disk, sweep, limits>>

HourlyFlush ==
    /\ proc = "up"
    /\ FlushTakes("hourly")
    /\ limits.flushes > 0
    /\ limits' = [limits EXCEPT !.flushes = @ - 1]

(***************************************************************************)
(* Start, import of the legacy file, shutdown and crash (main.rs).         *)
(***************************************************************************)

Open ==
    /\ proc = "down"
    /\ proc' = "opened"
    /\ mem' = Hydrated(disk)
    /\ UNCHANGED <<now, disk, legacy, sweep, flush, limits>>

ImportWanted == legacy.file /\ mem.acc = DefaultAccumulators

NoImport ==
    /\ proc = "opened"
    /\ ~ImportWanted
    /\ proc' = "imported"
    /\ UNCHANGED <<now, mem, disk, legacy, sweep, flush, limits>>

\* set_accumulators; the cycles follow one call at a time, then daily rows,
\* which are left out.
ImportStarts ==
    /\ proc = "opened"
    /\ ImportWanted
    /\ proc' = "importing"
    /\ mem' = WithAccumulators(mem, LegacyTotal)
    /\ legacy' = [legacy EXCEPT !.left = LegacyCycles]
    /\ UNCHANGED <<now, disk, sweep, flush, limits>>

ImportsCycle ==
    /\ proc = "importing"
    /\ legacy.left # <<>>
    /\ mem' = WithCycle(mem, Head(legacy.left).at, Head(legacy.left).secs)
    /\ legacy' = [legacy EXCEPT !.left = Tail(@)]
    /\ UNCHANGED <<now, proc, disk, sweep, flush, limits>>

ImportFlush ==
    /\ proc = "importing"
    /\ legacy.left = <<>>
    /\ FlushTakes("import")
    /\ UNCHANGED limits

\* SIGTERM: main() cancels the token and waits for the tasks.
Signal ==
    /\ \/ proc = "up" /\ limits.ends > 0 /\ limits' = [limits EXCEPT !.ends = @ - 1]
       \/ proc = "stranded" /\ UNCHANGED limits
    /\ proc' = "cancelled"
    /\ UNCHANGED <<now, mem, disk, legacy, sweep, flush>>

\* A background task panics, one of those that are not in this model:
\* spawn_with_shutdown cancels the token.
TaskPanics ==
    /\ proc = "up"
    /\ limits.ends > 0
    /\ limits' = [limits EXCEPT !.ends = @ - 1]
    /\ proc' = "stranded"
    /\ UNCHANGED <<now, mem, disk, legacy, sweep, flush>>

\* A sweep that hangs in a read for 5 s is aborted.
SweepAborted ==
    /\ proc = "cancelled"
    /\ sweep.left # <<>>
    /\ sweep' = [sweep EXCEPT !.left = <<>>]
    /\ UNCHANGED <<now, proc, mem, disk, legacy, flush, limits>>

FinalFlush ==
    /\ proc = "final"
    /\ FlushTakes("final")
    /\ UNCHANGED limits

\* flush() returns at once when nothing is dirty.
NoFinalFlush ==
    /\ proc = "final"
    /\ flush.pc = "idle"
    /\ ~mem.dirty
    /\ proc' = "stopped"
    /\ UNCHANGED <<now, mem, disk, legacy, sweep, flush, limits>>

\* What a process leaves: the database and the legacy file.
Vanishes ==
    /\ proc' = "down"
    /\ mem' = Hydrated(EmptyDisk)
    /\ legacy' = [legacy EXCEPT !.left = <<>>]
    /\ sweep' = NoSweep
    /\ flush' = Emptied
    /\ UNCHANGED <<now, disk>>

Exit == proc = "stopped" /\ Vanishes /\ UNCHANGED limits

Crash ==
    /\ proc \notin {"down", "stopped"}
    /\ limits.ends > 0
    /\ limits' = [limits EXCEPT !.ends = @ - 1, !.died = TRUE]
    /\ Vanishes

TimePasses ==
    /\ now < MaxTime
    /\ proc = "up" => sweep.at = now \/ sweep.left # <<>>   \* the poller's ticks
    /\ now' = now + 1
    /\ UNCHANGED <<proc, mem, disk, legacy, sweep, flush, limits>>

\* Everything but the end of a start, the wait for the tasks and a crash,
\* which also concern the statistics.
StoreNext ==
    \/ SweepStarts \/ (\E on \in BOOLEAN : SensorRead(on)) \/ SensorMissed \/ SweepAborted
    \/ HourlyFlush \/ ImportFlush \/ FinalFlush \/ FlushCommits \/ FlushFails \/ FlushEnds
    \/ NoFinalFlush \/ Open \/ NoImport \/ ImportStarts \/ ImportsCycle \/ Signal
    \/ TaskPanics \/ TimePasses
=============================================================================
