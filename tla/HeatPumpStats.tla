--------------------------- MODULE HeatPumpStats ----------------------------
(***************************************************************************)
(* The compressor statistics of heatpump/stats.rs and their poller         *)
(* (heatpump/poller.rs), on the store: the poller reads the latest         *)
(* HpStatus from the store's ring, update_state follows the compressor     *)
(* under its own lock and afterwards hands a closed cycle, an archived day *)
(* and the lifetime counters to the store, in three calls between which a  *)
(* flush or a crash may come.  The history that survives is their product. *)
(*                                                                         *)
(* Of the rolling windows only the day is kept: it is the one that is      *)
(* archived and that splits a cycle.  Temperatures are left out.           *)
(***************************************************************************)
EXTENDS Storage

CONSTANT PerDay   \* units in a day
ASSUME StatsAssumption == PerDay \in Nat \ {0} /\ "HpStatus" \in Sensors

VARIABLES
    stats,   \* HeatPumpStatsInner
    writes   \* the store calls update_state has still to make

vars == <<storeVars, stats, writes>>

DayOf(t) == t \div PerDay
DayStart(d) == d * PerDay
Larger(a, b) == IF a > b THEN a ELSE b
Minus(a, b) == IF a > b THEN a - b ELSE 0   \* saturating_sub

\* new_with_store_and_tz.  `from` is history: the day and the totals the
\* tracker came up with.
FreshStats(acc, t) ==
    [initialized |-> FALSE, observed |-> FALSE, on |-> FALSE, since |-> t,
     credited |-> 0, day |-> DayOf(t), dayStarts |-> 0, daySecs |-> 0,
     starts |-> acc.starts, secs |-> acc.secs,
     from |-> [day |-> DayOf(t), starts |-> acc.starts, secs |-> acc.secs]]

Init ==
    /\ StoreInit
    /\ stats = FreshStats(DefaultAccumulators, 0)
    /\ writes = <<>>

\* mark_poll_failed
PollFailed(s) ==
    LET back == IF s.on /\ s.observed THEN s.credited ELSE 0 IN
    [s EXCEPT !.daySecs = Minus(@, back), !.observed = FALSE, !.credited = 0,
              !.initialized = FALSE]

\* check_window_rollovers: the seconds of the running cycle that belong to the
\* day that is over, that day's row, and the counters of the new day.
Rolled(s) == DayOf(now) # s.day
PreMidnight(s) ==
    IF Rolled(s) /\ s.on /\ s.observed
    THEN Minus(DayStart(DayOf(now)), Larger(s.since, DayStart(s.day))) ELSE 0
Archived(s) ==
    IF Rolled(s) /\ (s.dayStarts # 0 \/ s.daySecs + PreMidnight(s) # 0)
    THEN {[day |-> s.day, starts |-> s.dayStarts, secs |-> s.daySecs + PreMidnight(s)]}
    ELSE {}
AfterRollover(s) ==
    IF ~Rolled(s) THEN s
    ELSE [s EXCEPT !.credited = @ + PreMidnight(s), !.day = DayOf(now),
                   !.dayStarts = 0, !.daySecs = 0]

\* The two transitions.  A cycle counts when its start was observed.
DurationSwapped(s) == s.since - now   \* slip: operands
Duration(s) == Minus(now, s.since)
Closes(s, on) == s.on /\ ~on /\ s.observed
AfterOff(s) ==
    [s EXCEPT !.secs = @ + (IF s.observed THEN Duration(s) ELSE 0),
              !.daySecs = @ + (IF s.observed THEN Minus(Duration(s), s.credited) ELSE 0),
              !.observed = FALSE, !.credited = 0, !.on = FALSE, !.since = now]
AfterOn(s) ==
    [s EXCEPT !.observed = TRUE, !.starts = @ + 1, !.dayStarts = @ + 1,
              !.on = TRUE, !.since = now]
Followed(s, on) ==
    IF s.on /\ ~on THEN AfterOff(s) ELSE IF ~s.on /\ on THEN AfterOn(s) ELSE s

LifetimeOf(s) == [tracked |-> TRUE, starts |-> s.starts, secs |-> s.secs]
TotalsFirst(closed, archived, totals) == totals \o closed \o archived   \* slip
InOrder(closed, archived, totals) == closed \o archived \o totals
CallsFor(s, on) ==
    LET next == Followed(AfterRollover(s), on)
        closed == IF Closes(s, on)
                  THEN <<[op |-> "cycle", at |-> s.since, secs |-> Duration(s)]>> ELSE <<>>
        archived == IF Archived(s) = {} THEN <<>>
                    ELSE <<[op |-> "daily", row |-> CHOOSE r \in Archived(s) : TRUE]>>
        dirty == Archived(s) # {} \/ Closes(s, on) \/ (~s.on /\ on)
        totals == IF dirty THEN <<[op |-> "acc", acc |-> LifetimeOf(next)]>> ELSE <<>>
    IN InOrder(closed, archived, totals)

\* One tick of the statistics poller, and update_state under its lock.
StatsTick ==
    /\ proc = "up"
    /\ writes = <<>>
    /\ \/ /\ Latest("HpStatus") = {}
          /\ stats' = PollFailed(stats)
          /\ UNCHANGED writes
       \/ \E p \in Latest("HpStatus") :
            IF stats.initialized
            THEN /\ stats' = Followed(AfterRollover(stats), p.on)
                 /\ writes' = CallsFor(stats, p.on)
            ELSE /\ stats' = [stats EXCEPT !.initialized = TRUE, !.on = p.on,
                                           !.since = now]
                 /\ UNCHANGED writes
    /\ UNCHANGED storeVars

\* After the lock: record_cycle, upsert_daily, set_accumulators.
StatsWrites ==
    /\ writes # <<>>
    /\ LET call == Head(writes) IN
       mem' = CASE call.op = "cycle" -> WithCycle(mem, call.at, call.secs)
                [] call.op = "daily" -> WithDaily(mem, call.row)
                [] call.op = "acc"   -> WithAccumulators(mem, call.acc)
    /\ writes' = Tail(writes)
    /\ UNCHANGED <<now, proc, disk, legacy, sweep, flush, limits, stats>>

\* The tracker is built from the store, then its poller and the server start.
Started ==
    /\ proc = "imported"
    /\ proc' = "up"
    /\ stats' = FreshStats(mem.acc, now)
    /\ UNCHANGED <<now, mem, disk, legacy, sweep, flush, limits, writes>>

\* main.rs waits for every background task before the last flush.
NoTaskButStats == sweep.left = <<>> /\ flush.pc = "idle"   \* slip: one not joined
AllTasksEnded == sweep.left = <<>> /\ flush.pc = "idle" /\ writes = <<>>
TasksSettled ==
    /\ proc = "cancelled"
    /\ AllTasksEnded
    /\ proc' = "final"
    /\ UNCHANGED <<now, mem, disk, legacy, sweep, flush, limits, stats, writes>>

Dies ==
    /\ Crash \/ Exit
    /\ stats' = FreshStats(DefaultAccumulators, 0)
    /\ writes' = <<>>

\* A step of the store, or of main.rs, that does not concern the statistics.
StoreStep(A) == A /\ UNCHANGED <<stats, writes>>

Next ==
    \/ StoreStep(StoreNext)
    \/ StatsTick \/ StatsWrites \/ Started \/ TasksSettled \/ Dies

Spec == Init /\ [][Next]_vars

\* Tasks run and calls end: everything but signals, panics and crashes is fair.
Fairness ==
    /\ WF_vars(StoreStep(SweepStarts) \/ StoreStep(SensorMissed \/ SweepAborted)
               \/ \E on \in BOOLEAN : StoreStep(SensorRead(on)))
    /\ WF_vars(StoreStep(HourlyFlush \/ ImportFlush \/ FinalFlush \/ NoFinalFlush))
    /\ WF_vars(StoreStep(FlushCommits \/ FlushFails \/ FlushEnds))
    /\ WF_vars(StoreStep(Open \/ NoImport \/ ImportStarts \/ ImportsCycle) \/ Started)
    /\ WF_vars(StatsTick \/ StatsWrites)
    /\ WF_vars(TasksSettled)
    /\ WF_vars(StoreStep(TimePasses))

FairSpec == Spec /\ Fairness

(***************************************************************************)
(* Type invariant                                                          *)
(***************************************************************************)

Calls == [op : {"cycle"}, at : Instants, secs : Nat] \cup [op : {"daily"}, row : Daily]
         \cup [op : {"acc"}, acc : Accumulators]

Trackers == [initialized : BOOLEAN, observed : BOOLEAN, on : BOOLEAN, since : Instants,
             credited : Nat, day : Nat, dayStarts : Nat, daySecs : Nat, starts : Nat,
             secs : Nat, from : [day : Nat, starts : Nat, secs : Nat]]

\* Every variable holds a value of its type: among others, no counter of the
\* statistics (stats.rs) leaves the naturals.
TypeOK ==
    /\ now \in Instants
    /\ proc \in Procs
    /\ mem \in MemStates
    /\ disk \in Tables
    /\ legacy \in Imports
    /\ sweep \in Sweeps
    /\ flush \in Flushes
    /\ limits \in Limits
    /\ stats \in Trackers
    /\ writes \in Seq(Calls)

(***************************************************************************)
(* Safety                                                                  *)
(***************************************************************************)

\* A mirror that is not dirty has nothing to write: no pending cycle or day,
\* and the counters on disk are the ones in memory.  The generation counter of
\* flush() (storage/mod.rs) is there for this, because tasks write while the
\* transaction commits.
CleanMeansWritten ==
    ~mem.dirty /\ flush.pc = "idle" /\ proc # "down" =>
        mem.cycles = {} /\ mem.daily = {} /\ disk.acc = mem.acc

\* Two cycles never share a key, wherever they are (pending, in a flush or on
\* disk), so record_cycle's "neither overwrites the other" holds over flushes,
\* crashes, restarts and the import of the legacy file.
AllCycles == mem.cycles \cup flush.cycles \cup disk.cycles
KeysAreUnique == \A a, b \in AllCycles : SameCycle(a, b) => a = b

\* A graceful shutdown whose last flush does not fail leaves nothing behind:
\* every cycle and day is on disk, and the counters on disk are the tracker's
\* (main.rs waits for the tasks before it flushes).
StopIsDurable ==
    [][proc = "final" /\ proc' = "stopped" /\ limits' = limits =>
         /\ mem.cycles = {} /\ mem.daily = {}
         /\ disk.acc = mem.acc
         /\ disk.acc.starts = stats.starts /\ disk.acc.secs = stats.secs]_vars

\* The lifetime total on disk is never more than the cycles on disk add up to,
\* unless a flush failed, because a cycle is recorded before its total; and it
\* is exactly that when no process died and everything is written.  To the
\* cycles of an imported file belongs what its total has of those it no longer
\* lists.  And no more cycles are on disk than starts were counted: a start is
\* counted before its cycle is recorded, both are written together, and the
\* legacy file is imported once, also when the process dies before it is renamed.
LegacyUnlisted ==
    LegacyTotal.secs - MapThenSumSet(LAMBDA i : LegacyCycles[i].secs, DOMAIN LegacyCycles)
Unlisted == IF limits.imported THEN LegacyUnlisted ELSE 0
TotalsMatchCycles ==
    /\ ~limits.lost =>
        /\ disk.acc.secs <= TotalSecs(disk.cycles) + Unlisted
        /\ ~limits.died /\ writes = <<>> /\ ~mem.dirty /\ flush.pc = "idle" =>
             disk.acc.secs = TotalSecs(disk.cycles) + Unlisted
    /\ Cardinality(disk.cycles) <= disk.acc.starts

\* While no flush has failed, every start and every operating second since the
\* process came up is in exactly one day: the rows archived and the day in
\* progress add up to what the lifetime totals gained, plus what a running
\* cycle was credited before midnight (check_window_rollovers, update_state).
TotalStarts(rows) == MapThenSumSet(LAMBDA r : r.starts, rows)
OwnDays ==
    {r \in mem.daily \cup flush.daily \cup disk.daily
           \cup {writes[i].row : i \in {j \in DOMAIN writes : writes[j].op = "daily"}} :
        r.day >= stats.from.day}
DaysAddUp ==
    proc \in {"up", "cancelled", "final"} /\ ~limits.lost =>
        /\ TotalSecs(OwnDays) + stats.daySecs =
             stats.secs - stats.from.secs + stats.credited
        /\ TotalStarts(OwnDays) + stats.dayStarts = stats.starts - stats.from.starts

\* A minute on disk is the mean of all its samples, those the trend ring still
\* shows, unless a flush failed or a sample arrived after its minute was taken:
\* a sweep is stamped when it starts (storage/poller.rs) and its last reads may
\* end in the next minute.  A minute with a restart in it is not looked at.
MinuteIsWhole(m) ==
    \/ \E p \in mem.ring : ~p.live /\ p.sensor = m.sensor /\ Minute(p.at) = m.minute
    \/ {x.at : x \in m.of} =
         {p.at : p \in {q \in mem.ring : q.sensor = m.sensor /\ Minute(q.at) = m.minute}}
MinutesAreWhole ==
    proc # "down" /\ ~limits.late /\ ~limits.lost =>
        \A m \in disk.means : MinuteIsWhole(m)

\* The history on disk adds up, over all its tables.
HistoryAddsUp == TotalsMatchCycles /\ DaysAddUp /\ MinutesAreWhole

(***************************************************************************)
(* What the code says of itself and does not do                            *)
(***************************************************************************)

\* stats.rs:268: without mark_poll_failed the tracker would, "on the next
\* ON->OFF transition, credit the entire gap (including the outage) as
\* operating time".  A closed cycle contains no instant at which the status
\* could not be read.
OutageIsNotCounted ==
    [][\A i \in DOMAIN writes' : writes'[i].op = "cycle" /\ writes = <<>> =>
         ~(writes'[i].at < limits.outage /\ limits.outage < now)]_vars

\* supervisor.rs:20: a panic cancels the token "so the rest of the system
\* observes the shutdown signal (including the graceful-shutdown flush in
\* `main`)": the process goes on to its last flush and ends.
PanicEndsInFlush == proc = "stranded" ~> proc \in {"final", "stopped", "down"}
=============================================================================
