---------------------------- MODULE TibberStream ----------------------------
(***************************************************************************)
(* run_websocket_loop of energy/tibber.rs over a GridState: the sync of    *)
(* the month's hours at start, then connections that break and come back,  *)
(* each with a fresh WsRotationState, and the readings of a connection,    *)
(* each stamped by the meter and handled later by the wall clock.          *)
(*                                                                         *)
(* The clock visits the quarters of Instants; between two of them nothing  *)
(* is consumed and nothing happens.  The waits between two connections are *)
(* shorter than a quarter and are left out.  accumulatedConsumption starts *)
(* again at local midnight; its jitter below 0.01 kWh is left out.  A       *)
(* reading may come without either of its counters.                        *)
(***************************************************************************)
EXTENDS GridState

CONSTANTS
    Instants,   \* the quarters the clock visits
    MaxUse,     \* bound: units consumed in all
    MaxQueue,   \* bound: readings on their way
    MaxStarts,  \* bound: starts of the process
    MaxGaps     \* bound: readings that lack a counter

ASSUME TibberStreamAssumption ==
    /\ Instants \subseteq Quarters /\ IsFiniteSet(Instants) /\ Instants # {}
    /\ MaxUse \in Nat /\ MaxQueue \in Nat /\ MaxStarts \in Nat /\ MaxGaps \in Nat

VARIABLES
    now,     \* wall clock
    meter,   \* what was consumed: since midnight, by hour, by quarter, in all
    wire,    \* readings on their way, oldest first
    stream,  \* "sync" | "down" | "live" | "stopped"
    nodes,   \* hours of the historical answer still to record
    rot,     \* WsRotationState
    grid,    \* the GridState
    starts,  \* starts of the process so far
    gaps,    \* readings so far that lacked a counter
    late,    \* ghost: a reading was handled after the quarter it is stamped with
    blank    \* ghost: the quarters in which a reading without the day's counter was
             \* handled

vars == <<now, meter, wire, stream, nodes, rot, grid, starts, gaps, late, blank>>

VisitedHours == {HourOf(q) : q \in Instants}
NoRotation   == [hour |-> Nothing, quarter |-> Nothing, snapshot |-> Nothing]
Earliest(S)  == CHOOSE x \in S : \A y \in S : x <= y

Readings == [stamp : Quarters, today : Nat \cup {Nothing}, hour : Nat \cup {Nothing}]

TypeOK ==
    /\ now \in Instants
    /\ meter \in [today : Nat, byHour : [VisitedHours -> Nat],
                  byQuarter : [Instants -> Nat], used : Nat]
    /\ wire \in Seq(Readings)
    /\ stream \in {"sync", "down", "live", "stopped"}
    /\ nodes \subseteq VisitedHours
    /\ rot \in [hour : Hours \cup {Nothing}, quarter : Quarters \cup {Nothing},
                snapshot : Nat \cup {Nothing}]
    /\ TypedGrid(grid)
    /\ starts \in Nat /\ gaps \in Nat /\ late \in BOOLEAN /\ blank \subseteq Quarters

Init ==
    /\ now = Earliest(Instants)
    /\ meter = [today |-> 0, byHour |-> [h \in VisitedHours |-> 0],
                byQuarter |-> [q \in Instants |-> 0], used |-> 0]
    /\ wire = <<>> /\ stream = "sync" /\ nodes = {} /\ rot = NoRotation
    /\ grid = NewGrid(now)
    /\ starts = 1 /\ gaps = 0 /\ late = FALSE /\ blank = {}

-----------------------------------------------------------------------------
(* The house, the clock and the network. *)

Consume ==
    /\ meter.used < MaxUse
    /\ meter' = [meter EXCEPT !.today = @ + 1, !.byHour[HourOf(now)] = @ + 1,
                              !.byQuarter[now] = @ + 1, !.used = @ + 1]
    /\ UNCHANGED <<now, wire, stream, nodes, rot, grid, starts, gaps, late, blank>>

\* A reading is under way for less than a quarter.
Tick ==
    /\ \E q \in Instants : q > now
    /\ now' = Earliest({q \in Instants : q > now})
    /\ wire # <<>> => now' = now + 1 /\ wire[1].stamp = now
    /\ meter' = IF DayOf(HourOf(now')) = DayOf(HourOf(now)) THEN meter
                ELSE [meter EXCEPT !.today = 0]
    /\ UNCHANGED <<wire, stream, nodes, rot, grid, starts, gaps, late, blank>>

\* Each of the counters may be missing.
ReadingsNow == [stamp : {now}, today : {meter.today, Nothing},
                hour : {meter.byHour[HourOf(now)], Nothing}]

MeterSends ==
    /\ stream = "live" /\ Len(wire) < MaxQueue
    /\ \E r \in ReadingsNow :
          /\ wire' = Append(wire, r)
          /\ \/ Nothing \notin {r.today, r.hour} /\ UNCHANGED gaps
             \/ Nothing \in {r.today, r.hour} /\ gaps < MaxGaps /\ gaps' = gaps + 1
    /\ UNCHANGED <<now, meter, stream, nodes, rot, grid, starts, late, blank>>

-----------------------------------------------------------------------------
(* The start: the hours of the month that are over. *)

\* The history has the finished hours; sync_historical_data keeps this month's.
SyncAnswers ==
    /\ stream = "sync" /\ nodes = {}
    /\ nodes' = {h \in VisitedHours : /\ h < HourOf(now)
                                      /\ MonthOf(DayOf(h)) = MonthOf(DayOf(HourOf(now)))}
    /\ stream' = IF nodes' = {} THEN "down" ELSE "sync"
    /\ UNCHANGED <<now, meter, wire, rot, grid, starts, gaps, late, blank>>

SyncFails ==
    /\ stream = "sync" /\ nodes = {}
    /\ stream' = "down"
    /\ UNCHANGED <<now, meter, wire, nodes, rot, grid, starts, gaps, late, blank>>

SyncRecords(tie) ==
    LET h == Earliest(nodes)
    IN  /\ stream = "sync" /\ nodes # {}
        /\ nodes' = nodes \ {h}
        /\ stream' = IF nodes' = {} THEN "down" ELSE "sync"
        /\ grid' = MaybeUpdatePeak(grid, h, meter.byHour[h], tie)
        /\ UNCHANGED <<now, meter, wire, rot, starts, gaps, late, blank>>

-----------------------------------------------------------------------------
(* Connections. *)

Connect ==
    /\ stream = "down"
    /\ stream' = "live" /\ rot' = NoRotation /\ wire' = <<>>
    /\ UNCHANGED <<now, meter, nodes, grid, starts, gaps, late, blank>>

\* Closed, ended, an error, or no message for two minutes: what was on its way
\* is lost.
Break ==
    /\ stream = "live"
    /\ stream' = "down" /\ wire' = <<>>
    /\ UNCHANGED <<now, meter, nodes, rot, grid, starts, gaps, late, blank>>

\* Shutdown, or a 401 while connecting.
Stop ==
    /\ stream \in {"sync", "down", "live"}
    /\ stream' = "stopped" /\ wire' = <<>> /\ nodes' = {}
    /\ UNCHANGED <<now, meter, rot, grid, starts, gaps, late, blank>>

Restart ==
    /\ starts < MaxStarts
    /\ starts' = starts + 1
    /\ stream' = "sync" /\ nodes' = {} /\ wire' = <<>> /\ rot' = NoRotation
    /\ grid' = NewGrid(now) /\ late' = FALSE /\ blank' = {}
    /\ UNCHANGED <<now, meter, gaps>>

-----------------------------------------------------------------------------
(* process_message. *)

\* Mutant: the hour that is left is recorded with the new hour's value.
HourPathAfterUpdate(r, tie) ==
    LET updated == UpdateCurrentHour(grid, now, r.hour, tie)
    IN  IF rot.hour # Nothing /\ HourOf(r.stamp) > rot.hour
        THEN MaybeUpdatePeak(updated, rot.hour, updated.hourKwh, tie)
        ELSE updated

\* The hour the stream leaves is recorded again, with the value read before
\* the wall clock's hour was updated.
HourPath(r, tie) ==
    LET updated == UpdateCurrentHour(grid, now, r.hour, tie)
    IN  IF rot.hour # Nothing /\ HourOf(r.stamp) > rot.hour /\ grid.hourKwh # Nothing
        THEN MaybeUpdatePeak(updated, rot.hour, grid.hourKwh, tie)
        ELSE updated

SameQuarter(r) == rot.quarter = r.stamp /\ r.today >= rot.snapshot

\* What the quarter that is left is closed with.
PriorDelta(g, r) == IF r.today >= rot.snapshot THEN r.today - rot.snapshot ELSE g.quarterKwh

CloseQuarter(g, r) ==
    IF PriorDelta(g, r) > 0 THEN RecordQuarter(g, rot.quarter, PriorDelta(g, r)) ELSE g

QuarterPath(g, r) ==
    CASE rot.quarter = Nothing -> UpdateCurrentQuarter(g, now, 0)
      [] rot.quarter # Nothing /\ SameQuarter(r) ->
            UpdateCurrentQuarter(g, now, r.today - rot.snapshot)
      [] rot.quarter # Nothing /\ ~SameQuarter(r) ->
            UpdateCurrentQuarter(CloseQuarter(g, r), now, 0)

\* unwrap_or(0.0)
OrZero(counter) == IF counter = Nothing THEN 0 ELSE counter

HandleReading(tie) ==
    LET r == [Head(wire) EXCEPT !.today = OrZero(@), !.hour = OrZero(@)]
    IN  /\ stream = "live" /\ wire # <<>>
        /\ wire' = Tail(wire)
        /\ grid' = QuarterPath(HourPath(r, tie), r)
        /\ rot' = IF rot.quarter # Nothing /\ SameQuarter(r)
                  THEN [rot EXCEPT !.hour = HourOf(r.stamp)]
                  ELSE [hour |-> HourOf(r.stamp), quarter |-> r.stamp, snapshot |-> r.today]
        /\ late' = (late \/ r.stamp # now)
        /\ blank' = IF Head(wire).today = Nothing THEN blank \cup {r.stamp} ELSE blank
        /\ UNCHANGED <<now, meter, stream, nodes, starts, gaps>>

Next ==
    \/ Consume \/ Tick \/ MeterSends
    \/ SyncAnswers \/ SyncFails \/ \E tie \in Days : SyncRecords(tie)
    \/ Connect \/ Break \/ Stop \/ Restart
    \/ \E tie \in Days : HandleReading(tie)

Spec == Init /\ [][Next]_vars

-----------------------------------------------------------------------------
(* Properties. *)

\* PeaksAreTopDays: the days kept are the dearest ones of all that were offered
\* in this month, each with its dearest hour, whatever order hours, corrections
\* and reconnects came in (maybe_update_peak keeps only TopDays of them).
PeaksAreTopDays == TopDaysOf(grid.peaks, grid.best)

\* The 24 hours of quarters are in order, without a double,
\* all before the running one, though two paths write them, one by the wall
\* clock and one by the stamps (update_current_quarter, record_quarter).
QuartersInOrder ==
    LET n == Len(grid.quarters)
    IN  /\ n <= MaxQuarters
        /\ \A i \in 1..n - 1 : grid.quarters[i].at < grid.quarters[i + 1].at
        /\ n > 0 => grid.quarters[n].at < grid.quarter

\* An entry tells of no more than was used in its quarter.
IsTrue(e) == e.kwh <= IF e.at \in Instants THEN meter.byQuarter[e.at] ELSE 0

\* As long as every reading was handled in the quarter it is
\* stamped with, no peak and no quarter holds more than was consumed in it,
\* across reconnects, midnight resets, silences, missing counters and restarts
\* (process_message).  A reading without the day's counter is taken for one at
\* midnight and may spoil the quarter it belongs to, but no other.
NothingInvented ==
    ~late => /\ \A d \in DOMAIN grid.peaks :
                   grid.peaks[d].kwh <= meter.byHour[grid.peaks[d].hour]
             /\ \A i \in DOMAIN grid.quarters :
                   grid.quarters[i].at \notin blank => IsTrue(grid.quarters[i])

\* CurveIsGenuine: quarters and peaks tell of energy that was used when they say,
\* each quarter once (process_message).
CurveIsGenuine == QuartersInOrder /\ NothingInvented

\* ClosedQuarterGetsItsDelta: the reading that opens a quarter before anything
\* is used in it closes the quarter before with the whole difference of the
\* counter (the comment and the test of the rollover in process_message).
ClosedQuarterGetsItsDelta ==
    [][/\ wire # <<>> /\ wire' = Tail(wire) /\ stream' = "live" /\ rot.quarter # Nothing
       /\ Head(wire).stamp = now /\ now = rot.quarter + 1 /\ meter.byQuarter[now] = 0
       /\ Head(wire).today # Nothing /\ Head(wire).today > rot.snapshot
       => \E i \in DOMAIN grid'.quarters :
             grid'.quarters[i] = Entry(rot.quarter, Head(wire).today - rot.snapshot)]_vars

\* QuarterIsItsDifference: what is kept of a quarter is what was used in it,
\* whatever the readings lack: the snapshot is the counter "at the start of"
\* the quarter, "subtracting from the current accumulated gives this quarter's
\* kWh" (WsRotationState).
QuarterIsItsDifference == ~late => \A i \in DOMAIN grid.quarters : IsTrue(grid.quarters[i])
=============================================================================
