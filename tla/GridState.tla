----------------------------- MODULE GridState ------------------------------
(***************************************************************************)
(* GridState of energy/grid.rs: the highest hour of each of the TopDays    *)
(* dearest days of the month, the running hour, and the quarters of the    *)
(* last 24 hours.  Every operation is a function of the whole record.      *)
(*                                                                         *)
(* Time is counted in quarters of an hour since 1970, in local time; an    *)
(* hour is a quarter \div 4 and a day an hour \div 24.  Consumption is     *)
(* counted in whole units, never negative and never NaN.                   *)
(***************************************************************************)
EXTENDS Integers, Sequences, FiniteSets, SequencesExt

CONSTANTS
    LocalDate,    \* chrono: day number -> date
    TopDays,      \* days the effect tariff averages (3)
    MaxQuarters,  \* MAX_QUARTER_ENTRIES (96)
    Nothing       \* Rust's None

Days == DOMAIN LocalDate

ASSUME GridStateAssumption ==
    /\ TopDays \in Nat \ {0} /\ MaxQuarters \in Nat \ {0}
    /\ Days \subseteq Nat /\ IsFiniteSet(Days)
    /\ LocalDate \in [Days -> [year : Nat, month : 1..12, day : 1..31]]
    /\ Nothing \notin Nat

-----------------------------------------------------------------------------
(* The tariff calendar of energy/tariff.rs: which hours count towards the    *)
(* effect tariff.  A date is a record of year, month and day in local time;  *)
(* the conversion from UTC is chrono's and is left out.  Years are after     *)
(* 1970, where Rust's truncating division is \div.                           *)

\* Sunday of the Anonymous Gregorian algorithm, as <<month, day>>.
CalculateEaster(year) ==
    LET a == year % 19
        b == year \div 100
        c == year % 100
        g == (b - ((b + 8) \div 25) + 1) \div 3
        h == (19 * a + b - (b \div 4) - g + 15) % 30
        l == (32 + 2 * (b % 4) + 2 * (c \div 4) - h - (c % 4)) % 7
        m == (a + 11 * h + 22 * l) \div 451
        n == h + l - 7 * m + 114
    IN  <<n \div 31, (n % 31) + 1>>

\* Days since 1970-01-01.
YmdToDays(date) ==
    LET y   == IF date.month <= 2 THEN date.year - 1 ELSE date.year
        m   == IF date.month <= 2 THEN date.month + 12 ELSE date.month
        yoe == y % 400
        doy == (153 * (m - 3) + 2) \div 5 + date.day - 1
    IN  (y \div 400) * 146097 + yoe * 365 + (yoe \div 4) - (yoe \div 100) + doy - 719468

\* 0 is Sunday; day 0 was a Thursday.
DayOfWeek(date) == (YmdToDays(date) + 4) % 7

FixedHolidays == {<<1, 1>>, <<1, 6>>, <<12, 24>>, <<12, 25>>, <<12, 26>>, <<12, 31>>}

IsSwedishHoliday(date) ==
    LET easter == CalculateEaster(date.year)
        sunday == YmdToDays([date EXCEPT !.month = easter[1], !.day = easter[2]])
    IN  \/ <<date.month, date.day>> \in FixedHolidays
        \/ YmdToDays(date) \in {sunday - 2, sunday + 1}

IsHighTariff(date, hour) ==
    /\ date.month \notin 4..10
    /\ DayOfWeek(date) \notin {0, 6}
    /\ ~IsSwedishHoliday(date)
    /\ hour \in 7..19

-----------------------------------------------------------------------------
(* The hours and days of the grid. *)

HourOf(quarter) == quarter \div 4
DayOf(hour)     == hour \div 24
Hours           == UNION {24 * d .. 24 * d + 23 : d \in Days}
Quarters        == UNION {4 * h .. 4 * h + 3 : h \in Hours}

MonthOf(day) == [year |-> LocalDate[day].year, month |-> LocalDate[day].month]
Months       == {MonthOf(d) : d \in Days}

IsHigh(hour) == IsHighTariff(LocalDate[DayOf(hour)], hour % 24)

NoPeaks == [d \in {} |-> Nothing]

\* best is a ghost: for each day the highest hour ever offered to daily_peaks
\* since the month it is about was entered.
NewGrid(now) ==
    [peaks |-> NoPeaks, best |-> NoPeaks, month |-> MonthOf(DayOf(HourOf(now))),
     hour |-> HourOf(now), hourKwh |-> Nothing,
     quarters |-> <<>>, quarter |-> now, quarterKwh |-> 0]

-----------------------------------------------------------------------------
(* Peaks. *)

EnterMonth(g, month) ==
    IF month = g.month THEN g
    ELSE [g EXCEPT !.peaks = NoPeaks, !.best = NoPeaks, !.month = month]

With(f, d, v) == [e \in DOMAIN f \cup {d} |-> IF e = d THEN v ELSE f[e]]
Without(f, d) == [e \in DOMAIN f \ {d} |-> f[e]]

\* The days whose stored peak is the lowest; the source takes the first in the
\* order of a HashMap, which is any order: the caller's tie decides.
LowestDays(peaks) ==
    {d \in DOMAIN peaks : \A e \in DOMAIN peaks : peaks[d].kwh <= peaks[e].kwh}

LowestDay(peaks, tie) ==
    IF tie \in LowestDays(peaks) THEN tie ELSE CHOOSE d \in LowestDays(peaks) : TRUE

\* Mutant: a full month gives way to any new day.
NewPeaksByArrival(peaks, day, peak, tie) ==
    IF day \in DOMAIN peaks
    THEN IF peak.kwh > peaks[day].kwh THEN With(peaks, day, peak) ELSE peaks
    ELSE With(IF Cardinality(DOMAIN peaks) < TopDays THEN peaks
              ELSE Without(peaks, LowestDay(peaks, tie)), day, peak)

NewPeaks(peaks, day, peak, tie) ==
    LET lowest == LowestDay(peaks, tie)
    IN  CASE day \in DOMAIN peaks ->
                IF peak.kwh > peaks[day].kwh THEN With(peaks, day, peak) ELSE peaks
          [] day \notin DOMAIN peaks /\ Cardinality(DOMAIN peaks) < TopDays ->
                With(peaks, day, peak)
          [] day \notin DOMAIN peaks /\ Cardinality(DOMAIN peaks) >= TopDays ->
                IF peak.kwh > peaks[lowest].kwh
                THEN With(Without(peaks, lowest), day, peak)
                ELSE peaks

Raised(best, day, kwh) ==
    With(best, day, IF day \in DOMAIN best /\ best[day] > kwh THEN best[day] ELSE kwh)

MaybeUpdatePeak(g, hour, kwh, tie) ==
    LET day == DayOf(hour)
        in  == EnterMonth(g, MonthOf(day))
    IN  IF ~IsHigh(hour) THEN g
        ELSE [in EXCEPT !.peaks = NewPeaks(@, day, [hour |-> hour, kwh |-> kwh], tie),
                        !.best = Raised(@, day, kwh)]

\* Mutant: the running hour is the wall clock's quarter.
UpdateCurrentHourToNow(g, now, kwh, tie) ==
    LET left == IF g.hourKwh = Nothing THEN g
                ELSE MaybeUpdatePeak(g, g.hour, g.hourKwh, tie)
    IN  IF HourOf(now) = g.hour THEN [g EXCEPT !.hourKwh = kwh]
        ELSE [EnterMonth(left, MonthOf(DayOf(HourOf(now))))
                 EXCEPT !.hour = now, !.hourKwh = kwh]

\* The previous hour is recorded, the month turns, the new hour begins.
UpdateCurrentHour(g, now, kwh, tie) ==
    LET left == IF g.hourKwh = Nothing THEN g
                ELSE MaybeUpdatePeak(g, g.hour, g.hourKwh, tie)
        turned == EnterMonth(left, MonthOf(DayOf(HourOf(now))))
    IN  IF HourOf(now) = g.hour THEN [g EXCEPT !.hourKwh = kwh]
        ELSE [turned EXCEPT !.hour = HourOf(now), !.hourKwh = kwh]

-----------------------------------------------------------------------------
(* Quarters: a rolling window, oldest first. *)

Rolled(entries) ==
    IF Len(entries) > MaxQuarters
    THEN SubSeq(entries, Len(entries) - MaxQuarters + 1, Len(entries))
    ELSE entries

Entry(quarter, kwh) == [at |-> quarter, kwh |-> kwh]

UpdateCurrentQuarter(g, now, kwh) ==
    IF now = g.quarter THEN [g EXCEPT !.quarterKwh = kwh]
    ELSE [g EXCEPT !.quarters = Rolled(Append(@, Entry(g.quarter, g.quarterKwh))),
                   !.quarter = now, !.quarterKwh = kwh]

\* Before the first later entry, or at the end.
Inserted(entries, entry) ==
    LET later == {i \in 1..Len(entries) : entries[i].at > entry.at}
    IN  IF later = {} THEN Append(entries, entry)
        ELSE InsertAt(entries, Min(later), entry)

RecordQuarter(g, quarter, kwh) ==
    IF quarter = g.quarter \/ \E i \in DOMAIN g.quarters : g.quarters[i].at = quarter
    THEN g
    ELSE [g EXCEPT !.quarters = Rolled(Inserted(@, Entry(quarter, kwh)))]

-----------------------------------------------------------------------------
(* What the record is, and what its peaks are for. *)

GridFields ==
    {"peaks", "best", "month", "hour", "hourKwh", "quarters", "quarter", "quarterKwh"}

TypedGrid(g) ==
    /\ g = [field \in GridFields |-> g[field]]
    /\ DOMAIN g.peaks \subseteq Days /\ DOMAIN g.best \subseteq Days
    /\ g.peaks \in [DOMAIN g.peaks -> [hour : Hours, kwh : Nat]]
    /\ g.best \in [DOMAIN g.best -> Nat]
    /\ g.month \in Months
    /\ g.hour \in Hours /\ g.hourKwh \in Nat \cup {Nothing}
    /\ g.quarter \in Quarters /\ g.quarterKwh \in Nat

\* The days of peaks are the TopDays dearest of best, each with its value.
TopDaysOf(peaks, best) ==
    LET kept == DOMAIN peaks
    IN  /\ kept \subseteq DOMAIN best
        /\ \A d \in kept : peaks[d].kwh = best[d]
        /\ Cardinality(kept) <= TopDays
        /\ \A d \in DOMAIN best \ kept :
              /\ Cardinality(kept) = TopDays
              /\ \A e \in kept : best[d] <= best[e]
=============================================================================
