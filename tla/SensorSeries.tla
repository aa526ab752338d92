----------------------------- MODULE SensorSeries ------------------------------
(***************************************************************************)
(* How the readings of the sensors are kept and served: the ring of 24     *)
(* hours of storage/mod.rs, its means of whole minutes, and what           *)
(* routes/series.rs and routes/activity.rs make of them.                   *)
(*                                                                         *)
(* A ring is the sequence of a sensor's samples in the order they were     *)
(* recorded; it is the order of their stamps as long as the clock is not   *)
(* set back.  The samples a query is about are the set of their places in  *)
(* the ring.  Values are whole numbers in a unit of the sensor's own, and  *)
(* a mean is rounded down: the codes of the two status registers, which    *)
(* are averaged as well, are truncated by the code that reads them.        *)
(***************************************************************************)
EXTENDS Integers, Sequences, FiniteSets, SequencesExt, FiniteSetsExt

CONSTANTS
    PerMinute,   \* units of the clock in a minute
    PerHour,     \* units in an hour of a query
    MaxHours     \* the hours that are kept, and that a query may ask for: 24

ASSUME SeriesAssumption ==
    {PerMinute, PerHour, MaxHours} \subseteq Nat \ {0}

\* SERIES_RETENTION_SECS
Retention == MaxHours * PerHour

\* Sensor; the slug of a query and the register of the heater name one each.
Sensors == {"Room", "Outdoor", "Flow", "Return", "FlowSp", "HpIn", "HpOut", "Discharge",
            "Suction", "HighP", "LowP", "BrineIn", "BrineOut", "ChargePump", "BrinePump",
            "DhwUpper", "Lower", "SystemStatus", "HpStatus"}

MinuteOf(t) == t - (t % PerMinute)

\* record_sample: the sample goes to the back, and what is older than 24 h by
\* its stamp leaves at the front, up to the first that is not.
EvictedThrough(ring, cutoff) ==   \* slip: a sample of exactly 24 h leaves too
    LET stays == {i \in DOMAIN ring : ring[i].at > cutoff}
    IN IF stays = {} THEN <<>> ELSE SubSeq(ring, Min(stays), Len(ring))
Evicted(ring, cutoff) ==
    LET stays == {i \in DOMAIN ring : ring[i].at >= cutoff}
    IN IF stays = {} THEN <<>> ELSE SubSeq(ring, Min(stays), Len(ring))
Recorded(ring, t, v) == Evicted(Append(ring, [at |-> t, v |-> v]), t - Retention)

\* record_sample: a bucket of `pending_minutes` has the sum and the number of
\* the samples of its minute.
Added(buckets, t, v) ==
    LET m == MinuteOf(t)
        b == IF m \in DOMAIN buckets THEN buckets[m] ELSE [sum |-> 0, n |-> 0]
    IN [k \in DOMAIN buckets \cup {m} |->
           IF k = m THEN [sum |-> b.sum + v, n |-> b.n + 1] ELSE buckets[k]]

\* The buckets of the minutes that are over become a mean each, the others stay.
Finalized(buckets, now) ==
    {[at |-> m, v |-> buckets[m].sum \div buckets[m].n] :
        m \in {k \in DOMAIN buckets : k < MinuteOf(now)}}
StillOpen(buckets, now) == Restrict(buckets, {k \in DOMAIN buckets : k >= MinuteOf(now)})

\* What open() fills a ring with: the means of the last 24 h, in order.
Refilled(means, now) ==
    LET in == {m \in means : m.at >= now - Retention}
    IN CHOOSE ring \in [1..Cardinality(in) -> in] :
           \A i, j \in DOMAIN ring : i < j => ring[i].at < ring[j].at

Latest(ring) == ring[Len(ring)]   \* latest_sample

\* series_window and series_range: [from, to) up to and with this second, as the
\* places of its samples in the ring.
HoursOf(q) == IF q < 1 THEN 1 ELSE IF q > MaxHours THEN MaxHours ELSE q
From(now, q) == now - HoursOf(q) * PerHour
SeriesRange(ring, now, q) ==
    {i \in DOMAIN ring : ring[i].at >= From(now, q) /\ ring[i].at < now + 1}

\* bucket_minutes: one mean for each minute that has a sample.
SumOver(ring, places) == MapThenSumSet(LAMBDA i : ring[i].v, places)
BucketMinutes(ring, now, q) ==
    LET in == SeriesRange(ring, now, q)
        of(m) == {i \in in : MinuteOf(ring[i].at) = m}
    IN {[at |-> m,
         v  |-> SumOver(ring, of(m)) \div Cardinality(of(m))] :
            m \in {MinuteOf(ring[i].at) : i \in in}}

\* get_series: a slug that names no sensor is a bad request.
GetSeries(rings, slug, now, q) ==
    [status |-> IF slug \in Sensors THEN 200 ELSE 400,
     points |-> IF slug \in DOMAIN rings THEN BucketMinutes(rings[slug], now, q) ELSE {}]

(***************************************************************************)
(* The timeline of routes/activity.rs.                                     *)
(***************************************************************************)

Lanes == {"heating", "dhw", "brine"}
Unknown == -1   \* NaN: no sample yet

Compressing(hp) == hp \in 3..5
HeatingOn(sys, hp) == sys \in {0, 1, 4, 8, 10} /\ Compressing(hp)
DhwOn(sys, hp) == sys \in {5, 10} /\ Compressing(hp)
BrineOn(bp) == bp > 0

\* The value a walk over the samples at `in` up to t ends with: it stops at the
\* first that is later, whatever comes after.
WalkedTo(ring, in, t) ==
    LET passed == {i \in in : \A j \in in : j <= i => ring[j].at <= t}
    IN IF passed = {} THEN Unknown ELSE ring[Max(passed)].v

ActivitySensors == {"SystemStatus", "HpStatus", "BrinePump"}

\* segment: the longest runs of sample times at which a lane is on.  One that
\* is on at the first time began before the window, one that is on at the last
\* goes on until now.
LaneOn(lane, rings, now, q, t) ==
    LET value(s) == WalkedTo(rings[s], SeriesRange(rings[s], now, q), t)
    IN CASE lane = "heating" -> HeatingOn(value("SystemStatus"), value("HpStatus"))
         [] lane = "dhw"     -> DhwOn(value("SystemStatus"), value("HpStatus"))
         [] lane = "brine"   -> BrineOn(value("BrinePump"))

TimesOf(rings, now, q) ==
    UNION {{rings[s][i].at : i \in SeriesRange(rings[s], now, q)} : s \in ActivitySensors}

\* The run of times around one at which the lane is on.
SegmentAround(lane, rings, now, q, t) ==
    LET times == TimesOf(rings, now, q)
        off   == {u \in times : ~LaneOn(lane, rings, now, q, u)}
        ended == {u \in off : u > t}
        begun == {u \in times : u <= t /\ \A o \in off : o < t => o < u}
    IN [lane  |-> lane,
        start |-> IF Min(begun) = Min(times) THEN From(now, q) ELSE Min(begun),
        end   |-> IF ended = {} THEN now ELSE Min(ended)]

\* get_activity
GetActivity(rings, now, q) ==
    UNION {{SegmentAround(lane, rings, now, q, t) :
               t \in {u \in TimesOf(rings, now, q) : LaneOn(lane, rings, now, q, u)}} :
           lane \in Lanes}
=============================================================================
