------------------------ MODULE HeatPumpStatsProofs -------------------------
(***************************************************************************)
(* Theorems about the history that survives (HeatPumpStats on Storage),    *)
(* for every set of sensors, length of minutes and days, legacy file and   *)
(* every bound:                                                            *)
(*   TypeCorrect   every variable keeps its type                           *)
(*   CleanCorrect  a mirror that is not dirty has nothing to write         *)
(*   KeysCorrect   two cycles never share a key                            *)
(*   StopCorrect   a graceful stop leaves nothing behind                   *)
(* and, last, that the history on disk adds up over its tables:            *)
(*   TotalsCorrect   the lifetime totals and the cycles                    *)
(*   MinutesCorrect  the means and the samples they are of                 *)
(*   DaysCorrect     the days and what the tracker gained                  *)
(*   HistoryCorrect  all three                                             *)
(***************************************************************************)
EXTENDS HeatPumpStats, WellFoundedInduction, FiniteSetTheorems, TLAPS

-----------------------------------------------------------------------------
(* Arithmetic *)

\* Minutes and days are natural numbers.
LEMMA DivNat ==
    ASSUME NEW t \in Nat, NEW d \in Nat \ {0}
    PROVE  t \div d \in Nat
  OBVIOUS

\* Instants are natural numbers.
LEMMA InstantsNat == Instants \subseteq Nat
  BY StorageAssumption DEF Instants

\* A set of numbers that is not empty has a smallest one.
LEMMA SmallestNumber ==
    ASSUME NEW T \in SUBSET Nat, T # {}
    PROVE  \E x \in T : \A y \in T : x <= y
  <1> DEFINE R == OpToRel(<, Nat)
  <1>1. IsWellFoundedOn(R, Nat)
    BY NatLessThanWellFounded
  <1>2. \A x, y \in Nat : y < x => <<y, x>> \in R
    BY DEF OpToRel
  <1> HIDE DEF R
  <1>3. PICK x \in T : \A y \in T : ~ (<<y, x>> \in R)
    BY <1>1, WFMin
  <1>4. \A y \in T : ~ (y < x)
    BY <1>2, <1>3
  <1> QED BY <1>4

\* A bounded set of numbers that is not empty has a largest one: the smallest
\* of its upper bounds.
LEMMA BoundedMax ==
    ASSUME NEW S \in SUBSET Nat, S # {}, NEW n \in Nat, \A x \in S : x < n
    PROVE  Max(S) \in S /\ \A x \in S : x <= Max(S)
  <1> DEFINE U == {u \in Nat : \A x \in S : x <= u}
  <1>1. n \in U /\ U \in SUBSET Nat
    OBVIOUS
  <1>2. PICK u \in U : \A v \in U : u <= v
    <2> HIDE DEF U
    <2> QED BY <1>1, SmallestNumber
  <1>3. u \in S
    <2> SUFFICES ASSUME u \notin S PROVE FALSE
      OBVIOUS
    <2>1. \A x \in S : x < u
      OBVIOUS
    <2>2. PICK y \in S : TRUE
      OBVIOUS
    <2>3. y \in Nat /\ y < u
      BY <2>1, <2>2
    <2>4. u - 1 \in U
      BY <2>1, <2>3
    <2> QED BY <1>2, <2>4
  <1>4. \E x \in S : \A y \in S : x >= y
    BY <1>3
  <1> HIDE DEF U
  <1>5. Max(S) \in S /\ \A y \in S : Max(S) >= y
    BY <1>4 DEF Max
  <1> QED BY <1>5

\* NextSeq is above every sequence number of its second.
LEMMA NextSeqAbove ==
    ASSUME NEW rows \in SUBSET Cycles, NEW s \in Instants, NEW n \in Nat,
           \A c \in rows : c.at = s => c.seq < n
    PROVE  /\ NextSeq(rows, s) \in Nat
           /\ \A c \in rows : c.at = s => c.seq < NextSeq(rows, s)
  <1> DEFINE used == {c.seq : c \in {r \in rows : r.at = s}}
  <1>1. used \in SUBSET Nat /\ \A x \in used : x < n
    BY DEF Cycles
  <1>2. CASE used = {}
    BY <1>2 DEF NextSeq
  <1>3. CASE used # {}
    <2>1. \E k \in used : Max(used) = k /\ \A x \in used : x <= k
      BY <1>1, <1>3, BoundedMax
    <2>2. PICK k \in Nat : Max(used) = k /\ \A x \in used : x <= k
      BY <1>1, <2>1
    <2>3. NextSeq(rows, s) = k + 1
      BY <1>3, <2>2 DEF NextSeq
    <2>4. ASSUME NEW c \in rows, c.at = s PROVE c.seq \in Nat /\ c.seq < k + 1
      <3>1. c.seq \in used
        BY <2>4
      <3>2. c.seq \in Nat /\ c.seq <= k
        BY <1>1, <2>2, <3>1
      <3> QED BY <3>2
    <2> QED BY <2>3, <2>4
  <1> QED BY <1>2, <1>3

-----------------------------------------------------------------------------
(* Types of what the operations make of their arguments *)

\* The calls of the statistics keep the mirror's type.
LEMMA WriteTypes ==
    ASSUME NEW m \in MemStates
    PROVE  /\ \A at \in Instants, secs \in Nat : WithCycle(m, at, secs) \in MemStates
           /\ \A row \in Daily : WithDaily(m, row) \in MemStates
           /\ \A acc \in Accumulators : WithAccumulators(m, acc) \in MemStates
           /\ CleanMark(m) \in MemStates
  <1>1. ASSUME NEW at \in Instants, NEW secs \in Nat
        PROVE  WithCycle(m, at, secs) \in MemStates
    <2>1. m.seq[at] \in Nat /\ [m.seq EXCEPT ![at] = @ + 1] \in [Instants -> Nat]
      BY DEF MemStates
    <2>2. [at |-> at, seq |-> m.seq[at], secs |-> secs] \in Cycles
      BY <2>1 DEF Cycles
    <2> QED BY <2>1, <2>2 DEF WithCycle, Marked, MemStates
  <1>2. ASSUME NEW row \in Daily PROVE WithDaily(m, row) \in MemStates
    <2>1. Inserted(m.daily, {row}, SameDay) \in SUBSET Daily
      BY DEF Inserted, MemStates
    <2> QED BY <2>1 DEF WithDaily, Marked, MemStates
  <1>3. \A acc \in Accumulators : WithAccumulators(m, acc) \in MemStates
    BY DEF WithAccumulators, Marked, MemStates
  <1>4. CleanMark(m) \in MemStates
    BY DEF CleanMark, MemStates
  <1> QED BY <1>1, <1>2, <1>3, <1>4

\* A sample goes into the ring and into its bucket.
LEMMA SampleType ==
    ASSUME NEW m \in MemStates, NEW sensor \in Sensors, NEW t \in Instants,
           NEW on \in BOOLEAN
    PROVE  WithSample(m, sensor, t, on) \in MemStates
  <1>1. Minute(t) \in Nat /\ t \in Nat
    BY DivNat, InstantsNat, StorageAssumption DEF Minute
  <1>2. [sensor |-> sensor, at |-> t, on |-> on, live |-> TRUE] \in Points
    BY <1>1 DEF Points
  <1>3. [at |-> t, on |-> on] \in Samples
    BY DEF Samples
  <1>4. BucketOf(m, sensor, t) \in SUBSET Samples
    BY DEF BucketOf, MemStates, Buckets
  <1>5. [sensor |-> sensor, minute |-> Minute(t),
         of |-> BucketOf(m, sensor, t) \cup {[at |-> t, on |-> on]}] \in Buckets
    BY <1>1, <1>3, <1>4 DEF Buckets
  <1>6. Inserted(m.open, {[sensor |-> sensor, minute |-> Minute(t),
          of |-> BucketOf(m, sensor, t) \cup {[at |-> t, on |-> on]}]}, SameMean)
            \in SUBSET Buckets
    BY <1>5 DEF Inserted, MemStates
  <1> QED BY <1>2, <1>6 DEF WithSample, Marked, MemStates

\* The sequence numbers of each second have a bound.
Bounded(rows) ==
    \A s \in Instants : \E n \in Nat : \A c \in rows : c.at = s => c.seq < n

\* open() builds a mirror from any database whose sequence numbers are bounded.
LEMMA HydratedType ==
    ASSUME NEW d \in Tables, Bounded(d.cycles)
    PROVE  /\ Hydrated(d) \in MemStates
           /\ \A c \in d.cycles : c.seq < Hydrated(d).seq[c.at]
  <1>1. \A s \in Instants : /\ NextSeq(d.cycles, s) \in Nat
                            /\ \A c \in d.cycles : c.at = s => c.seq < NextSeq(d.cycles, s)
    BY NextSeqAbove DEF Bounded, Tables
  <1>2. [s \in Instants |-> NextSeq(d.cycles, s)] \in [Instants -> Nat]
    BY <1>1
  <1>3. \A m \in d.means : [sensor |-> m.sensor, at |-> m.minute * PerMinute, on |-> m.on,
                            live |-> FALSE] \in Points
    BY StorageAssumption DEF Tables, Means, Points
  <1>4. {[sensor |-> m.sensor, at |-> m.minute * PerMinute, on |-> m.on,
          live |-> FALSE] : m \in d.means} \in SUBSET Points
    BY <1>3
  <1>5. Hydrated(d) \in MemStates
    BY <1>2, <1>4 DEF Hydrated, MemStates, Tables
  <1>6. \A c \in d.cycles : c.at \in Instants
    BY DEF Tables, Cycles
  <1>7. \A c \in d.cycles : c.seq < NextSeq(d.cycles, c.at)
    BY <1>1, <1>6
  <1>8. Hydrated(d).seq = [s \in Instants |-> NextSeq(d.cycles, s)]
    BY DEF Hydrated
  <1> QED BY <1>5, <1>6, <1>7, <1>8

LEMMA EmptyTypes ==
    /\ EmptyDisk \in Tables
    /\ Bounded({})
    /\ Hydrated(EmptyDisk) \in MemStates
    /\ Emptied \in Flushes
    /\ NoSweep \in Sweeps
    /\ DefaultAccumulators \in Accumulators
  <1>1. DefaultAccumulators \in Accumulators
    BY DEF DefaultAccumulators, Accumulators
  <1>2. EmptyDisk \in Tables /\ EmptyDisk.cycles = {}
    BY <1>1 DEF EmptyDisk, Tables
  <1>3. Bounded({})
    BY DEF Bounded
  <1>4. Hydrated(EmptyDisk) \in MemStates
    BY <1>2, <1>3, HydratedType
  <1>5. Emptied \in Flushes
    BY <1>1 DEF Emptied, Flushes
  <1>6. NoSweep \in Sweeps
    BY DEF NoSweep, Sweeps
  <1> QED BY <1>1, <1>2, <1>3, <1>4, <1>5, <1>6

-----------------------------------------------------------------------------
(* Types of the tracker *)

LEMMA MinusLarger ==
    ASSUME NEW a \in Nat, NEW b \in Nat
    PROVE  Minus(a, b) \in Nat /\ Larger(a, b) \in Nat
  BY DEF Minus, Larger

LEMMA DayTypes ==
    /\ \A t \in Instants : t \in Nat /\ DayOf(t) \in Nat
    /\ \A d \in Nat : DayStart(d) \in Nat
  <1>1. \A t \in Instants : t \in Nat /\ DayOf(t) \in Nat
    BY InstantsNat, DivNat, StatsAssumption DEF DayOf
  <1>2. \A d \in Nat : DayStart(d) \in Nat
    BY StatsAssumption DEF DayStart
  <1> QED BY <1>1, <1>2

LEMMA FreshType ==
    ASSUME NEW acc \in Accumulators, NEW t \in Instants
    PROVE  FreshStats(acc, t) \in Trackers
  BY DayTypes DEF FreshStats, Trackers, Accumulators

\* A rollover and a transition keep the tracker's type, and what they hand to
\* the store is a list of calls.
LEMMA TrackerTypes ==
    ASSUME NEW st \in Trackers, now \in Instants, NEW on \in BOOLEAN
    PROVE  /\ PollFailed(st) \in Trackers
           /\ AfterRollover(st) \in Trackers
           /\ Followed(AfterRollover(st), on) \in Trackers
           /\ CallsFor(st, on) \in Seq(Calls)
  <1>1. /\ st.since \in Instants /\ st.credited \in Nat /\ st.day \in Nat
        /\ st.dayStarts \in Nat /\ st.daySecs \in Nat /\ st.starts \in Nat
        /\ st.secs \in Nat
    BY DEF Trackers
  <1>2. now \in Nat /\ DayOf(now) \in Nat /\ st.since \in Nat
    BY <1>1, DayTypes
  <1>3. PreMidnight(st) \in Nat
    <2>1. DayStart(DayOf(now)) \in Nat /\ DayStart(st.day) \in Nat
      BY <1>1, <1>2, DayTypes
    <2>2. Larger(st.since, DayStart(st.day)) \in Nat
      BY <1>2, <2>1, MinusLarger
    <2>3. Minus(DayStart(DayOf(now)), Larger(st.since, DayStart(st.day))) \in Nat
      BY <2>1, <2>2, MinusLarger
    <2> QED BY <2>3 DEF PreMidnight
  <1>4. PollFailed(st) \in Trackers
    <2>1. Minus(st.daySecs, IF st.on /\ st.observed THEN st.credited ELSE 0) \in Nat
      BY <1>1, MinusLarger
    <2> QED BY <2>1 DEF PollFailed, Trackers
  <1>5. AfterRollover(st) \in Trackers
    <2>1. st.credited + PreMidnight(st) \in Nat
      BY <1>1, <1>3
    <2> QED BY <1>2, <2>1 DEF AfterRollover, Trackers
  <1>6. ASSUME NEW r \in Trackers PROVE Followed(r, on) \in Trackers
    <2>1. r.since \in Nat /\ r.secs \in Nat /\ r.daySecs \in Nat /\ r.credited \in Nat
          /\ r.starts \in Nat /\ r.dayStarts \in Nat
      BY InstantsNat DEF Trackers
    <2>2. Duration(r) \in Nat
      BY <1>2, <2>1, MinusLarger DEF Duration
    <2>3. Minus(Duration(r), r.credited) \in Nat
      BY <2>1, <2>2, MinusLarger
    <2>4. AfterOff(r) \in Trackers
      <3>1. r.secs + (IF r.observed THEN Duration(r) ELSE 0) \in Nat
        BY <2>1, <2>2
      <3>2. r.daySecs + (IF r.observed THEN Minus(Duration(r), r.credited) ELSE 0) \in Nat
        BY <2>1, <2>3
      <3> QED BY <3>1, <3>2 DEF AfterOff, Trackers
    <2>5. AfterOn(r) \in Trackers
      <3>1. r.starts + 1 \in Nat /\ r.dayStarts + 1 \in Nat
        BY <2>1
      <3> QED BY <3>1 DEF AfterOn, Trackers
    <2> QED BY <2>4, <2>5 DEF Followed
  <1>7. Followed(AfterRollover(st), on) \in Trackers
    BY <1>5, <1>6
  <1>8. CallsFor(st, on) \in Seq(Calls)
    <2> DEFINE next == Followed(AfterRollover(st), on)
               closed == IF Closes(st, on)
                         THEN <<[op |-> "cycle", at |-> st.since, secs |-> Duration(st)]>>
                         ELSE <<>>
               archived == IF Archived(st) = {} THEN <<>>
                           ELSE <<[op |-> "daily", row |-> CHOOSE r \in Archived(st) : TRUE]>>
               dirty == Archived(st) # {} \/ Closes(st, on) \/ (~st.on /\ on)
               totals == IF dirty THEN <<[op |-> "acc", acc |-> LifetimeOf(next)]>> ELSE <<>>
    <2>1. closed \in Seq(Calls)
      <3>1. Duration(st) \in Nat
        BY <1>2, MinusLarger DEF Duration
      <3>2. [op |-> "cycle", at |-> st.since, secs |-> Duration(st)] \in Calls
        BY <1>1, <3>1 DEF Calls
      <3> QED BY <3>2
    <2>2. archived \in Seq(Calls)
      <3>1. st.daySecs + PreMidnight(st) \in Nat
        BY <1>1, <1>3
      <3>2. \A r \in Archived(st) : r \in Daily
        BY <1>1, <3>1 DEF Archived, Daily
      <3>3. CASE Archived(st) # {}
        <4>1. (CHOOSE r \in Archived(st) : TRUE) \in Archived(st)
          BY <3>3
        <4>2. [op |-> "daily", row |-> CHOOSE r \in Archived(st) : TRUE] \in Calls
          BY <3>2, <4>1 DEF Calls
        <4> QED BY <3>3, <4>2
      <3> QED BY <3>3
    <2>3. totals \in Seq(Calls)
      <3>1. LifetimeOf(next) \in Accumulators
        BY <1>7 DEF LifetimeOf, Accumulators, Trackers
      <3>2. [op |-> "acc", acc |-> LifetimeOf(next)] \in Calls
        BY <3>1 DEF Calls
      <3> QED BY <3>2
    <2>4. CallsFor(st, on) = closed \o archived \o totals
      BY DEF CallsFor, InOrder
    <2> HIDE DEF closed, archived, totals
    <2> QED BY <2>1, <2>2, <2>3, <2>4
  <1> QED BY <1>4, <1>5, <1>7, <1>8

-----------------------------------------------------------------------------
(* The inductive invariant.  A sequence number on its way to disk is below   *)
(* the mirror's next one, so that a bound exists for each second of the      *)
(* database and open() finds the next number to use.                         *)

\* A sweep that goes on has the stamp it started with.
Stamped == sweep.left # <<>> => sweep.at \in Instants

\* A process that is gone has no flush, no pending cycle and no call to make.
DownIsEmpty == proc = "down" => flush = Emptied /\ mem.cycles = {} /\ writes = <<>>

\* Every cycle has a number below the next one of its second.
SeqIsAbove == proc # "down" => \A c \in AllCycles : c.seq < mem.seq[c.at]

IInv ==
    /\ TypeOK
    /\ Stamped
    /\ DownIsEmpty
    /\ SeqIsAbove
    /\ Bounded(disk.cycles)
    /\ KeysAreUnique

\* What a step of the store leaves alone.
Quiet == UNCHANGED <<stats, writes>>

LEMMA InitIInv == Init => IInv
  <1> SUFFICES ASSUME Init PROVE IInv
    OBVIOUS
  <1> USE DEF Init, StoreInit
  <1>1. now \in Instants
    BY StorageAssumption DEF Instants
  <1>2. stats \in Trackers
    BY <1>1, EmptyTypes, FreshType DEF Instants
  <1>3. limits \in Limits
    BY StorageAssumption DEF Limits
  <1>4. legacy \in Imports
    <2>1. <<>> \in Seq([at : Instants, secs : Nat])
      OBVIOUS
    <2> QED BY <2>1 DEF Imports
  <1>5. TypeOK
    BY <1>1, <1>2, <1>3, <1>4, EmptyTypes DEF TypeOK, Procs
  <1>6. mem.cycles = {} /\ disk.cycles = {} /\ flush.cycles = {}
    BY DEF Hydrated, EmptyDisk, Emptied
  <1>7. Stamped /\ DownIsEmpty /\ SeqIsAbove /\ KeysAreUnique
    BY <1>6 DEF Stamped, NoSweep, DownIsEmpty, SeqIsAbove, KeysAreUnique, AllCycles
  <1>8. Bounded(disk.cycles)
    BY <1>6, EmptyTypes
  <1> QED BY <1>5, <1>7, <1>8 DEF IInv

\* What is left of a sequence that is not empty.
LEMMA HeadTail ==
    ASSUME NEW T, NEW q \in Seq(T), q # <<>>
    PROVE  Head(q) \in T /\ Tail(q) \in Seq(T)
  OBVIOUS

\* The sensors of a sweep are sensors.
LEMMA SweepType == SENSORS \in Seq(Sensors) /\ SENSORS # <<>>
  BY StorageAssumption DEF Sensors

\* Every step of the store keeps the types.
LEMMA StoreTypes ==
    ASSUME IInv, StoreNext, Quiet
    PROVE  TypeOK' /\ Stamped'
  <1> USE DEF IInv, TypeOK, Quiet
  <1>0. /\ sweep.left \in Seq(Sensors) /\ sweep.at \in Instants \cup {-1}
        /\ (sweep.left # <<>> => Head(sweep.left) \in Sensors /\ Tail(sweep.left) \in Seq(Sensors))
        /\ now \in Instants
    BY DEF Sweeps
  <1>00. ASSUME sweep.left # <<>>, SweepGoesOn PROVE sweep' \in Sweeps /\ Stamped'
    <2>1. sweep.at \in Instants
      BY <1>00 DEF Stamped
    <2>2. PICK rest \in Seq(Sensors) : sweep' = [sweep EXCEPT !.left = rest]
      <3>1. <<>> \in Seq(Sensors)
        OBVIOUS
      <3> QED BY <1>0, <1>00, <3>1 DEF SweepGoesOn
    <2> QED BY <2>1, <2>2 DEF Sweeps, Stamped
  <1>1. CASE SweepStarts
    BY <1>0, <1>1, SweepType DEF SweepStarts, Sweeps, Stamped
  <1>2. ASSUME NEW on \in BOOLEAN, SensorRead(on) PROVE TypeOK' /\ Stamped'
    <2>1. mem' \in MemStates
      BY <1>0, <1>2, SampleType DEF SensorRead, Stamped
    <2>2. limits' \in Limits
      <3>1. PICK b \in BOOLEAN : limits' = [limits EXCEPT !.late = b]
        BY <1>2, Zenon DEF SensorRead
      <3> QED BY <3>1 DEF Limits
    <2> QED BY <1>00, <1>2, <2>1, <2>2 DEF SensorRead
  <1>3. CASE SensorMissed
    <2>1. limits.missed - 1 \in Nat
      BY <1>3 DEF SensorMissed, Limits
    <2>2. PICK o \in Instants \cup {-1} :
             limits' = [limits EXCEPT !.missed = @ - 1, !.outage = o]
      BY <1>0, <1>3 DEF SensorMissed, Limits
    <2>3. limits' \in Limits
      BY <2>1, <2>2 DEF Limits
    <2> QED BY <1>00, <1>3, <2>3 DEF SensorMissed
  <1>4. CASE SweepAborted
    <2>1. <<>> \in Seq(Sensors)
      OBVIOUS
    <2>2. sweep' = [sweep EXCEPT !.left = <<>>]
      BY <1>4 DEF SweepAborted
    <2>3. sweep' \in Sweeps /\ Stamped'
      BY <2>1, <2>2 DEF Sweeps, Stamped
    <2> QED BY <1>4, <2>3 DEF SweepAborted
  <1>5. ASSUME NEW caller \in {"hourly", "import", "final"}, FlushTakes(caller)
        PROVE  mem' \in MemStates /\ flush' \in Flushes
    <2> DEFINE over == {b \in mem.open : IsOver(b)}
    <2>1. PICK reads \in [over -> BOOLEAN] :
             flush' = [pc |-> "taken", caller |-> caller, cycles |-> mem.cycles,
                       daily |-> mem.daily, acc |-> mem.acc,
                       means |-> {[sensor |-> b.sensor, minute |-> b.minute,
                                   of |-> b.of, on |-> reads[b]] : b \in over}]
      BY <1>5 DEF FlushTakes
    <2>2. {[sensor |-> b.sensor, minute |-> b.minute, of |-> b.of, on |-> reads[b]] :
             b \in over} \in SUBSET Means
      BY DEF MemStates, Buckets, Means
    <2>3. flush' \in Flushes
      BY <2>1, <2>2 DEF Flushes, MemStates
    <2>4. mem' \in MemStates
      BY <1>5 DEF FlushTakes, MemStates
    <2> QED BY <2>3, <2>4
  <1>6. CASE HourlyFlush
    <2>1. mem' \in MemStates /\ flush' \in Flushes
      BY <1>5, <1>6 DEF HourlyFlush
    <2>2. limits' \in Limits
      BY <1>6 DEF HourlyFlush, Limits
    <2> QED BY <1>6, <2>1, <2>2 DEF HourlyFlush, FlushTakes, Stamped
  <1>7. CASE ImportFlush
    <2>1. mem' \in MemStates /\ flush' \in Flushes
      BY <1>5, <1>7 DEF ImportFlush
    <2> QED BY <1>7, <2>1 DEF ImportFlush, FlushTakes, Stamped
  <1>8. CASE FinalFlush
    <2>1. mem' \in MemStates /\ flush' \in Flushes
      BY <1>5, <1>8 DEF FinalFlush
    <2> QED BY <1>8, <2>1 DEF FinalFlush, FlushTakes, Stamped
  <1>9. CASE FlushCommits
    <2>1. disk' \in Tables
      <3>1. Inserted(disk.cycles, flush.cycles, SameCycle) \in SUBSET Cycles
        BY DEF Inserted, Tables, Flushes
      <3>2. Inserted(disk.daily, flush.daily, SameDay) \in SUBSET Daily
        BY DEF Inserted, Tables, Flushes
      <3>3. Inserted(disk.means, flush.means, SameMean) \in SUBSET Means
        BY DEF Inserted, Tables, Flushes
      <3> QED BY <1>9, <3>1, <3>2, <3>3 DEF FlushCommits, Tables, Flushes
    <2>2. flush' \in Flushes
      BY <1>9 DEF FlushCommits, Flushes
    <2>3. limits' \in Limits
      <3>1. PICK b \in BOOLEAN : limits' = [limits EXCEPT !.imported = b]
        BY <1>9, Zenon DEF FlushCommits
      <3> QED BY <3>1 DEF Limits
    <2> QED BY <1>9, <2>1, <2>2, <2>3 DEF FlushCommits, Stamped
  <1>10. Resumed(flush.caller) \in Procs
    BY DEF Resumed, Procs, Flushes
  <1>11. CASE FlushFails
    <2>1. limits' \in Limits
      <3>1. limits.commits - 1 \in Nat
        BY <1>11 DEF FlushFails, Limits
      <3>2. limits' = [limits EXCEPT !.commits = @ - 1, !.lost = TRUE]
        BY <1>11 DEF FlushFails
      <3> QED BY <3>1, <3>2 DEF Limits
    <2> QED BY <1>10, <1>11, <2>1, EmptyTypes DEF FlushFails, Stamped
  <1>12. CASE FlushEnds
    <2>1. legacy' \in Imports
      BY <1>12 DEF FlushEnds, Imports
    <2> QED BY <1>10, <1>12, <2>1, EmptyTypes, WriteTypes DEF FlushEnds, Stamped
  <1>13. CASE NoFinalFlush
    BY <1>13 DEF NoFinalFlush, Stamped, Procs
  <1>14. CASE Open
    BY <1>14, HydratedType DEF Open, Stamped, Procs
  <1>15. CASE NoImport
    BY <1>15 DEF NoImport, Stamped, Procs
  <1>16. CASE ImportStarts
    <2>1. mem' \in MemStates
      <3>1. LegacyTotal \in Accumulators
        BY StorageAssumption DEF Accumulators
      <3> QED BY <1>16, <3>1, WriteTypes DEF ImportStarts
    <2>2. legacy' \in Imports
      BY <1>16, StorageAssumption DEF ImportStarts, Imports, Instants
    <2> QED BY <1>16, <2>1, <2>2 DEF ImportStarts, Stamped, Procs
  <1>17. CASE ImportsCycle
    <2>1. /\ Head(legacy.left).at \in Instants /\ Head(legacy.left).secs \in Nat
          /\ Tail(legacy.left) \in Seq([at : Instants, secs : Nat])
      <3>1. legacy.left \in Seq([at : Instants, secs : Nat]) /\ legacy.left # <<>>
        BY <1>17 DEF ImportsCycle, Imports
      <3>2. /\ Head(legacy.left) \in [at : Instants, secs : Nat]
            /\ Tail(legacy.left) \in Seq([at : Instants, secs : Nat])
        BY <3>1, HeadTail
      <3> QED BY <3>2
    <2>2. mem' \in MemStates
      BY <1>17, <2>1, WriteTypes DEF ImportsCycle
    <2>3. legacy' \in Imports
      BY <1>17, <2>1 DEF ImportsCycle, Imports
    <2> QED BY <1>17, <2>2, <2>3 DEF ImportsCycle, Stamped
  <1>18. CASE Signal \/ TaskPanics
    <2>1. limits' \in Limits
      BY <1>18 DEF Signal, TaskPanics, Limits
    <2> QED BY <1>18, <2>1 DEF Signal, TaskPanics, Stamped, Procs
  <1>19. CASE TimePasses
    <2>1. now' \in Instants
      BY <1>19, StorageAssumption DEF TimePasses, Instants
    <2> QED BY <1>19, <2>1 DEF TimePasses, Stamped
  <1> QED BY <1>1, <1>2, <1>3, <1>4, <1>6, <1>7, <1>8, <1>9, <1>11, <1>12, <1>13, <1>14,
             <1>15, <1>16, <1>17, <1>18, <1>19 DEF StoreNext

\* Every step of the statistics, of a start, a stop and a crash keeps the types.
LEMMA StatsTypes ==
    ASSUME IInv, StatsTick \/ StatsWrites \/ Started \/ TasksSettled \/ Dies
    PROVE  TypeOK' /\ Stamped'
  <1> USE DEF IInv, TypeOK
  <1>1. CASE StatsTick
    <2>1. UNCHANGED storeVars
      BY <1>1 DEF StatsTick
    <2>2. stats' \in Trackers /\ writes' \in Seq(Calls)
      <3>1. CASE Latest("HpStatus") = {} /\ stats' = PollFailed(stats) /\ UNCHANGED writes
        BY <3>1, TrackerTypes
      <3>2. ASSUME NEW p \in Latest("HpStatus"), stats.initialized,
                   stats' = Followed(AfterRollover(stats), p.on),
                   writes' = CallsFor(stats, p.on)
            PROVE  stats' \in Trackers /\ writes' \in Seq(Calls)
        <4>1. p.on \in BOOLEAN
          BY DEF Latest, MemStates, Points
        <4>2. Followed(AfterRollover(stats), p.on) \in Trackers /\ writes' \in Seq(Calls)
          BY <3>2, <4>1, TrackerTypes
        <4> QED BY <3>2, <4>2
      <3>3. ASSUME NEW p \in Latest("HpStatus"), ~stats.initialized,
                   stats' = [stats EXCEPT !.initialized = TRUE, !.on = p.on,
                                          !.since = now],
                   UNCHANGED writes
            PROVE  stats' \in Trackers /\ writes' \in Seq(Calls)
        <4>1. p.on \in BOOLEAN
          BY DEF Latest, MemStates, Points
        <4> QED BY <3>3, <4>1 DEF Trackers
      <3> QED BY <1>1, <3>1, <3>2, <3>3 DEF StatsTick
    <2> QED BY <2>1, <2>2 DEF storeVars, Stamped
  <1>2. CASE StatsWrites
    <2>1. Head(writes) \in Calls /\ Tail(writes) \in Seq(Calls)
      BY <1>2, HeadTail DEF StatsWrites
    <2>2. mem' \in MemStates
      <3>1. CASE Head(writes).op = "cycle"
        <4>1. Head(writes).at \in Instants /\ Head(writes).secs \in Nat
          BY <2>1, <3>1 DEF Calls
        <4>2. mem' = WithCycle(mem, Head(writes).at, Head(writes).secs)
          BY <1>2, <3>1 DEF StatsWrites
        <4> QED BY <4>1, <4>2, WriteTypes
      <3>2. CASE Head(writes).op = "daily"
        <4>1. Head(writes).row \in Daily
          BY <2>1, <3>2 DEF Calls
        <4>2. mem' = WithDaily(mem, Head(writes).row)
          BY <1>2, <3>2 DEF StatsWrites
        <4> QED BY <4>1, <4>2, WriteTypes
      <3>3. CASE Head(writes).op = "acc"
        <4>1. Head(writes).acc \in Accumulators
          BY <2>1, <3>3 DEF Calls
        <4>2. mem' = WithAccumulators(mem, Head(writes).acc)
          BY <1>2, <3>3 DEF StatsWrites
        <4> QED BY <4>1, <4>2, WriteTypes
      <3> QED BY <2>1, <3>1, <3>2, <3>3 DEF Calls
    <2> QED BY <1>2, <2>1, <2>2 DEF StatsWrites, Stamped
  <1>3. CASE Started
    <2>1. stats' \in Trackers
      BY <1>3, FreshType DEF Started, MemStates
    <2> QED BY <1>3, <2>1 DEF Started, Stamped, Procs
  <1>4. CASE TasksSettled
    BY <1>4 DEF TasksSettled, Stamped, Procs
  <1>5. CASE Dies
    <2>1. Vanishes /\ limits' \in Limits
      <3>1. CASE Crash
        <4>1. limits.ends - 1 \in Nat
          BY <3>1 DEF Crash, Limits
        <4>2. limits' = [limits EXCEPT !.ends = @ - 1, !.died = TRUE] /\ Vanishes
          BY <3>1 DEF Crash
        <4> QED BY <4>1, <4>2 DEF Limits
      <3>2. CASE Exit
        BY <3>2 DEF Exit
      <3> QED BY <1>5, <3>1, <3>2 DEF Dies
    <2>2. legacy' \in Imports
      <3>1. <<>> \in Seq([at : Instants, secs : Nat])
        OBVIOUS
      <3> QED BY <2>1, <3>1 DEF Vanishes, Imports
    <2>3. stats' \in Trackers /\ writes' \in Seq(Calls)
      <3>1. 0 \in Instants
        BY StorageAssumption DEF Instants
      <3>2. stats' = FreshStats(DefaultAccumulators, 0) /\ writes' = <<>>
        BY <1>5 DEF Dies
      <3> QED BY <3>1, <3>2, EmptyTypes, FreshType
    <2>4. sweep' = NoSweep /\ flush' = Emptied /\ mem' = Hydrated(EmptyDisk)
          /\ proc' = "down" /\ now' = now /\ disk' = disk
      BY <2>1 DEF Vanishes
    <2>5. Stamped'
      BY <2>4 DEF Stamped, NoSweep
    <2> QED BY <2>1, <2>2, <2>3, <2>4, <2>5, EmptyTypes DEF Procs
  <1> QED BY <1>1, <1>2, <1>3, <1>4, <1>5

-----------------------------------------------------------------------------
(* Keys *)

Keys == DownIsEmpty /\ SeqIsAbove /\ Bounded(disk.cycles) /\ KeysAreUnique

\* Recording a cycle takes the next number of its second.
LEMMA CycleKeeps ==
    ASSUME IInv, TypeOK', proc # "down",
           NEW at \in Instants, NEW secs \in Nat, mem' = WithCycle(mem, at, secs),
           UNCHANGED <<proc, flush, disk>>
    PROVE  Keys'
  <1> USE DEF IInv
  <1> DEFINE c == [at |-> at, seq |-> mem.seq[at], secs |-> secs]
  <1>1. /\ mem'.cycles = mem.cycles \cup {c}
        /\ mem'.seq = [mem.seq EXCEPT ![at] = @ + 1]
    BY DEF WithCycle, Marked, TypeOK, MemStates
  <1>2. AllCycles' = AllCycles \cup {c}
    BY <1>1 DEF AllCycles
  <1>3. /\ mem.seq \in [Instants -> Nat]
        /\ \A d \in AllCycles : d.at \in Instants /\ d.seq \in Nat
    BY DEF TypeOK, MemStates, Tables, Flushes, AllCycles, Cycles
  <1>4. \A d \in AllCycles : d.seq < mem.seq[d.at]
    BY DEF SeqIsAbove
  <1>5. mem.seq[at] \in Nat /\ c.at = at /\ c.seq = mem.seq[at]
    BY <1>3
  <1> HIDE DEF c
  <1>6. SeqIsAbove'
    <2>1. \A d \in AllCycles' : d.seq < mem'.seq[d.at]
      <3>1. ASSUME NEW d \in AllCycles PROVE d.seq < mem'.seq[d.at]
        <4>1. d.at \in Instants /\ d.seq \in Nat /\ d.seq < mem.seq[d.at]
          BY <1>3, <1>4
        <4>2. mem'.seq[d.at] = IF d.at = at THEN mem.seq[at] + 1 ELSE mem.seq[d.at]
          BY <1>1, <1>3, <4>1
        <4> QED BY <1>5, <4>1, <4>2
      <3>2. c.seq < mem'.seq[c.at]
        BY <1>1, <1>3, <1>5
      <3> QED BY <1>2, <3>1, <3>2
    <2> QED BY <2>1 DEF SeqIsAbove
  <1>7. KeysAreUnique'
    <2>1. \A d \in AllCycles : ~SameCycle(c, d) /\ ~SameCycle(d, c)
      BY <1>3, <1>4, <1>5 DEF SameCycle
    <2> QED BY <1>2, <2>1 DEF KeysAreUnique
  <1>8. Bounded(disk'.cycles)
    BY DEF Bounded
  <1>9. DownIsEmpty'
    BY DEF DownIsEmpty
  <1> QED BY <1>6, <1>7, <1>8, <1>9 DEF Keys

\* A step that adds no cycle and leaves the numbers alone disturbs no key.
LEMMA FewerKeep ==
    ASSUME IInv, proc # "down", proc' # "down", mem'.seq = mem.seq,
           AllCycles' \subseteq AllCycles, Bounded(disk'.cycles)
    PROVE  Keys'
  <1> USE DEF IInv
  <1>1. DownIsEmpty'
    BY DEF DownIsEmpty
  <1>2. SeqIsAbove'
    BY DEF SeqIsAbove
  <1>3. KeysAreUnique'
    BY DEF KeysAreUnique
  <1> QED BY <1>1, <1>2, <1>3 DEF Keys

\* Nor does a step that leaves cycles and numbers as they are.
LEMMA SameKeep ==
    ASSUME IInv, UNCHANGED <<proc, flush, disk>>, mem'.cycles = mem.cycles,
           mem'.seq = mem.seq, proc = "down" => UNCHANGED writes
    PROVE  Keys'
  <1>1. AllCycles' = AllCycles
    BY DEF AllCycles
  <1> QED BY <1>1 DEF IInv, Keys, DownIsEmpty, SeqIsAbove, Bounded, KeysAreUnique

\* Every step of the store keeps the keys apart.
LEMMA StoreKeys ==
    ASSUME IInv, StoreNext, Quiet, TypeOK'
    PROVE  Keys'
  <1> USE DEF IInv, Quiet
  <1>0. /\ mem \in MemStates /\ flush \in Flushes /\ disk \in Tables
        /\ (flush.pc # "idle" => proc # "down")
    BY DEF TypeOK, DownIsEmpty, Emptied
  <1>1. CASE SweepStarts \/ SensorMissed \/ SweepAborted
    BY <1>1, SameKeep DEF SweepStarts, SensorMissed, SweepAborted
  <1>2. ASSUME NEW on \in BOOLEAN, SensorRead(on) PROVE Keys'
    <2>1. mem'.cycles = mem.cycles /\ mem'.seq = mem.seq
      BY <1>0, <1>2 DEF SensorRead, WithSample, Marked, MemStates
    <2> QED BY <1>2, <2>1, SameKeep DEF SensorRead
  <1>3. ASSUME NEW caller, FlushTakes(caller), proc # "down" PROVE Keys'
    <2>1. /\ mem'.cycles = {} /\ mem'.seq = mem.seq
          /\ flush'.cycles = mem.cycles
          /\ UNCHANGED <<proc, disk>>
      BY <1>0, <1>3 DEF FlushTakes, MemStates
    <2>2. AllCycles' \subseteq AllCycles
      BY <2>1 DEF AllCycles
    <2> QED BY <1>3, <2>1, <2>2, FewerKeep DEF Bounded
  <1>4. CASE HourlyFlush \/ ImportFlush \/ FinalFlush
    BY <1>3, <1>4 DEF HourlyFlush, ImportFlush, FinalFlush
  <1>5. CASE FlushCommits
    <2>1. disk'.cycles \subseteq disk.cycles \cup flush.cycles
      BY <1>5 DEF FlushCommits, Inserted
    <2>2. flush'.cycles = flush.cycles /\ UNCHANGED <<proc, mem>> /\ proc # "down"
      BY <1>0, <1>5 DEF FlushCommits, Flushes
    <2>3. AllCycles' \subseteq AllCycles
      BY <2>1, <2>2 DEF AllCycles
    <2>4. Bounded(disk'.cycles)
      <3>1. ASSUME NEW s \in Instants
            PROVE  \E n \in Nat : \A c \in disk'.cycles : c.at = s => c.seq < n
        <4>1. mem.seq[s] \in Nat
          BY <1>0 DEF MemStates
        <4>2. \A c \in disk'.cycles : c.at = s => c.seq < mem.seq[s]
          BY <2>1, <2>2 DEF SeqIsAbove, AllCycles
        <4> QED BY <4>1, <4>2
      <3> QED BY <3>1 DEF Bounded
    <2> QED BY <2>2, <2>3, <2>4, FewerKeep
  <1>6. Resumed(flush.caller) # "down" \/ proc = "down"
    BY DEF Resumed
  <1>7. CASE FlushFails
    <2>1. /\ flush'.cycles = {} /\ UNCHANGED <<mem, disk>> /\ proc # "down"
          /\ proc' # "down"
      BY <1>0, <1>6, <1>7 DEF FlushFails, Emptied
    <2>2. AllCycles' \subseteq AllCycles
      BY <2>1 DEF AllCycles
    <2> QED BY <2>1, <2>2, FewerKeep DEF Bounded
  <1>8. CASE FlushEnds
    <2>1. /\ flush'.cycles = {} /\ UNCHANGED disk /\ proc # "down" /\ proc' # "down"
          /\ mem'.cycles = mem.cycles /\ mem'.seq = mem.seq
      BY <1>0, <1>6, <1>8 DEF FlushEnds, Emptied, CleanMark, MemStates
    <2>2. AllCycles' \subseteq AllCycles
      BY <2>1 DEF AllCycles
    <2> QED BY <2>1, <2>2, FewerKeep DEF Bounded
  <1>9. CASE NoFinalFlush \/ NoImport \/ Signal \/ TaskPanics
    <2>1. UNCHANGED <<mem, disk, flush>> /\ proc # "down" /\ proc' # "down"
      BY <1>9 DEF NoFinalFlush, NoImport, Signal, TaskPanics
    <2>2. AllCycles' \subseteq AllCycles
      BY <2>1 DEF AllCycles
    <2> QED BY <2>1, <2>2, FewerKeep DEF Bounded
  <1>10. CASE Open
    <2>1. /\ mem' = Hydrated(disk) /\ proc' = "opened" /\ UNCHANGED <<disk, flush>>
          /\ flush.cycles = {}
      BY <1>10 DEF Open, DownIsEmpty, Emptied
    <2>2. AllCycles' = disk.cycles /\ disk.cycles \subseteq AllCycles
      BY <2>1 DEF AllCycles, Hydrated
    <2>3. SeqIsAbove'
      BY <1>0, <2>1, <2>2, HydratedType DEF SeqIsAbove
    <2>4. KeysAreUnique' /\ DownIsEmpty'
      BY <2>1, <2>2 DEF KeysAreUnique, DownIsEmpty
    <2> QED BY <2>1, <2>3, <2>4 DEF Keys, Bounded
  <1>11. CASE ImportStarts
    <2>1. /\ UNCHANGED <<disk, flush>> /\ proc # "down" /\ proc' # "down"
          /\ mem'.cycles = mem.cycles /\ mem'.seq = mem.seq
      BY <1>0, <1>11 DEF ImportStarts, WithAccumulators, Marked, MemStates
    <2>2. AllCycles' \subseteq AllCycles
      BY <2>1 DEF AllCycles
    <2> QED BY <2>1, <2>2, FewerKeep DEF Bounded
  <1>12. CASE ImportsCycle
    <2>1. Head(legacy.left) \in [at : Instants, secs : Nat]
      BY <1>12, HeadTail DEF ImportsCycle, TypeOK, Imports
    <2>2. Head(legacy.left).at \in Instants /\ Head(legacy.left).secs \in Nat
      BY <2>1
    <2> QED BY <1>12, <2>2, CycleKeeps DEF ImportsCycle
  <1>13. CASE TimePasses
    BY <1>13, SameKeep DEF TimePasses
  <1> QED BY <1>1, <1>2, <1>4, <1>5, <1>7, <1>8, <1>9, <1>10, <1>11, <1>12, <1>13
          DEF StoreNext

\* So does every other step.
LEMMA StatsKeys ==
    ASSUME IInv, TypeOK', StatsTick \/ StatsWrites \/ Started \/ TasksSettled \/ Dies
    PROVE  Keys'
  <1> USE DEF IInv
  <1>0. /\ mem \in MemStates /\ writes \in Seq(Calls)
        /\ (writes # <<>> => proc # "down")
    BY DEF TypeOK, DownIsEmpty
  <1>1. CASE StatsTick
    BY <1>1, SameKeep DEF StatsTick, storeVars
  <1>2. CASE StatsWrites
    <2>1. Head(writes) \in Calls /\ proc # "down" /\ UNCHANGED <<proc, flush, disk>>
      BY <1>0, <1>2, HeadTail DEF StatsWrites
    <2>2. CASE Head(writes).op = "cycle"
      <3>1. Head(writes).at \in Instants /\ Head(writes).secs \in Nat
        BY <2>1, <2>2 DEF Calls
      <3>2. mem' = WithCycle(mem, Head(writes).at, Head(writes).secs)
        BY <1>2, <2>2 DEF StatsWrites
      <3> QED BY <2>1, <3>1, <3>2, CycleKeeps
    <2>3. CASE Head(writes).op = "daily"
      <3>1. mem' = WithDaily(mem, Head(writes).row)
        BY <1>2, <2>3 DEF StatsWrites
      <3>2. mem'.cycles = mem.cycles /\ mem'.seq = mem.seq
        BY <1>0, <3>1 DEF WithDaily, Marked, MemStates
      <3> QED BY <2>1, <3>2, SameKeep
    <2>4. CASE Head(writes).op = "acc"
      <3>1. mem' = WithAccumulators(mem, Head(writes).acc)
        BY <1>2, <2>4 DEF StatsWrites
      <3>2. mem'.cycles = mem.cycles /\ mem'.seq = mem.seq
        BY <1>0, <3>1 DEF WithAccumulators, Marked, MemStates
      <3> QED BY <2>1, <3>2, SameKeep
    <2> QED BY <2>1, <2>2, <2>3, <2>4 DEF Calls
  <1>3. CASE Started \/ TasksSettled
    <2>1. UNCHANGED <<mem, disk, flush>> /\ proc # "down" /\ proc' # "down"
      BY <1>3 DEF Started, TasksSettled
    <2>2. AllCycles' \subseteq AllCycles
      BY <2>1 DEF AllCycles
    <2> QED BY <2>1, <2>2, FewerKeep DEF Bounded
  <1>4. CASE Dies
    <2>1. Vanishes
      BY <1>4 DEF Dies, Crash, Exit
    <2>2. /\ proc' = "down" /\ UNCHANGED disk /\ flush' = Emptied /\ mem'.cycles = {}
          /\ writes' = <<>>
      BY <1>4, <2>1 DEF Dies, Vanishes, Hydrated
    <2>3. AllCycles' \subseteq AllCycles
      BY <2>2 DEF AllCycles, Emptied
    <2>4. SeqIsAbove' /\ DownIsEmpty' /\ Bounded(disk'.cycles) /\ KeysAreUnique'
      BY <2>2, <2>3 DEF SeqIsAbove, DownIsEmpty, Bounded, KeysAreUnique
    <2> QED BY <2>4 DEF Keys
  <1> QED BY <1>1, <1>2, <1>3, <1>4

\* A step that changes nothing.
LEMMA Stutter == IInv /\ UNCHANGED vars => IInv'
  <1> SUFFICES ASSUME IInv, UNCHANGED vars PROVE IInv'
    OBVIOUS
  <1>1. TypeOK' /\ Stamped'
    BY DEF IInv, TypeOK, Stamped, vars, storeVars
  <1>2. Keys'
    <2>1. UNCHANGED <<proc, flush, disk, mem, writes>>
      BY DEF vars, storeVars
    <2> QED BY <2>1, SameKeep
  <1> QED BY <1>1, <1>2 DEF IInv, Keys

LEMMA InvInductive == Spec => []IInv
  <1>1. ASSUME IInv, Next PROVE IInv'
    <2>1. CASE StoreNext /\ Quiet
      BY <1>1, <2>1, StoreTypes, StoreKeys DEF IInv, Keys
    <2>2. CASE StatsTick \/ StatsWrites \/ Started \/ TasksSettled \/ Dies
      BY <1>1, <2>2, StatsTypes, StatsKeys DEF IInv, Keys
    <2> QED BY <1>1, <2>1, <2>2 DEF Next, StoreStep, Quiet
  <1> QED BY <1>1, InitIInv, Stutter, PTL DEF Spec

\* Every variable keeps its type: no counter of the tracker becomes negative,
\* and the sequence number open() computes is a number.
THEOREM TypeCorrect == Spec => []TypeOK
  <1>1. IInv => TypeOK
    BY DEF IInv
  <1> QED BY <1>1, InvInductive, PTL

\* Two cycles never share a key, over flushes, failed commits, crashes,
\* restarts and the import of the legacy file (record_cycle, open).
THEOREM KeysCorrect == Spec => []KeysAreUnique
  <1>1. IInv => KeysAreUnique
    BY DEF IInv
  <1> QED BY <1>1, InvInductive, PTL

-----------------------------------------------------------------------------
(* A mirror that is not dirty is written.  The flush in progress is followed *)
(* from the first lock section to the second: as long as nobody writes       *)
(* (`moved`), the mirror has what was taken, and a commit puts it on disk.   *)

TakenIsHeld ==
    flush.pc # "idle" =>
        mem.dirty /\ (~mem.moved => mem.cycles = {} /\ mem.daily = {} /\ mem.acc = flush.acc)
CommittedIsOnDisk == flush.pc = "committed" => disk.acc = flush.acc
CInv == TakenIsHeld /\ CommittedIsOnDisk /\ CleanMeansWritten

\* A call of a task marks the mirror.
LEMMA WriteMarks ==
    ASSUME CInv, mem'.dirty, mem'.moved, UNCHANGED <<flush, disk>>
    PROVE  CInv'
  BY DEF CInv, TakenIsHeld, CommittedIsOnDisk, CleanMeansWritten

\* A step that changes neither the mirror nor a flush.
LEMMA NoWrite ==
    ASSUME CInv, UNCHANGED <<mem, flush, disk>>, proc # "down" \/ proc' = "down"
    PROVE  CInv'
  BY DEF CInv, TakenIsHeld, CommittedIsOnDisk, CleanMeansWritten

LEMMA MarkedIsMarked ==
    ASSUME NEW m \in MemStates
    PROVE  /\ \A at, secs : WithCycle(m, at, secs).dirty /\ WithCycle(m, at, secs).moved
           /\ \A row : WithDaily(m, row).dirty /\ WithDaily(m, row).moved
           /\ \A acc : WithAccumulators(m, acc).dirty /\ WithAccumulators(m, acc).moved
           /\ \A sensor, t, on : /\ WithSample(m, sensor, t, on).dirty
                                 /\ WithSample(m, sensor, t, on).moved
  BY DEF WithCycle, WithDaily, WithAccumulators, WithSample, Marked, MemStates

\* Every step keeps CInv.
LEMMA CleanStep ==
    ASSUME IInv, CInv, Next
    PROVE  CInv'
  <1> USE DEF CInv
  <1>0. /\ mem \in MemStates /\ flush \in Flushes /\ disk \in Tables
        /\ (flush.pc # "idle" => proc # "down")
        /\ (writes # <<>> => proc # "down")
    BY DEF IInv, TypeOK, DownIsEmpty, Emptied
  <1>1. CASE SweepStarts \/ SensorMissed \/ SweepAborted \/ NoFinalFlush \/ NoImport \/ Signal
             \/ TaskPanics \/ TimePasses \/ StatsTick \/ Started \/ TasksSettled
    <2>1. UNCHANGED <<mem, flush, disk>>
      BY <1>1 DEF SweepStarts, SensorMissed, SweepAborted, NoFinalFlush, NoImport, Signal,
                  TaskPanics, TimePasses, StatsTick, Started, TasksSettled, storeVars
    <2>2. (proc = "down") = (proc' = "down")
      BY <1>1 DEF SweepStarts, SensorMissed, SweepAborted, NoFinalFlush, NoImport, Signal,
                  TaskPanics, TimePasses, StatsTick, Started, TasksSettled, storeVars
    <2> QED BY <2>1, <2>2, NoWrite
  <1>2. CASE (\E on \in BOOLEAN : SensorRead(on)) \/ ImportStarts \/ ImportsCycle
    <2>1. mem'.dirty /\ mem'.moved /\ UNCHANGED <<flush, disk>>
      BY <1>0, <1>2, MarkedIsMarked DEF SensorRead, ImportStarts, ImportsCycle
    <2> QED BY <2>1, WriteMarks
  <1>3. CASE StatsWrites
    <2>1. Head(writes) \in Calls
      BY <1>3, HeadTail DEF IInv, TypeOK, StatsWrites
    <2>2. mem'.dirty /\ mem'.moved
      <3>1. CASE Head(writes).op = "cycle"
        BY <1>0, <1>3, <3>1, MarkedIsMarked DEF StatsWrites
      <3>2. CASE Head(writes).op = "daily"
        BY <1>0, <1>3, <3>2, MarkedIsMarked DEF StatsWrites
      <3>3. CASE Head(writes).op = "acc"
        BY <1>0, <1>3, <3>3, MarkedIsMarked DEF StatsWrites
      <3> QED BY <2>1, <3>1, <3>2, <3>3 DEF Calls
    <2>3. UNCHANGED <<flush, disk>>
      BY <1>3 DEF StatsWrites
    <2> QED BY <2>2, <2>3, WriteMarks
  <1>4. ASSUME NEW caller, FlushTakes(caller) PROVE CInv'
    <2>1. /\ mem.dirty /\ mem'.dirty /\ mem'.cycles = {} /\ mem'.daily = {}
          /\ mem'.acc = mem.acc
      BY <1>0, <1>4 DEF FlushTakes, MemStates
    <2>2. flush'.pc = "taken" /\ flush'.acc = mem.acc
      BY <1>4 DEF FlushTakes
    <2> QED BY <2>1, <2>2 DEF TakenIsHeld, CommittedIsOnDisk, CleanMeansWritten
  <1>5. CASE HourlyFlush \/ ImportFlush \/ FinalFlush
    BY <1>4, <1>5 DEF HourlyFlush, ImportFlush, FinalFlush
  <1>6. CASE FlushCommits
    <2>1. /\ flush.pc = "taken" /\ flush'.pc = "committed" /\ flush'.acc = flush.acc
          /\ disk'.acc = flush.acc /\ mem' = mem
      BY <1>0, <1>6 DEF FlushCommits, Flushes
    <2> QED BY <2>1 DEF TakenIsHeld, CommittedIsOnDisk, CleanMeansWritten
  <1>7. CASE FlushFails
    <2>1. flush.pc = "taken" /\ flush'.pc = "idle" /\ UNCHANGED <<mem, disk>>
      BY <1>7 DEF FlushFails, Emptied
    <2> QED BY <2>1 DEF TakenIsHeld, CommittedIsOnDisk, CleanMeansWritten
  <1>8. CASE FlushEnds
    <2>1. flush.pc = "committed" /\ flush'.pc = "idle" /\ UNCHANGED disk
          /\ mem' = CleanMark(mem)
      BY <1>8 DEF FlushEnds, Emptied
    <2>2. CASE mem.moved
      BY <2>1, <2>2 DEF CleanMark, TakenIsHeld, CommittedIsOnDisk, CleanMeansWritten
    <2>3. CASE ~mem.moved
      <3>1. mem'.cycles = {} /\ mem'.daily = {} /\ disk'.acc = mem'.acc
        BY <1>0, <2>1, <2>3 DEF CleanMark, TakenIsHeld, CommittedIsOnDisk, MemStates
      <3> QED BY <2>1, <3>1 DEF TakenIsHeld, CommittedIsOnDisk, CleanMeansWritten
    <2> QED BY <2>2, <2>3
  <1>9. CASE Open
    <2>1. /\ flush.pc = "idle" /\ UNCHANGED <<flush, disk>> /\ mem'.cycles = {}
          /\ mem'.daily = {} /\ mem'.acc = disk.acc
      BY <1>0, <1>9 DEF Open, Hydrated, Flushes
    <2> QED BY <2>1 DEF TakenIsHeld, CommittedIsOnDisk, CleanMeansWritten
  <1>10. CASE Dies
    <2>1. flush'.pc = "idle" /\ proc' = "down"
      BY <1>10 DEF Dies, Crash, Exit, Vanishes, Emptied
    <2> QED BY <2>1 DEF TakenIsHeld, CommittedIsOnDisk, CleanMeansWritten
  <1> QED BY <1>1, <1>2, <1>3, <1>5, <1>6, <1>7, <1>8, <1>9, <1>10
          DEF Next, StoreStep, StoreNext

LEMMA CleanInductive == Spec => []CInv
  <1>1. Init => CInv
    BY DEF Init, StoreInit, CInv, TakenIsHeld, CommittedIsOnDisk, CleanMeansWritten, Emptied
  <1>2. IInv /\ CInv /\ [Next]_vars => CInv'
    <2>1. ASSUME CInv, UNCHANGED vars PROVE CInv'
      BY <2>1 DEF CInv, TakenIsHeld, CommittedIsOnDisk, CleanMeansWritten, vars, storeVars
    <2> QED BY <2>1, CleanStep
  <1> QED BY <1>1, <1>2, InvInductive, PTL DEF Spec

\* A mirror that is not dirty has nothing to write, whatever the tasks do while
\* a transaction commits (flush, dirty_gen).
THEOREM CleanCorrect == Spec => []CleanMeansWritten
  <1>1. CInv => CleanMeansWritten
    BY DEF CInv
  <1> QED BY <1>1, CleanInductive, PTL

-----------------------------------------------------------------------------
(* The last flush of a graceful stop.  The totals of the tracker are the ones *)
(* in the mirror, or those of the last call still to make (update_state hands *)
(* them over after the lock); a flush has the caller main.rs waits for, and   *)
(* nobody is left to write next to the last one.                             *)

Told(acc) == acc.starts = stats.starts /\ acc.secs = stats.secs
LastTells(w) == w[Len(w)].op = "acc" /\ Told(w[Len(w)].acc)
TotalsFollow ==
    /\ writes # <<>> => proc \in {"up", "stranded", "cancelled"} /\ LastTells(writes)
    /\ proc \in {"up", "stranded", "cancelled", "final"} /\ writes = <<>> => Told(mem.acc)
CallerWaits ==
    flush.pc # "idle" =>
        \/ flush.caller = "hourly" /\ proc \in {"up", "stranded", "cancelled"}
        \/ flush.caller = "import" /\ proc = "importing"
        \/ flush.caller = "final" /\ proc = "final" /\ ~mem.moved
NobodyLeft == proc = "final" => sweep.left = <<>>
DInv == TotalsFollow /\ CallerWaits /\ NobodyLeft

\* The last element of a list that ends in one call, and of a list without its
\* first.
LEMMA LastOfConcat ==
    ASSUME NEW S, NEW s \in Seq(S), NEW e \in S
    PROVE  (s \o <<e>>) # <<>> /\ (s \o <<e>>)[Len(s \o <<e>>)] = e
  <1>1. Len(s \o <<e>>) = Len(s) + 1 /\ Len(s) \in Nat
    OBVIOUS
  <1>2. (s \o <<e>>)[Len(s) + 1] = e
    OBVIOUS
  <1>3. \A w : w = <<>> => Len(w) = 0
    OBVIOUS
  <1> DEFINE w == s \o <<e>>
  <1> HIDE DEF w
  <1>4. Len(w) = Len(s) + 1 /\ w[Len(s) + 1] = e
    BY <1>1, <1>2 DEF w
  <1>5. w # <<>> /\ w[Len(w)] = e
    BY <1>1, <1>3, <1>4
  <1> QED BY <1>5 DEF w

LEMMA LastOfTail ==
    ASSUME NEW S, NEW s \in Seq(S), s # <<>>
    PROVE  IF Tail(s) = <<>> THEN s[Len(s)] = Head(s)
           ELSE Tail(s)[Len(Tail(s))] = s[Len(s)]
  <1> DEFINE n == Len(s)
  <1>1. n \in Nat /\ n # 0 /\ Head(s) = s[1]
    OBVIOUS
  <1>2. Len(Tail(s)) = n - 1 /\ \A i \in 1..(n - 1) : Tail(s)[i] = s[i + 1]
    BY <1>1
  <1> DEFINE t == Tail(s)
  <1>3. t \in Seq(S)
    OBVIOUS
  <1>4. Len(t) = n - 1 /\ \A i \in 1..(n - 1) : t[i] = s[i + 1]
    BY <1>2
  <1> HIDE DEF n, t
  <1>5. CASE t = <<>>
    <2>1. Len(t) = 0
      BY <1>5
    <2>2. n = 1
      BY <1>1, <1>4, <2>1
    <2> QED BY <1>1, <1>5, <2>2 DEF n, t
  <1>6. CASE t # <<>>
    <2>1. Len(t) # 0
      BY <1>3, <1>6
    <2>2. n - 1 \in 1..(n - 1) /\ (n - 1) + 1 = n
      BY <1>1, <1>4, <2>1
    <2>3. t[n - 1] = s[n]
      BY <1>4, <2>2
    <2> QED BY <1>4, <1>6, <2>3 DEF n, t
  <1> QED BY <1>5, <1>6 DEF t

\* The calls of a tick end in the totals they lead to; a tick without a call
\* leaves the totals alone.
LEMMA CallsTell ==
    ASSUME NEW s \in Trackers, NEW on \in BOOLEAN, NEW w, w = CallsFor(s, on),
           NEW u, u = Followed(AfterRollover(s), on), w \in Seq(Calls), now \in Instants
    PROVE  IF w = <<>> THEN u.starts = s.starts /\ u.secs = s.secs
           ELSE /\ w[Len(w)].op = "acc"
                /\ w[Len(w)].acc.starts = u.starts /\ w[Len(w)].acc.secs = u.secs
  <1> DEFINE closed == IF Closes(s, on)
                       THEN <<[op |-> "cycle", at |-> s.since, secs |-> Duration(s)]>>
                       ELSE <<>>
             archived == IF Archived(s) = {} THEN <<>>
                         ELSE <<[op |-> "daily", row |-> CHOOSE r \in Archived(s) : TRUE]>>
             dirty == Archived(s) # {} \/ Closes(s, on) \/ (~s.on /\ on)
             call == [op |-> "acc", acc |-> LifetimeOf(u)]
  <1>1. w = closed \o archived \o (IF dirty THEN <<call>> ELSE <<>>)
    BY DEF CallsFor, InOrder
  <1>2. \A b : Closes(s, b) = (s.on /\ ~b /\ s.observed)
    BY DEF Closes
  <1>3. CASE dirty
    <2>1. call.op = "acc" /\ call.acc.starts = u.starts /\ call.acc.secs = u.secs
      BY DEF LifetimeOf
    <2> DEFINE cycle == [op |-> "cycle", at |-> s.since, secs |-> Duration(s)]
               daily == [op |-> "daily", row |-> CHOOSE r \in Archived(s) : TRUE]
               S == {cycle, daily, call}
    <2>2. closed \in Seq(S) /\ archived \in Seq(S) /\ call \in S
      <3>1. closed = (IF Closes(s, on) THEN <<cycle>> ELSE <<>>)
        OBVIOUS
      <3>2. archived = (IF Archived(s) = {} THEN <<>> ELSE <<daily>>)
        OBVIOUS
      <3>3. cycle \in S /\ daily \in S /\ call \in S
        OBVIOUS
      <3> HIDE DEF cycle, daily, call, S, closed, archived
      <3>4. <<cycle>> \in Seq(S) /\ <<daily>> \in Seq(S) /\ <<>> \in Seq(S)
        BY <3>3
      <3> QED BY <3>1, <3>2, <3>3, <3>4
    <2> DEFINE first == closed \o archived
    <2> HIDE DEF closed, archived, call, S
    <2>3. first \in Seq(S)
      BY <2>2
    <2>4. w = first \o <<call>>
      BY <1>1, <1>3
    <2> HIDE DEF first
    <2>5. w # <<>> /\ w[Len(w)] = call
      BY <2>2, <2>3, <2>4, LastOfConcat
    <2> QED BY <2>1, <2>5
  <1>4. CASE ~dirty
    <2>1. w = <<>>
      BY <1>1, <1>4
    <2>2. AfterRollover(s).starts = s.starts /\ AfterRollover(s).secs = s.secs
          /\ AfterRollover(s).on = s.on /\ AfterRollover(s).observed = s.observed
      BY DEF AfterRollover, Trackers
    <2>3. AfterRollover(s) \in Trackers
      BY TrackerTypes
    <2> DEFINE r == AfterRollover(s)
    <2> HIDE DEF r
    <2>4. r \in Trackers /\ r.starts = s.starts /\ r.secs = s.secs /\ r.on = s.on
          /\ r.observed = s.observed /\ u = Followed(r, on)
      BY <2>2, <2>3 DEF r
    <2>5. ~(~r.on /\ on) /\ ~(r.on /\ ~on /\ r.observed)
      BY <1>2, <1>4, <2>4
    <2>6. u.starts = r.starts /\ u.secs = r.secs
      <3>1. r.secs \in Nat
        BY <2>4 DEF Trackers
      <3>2. CASE r.on /\ ~on
        <4>1. ~r.observed /\ u = AfterOff(r)
          BY <2>4, <2>5, <3>2 DEF Followed
        <4>2. AfterOff(r).starts = r.starts /\ AfterOff(r).secs = r.secs + 0
          BY <2>4, <4>1 DEF AfterOff, Trackers
        <4> QED BY <3>1, <4>1, <4>2
      <3>3. CASE ~(r.on /\ ~on)
        BY <2>4, <2>5, <3>3 DEF Followed
      <3> QED BY <3>2, <3>3
    <2> QED BY <2>1, <2>4, <2>6
  <1> QED BY <1>3, <1>4

\* A step that leaves the totals, the calls and the tracker alone.
LEMMA TotalsKept ==
    ASSUME TotalsFollow, UNCHANGED <<stats, writes>>, mem'.acc = mem.acc,
           \/ UNCHANGED proc
           \/ proc = "up" /\ proc' \in {"stranded", "cancelled"}
           \/ proc = "stranded" /\ proc' = "cancelled"
           \/ writes = <<>> /\ proc' \notin {"up", "stranded", "cancelled", "final"}
    PROVE  TotalsFollow'
  BY DEF TotalsFollow, LastTells, Told

\* Of the mirror, only set_accumulators changes the totals.
LEMMA AccKept ==
    ASSUME NEW m \in MemStates
    PROVE  /\ \A at, secs : WithCycle(m, at, secs).acc = m.acc
           /\ \A row : WithDaily(m, row).acc = m.acc
           /\ \A acc : WithAccumulators(m, acc).acc = acc
           /\ \A sensor, t, on : WithSample(m, sensor, t, on).acc = m.acc
           /\ CleanMark(m).acc = m.acc
  BY DEF WithCycle, WithDaily, WithAccumulators, WithSample, CleanMark, Marked, MemStates

\* What main.rs goes on to when a flush is over.
LEMMA Resumes ==
    ASSUME CallerWaits, flush.pc # "idle"
    PROVE  /\ flush.caller = "final" => proc = "final" /\ Resumed(flush.caller) = "stopped"
           /\ flush.caller = "import" => proc = "importing" /\ Resumed(flush.caller) = "imported"
           /\ flush.caller \notin {"final", "import"} =>
                /\ proc \in {"up", "stranded", "cancelled"}
                /\ Resumed(flush.caller) = proc
  BY DEF CallerWaits, Resumed

\* Every step of the store keeps the totals and the callers.
LEMMA StoreFollows ==
    ASSUME IInv, DInv, StoreNext, Quiet
    PROVE  DInv'
  <1> USE DEF DInv, Quiet
  <1>0. /\ mem \in MemStates /\ flush \in Flushes /\ disk \in Tables
        /\ (proc = "down" => flush.pc = "idle" /\ writes = <<>>)
        /\ (proc \notin {"up", "stranded", "cancelled"} => writes = <<>>)
    BY DEF IInv, TypeOK, DownIsEmpty, Emptied, TotalsFollow
  <1>1. CASE SweepStarts
    <2>1. UNCHANGED <<proc, mem, flush>> /\ proc # "final"
      BY <1>1 DEF SweepStarts
    <2> QED BY <2>1, TotalsKept DEF CallerWaits, NobodyLeft
  <1>2. CASE (\E on \in BOOLEAN : SensorRead(on)) \/ SensorMissed
    <2>1. UNCHANGED <<proc, flush>> /\ sweep.left # <<>> /\ mem'.acc = mem.acc
      BY <1>0, <1>2, AccKept DEF SensorRead, SensorMissed
    <2>2. proc # "final"
      BY <2>1 DEF NobodyLeft
    <2> QED BY <2>1, <2>2, TotalsKept DEF CallerWaits, NobodyLeft
  <1>3. CASE SweepAborted
    <2>1. UNCHANGED <<proc, mem, flush>> /\ proc # "final"
      BY <1>3 DEF SweepAborted
    <2> QED BY <2>1, TotalsKept DEF CallerWaits, NobodyLeft
  <1>4. ASSUME NEW caller, FlushTakes(caller),
               \/ caller = "hourly" /\ proc = "up"
               \/ caller = "import" /\ proc = "importing"
               \/ caller = "final" /\ proc = "final"
        PROVE  DInv'
    <2>1. UNCHANGED <<proc, sweep>> /\ mem'.acc = mem.acc /\ ~mem'.moved
          /\ flush'.caller = caller
      BY <1>0, <1>4 DEF FlushTakes, MemStates
    <2> QED BY <1>4, <2>1, TotalsKept DEF CallerWaits, NobodyLeft
  <1>5. CASE HourlyFlush \/ ImportFlush \/ FinalFlush
    BY <1>4, <1>5 DEF HourlyFlush, ImportFlush, FinalFlush
  <1>6. CASE FlushCommits
    <2>1. UNCHANGED <<proc, sweep, mem>> /\ flush'.caller = flush.caller
          /\ flush.pc # "idle"
      BY <1>0, <1>6 DEF FlushCommits, Flushes
    <2> QED BY <2>1, TotalsKept DEF CallerWaits, NobodyLeft
  <1>7. CASE FlushFails \/ FlushEnds
    <2>1. /\ flush'.pc = "idle" /\ flush.pc # "idle" /\ proc' = Resumed(flush.caller)
          /\ mem'.acc = mem.acc /\ UNCHANGED sweep
      BY <1>0, <1>7, AccKept DEF FlushFails, FlushEnds, Emptied
    <2>2. \/ UNCHANGED proc
          \/ proc \in {"final", "importing"} /\ proc' \in {"stopped", "imported"}
      BY <2>1, Resumes
    <2>3. TotalsFollow'
      BY <1>0, <2>1, <2>2, TotalsKept
    <2> QED BY <2>1, <2>2, <2>3 DEF CallerWaits, NobodyLeft
  <1>8. CASE NoFinalFlush
    <2>1. UNCHANGED <<mem, flush, sweep>> /\ proc = "final" /\ flush.pc = "idle"
          /\ proc' = "stopped"
      BY <1>8 DEF NoFinalFlush
    <2> QED BY <1>0, <2>1, TotalsKept DEF CallerWaits, NobodyLeft
  <1>9. CASE Open
    <2>1. proc = "down" /\ proc' = "opened" /\ UNCHANGED <<flush, sweep>>
      BY <1>9 DEF Open
    <2> QED BY <1>0, <2>1 DEF TotalsFollow, CallerWaits, NobodyLeft
  <1>10. CASE NoImport
    <2>1. proc = "opened" /\ proc' = "imported" /\ UNCHANGED <<mem, flush, sweep>>
      BY <1>10 DEF NoImport
    <2> QED BY <1>0, <2>1, TotalsKept DEF CallerWaits, NobodyLeft
  <1>11. CASE ImportStarts
    <2>1. proc = "opened" /\ proc' = "importing" /\ UNCHANGED <<flush, sweep>>
      BY <1>11 DEF ImportStarts
    <2> QED BY <1>0, <2>1 DEF TotalsFollow, CallerWaits, NobodyLeft
  <1>12. CASE ImportsCycle
    <2>1. UNCHANGED <<proc, flush, sweep>> /\ mem'.acc = mem.acc /\ proc = "importing"
      BY <1>0, <1>12, AccKept DEF ImportsCycle
    <2> QED BY <2>1, TotalsKept DEF CallerWaits, NobodyLeft
  <1>13. CASE Signal \/ TaskPanics
    <2>1. /\ UNCHANGED <<mem, flush, sweep>> /\ proc' # "final"
          /\ proc \in {"up", "stranded"} /\ proc' \in {"stranded", "cancelled"}
          /\ (proc = "stranded" => proc' = "cancelled")
      BY <1>13 DEF Signal, TaskPanics
    <2> QED BY <2>1, TotalsKept DEF CallerWaits, NobodyLeft
  <1>14. CASE TimePasses
    <2>1. UNCHANGED <<proc, mem, flush, sweep>>
      BY <1>14 DEF TimePasses
    <2> QED BY <2>1, TotalsKept DEF CallerWaits, NobodyLeft
  <1> QED BY <1>1, <1>2, <1>3, <1>5, <1>6, <1>7, <1>8, <1>9, <1>10, <1>11, <1>12,
             <1>13, <1>14 DEF StoreNext

\* So does a tick of the statistics: its last call hands over what it counted.
LEMMA TickFollows ==
    ASSUME IInv, DInv, StatsTick
    PROVE  DInv'
  <1> USE DEF DInv
  <1>1. /\ UNCHANGED <<proc, mem, flush, sweep>> /\ proc = "up" /\ writes = <<>>
        /\ stats \in Trackers /\ mem \in MemStates /\ now \in Instants
    BY DEF StatsTick, storeVars, IInv, TypeOK
  <1>2. CallerWaits' /\ NobodyLeft'
    BY <1>1 DEF CallerWaits, NobodyLeft
  <1>3. Told(mem.acc)
    BY <1>1 DEF TotalsFollow
  <1>4. CASE Latest("HpStatus") = {}
    <2>1. stats' = PollFailed(stats) /\ writes' = <<>>
      BY <1>1, <1>4 DEF StatsTick
    <2>2. stats'.starts = stats.starts /\ stats'.secs = stats.secs
      BY <1>1, <2>1 DEF PollFailed, Trackers
    <2> QED BY <1>1, <1>2, <1>3, <2>1, <2>2 DEF TotalsFollow, Told
  <1>5. CASE Latest("HpStatus") # {}
    <2>1. PICK p \in Latest("HpStatus") :
            IF stats.initialized
            THEN /\ stats' = Followed(AfterRollover(stats), p.on)
                 /\ writes' = CallsFor(stats, p.on)
            ELSE /\ stats' = [stats EXCEPT !.initialized = TRUE, !.on = p.on,
                                           !.since = now]
                 /\ UNCHANGED writes
      BY <1>5 DEF StatsTick
    <2>2. p.on \in BOOLEAN
      BY <1>1 DEF Latest, MemStates, Points
    <2>3. CASE stats.initialized
      <3> DEFINE u == Followed(AfterRollover(stats), p.on)
                 w == CallsFor(stats, p.on)
      <3>1. w \in Seq(Calls)
        BY <1>1, <2>2, TrackerTypes
      <3>2. IF w = <<>> THEN u.starts = stats.starts /\ u.secs = stats.secs
            ELSE /\ w[Len(w)].op = "acc"
                 /\ w[Len(w)].acc.starts = u.starts /\ w[Len(w)].acc.secs = u.secs
        BY <1>1, <2>2, <3>1, CallsTell
      <3>3. stats' = u /\ writes' = w
        BY <2>1, <2>3
      <3> HIDE DEF u, w
      <3>4. CASE w = <<>>
        BY <1>1, <1>2, <1>3, <3>2, <3>3, <3>4 DEF TotalsFollow, Told
      <3>5. CASE w # <<>>
        BY <1>1, <1>2, <3>2, <3>3, <3>5 DEF TotalsFollow, LastTells, Told
      <3> QED BY <3>4, <3>5
    <2>4. CASE ~stats.initialized
      <3>1. stats'.starts = stats.starts /\ stats'.secs = stats.secs /\ writes' = <<>>
        BY <1>1, <2>1, <2>4 DEF Trackers
      <3> QED BY <1>1, <1>2, <1>3, <3>1 DEF TotalsFollow, Told
    <2> QED BY <2>3, <2>4
  <1> QED BY <1>4, <1>5

\* And a call after the lock: the last one brings the totals to the mirror.
LEMMA WriteFollows ==
    ASSUME IInv, DInv, StatsWrites
    PROVE  DInv'
  <1> USE DEF DInv
  <1>1. /\ UNCHANGED <<proc, flush, sweep, stats>> /\ writes # <<>>
        /\ writes' = Tail(writes) /\ writes \in Seq(Calls) /\ mem \in MemStates
    BY DEF StatsWrites, IInv, TypeOK
  <1>2. proc \in {"up", "stranded", "cancelled"} /\ LastTells(writes)
    BY <1>1 DEF TotalsFollow
  <1>3. CallerWaits' /\ NobodyLeft'
    BY <1>1, <1>2 DEF CallerWaits, NobodyLeft
  <1> DEFINE n == Len(writes)
  <1>4. IF Tail(writes) = <<>> THEN writes[n] = Head(writes)
        ELSE Tail(writes)[Len(Tail(writes))] = writes[n]
    BY <1>1, LastOfTail
  <1>5. writes[n].op = "acc" /\ Told(writes[n].acc)
    BY <1>2 DEF LastTells
  <1> HIDE DEF n
  <1>6. CASE Tail(writes) = <<>>
    <2>1. Head(writes).op = "acc" /\ Told(Head(writes).acc)
      BY <1>4, <1>5, <1>6
    <2>2. mem' = WithAccumulators(mem, Head(writes).acc)
      BY <2>1 DEF StatsWrites
    <2>3. mem'.acc = Head(writes).acc
      BY <1>1, <2>2, AccKept
    <2> QED BY <1>1, <1>3, <1>6, <2>1, <2>3 DEF TotalsFollow, Told
  <1>7. CASE Tail(writes) # <<>>
    <2>1. LastTells(Tail(writes))
      BY <1>4, <1>5, <1>7 DEF LastTells
    <2>2. LastTells(writes)'
      BY <1>1, <2>1 DEF LastTells, Told
    <2> QED BY <1>1, <1>2, <1>3, <1>7, <2>2 DEF TotalsFollow
  <1> QED BY <1>6, <1>7

\* Every step keeps DInv.
LEMMA FollowStep ==
    ASSUME IInv, DInv, Next
    PROVE  DInv'
  <1> USE DEF DInv
  <1>1. CASE Started
    <2>1. /\ proc = "imported" /\ proc' = "up" /\ UNCHANGED <<mem, flush, sweep, writes>>
          /\ stats'.starts = mem.acc.starts /\ stats'.secs = mem.acc.secs
      BY <1>1 DEF Started, FreshStats
    <2>2. writes = <<>> /\ flush.pc = "idle"
      BY <2>1 DEF TotalsFollow, CallerWaits
    <2> QED BY <2>1, <2>2 DEF TotalsFollow, CallerWaits, NobodyLeft, Told
  <1>2. CASE TasksSettled
    <2>1. /\ proc = "cancelled" /\ proc' = "final" /\ sweep.left = <<>>
          /\ flush.pc = "idle" /\ writes = <<>>
          /\ UNCHANGED <<mem, flush, sweep, stats, writes>>
      BY <1>2 DEF TasksSettled, AllTasksEnded
    <2> QED BY <2>1 DEF TotalsFollow, CallerWaits, NobodyLeft, Told
  <1>3. CASE Dies
    <2>1. proc' = "down" /\ writes' = <<>> /\ flush'.pc = "idle"
      BY <1>3 DEF Dies, Crash, Exit, Vanishes, Emptied
    <2> QED BY <2>1 DEF TotalsFollow, CallerWaits, NobodyLeft
  <1> QED BY <1>1, <1>2, <1>3, StoreFollows, TickFollows, WriteFollows
          DEF Next, StoreStep, Quiet

LEMMA FollowInductive == Spec => []DInv
  <1>1. Init => DInv
    BY DEF Init, StoreInit, DInv, TotalsFollow, CallerWaits, NobodyLeft, Emptied
  <1>2. IInv /\ DInv /\ [Next]_vars => DInv'
    <2>1. ASSUME DInv, UNCHANGED vars PROVE DInv'
      BY <2>1 DEF DInv, TotalsFollow, CallerWaits, NobodyLeft, LastTells, Told, vars,
                  storeVars
    <2> QED BY <2>1, FollowStep
  <1> QED BY <1>1, <1>2, InvInductive, PTL DEF Spec

\* A stop that spends no fault: the mirror was clean, or its last flush has
\* committed and nobody wrote next to it.
LEMMA StopStep ==
    ASSUME IInv, CInv, DInv, Next,
           proc = "final", proc' = "stopped", limits' = limits
    PROVE  /\ mem.cycles = {} /\ mem.daily = {}
           /\ disk.acc = mem.acc
           /\ disk.acc.starts = stats.starts /\ disk.acc.secs = stats.secs
  <1>1. Told(mem.acc)
    BY DEF DInv, TotalsFollow
  <1>2. (flush.pc = "idle" /\ ~mem.dirty) \/ flush.pc = "committed"
    <2>1. CASE NoFinalFlush
      BY <2>1 DEF NoFinalFlush
    <2>2. CASE FlushEnds
      BY <2>2 DEF FlushEnds
    <2>3. CASE FlushFails
      <3>1. limits \in Limits
        BY DEF IInv, TypeOK
      <3>2. limits.commits \in Nat /\ limits'.commits = limits.commits - 1
        BY <2>3, <3>1 DEF FlushFails, Limits
      <3> QED BY <3>2
    <2>4. ~(NoFinalFlush \/ FlushEnds \/ FlushFails) => FALSE
      BY DEF Next, StoreStep, StoreNext, SweepStarts, SensorRead, SensorMissed,
             SweepAborted, HourlyFlush, ImportFlush, FinalFlush, FlushTakes, FlushCommits,
             Open, NoImport, ImportStarts, ImportsCycle, Signal, TaskPanics, TimePasses,
             StatsTick, storeVars, StatsWrites, Started, TasksSettled, Dies, Crash, Exit,
             Vanishes
    <2> QED BY <2>1, <2>2, <2>3, <2>4
  <1>3. CASE flush.pc = "idle" /\ ~mem.dirty
    BY <1>1, <1>3 DEF CInv, CleanMeansWritten, Told
  <1>4. CASE flush.pc = "committed"
    <2>1. ~mem.moved
      BY <1>4 DEF DInv, CallerWaits
    <2>2. mem.cycles = {} /\ mem.daily = {} /\ disk.acc = mem.acc
      BY <1>4, <2>1 DEF CInv, TakenIsHeld, CommittedIsOnDisk
    <2> QED BY <1>1, <2>2 DEF Told
  <1> QED BY <1>2, <1>3, <1>4

\* A graceful shutdown whose last flush does not fail leaves nothing behind
\* (main.rs waits for the tasks before it flushes): every cycle and day is on
\* disk, and the totals there are the tracker's.
THEOREM StopCorrect == Spec => StopIsDurable
  <1>1. IInv /\ CInv /\ DInv /\ [Next]_vars =>
          [proc = "final" /\ proc' = "stopped" /\ limits' = limits =>
             /\ mem.cycles = {} /\ mem.daily = {}
             /\ disk.acc = mem.acc
             /\ disk.acc.starts = stats.starts /\ disk.acc.secs = stats.secs]_vars
    BY StopStep
  <1> QED BY <1>1, InvInductive, CleanInductive, FollowInductive, PTL
          DEF Spec, StopIsDurable

-----------------------------------------------------------------------------
(* Sums over finite sets.  MapThenSumSet takes the elements in an order of   *)
(* its own; what it adds up does not depend on it.                           *)

\* g has the sum of the weights W for each part of S.
Sums(g, S, W) ==
    /\ g \in [SUBSET S -> Nat]
    /\ g[{}] = 0
    /\ \A s \in SUBSET S : \A x \in s : g[s] = W[x] + g[s \ {x}]

\* Of the sets with a property that are parts of a finite one, a smallest.
LEMMA SmallestPart ==
    ASSUME NEW S, IsFiniteSet(S), NEW P \in SUBSET SUBSET S, P # {}
    PROVE  \E t \in P : \A u \in P : ~(\E x \in t : u = t \ {x})
  <1> DEFINE sizes == {Cardinality(t) : t \in P}
  <1>1. \A t \in P : IsFiniteSet(t) /\ Cardinality(t) \in Nat
    BY FS_Subset, FS_CardinalityType
  <1>2. sizes \in SUBSET Nat /\ sizes # {}
    BY <1>1
  <1>3. PICK n \in sizes : \A m \in sizes : n <= m
    <2> HIDE DEF sizes
    <2> QED BY <1>2, SmallestNumber
  <1>4. PICK t \in P : Cardinality(t) = n
    BY <1>3
  <1>5. ASSUME NEW u \in P, NEW x \in t, u = t \ {x} PROVE FALSE
    <2>1. Cardinality(u) = Cardinality(t) - 1
      BY <1>1, <1>5, FS_RemoveElement
    <2>2. Cardinality(u) \in sizes
      OBVIOUS
    <2>3. n <= Cardinality(u)
      BY <1>3, <2>2
    <2>4. n \in Nat
      BY <1>1, <1>4
    <2> QED BY <1>4, <2>1, <2>3, <2>4
  <1> QED BY <1>4, <1>5

\* There is such a function.
LEMMA SumExists ==
    ASSUME NEW S, IsFiniteSet(S), NEW W \in [S -> Nat]
    PROVE  \E g : Sums(g, S, W)
  <1> DEFINE without == {t \in SUBSET S : ~(\E g : Sums(g, t, W))}
  <1>1. SUFFICES ASSUME without # {} PROVE FALSE
    OBVIOUS
  <1>2. PICK t \in without : \A u \in without : ~(\E x \in t : u = t \ {x})
    <2>1. without \in SUBSET SUBSET S
      OBVIOUS
    <2> HIDE DEF without
    <2> QED BY <1>1, <2>1, SmallestPart
  <1>3. CASE t = {}
    <2> DEFINE g == [s \in SUBSET t |-> 0]
    <2>1. Sums(g, t, W)
      BY <1>3 DEF Sums
    <2> QED BY <2>1
  <1>4. CASE t # {}
    <2>1. PICK y \in t : TRUE
      BY <1>4
    <2>2. PICK h : Sums(h, t \ {y}, W)
      BY <1>2
    <2> DEFINE g == [s \in SUBSET t |-> (IF y \in s THEN W[y] ELSE 0) + h[s \ {y}]]
    <2>3. /\ \A s \in SUBSET t : s \ {y} \in SUBSET (t \ {y}) /\ h[s \ {y}] \in Nat
          /\ \A x \in t : W[x] \in Nat
      BY <2>2 DEF Sums
    <2>4. g \in [SUBSET t -> Nat]
      BY <2>1, <2>3
    <2>5. g[{}] = 0
      <3>1. {} \ {y} = {}
        OBVIOUS
      <3>2. h[{}] = 0
        BY <2>2 DEF Sums
      <3> QED BY <3>1, <3>2
    <2>6. ASSUME NEW s \in SUBSET t, NEW x \in s PROVE g[s] = W[x] + g[s \ {x}]
      <3>0. /\ g[s] = (IF y \in s THEN W[y] ELSE 0) + h[s \ {y}]
            /\ g[s \ {x}] = (IF y \in s \ {x} THEN W[y] ELSE 0) + h[(s \ {x}) \ {y}]
        OBVIOUS
      <3>1. CASE x = y
        <4>1. (s \ {x}) \ {y} = s \ {y}
          BY <3>1
        <4>2. g[s] = W[y] + h[s \ {y}] /\ g[s \ {x}] = 0 + h[s \ {y}]
          BY <3>0, <3>1, <4>1
        <4>3. h[s \ {y}] \in Nat /\ W[y] \in Nat
          BY <2>3
        <4> HIDE DEF g
        <4> QED BY <3>1, <4>2, <4>3
      <3>2. CASE x # y
        <4>1. (s \ {x}) \ {y} = (s \ {y}) \ {x} /\ x \in s \ {y}
          BY <3>2
        <4>2. h[s \ {y}] = W[x] + h[(s \ {y}) \ {x}]
          BY <2>2, <2>3, <4>1 DEF Sums
        <4>3. h[(s \ {y}) \ {x}] \in Nat /\ W[x] \in Nat
          <5>1. (s \ {x}) \in SUBSET t
            OBVIOUS
          <5> QED BY <2>3, <4>1, <5>1
        <4>4. CASE y \in s
          <5>1. g[s] = W[y] + (W[x] + h[(s \ {y}) \ {x}])
            BY <3>0, <4>2, <4>4
          <5>2. g[s \ {x}] = W[y] + h[(s \ {y}) \ {x}]
            BY <3>0, <3>2, <4>1, <4>4
          <5>3. W[y] \in Nat
            BY <2>3
          <5> HIDE DEF g
          <5> QED BY <4>3, <5>1, <5>2, <5>3
        <4>5. CASE y \notin s
          <5>1. g[s] = 0 + (W[x] + h[(s \ {y}) \ {x}])
            BY <3>0, <4>2, <4>5
          <5>2. g[s \ {x}] = 0 + h[(s \ {y}) \ {x}]
            BY <3>0, <4>1, <4>5
          <5> HIDE DEF g
          <5> QED BY <4>3, <5>1, <5>2
        <4> QED BY <4>4, <4>5
      <3> QED BY <3>1, <3>2
    <2>7. Sums(g, t, W)
      BY <2>4, <2>5, <2>6 DEF Sums
    <2> QED BY <2>7
  <1> QED BY <1>3, <1>4

\* Whoever adds up in the order of CHOOSE has its values.
Picks(f, S, W) ==
    \A s \in SUBSET S : f[s] = IF s = {} THEN 0
                               ELSE W[CHOOSE x \in s : TRUE] + f[s \ {CHOOSE x \in s : TRUE}]
LEMMA PickedSums ==
    ASSUME NEW S, IsFiniteSet(S), NEW W \in [S -> Nat], NEW g, Sums(g, S, W), NEW f,
           Picks(f, S, W)
    PROVE  \A s \in SUBSET S : f[s] = g[s]
  <1> DEFINE off == {s \in SUBSET S : f[s] # g[s]}
  <1>1. SUFFICES ASSUME off # {} PROVE FALSE
    OBVIOUS
  <1>2. PICK t \in off : \A u \in off : ~(\E x \in t : u = t \ {x})
    <2>1. off \in SUBSET SUBSET S
      OBVIOUS
    <2> HIDE DEF off
    <2> QED BY <1>1, <2>1, SmallestPart
  <1>3. t # {}
    BY DEF Sums, Picks
  <1> DEFINE y == CHOOSE x \in t : TRUE
  <1>4. y \in t
    BY <1>3
  <1>5. f[t] = W[y] + f[t \ {y}]
    BY <1>3 DEF Picks
  <1> HIDE DEF y
  <1>6. f[t \ {y}] = g[t \ {y}]
    BY <1>2, <1>4
  <1>7. g[t] = W[y] + g[t \ {y}]
    BY <1>4 DEF Sums
  <1> QED BY <1>5, <1>6, <1>7

\* One more element adds its weight.
LEMMA SumsAdd ==
    ASSUME NEW S, IsFiniteSet(S), NEW x, x \notin S, NEW W \in [S \cup {x} -> Nat]
    PROVE  \E g, h : /\ Sums(g, S \cup {x}, W) /\ Sums(h, S, [r \in S |-> W[r]])
                     /\ g[S \cup {x}] = h[S] + W[x] /\ h[S] \in Nat
  <1>1. PICK g : Sums(g, S \cup {x}, W)
    BY FS_AddElement, SumExists
  <1> DEFINE h == [s \in SUBSET S |-> g[s]]
  <1>2. h \in [SUBSET S -> Nat] /\ h[{}] = 0
    BY <1>1 DEF Sums
  <1>3. \A s \in SUBSET S : \A y \in s : h[s] = [r \in S |-> W[r]][y] + h[s \ {y}]
    BY <1>1 DEF Sums
  <1>4. Sums(h, S, [r \in S |-> W[r]])
    BY <1>2, <1>3 DEF Sums
  <1>5. (S \cup {x}) \ {x} = S
    OBVIOUS
  <1>6. g[S \cup {x}] = W[x] + g[S] /\ h[S] = g[S] /\ g[S] \in Nat /\ W[x] \in Nat
    BY <1>1, <1>5 DEF Sums
  <1>7. g[S \cup {x}] = h[S] + W[x] /\ h[S] \in Nat
    BY <1>6
  <1> QED BY <1>1, <1>4, <1>7

\* The three sums of the statistics.
LEMMA TotalSecsIs ==
    ASSUME NEW S, IsFiniteSet(S), \A r \in S : r.secs \in Nat,
           NEW g, Sums(g, S, [r \in S |-> r.secs])
    PROVE  TotalSecs(S) = g[S]
  <1> DEFINE W == [r \in S |-> r.secs]
             F(iter) == [s \in SUBSET S |->
                           IF s = {} THEN 0
                           ELSE (CHOOSE x \in s : TRUE).secs
                                  + iter[s \ {CHOOSE x \in s : TRUE}]]
             f == CHOOSE iter : iter = F(iter)
  <1>1. g = F(g)
    <2>1. ASSUME NEW s \in SUBSET S PROVE g[s] = F(g)[s]
      <3>1. CASE s = {}
        BY <3>1 DEF Sums
      <3>2. CASE s # {}
        <4> DEFINE y == CHOOSE x \in s : TRUE
        <4>1. y \in s
          BY <3>2
        <4>2. F(g)[s] = y.secs + g[s \ {y}]
          BY <3>2
        <4> HIDE DEF y
        <4>3. g[s] = y.secs + g[s \ {y}]
          BY <4>1 DEF Sums
        <4> QED BY <4>2, <4>3
      <3> QED BY <3>1, <3>2
    <2>2. g \in [SUBSET S -> Nat]
      BY DEF Sums
    <2> QED BY <2>1, <2>2
  <1>2. f = F(f)
    BY <1>1
  <1>3. TotalSecs(S) = f[S]
    BY DEF TotalSecs, MapThenSumSet, MapThenFoldSet
  <1> HIDE DEF f
  <1>4. Picks(f, S, W)
    <2> SUFFICES ASSUME NEW s \in SUBSET S
                 PROVE  f[s] = IF s = {} THEN 0
                               ELSE W[CHOOSE x \in s : TRUE] + f[s \ {CHOOSE x \in s : TRUE}]
      BY DEF Picks
    <2>1. f[s] = IF s = {} THEN 0
                 ELSE (CHOOSE x \in s : TRUE).secs + f[s \ {CHOOSE x \in s : TRUE}]
      BY <1>2
    <2>2. s # {} => (CHOOSE x \in s : TRUE) \in S
      OBVIOUS
    <2> QED BY <2>1, <2>2
  <1>5. W \in [S -> Nat] /\ Sums(g, S, W)
    OBVIOUS
  <1> HIDE DEF W
  <1>6. f[S] = g[S]
    BY <1>4, <1>5, PickedSums
  <1> QED BY <1>3, <1>6

LEMMA TotalStartsIs ==
    ASSUME NEW S, IsFiniteSet(S), \A r \in S : r.starts \in Nat,
           NEW g, Sums(g, S, [r \in S |-> r.starts])
    PROVE  TotalStarts(S) = g[S]
  <1> DEFINE W == [r \in S |-> r.starts]
             F(iter) == [s \in SUBSET S |->
                           IF s = {} THEN 0
                           ELSE (CHOOSE x \in s : TRUE).starts
                                  + iter[s \ {CHOOSE x \in s : TRUE}]]
             f == CHOOSE iter : iter = F(iter)
  <1>1. g = F(g)
    <2>1. ASSUME NEW s \in SUBSET S PROVE g[s] = F(g)[s]
      <3>1. CASE s = {}
        BY <3>1 DEF Sums
      <3>2. CASE s # {}
        <4> DEFINE y == CHOOSE x \in s : TRUE
        <4>1. y \in s
          BY <3>2
        <4>2. F(g)[s] = y.starts + g[s \ {y}]
          BY <3>2
        <4> HIDE DEF y
        <4>3. g[s] = y.starts + g[s \ {y}]
          BY <4>1 DEF Sums
        <4> QED BY <4>2, <4>3
      <3> QED BY <3>1, <3>2
    <2>2. g \in [SUBSET S -> Nat]
      BY DEF Sums
    <2> QED BY <2>1, <2>2
  <1>2. f = F(f)
    BY <1>1
  <1>3. TotalStarts(S) = f[S]
    BY DEF TotalStarts, MapThenSumSet, MapThenFoldSet
  <1> HIDE DEF f
  <1>4. Picks(f, S, W)
    <2> SUFFICES ASSUME NEW s \in SUBSET S
                 PROVE  f[s] = IF s = {} THEN 0
                               ELSE W[CHOOSE x \in s : TRUE] + f[s \ {CHOOSE x \in s : TRUE}]
      BY DEF Picks
    <2>1. f[s] = IF s = {} THEN 0
                 ELSE (CHOOSE x \in s : TRUE).starts + f[s \ {CHOOSE x \in s : TRUE}]
      BY <1>2
    <2>2. s # {} => (CHOOSE x \in s : TRUE) \in S
      OBVIOUS
    <2> QED BY <2>1, <2>2
  <1>5. W \in [S -> Nat] /\ Sums(g, S, W)
    OBVIOUS
  <1> HIDE DEF W
  <1>6. f[S] = g[S]
    BY <1>4, <1>5, PickedSums
  <1> QED BY <1>3, <1>6

\* The files of the old program.
LEMMA LegacyTypes ==
    /\ Len(LegacyCycles) \in Nat
    /\ \A k \in 0..Len(LegacyCycles) : \A i \in 1..k :
          LegacyCycles[i].secs \in Nat /\ LegacyCycles[i].at \in Instants
  <1> DEFINE E == [at : Instants, secs : Nat]
  <1>1. LegacyCycles \in Seq(E)
    BY StorageAssumption DEF Instants
  <1> HIDE DEF E
  <1>2. Len(LegacyCycles) \in Nat /\ \A i \in 1..Len(LegacyCycles) : LegacyCycles[i] \in E
    BY <1>1
  <1>3. \A k \in 0..Len(LegacyCycles) : \A i \in 1..k : LegacyCycles[i] \in E
    BY <1>2
  <1>4. \A e \in E : e.secs \in Nat /\ e.at \in Instants
    BY DEF E
  <1> QED BY <1>2, <1>3, <1>4

\* The seconds of the first k cycles of the file.
LegacySecs(k) == MapThenSumSet(LAMBDA i : LegacyCycles[i].secs, 1..k)

LEMMA LegacySecsIs ==
    ASSUME NEW k \in 0..Len(LegacyCycles),
           NEW g, Sums(g, 1..k, [i \in 1..k |-> LegacyCycles[i].secs])
    PROVE  LegacySecs(k) = g[1..k]
  <1> DEFINE S == 1..k
             W == [i \in S |-> LegacyCycles[i].secs]
             F(iter) == [s \in SUBSET S |->
                           IF s = {} THEN 0
                           ELSE LegacyCycles[CHOOSE x \in s : TRUE].secs
                                  + iter[s \ {CHOOSE x \in s : TRUE}]]
             f == CHOOSE iter : iter = F(iter)
  <1>0. IsFiniteSet(S) /\ W \in [S -> Nat] /\ Sums(g, S, W)
    <2>1. k \in Int /\ \A i \in 1..k : LegacyCycles[i].secs \in Nat
      BY LegacyTypes
    <2> QED BY <2>1, FS_Interval
  <1>1. g = F(g)
    <2>1. ASSUME NEW s \in SUBSET S PROVE g[s] = F(g)[s]
      <3>1. CASE s = {}
        BY <3>1 DEF Sums
      <3>2. CASE s # {}
        <4> DEFINE y == CHOOSE x \in s : TRUE
        <4>1. y \in s
          BY <3>2
        <4>2. F(g)[s] = LegacyCycles[y].secs + g[s \ {y}]
          BY <3>2
        <4> HIDE DEF y
        <4>3. g[s] = LegacyCycles[y].secs + g[s \ {y}]
          BY <4>1 DEF Sums
        <4> QED BY <4>2, <4>3
      <3> QED BY <3>1, <3>2
    <2>2. g \in [SUBSET S -> Nat]
      BY DEF Sums
    <2> QED BY <2>1, <2>2
  <1>2. f = F(f)
    BY <1>1
  <1>3. LegacySecs(k) = f[S]
    BY DEF LegacySecs, MapThenSumSet, MapThenFoldSet
  <1> HIDE DEF f
  <1>4. Picks(f, S, W)
    <2> SUFFICES ASSUME NEW s \in SUBSET S
                 PROVE  f[s] = IF s = {} THEN 0
                               ELSE W[CHOOSE x \in s : TRUE] + f[s \ {CHOOSE x \in s : TRUE}]
      BY DEF Picks
    <2>1. f[s] = IF s = {} THEN 0
                 ELSE LegacyCycles[CHOOSE x \in s : TRUE].secs + f[s \ {CHOOSE x \in s : TRUE}]
      BY <1>2
    <2>2. s # {} => (CHOOSE x \in s : TRUE) \in S
      OBVIOUS
    <2> QED BY <2>1, <2>2
  <1> HIDE DEF S, W
  <1>6. S \in SUBSET S /\ f[S] = g[S]
    BY <1>0, <1>4, PickedSums
  <1> QED BY <1>3, <1>6 DEF S

LEMMA SecsAdd ==
    ASSUME NEW S, IsFiniteSet(S), \A r \in S : r.secs \in Nat,
           NEW x, x \notin S, x.secs \in Nat
    PROVE  TotalSecs(S) \in Nat /\ TotalSecs(S \cup {x}) = TotalSecs(S) + x.secs
  <1> DEFINE U == S \cup {x}
             W == [r \in U |-> r.secs]
  <1>1. W \in [U -> Nat] /\ IsFiniteSet(U)
    BY FS_AddElement
  <1>2. PICK g, h : /\ Sums(g, U, W) /\ Sums(h, S, [r \in S |-> W[r]])
                    /\ g[U] = h[S] + W[x] /\ h[S] \in Nat
    BY <1>1, SumsAdd
  <1>3. [r \in S |-> W[r]] = [r \in S |-> r.secs]
    OBVIOUS
  <1>4. TotalSecs(S) = h[S]
    BY <1>2, <1>3, TotalSecsIs
  <1>5. TotalSecs(U) = g[U]
    BY <1>1, <1>2, TotalSecsIs
  <1> QED BY <1>2, <1>4, <1>5

LEMMA SecsNone == TotalSecs({}) = 0
  <1> DEFINE W == [r \in {} |-> r.secs]
  <1>1. PICK g : Sums(g, {}, W)
    BY FS_EmptySet, SumExists
  <1>2. TotalSecs({}) = g[{}]
    BY <1>1, FS_EmptySet, TotalSecsIs
  <1> QED BY <1>1, <1>2 DEF Sums

LEMMA StartsAdd ==
    ASSUME NEW S, IsFiniteSet(S), \A r \in S : r.starts \in Nat,
           NEW x, x \notin S, x.starts \in Nat
    PROVE  TotalStarts(S) \in Nat /\ TotalStarts(S \cup {x}) = TotalStarts(S) + x.starts
  <1> DEFINE U == S \cup {x}
             W == [r \in U |-> r.starts]
  <1>1. W \in [U -> Nat] /\ IsFiniteSet(U)
    BY FS_AddElement
  <1>2. PICK g, h : /\ Sums(g, U, W) /\ Sums(h, S, [r \in S |-> W[r]])
                    /\ g[U] = h[S] + W[x] /\ h[S] \in Nat
    BY <1>1, SumsAdd
  <1>3. [r \in S |-> W[r]] = [r \in S |-> r.starts]
    OBVIOUS
  <1>4. TotalStarts(S) = h[S]
    BY <1>2, <1>3, TotalStartsIs
  <1>5. TotalStarts(U) = g[U]
    BY <1>1, <1>2, TotalStartsIs
  <1> QED BY <1>2, <1>4, <1>5

LEMMA StartsNone == TotalStarts({}) = 0
  <1> DEFINE W == [r \in {} |-> r.starts]
  <1>1. PICK g : Sums(g, {}, W)
    BY FS_EmptySet, SumExists
  <1>2. TotalStarts({}) = g[{}]
    BY <1>1, FS_EmptySet, TotalStartsIs
  <1> QED BY <1>1, <1>2 DEF Sums

LEMMA LegacyAdd ==
    /\ LegacySecs(0) = 0
    /\ \A k \in 0..Len(LegacyCycles) :
          /\ LegacySecs(k) \in Nat
          /\ k < Len(LegacyCycles) =>
               LegacySecs(k + 1) = LegacySecs(k) + LegacyCycles[k + 1].secs
  <1> DEFINE n == Len(LegacyCycles)
             W(k) == [i \in 1..k |-> LegacyCycles[i].secs]
  <1>0. n \in Nat
    BY LegacyTypes
  <1>1. ASSUME NEW k \in 0..n PROVE IsFiniteSet(1..k) /\ W(k) \in [1..k -> Nat]
    <2>1. k \in Int /\ \A i \in 1..k : LegacyCycles[i].secs \in Nat
      BY LegacyTypes
    <2>2. W(k) \in [1..k -> Nat]
      BY <2>1
    <2>3. IsFiniteSet(1..k)
      BY <2>1, FS_Interval
    <2> QED BY <2>2, <2>3
  <1>2. LegacySecs(0) = 0
    <2>0. 0 \in 0..n
      BY <1>0
    <2>1. PICK g : Sums(g, 1..0, W(0))
      BY <1>1, <2>0, SumExists
    <2>2. LegacySecs(0) = g[1..0]
      BY <2>0, <2>1, LegacySecsIs
    <2>3. 1..0 = {}
      OBVIOUS
    <2>4. g[{}] = 0
      BY <2>1 DEF Sums
    <2> QED BY <2>2, <2>3, <2>4
  <1>3. ASSUME NEW k \in 0..n PROVE LegacySecs(k) \in Nat
    <2>1. PICK g : Sums(g, 1..k, W(k))
      BY <1>1, SumExists
    <2>2. LegacySecs(k) = g[1..k]
      BY <2>1, LegacySecsIs
    <2> QED BY <2>1, <2>2 DEF Sums
  <1>4. ASSUME NEW k \in 0..n, k < n
        PROVE  LegacySecs(k + 1) = LegacySecs(k) + LegacyCycles[k + 1].secs
    <2> DEFINE x == k + 1
    <2>1. x \in 0..n /\ 1..x = (1..k) \cup {x} /\ ~(x \in 1..k) /\ k \in Nat
      BY <1>0, <1>4
    <2>2. PICK g, h : /\ Sums(g, 1..x, W(x))
                      /\ Sums(h, 1..k, [i \in 1..k |-> W(x)[i]])
                      /\ g[1..x] = h[1..k] + W(x)[x]
      <3> DEFINE V == W(x)
      <3>1. V \in [(1..k) \cup {x} -> Nat] /\ IsFiniteSet(1..k)
        BY <1>1, <2>1
      <3>2. x \notin 1..k
        BY <2>1
      <3> DEFINE S == 1..k
      <3> HIDE DEF V, x, S
      <3>3. \E g, h : /\ Sums(g, S \cup {x}, V) /\ Sums(h, S, [i \in S |-> V[i]])
                      /\ g[S \cup {x}] = h[S] + V[x] /\ h[S] \in Nat
        <4>1. IsFiniteSet(S) /\ x \notin S /\ V \in [S \cup {x} -> Nat]
          BY <3>1, <3>2 DEF S
        <4> QED BY <4>1, SumsAdd
      <3> QED BY <2>1, <3>3 DEF V, S
    <2>3. [i \in 1..k |-> W(x)[i]] = W(k)
      BY <2>1
    <2>4. LegacySecs(k) = h[1..k] /\ LegacySecs(x) = g[1..x]
      BY <2>1, <2>2, <2>3, LegacySecsIs
    <2>5. W(x)[x] = LegacyCycles[x].secs
      BY <2>1
    <2> QED BY <2>2, <2>4, <2>5
  <1> QED BY <1>2, <1>3, <1>4

LEMMA SecsNat ==
    ASSUME NEW S, IsFiniteSet(S), \A r \in S : r.secs \in Nat
    PROVE  TotalSecs(S) \in Nat
  <1> DEFINE W == [r \in S |-> r.secs]
  <1>1. PICK g : Sums(g, S, W)
    BY SumExists
  <1>2. TotalSecs(S) = g[S]
    BY <1>1, TotalSecsIs
  <1> QED BY <1>1, <1>2 DEF Sums

LEMMA StartsNat ==
    ASSUME NEW S, IsFiniteSet(S), \A r \in S : r.starts \in Nat
    PROVE  TotalStarts(S) \in Nat
  <1> DEFINE W == [r \in S |-> r.starts]
  <1>1. PICK g : Sums(g, S, W)
    BY SumExists
  <1>2. TotalStarts(S) = g[S]
    BY <1>1, TotalStartsIs
  <1> QED BY <1>1, <1>2 DEF Sums

-----------------------------------------------------------------------------
(* What the sums of the history rest on: the calls of a tick come in turn,   *)
(* what is committed is on disk until the flush is over, tables are finite,  *)
(* and a process that has stopped has written its totals.                    *)

\* A call to record a cycle comes first, the one that hands over totals last.
InTurn(a, b) == a # b /\ a # "acc" /\ b # "cycle"
CallsInTurn == \A i, j \in DOMAIN writes : i < j => InTurn(writes[i].op, writes[j].op)

FlushHolds ==
    /\ flush.pc = "idle" => flush = Emptied
    /\ flush.pc = "committed" =>
          /\ flush.cycles \subseteq disk.cycles /\ flush.daily \subseteq disk.daily
          /\ flush.means \subseteq disk.means
          /\ flush.caller = "import" => limits.imported
    /\ proc = "importing" => mem.dirty /\ (flush.pc # "idle" => legacy.left = <<>>)
AllDays == mem.daily \cup flush.daily \cup disk.daily
RowsAreFinite == IsFiniteSet(AllCycles) /\ IsFiniteSet(AllDays)
StoppedIsWritten ==
    proc = "stopped" /\ ~limits.lost => disk.acc = mem.acc /\ mem.cycles = {}
\* A running cycle whose start was seen belongs to a tracker that has a status.
ObservedIsSeen == stats.observed => stats.initialized
HInv == CallsInTurn /\ FlushHolds /\ RowsAreFinite /\ StoppedIsWritten /\ ObservedIsSeen

\* Three short lists of calls, one of each kind, in turn.
LEMMA ThreeInTurn ==
    ASSUME NEW S, NEW x \in Seq(S), NEW y \in Seq(S), NEW z \in Seq(S),
           Len(x) <= 1, Len(y) <= 1, Len(z) <= 1,
           \A i \in DOMAIN x : x[i].op = "cycle", \A i \in DOMAIN y : y[i].op = "daily",
           \A i \in DOMAIN z : z[i].op = "acc",
           NEW w, w = x \o y \o z
    PROVE  \A i, j \in DOMAIN w : i < j => InTurn(w[i].op, w[j].op)
  <1> DEFINE a == Len(x)
             b == Len(y)
             c == Len(z)
             u == x \o y
  <1>1. a \in 0..1 /\ b \in 0..1 /\ c \in 0..1
    <2>1. \A q \in Seq(S) : Len(q) \in Nat
      OBVIOUS
    <2>2. \A n \in Nat : n <= 1 => n \in 0..1
      OBVIOUS
    <2> QED BY <2>1, <2>2
  <1>2. /\ u \in Seq(S) /\ Len(u) = a + b
        /\ \A i \in 1..a : u[i] = x[i] /\ i \in DOMAIN x
        /\ \A i \in (a + 1)..(a + b) : u[i] = y[i - a] /\ i - a \in DOMAIN y
    OBVIOUS
  <1> HIDE DEF a, b, u
  <1>3. /\ DOMAIN w = 1..(a + b + c)
        /\ \A i \in 1..(a + b) : w[i] = u[i]
        /\ \A i \in (a + b + 1)..(a + b + c) : w[i] = z[i - (a + b)] /\ i - (a + b) \in DOMAIN z
    <2>1. w = u \o z
      BY DEF u
    <2> QED BY <1>1, <1>2, <2>1
  <1> HIDE DEF c
  <1>4. /\ \A i \in 1..a : w[i].op = "cycle"
        /\ \A i \in (a + 1)..(a + b) : w[i].op = "daily"
        /\ \A i \in (a + b + 1)..(a + b + c) : w[i].op = "acc"
    <2>1. ASSUME NEW i \in 1..a PROVE w[i].op = "cycle"
      <3>1. i \in 1..(a + b)
        BY <1>1
      <3> QED BY <1>2, <1>3, <3>1
    <2>2. ASSUME NEW i \in (a + 1)..(a + b) PROVE w[i].op = "daily"
      <3>1. i \in 1..(a + b)
        BY <1>1
      <3>2. u[i] = y[i - a] /\ i - a \in DOMAIN y
        BY <1>2
      <3>3. w[i] = u[i]
        BY <1>3, <3>1
      <3> QED BY <3>2, <3>3
    <2>3. ASSUME NEW i \in (a + b + 1)..(a + b + c) PROVE w[i].op = "acc"
      BY <1>3
    <2> QED BY <2>1, <2>2, <2>3
  <1>5. ASSUME NEW i \in DOMAIN w, NEW j \in DOMAIN w, i < j PROVE InTurn(w[i].op, w[j].op)
    <2>1. i \in Int /\ j \in Int /\ 1 <= i /\ i < j /\ j <= a + b + c
          /\ a \in Int /\ b \in Int /\ c \in Int /\ a <= 1 /\ b <= 1 /\ c <= 1
          /\ 0 <= a /\ 0 <= b
      BY <1>1, <1>3, <1>5
    <2>2. CASE j <= a + b
      <3>1. i \in 1..a /\ j \in (a + 1)..(a + b)
        BY <2>1, <2>2
      <3> QED BY <1>4, <3>1 DEF InTurn
    <2>3. CASE a + b < j
      <3>1. j \in (a + b + 1)..(a + b + c)
        BY <2>1, <2>3
      <3>2. i \in 1..a \/ i \in (a + 1)..(a + b)
        BY <2>1, <2>3
      <3>3. w[j].op = "acc" /\ w[i].op \in {"cycle", "daily"}
        BY <1>4, <3>1, <3>2
      <3> QED BY <3>3 DEF InTurn
    <2> QED BY <2>1, <2>2, <2>3
  <1> QED BY <1>5

\* The calls of a tick: at most one of each kind, in this order.
LEMMA CallsForInTurn ==
    ASSUME NEW s \in Trackers, NEW on \in BOOLEAN, NEW w, w = CallsFor(s, on)
    PROVE  \A i, j \in DOMAIN w : i < j => InTurn(w[i].op, w[j].op)
  <1> DEFINE c == [op |-> "cycle", at |-> s.since, secs |-> Duration(s)]
             d == [op |-> "daily", row |-> CHOOSE r \in Archived(s) : TRUE]
             a == [op |-> "acc", acc |-> LifetimeOf(Followed(AfterRollover(s), on))]
             S == {c, d, a}
             x == IF Closes(s, on) THEN <<c>> ELSE <<>>
             y == IF Archived(s) = {} THEN <<>> ELSE <<d>>
             z == IF Archived(s) # {} \/ Closes(s, on) \/ (~s.on /\ on) THEN <<a>> ELSE <<>>
  <1>1. w = x \o y \o z
    BY DEF CallsFor, InOrder
  <1>2. c.op = "cycle" /\ d.op = "daily" /\ a.op = "acc"
    OBVIOUS
  <1> HIDE DEF c, d, a
  <1>3. /\ x \in Seq(S) /\ y \in Seq(S) /\ z \in Seq(S)
        /\ Len(x) <= 1 /\ Len(y) <= 1 /\ Len(z) <= 1
        /\ \A i \in DOMAIN x : x[i].op = "cycle"
        /\ \A i \in DOMAIN y : y[i].op = "daily"
        /\ \A i \in DOMAIN z : z[i].op = "acc"
    <2>1. \A e \in S : /\ <<e>> \in Seq(S) /\ Len(<<e>>) = 1 /\ DOMAIN <<e>> = {1}
                       /\ <<e>>[1] = e
      OBVIOUS
    <2>2. <<>> \in Seq(S) /\ Len(<<>>) = 0 /\ DOMAIN <<>> = {}
      OBVIOUS
    <2>3. c \in S /\ d \in S /\ a \in S
      OBVIOUS
    <2> HIDE DEF S
    <2>5. x \in Seq(S) /\ Len(x) <= 1 /\ \A i \in DOMAIN x : x[i] = c
      BY <2>1, <2>2, <2>3
    <2>6. y \in Seq(S) /\ Len(y) <= 1 /\ \A i \in DOMAIN y : y[i] = d
      BY <2>1, <2>2, <2>3
    <2>7. z \in Seq(S) /\ Len(z) <= 1 /\ \A i \in DOMAIN z : z[i] = a
      BY <2>1, <2>2, <2>3
    <2> QED BY <1>2, <2>5, <2>6, <2>7
  <1> HIDE DEF x, y, z, S
  <1> QED BY <1>1, <1>3, ThreeInTurn

\* What is left of calls in turn is in turn, and the first, when it hands over
\* totals, is the only one.
LEMMA TailInTurn ==
    ASSUME NEW w \in Seq(Calls), w # <<>>,
           \A i, j \in DOMAIN w : i < j => InTurn(w[i].op, w[j].op)
    PROVE  /\ \A i, j \in DOMAIN Tail(w) : i < j => InTurn(Tail(w)[i].op, Tail(w)[j].op)
           /\ Head(w).op = "acc" => Tail(w) = <<>>
           /\ Tail(w) # <<>> => Head(Tail(w)).op # "cycle"
  <1>1. /\ Len(w) \in Nat /\ Len(w) > 0 /\ DOMAIN w = 1..Len(w) /\ Head(w) = w[1]
        /\ Tail(w) \in Seq(Calls) /\ Len(Tail(w)) = Len(w) - 1
        /\ DOMAIN Tail(w) = 1..(Len(w) - 1)
        /\ \A i \in 1..(Len(w) - 1) : Tail(w)[i] = w[i + 1]
        /\ (Tail(w) # <<>> => Len(w) > 1 /\ Head(Tail(w)) = w[2])
    OBVIOUS
  <1> DEFINE n == Len(w)
             t == Tail(w)
  <1> HIDE DEF n, t
  <1>2. ASSUME NEW i \in DOMAIN t, NEW j \in DOMAIN t, i < j
        PROVE  InTurn(t[i].op, t[j].op)
    <2>1. i + 1 \in DOMAIN w /\ j + 1 \in DOMAIN w /\ i + 1 < j + 1
          /\ t[i] = w[i + 1] /\ t[j] = w[j + 1]
      BY <1>1, <1>2 DEF n, t
    <2> QED BY <2>1
  <1>3. ASSUME t # <<>> PROVE InTurn(w[1].op, w[2].op)
    <2>1. 1 \in DOMAIN w /\ 2 \in DOMAIN w
      BY <1>1, <1>3 DEF t
    <2> QED BY <2>1
  <1> QED BY <1>1, <1>2, <1>3 DEF InTurn, t

\* A database only grows, and a flush leaves no row out.
LEMMA InsertedRows ==
    /\ \A T, R : /\ R \subseteq Inserted(T, R, SameCycle)
                 /\ Inserted(T, R, SameCycle) \subseteq T \cup R
    /\ \A T, R : /\ R \subseteq Inserted(T, R, SameDay)
                 /\ Inserted(T, R, SameDay) \subseteq T \cup R
    /\ \A T, R : /\ R \subseteq Inserted(T, R, SameMean)
                 /\ Inserted(T, R, SameMean) \subseteq T \cup R
  BY DEF Inserted

\* What no call of a task touches.
LEMMA RowsKept ==
    ASSUME NEW m \in MemStates
    PROVE  /\ \A acc : /\ WithAccumulators(m, acc).cycles = m.cycles
                       /\ WithAccumulators(m, acc).daily = m.daily
           /\ \A row : /\ WithDaily(m, row).cycles = m.cycles
                       /\ WithDaily(m, row).daily = Inserted(m.daily, {row}, SameDay)
           /\ \A at \in Instants : \A secs : WithCycle(m, at, secs).daily = m.daily
           /\ \A sensor, t, on : /\ WithSample(m, sensor, t, on).cycles = m.cycles
                                 /\ WithSample(m, sensor, t, on).daily = m.daily
           /\ CleanMark(m).cycles = m.cycles /\ CleanMark(m).daily = m.daily
  BY DEF WithAccumulators, WithDaily, WithCycle, WithSample, CleanMark, Marked, MemStates

Ready == proc \notin {"down", "importing"}
Running == proc \in {"up", "stranded", "cancelled", "final"}

\* The steps that leave the tables, the pending rows and the totals alone.
StillSteps ==
    \/ /\ \/ SweepStarts \/ (\E on \in BOOLEAN : SensorRead(on)) \/ SensorMissed
          \/ SweepAborted \/ NoFinalFlush \/ NoImport \/ Signal \/ TaskPanics \/ TimePasses
       /\ Quiet
    \/ TasksSettled

LEMMA StillDoes ==
    ASSUME IInv, StillSteps
    PROVE  /\ UNCHANGED <<disk, flush, legacy, stats, writes, AllCycles, AllDays>>
           /\ mem'.acc = mem.acc /\ mem'.cycles = mem.cycles /\ mem'.daily = mem.daily
           /\ (mem.dirty => mem'.dirty)
           /\ limits'.died = limits.died /\ limits'.lost = limits.lost
           /\ limits'.imported = limits.imported
           /\ (Ready <=> Ready') /\ (Running' => Running)
           /\ (proc' \in {"importing", "down"} => proc' = proc)
           /\ (proc' = "stopped" =>
                 proc = "stopped" \/ (proc = "final" /\ ~mem.dirty /\ flush.pc = "idle"))
           /\ (proc # "stopped" => proc' # "stopped" \/ proc = "final")
  <1>0. mem \in MemStates /\ limits \in Limits
    BY DEF IInv, TypeOK
  <1>1. ASSUME NEW on \in BOOLEAN, SensorRead(on)
        PROVE  /\ mem'.acc = mem.acc /\ mem'.cycles = mem.cycles /\ mem'.daily = mem.daily
               /\ mem'.dirty
               /\ limits'.died = limits.died /\ limits'.lost = limits.lost
               /\ limits'.imported = limits.imported
               /\ UNCHANGED <<disk, flush, legacy, proc>>
    <2>1. limits'.died = limits.died /\ limits'.lost = limits.lost
          /\ limits'.imported = limits.imported
      BY <1>0, <1>1 DEF SensorRead, Limits
    <2>2. mem' = WithSample(mem, Head(sweep.left), sweep.at, on)
      BY <1>1 DEF SensorRead
    <2> QED BY <1>0, <1>1, <2>1, <2>2, RowsKept, AccKept, MarkedIsMarked DEF SensorRead
  <1>2. /\ UNCHANGED <<disk, flush, legacy, stats, writes>>
        /\ mem'.acc = mem.acc /\ mem'.cycles = mem.cycles /\ mem'.daily = mem.daily
        /\ (mem.dirty => mem'.dirty)
    BY <1>1 DEF StillSteps, SweepStarts, SensorMissed, SweepAborted, NoFinalFlush, NoImport,
                Signal, TaskPanics, TimePasses, TasksSettled, Quiet
  <1>3. limits'.died = limits.died /\ limits'.lost = limits.lost
        /\ limits'.imported = limits.imported
    BY <1>0, <1>1 DEF StillSteps, SweepStarts, SensorMissed, SweepAborted, NoFinalFlush,
                NoImport, Signal, TaskPanics, TimePasses, TasksSettled, Limits
  <1>4. /\ (Ready <=> Ready') /\ (Running' => Running)
        /\ (proc' \in {"importing", "down"} => proc' = proc)
        /\ (proc' = "stopped" =>
              proc = "stopped" \/ (proc = "final" /\ ~mem.dirty /\ flush.pc = "idle"))
        /\ (proc # "stopped" => proc' # "stopped" \/ proc = "final")
    BY <1>1 DEF StillSteps, SweepStarts, SensorMissed, SweepAborted, NoFinalFlush, NoImport,
                Signal, TaskPanics, TimePasses, TasksSettled, Ready, Running
  <1>5. UNCHANGED <<AllCycles, AllDays>>
    BY <1>2 DEF AllCycles, AllDays
  <1> QED BY <1>2, <1>3, <1>4, <1>5

\* What the steps of a flush do to the rows.
LEMMA TakesDoes ==
    ASSUME IInv, HInv, NEW caller, FlushTakes(caller)
    PROVE  /\ UNCHANGED <<proc, disk, legacy, AllCycles, AllDays>>
           /\ mem'.acc = mem.acc /\ mem'.cycles = {} /\ mem'.daily = {} /\ mem'.dirty
           /\ flush.pc = "idle" /\ flush.cycles = {}
           /\ flush'.pc = "taken" /\ flush'.caller = caller /\ flush'.acc = mem.acc
           /\ flush'.cycles = mem.cycles
           /\ disk'.cycles \cup flush'.cycles = AllCycles
  <1>1. mem \in MemStates
    BY DEF IInv, TypeOK
  <1>2. /\ mem'.acc = mem.acc /\ mem'.cycles = {} /\ mem'.daily = {} /\ mem'.dirty
        /\ flush'.pc = "taken" /\ flush'.caller = caller /\ flush'.acc = mem.acc
        /\ flush'.cycles = mem.cycles /\ flush'.daily = mem.daily
        /\ UNCHANGED <<proc, disk, legacy>>
    BY <1>1 DEF FlushTakes, MemStates
  <1>3. flush.pc = "idle" /\ flush.cycles = {} /\ flush.daily = {}
    BY DEF HInv, FlushHolds, FlushTakes, Emptied
  <1>4. AllCycles' = mem'.cycles \cup flush'.cycles \cup disk'.cycles
        /\ AllDays' = mem'.daily \cup flush'.daily \cup disk'.daily
    BY DEF AllCycles, AllDays
  <1>5. UNCHANGED <<AllCycles, AllDays>> /\ disk'.cycles \cup flush'.cycles = AllCycles
    BY <1>2, <1>3, <1>4 DEF AllCycles, AllDays
  <1> QED BY <1>2, <1>3, <1>5

LEMMA CommitDoes ==
    ASSUME IInv, FlushCommits
    PROVE  /\ UNCHANGED <<proc, mem, legacy, AllCycles>>
           /\ flush.pc = "taken" /\ flush'.pc = "committed"
           /\ flush'.cycles = flush.cycles /\ flush'.daily = flush.daily
           /\ flush'.means = flush.means /\ flush'.caller = flush.caller
           /\ disk'.acc = flush.acc
           /\ disk'.cycles = disk.cycles \cup flush.cycles
           /\ flush.daily \subseteq disk'.daily /\ disk'.daily \subseteq AllDays
           /\ flush.means \subseteq disk'.means
           /\ disk'.means \subseteq disk.means \cup flush.means
           /\ limits'.died = limits.died /\ limits'.lost = limits.lost
           /\ limits'.imported = (limits.imported \/ flush.caller = "import")
  <1>0. flush \in Flushes /\ limits \in Limits /\ KeysAreUnique
    BY DEF IInv, TypeOK
  <1>1. /\ UNCHANGED <<proc, mem, legacy>>
        /\ flush.pc = "taken" /\ flush'.pc = "committed"
        /\ flush'.cycles = flush.cycles /\ flush'.daily = flush.daily
        /\ flush'.means = flush.means /\ flush'.caller = flush.caller
        /\ disk'.acc = flush.acc
        /\ disk'.cycles = Inserted(disk.cycles, flush.cycles, SameCycle)
        /\ disk'.daily = Inserted(disk.daily, flush.daily, SameDay)
        /\ disk'.means = Inserted(disk.means, flush.means, SameMean)
    BY <1>0 DEF FlushCommits, Flushes
  <1>2. limits'.died = limits.died /\ limits'.lost = limits.lost
        /\ limits'.imported = (limits.imported \/ flush.caller = "import")
    BY <1>0 DEF FlushCommits, Limits
  <1>3. disk'.cycles = disk.cycles \cup flush.cycles
    <2>1. \A t \in disk.cycles : \A r \in flush.cycles : SameCycle(t, r) => t = r
      BY <1>0 DEF KeysAreUnique, AllCycles
    <2>2. Inserted(disk.cycles, flush.cycles, SameCycle) = disk.cycles \cup flush.cycles
      BY <2>1 DEF Inserted
    <2> QED BY <1>1, <2>2
  <1>4. UNCHANGED AllCycles
    BY <1>1, <1>3 DEF AllCycles
  <1>5. flush.daily \subseteq disk'.daily /\ disk'.daily \subseteq AllDays
    BY <1>1 DEF Inserted, AllDays
  <1>6. flush.means \subseteq disk'.means /\ disk'.means \subseteq disk.means \cup flush.means
    BY <1>1 DEF Inserted
  <1> QED BY <1>1, <1>2, <1>3, <1>4, <1>5, <1>6

LEMMA FailDoes ==
    ASSUME IInv, FlushFails
    PROVE  /\ UNCHANGED <<mem, disk, legacy>> /\ flush' = Emptied
           /\ flush.pc = "taken" /\ limits'.lost
           /\ AllCycles' = mem.cycles \cup disk.cycles
           /\ AllDays' = mem.daily \cup disk.daily
  <1>1. /\ UNCHANGED <<mem, disk, legacy>> /\ flush' = Emptied /\ flush.pc = "taken"
        /\ limits'.lost
    BY DEF IInv, TypeOK, Limits, FlushFails
  <1>2. flush'.cycles = {} /\ flush'.daily = {}
    BY <1>1 DEF Emptied
  <1>3. AllCycles' = mem'.cycles \cup flush'.cycles \cup disk'.cycles
        /\ AllDays' = mem'.daily \cup flush'.daily \cup disk'.daily
    BY DEF AllCycles, AllDays
  <1> QED BY <1>1, <1>2, <1>3

LEMMA EndDoes ==
    ASSUME IInv, HInv, FlushEnds
    PROVE  /\ UNCHANGED <<disk, limits, AllCycles, AllDays>> /\ flush' = Emptied
           /\ legacy'.left = legacy.left
           /\ flush.pc = "committed"
           /\ mem'.acc = mem.acc /\ mem'.cycles = mem.cycles /\ mem'.daily = mem.daily
  <1>1. /\ UNCHANGED <<disk, limits>> /\ flush' = Emptied /\ flush.pc = "committed"
        /\ legacy'.left = legacy.left
    BY DEF IInv, TypeOK, Imports, FlushEnds
  <1>2. mem'.acc = mem.acc /\ mem'.cycles = mem.cycles /\ mem'.daily = mem.daily
    BY AccKept, RowsKept DEF IInv, TypeOK, FlushEnds
  <1>3. flush.cycles \subseteq disk.cycles /\ flush.daily \subseteq disk.daily
    BY <1>1 DEF HInv, FlushHolds
  <1>4. flush'.cycles = {} /\ flush'.daily = {}
    BY <1>1 DEF Emptied
  <1>5. AllCycles' = mem'.cycles \cup flush'.cycles \cup disk'.cycles
        /\ AllDays' = mem'.daily \cup flush'.daily \cup disk'.daily
    BY DEF AllCycles, AllDays
  <1>6. UNCHANGED <<AllCycles, AllDays>>
    BY <1>1, <1>2, <1>3, <1>4, <1>5 DEF AllCycles, AllDays
  <1> QED BY <1>1, <1>2, <1>6

\* record_cycle adds a cycle that was nowhere.
LEMMA CycleDoes ==
    ASSUME IInv, proc # "down", NEW at \in Instants, NEW secs \in Nat,
           mem' = WithCycle(mem, at, secs), UNCHANGED <<flush, disk>>
    PROVE  \E c \in Cycles : /\ c \notin AllCycles /\ c.secs = secs
                             /\ AllCycles' = AllCycles \cup {c}
                             /\ mem'.cycles = mem.cycles \cup {c}
                             /\ mem'.acc = mem.acc /\ mem'.daily = mem.daily
                             /\ AllDays' = AllDays
  <1> DEFINE c == [at |-> at, seq |-> mem.seq[at], secs |-> secs]
  <1>0. mem \in MemStates
    BY DEF IInv, TypeOK
  <1>1. mem'.cycles = mem.cycles \cup {c} /\ mem'.acc = mem.acc /\ mem'.daily = mem.daily
    BY <1>0 DEF WithCycle, Marked, MemStates
  <1>2. mem.seq[at] \in Nat
    BY <1>0 DEF MemStates
  <1>3. c \notin AllCycles
    BY <1>2 DEF IInv, SeqIsAbove
  <1>4. c \in Cycles /\ c.secs = secs
    BY <1>2 DEF Cycles
  <1>5. AllCycles' = AllCycles \cup {c} /\ AllDays' = AllDays
    BY <1>1 DEF AllCycles, AllDays
  <1> QED BY <1>1, <1>3, <1>4, <1>5

\* The call at the head, when it records a cycle.
CallCount == IF writes # <<>> /\ Head(writes).op = "cycle" THEN 1 ELSE 0
CallSecs == IF writes # <<>> /\ Head(writes).op = "cycle" THEN Head(writes).secs ELSE 0
InCycle == IF stats.on /\ stats.observed THEN 1 ELSE 0

\* The calls of a tick begin with a cycle when one closes.
LEMMA CallsBegin ==
    ASSUME NEW s \in Trackers, NEW on \in BOOLEAN, NEW w, w = CallsFor(s, on)
    PROVE  IF Closes(s, on)
           THEN w # <<>> /\ Head(w).op = "cycle" /\ Head(w).secs = Duration(s)
           ELSE w # <<>> => Head(w).op # "cycle"
  <1> DEFINE c == [op |-> "cycle", at |-> s.since, secs |-> Duration(s)]
             d == [op |-> "daily", row |-> CHOOSE r \in Archived(s) : TRUE]
             a == [op |-> "acc", acc |-> LifetimeOf(Followed(AfterRollover(s), on))]
             S == {c, d, a}
             y == IF Archived(s) = {} THEN <<>> ELSE <<d>>
             z == IF Archived(s) # {} \/ Closes(s, on) \/ (~s.on /\ on) THEN <<a>> ELSE <<>>
             x == IF Closes(s, on) THEN <<c>> ELSE <<>>
  <1>1. w = x \o y \o z
    BY DEF CallsFor, InOrder
  <1>2. c.op = "cycle" /\ d.op = "daily" /\ a.op = "acc" /\ c.secs = Duration(s)
        /\ c \in S /\ d \in S /\ a \in S
    OBVIOUS
  <1> HIDE DEF c, d, a, S
  <1>3. y \in Seq(S) /\ z \in Seq(S)
        /\ (y # <<>> => Head(y) = d) /\ (z # <<>> => Head(z) = a)
    BY <1>2
  <1>4. x = IF Closes(s, on) THEN <<c>> ELSE <<>>
    OBVIOUS
  <1> HIDE DEF y, z, x
  <1>5. CASE Closes(s, on)
    <2>1. w = <<c>> \o y \o z
      BY <1>1, <1>4, <1>5
    <2>2. w # <<>> /\ Head(w) = c
      BY <1>2, <1>3, <2>1
    <2> QED BY <1>2, <1>5, <2>2
  <1>6. CASE ~Closes(s, on)
    <2>1. w = <<>> \o y \o z
      BY <1>1, <1>4, <1>6
    <2>2. w # <<>> => Head(w) \in {d, a}
      BY <1>3, <2>1
    <2> QED BY <1>2, <1>6, <2>2
  <1> QED BY <1>5, <1>6

\* A tick counts a start before its cycle closes, and the seconds of a cycle
\* when it hands it over.
LEMMA TickCounts ==
    ASSUME IInv, HInv, StatsTick
    PROVE  /\ UNCHANGED storeVars /\ writes = <<>> /\ proc = "up"
           /\ CallCount' + InCycle' + stats.starts <= InCycle + stats'.starts
           /\ CallCount' <= InCycle
           /\ stats'.secs = stats.secs + CallSecs' /\ CallSecs' \in Nat
           /\ stats'.observed => stats'.initialized
           /\ \A i, j \in DOMAIN writes' : i < j => InTurn(writes'[i].op, writes'[j].op)
  <1>0. /\ UNCHANGED storeVars /\ writes = <<>> /\ proc = "up"
        /\ stats \in Trackers /\ mem \in MemStates /\ now \in Instants
    BY DEF StatsTick, IInv, TypeOK
  <1>1. /\ stats.secs \in Nat /\ stats.starts \in Nat
        /\ stats.on \in BOOLEAN /\ stats.observed \in BOOLEAN
    BY <1>0 DEF Trackers
  <1>2. CASE stats' = PollFailed(stats) /\ UNCHANGED writes
    <2>1. stats'.starts = stats.starts /\ stats'.secs = stats.secs /\ ~stats'.observed
      BY <1>0, <1>2 DEF PollFailed, Trackers
    <2>2. CallCount' = 0 /\ CallSecs' = 0 /\ InCycle' = 0
      BY <1>0, <1>2, <2>1 DEF CallCount, CallSecs, InCycle
    <2> QED BY <1>0, <1>1, <1>2, <2>1, <2>2 DEF InCycle
  <1>3. ASSUME NEW on \in BOOLEAN, ~stats.initialized,
               stats' = [stats EXCEPT !.initialized = TRUE, !.on = on, !.since = now],
               UNCHANGED writes
        PROVE  /\ CallCount' + InCycle' + stats.starts <= InCycle + stats'.starts
               /\ CallCount' <= InCycle
               /\ stats'.secs = stats.secs + CallSecs' /\ CallSecs' \in Nat
               /\ stats'.observed => stats'.initialized
               /\ \A i, j \in DOMAIN writes' : i < j => InTurn(writes'[i].op, writes'[j].op)
    <2>1. stats'.starts = stats.starts /\ stats'.secs = stats.secs /\ ~stats'.observed
      BY <1>0, <1>3 DEF Trackers, HInv, ObservedIsSeen
    <2>2. CallCount' = 0 /\ CallSecs' = 0 /\ InCycle' = 0
      BY <1>0, <1>3, <2>1 DEF CallCount, CallSecs, InCycle
    <2> QED BY <1>0, <1>1, <1>3, <2>1, <2>2 DEF InCycle
  <1>4. ASSUME NEW on \in BOOLEAN, stats.initialized,
               stats' = Followed(AfterRollover(stats), on), writes' = CallsFor(stats, on)
        PROVE  /\ CallCount' + InCycle' + stats.starts <= InCycle + stats'.starts
               /\ CallCount' <= InCycle
               /\ stats'.secs = stats.secs + CallSecs' /\ CallSecs' \in Nat
               /\ stats'.observed => stats'.initialized
               /\ \A i, j \in DOMAIN writes' : i < j => InTurn(writes'[i].op, writes'[j].op)
    <2> DEFINE r == AfterRollover(stats)
    <2>1. /\ r.starts = stats.starts /\ r.secs = stats.secs /\ r.on = stats.on
          /\ r.observed = stats.observed /\ r.since = stats.since
          /\ r.initialized = stats.initialized
      BY <1>0 DEF AfterRollover, Trackers
    <2>2. r \in Trackers
      BY <1>0, TrackerTypes
    <2> HIDE DEF r
    <2>3. Duration(r) = Duration(stats) /\ Duration(stats) \in Nat
      <3>1. now \in Nat /\ stats.since \in Nat
        BY <1>0, InstantsNat DEF Trackers
      <3> QED BY <2>1, <3>1, MinusLarger DEF Duration
    <2>4. \A i, j \in DOMAIN writes' : i < j => InTurn(writes'[i].op, writes'[j].op)
      BY <1>0, <1>4, CallsForInTurn
    <2>5. IF Closes(stats, on)
          THEN writes' # <<>> /\ Head(writes').op = "cycle" /\ Head(writes').secs = Duration(stats)
          ELSE writes' # <<>> => Head(writes').op # "cycle"
      BY <1>0, <1>4, CallsBegin
    <2>6. IF Closes(stats, on) THEN CallCount' = 1 /\ CallSecs' = Duration(stats)
          ELSE CallCount' = 0 /\ CallSecs' = 0
      BY <2>5 DEF CallCount, CallSecs
    <2>7. stats' = Followed(r, on)
      BY <1>4 DEF r
    <2>8. CASE stats.on /\ ~on
      <3>1. stats' = AfterOff(r)
        BY <2>1, <2>7, <2>8 DEF Followed
      <3>2. /\ stats'.secs = stats.secs + (IF stats.observed THEN Duration(stats) ELSE 0)
            /\ stats'.starts = stats.starts /\ ~stats'.observed /\ ~stats'.on
        BY <2>1, <2>2, <2>3, <3>1 DEF AfterOff, Trackers
      <3>3. InCycle' = 0
        BY <3>2 DEF InCycle
      <3>4. CASE stats.observed
        <4>1. InCycle = 1 /\ CallCount' = 1 /\ CallSecs' = Duration(stats)
          BY <2>6, <2>8, <3>4 DEF InCycle, Closes
        <4> QED BY <1>1, <2>3, <2>4, <3>2, <3>3, <3>4, <4>1
      <3>5. CASE ~stats.observed
        <4>1. InCycle = 0 /\ CallCount' = 0 /\ CallSecs' = 0
          BY <2>6, <2>8, <3>5 DEF InCycle, Closes
        <4> QED BY <1>1, <2>3, <2>4, <3>2, <3>3, <3>5, <4>1
      <3> QED BY <3>4, <3>5
    <2>9. CASE ~stats.on /\ on
      <3>1. stats' = AfterOn(r)
        BY <2>1, <2>7, <2>9 DEF Followed
      <3>2. /\ stats'.secs = stats.secs /\ stats'.starts = stats.starts + 1
            /\ stats'.observed /\ stats'.on /\ stats'.initialized
        BY <1>4, <2>1, <2>2, <3>1 DEF AfterOn, Trackers
      <3>3. InCycle' = 1 /\ InCycle = 0 /\ CallCount' = 0 /\ CallSecs' = 0
        BY <2>6, <2>9, <3>2 DEF InCycle, Closes
      <3> QED BY <1>1, <2>4, <3>2, <3>3
    <2>10. CASE stats.on = on
      <3>1. stats' = r
        BY <1>1, <2>1, <2>7, <2>10 DEF Followed
      <3>2. InCycle' = InCycle /\ CallCount' = 0 /\ CallSecs' = 0 /\ InCycle \in Nat
        BY <2>1, <2>6, <2>10, <3>1 DEF InCycle, Closes
      <3>3. stats'.starts = stats.starts /\ stats'.secs = stats.secs /\ stats'.initialized
        BY <1>4, <2>1, <3>1, Zenon
      <3>4. CallCount' + InCycle' + stats.starts <= InCycle + stats'.starts /\ CallCount' <= InCycle
            /\ stats'.secs = stats.secs + CallSecs' /\ CallSecs' \in Nat
        BY <1>1, <3>2, <3>3
      <3> QED BY <2>4, <3>3, <3>4
    <2> QED BY <1>1, <2>8, <2>9, <2>10
  <1>5. \A p \in Latest("HpStatus") : p.on \in BOOLEAN
    BY <1>0 DEF Latest, MemStates, Points
  <1> QED BY <1>0, <1>2, <1>3, <1>4, <1>5 DEF StatsTick

\* A call after the lock records a cycle, which comes first, or leaves the
\* cycles alone; the last one hands over the totals.
LEMMA WriteDoes ==
    ASSUME IInv, DInv, HInv, StatsWrites
    PROVE  /\ UNCHANGED <<proc, flush, disk, legacy, limits, stats, now>> /\ mem'.dirty
           /\ proc \in {"up", "stranded", "cancelled"}
           /\ writes # <<>> /\ writes' = Tail(writes)
           /\ CallCount' = 0 /\ CallSecs' = 0
           /\ IF Head(writes).op = "acc"
              THEN /\ writes' = <<>> /\ Told(mem'.acc)
                   /\ UNCHANGED <<AllCycles, AllDays>> /\ mem'.cycles = mem.cycles
              ELSE writes' # <<>> /\ mem'.acc = mem.acc
           /\ Head(writes).op = "cycle" =>
                /\ Head(writes).secs \in Nat /\ AllDays' = AllDays
                /\ \E c \in Cycles : /\ c \notin AllCycles /\ c.secs = Head(writes).secs
                                     /\ AllCycles' = AllCycles \cup {c}
           /\ Head(writes).op = "daily" =>
                /\ AllCycles' = AllCycles /\ Head(writes).row \in Daily
                /\ AllDays' \subseteq AllDays \cup {Head(writes).row}
           /\ Head(writes).op \in {"cycle", "daily", "acc"}
  <1>1. /\ UNCHANGED <<proc, flush, disk, legacy, limits, stats, now>>
        /\ writes # <<>> /\ writes' = Tail(writes) /\ writes \in Seq(Calls)
        /\ mem \in MemStates
    BY DEF StatsWrites, IInv, TypeOK
  <1>2. proc \in {"up", "stranded", "cancelled"} /\ LastTells(writes)
    BY <1>1 DEF DInv, TotalsFollow
  <1>3. Head(writes) \in Calls /\ Head(writes).op \in {"cycle", "daily", "acc"}
    BY <1>1, HeadTail DEF Calls
  <1>4. /\ Head(writes).op = "acc" => Tail(writes) = <<>>
        /\ Tail(writes) # <<>> => Head(Tail(writes)).op # "cycle"
    BY <1>1, TailInTurn DEF HInv, CallsInTurn
  <1>5. CallCount' = 0 /\ CallSecs' = 0
    BY <1>1, <1>4 DEF CallCount, CallSecs
  <1>6. Tail(writes) = <<>> => writes[Len(writes)] = Head(writes)
    BY <1>1, LastOfTail
  <1>7. Tail(writes) = <<>> => Head(writes).op = "acc"
    BY <1>2, <1>6 DEF LastTells
  <1>8. CASE Head(writes).op = "acc"
    <2>1. mem' = WithAccumulators(mem, Head(writes).acc)
      BY <1>8 DEF StatsWrites
    <2>2. mem'.acc = Head(writes).acc /\ mem'.cycles = mem.cycles /\ mem'.daily = mem.daily
          /\ mem'.dirty
      BY <1>1, <2>1, AccKept, RowsKept, MarkedIsMarked
    <2>3. Told(Head(writes).acc)
      BY <1>2, <1>4, <1>6, <1>8 DEF LastTells
    <2>4. Told(mem'.acc)
      BY <2>2, <2>3 DEF Told
    <2>5. UNCHANGED <<AllCycles, AllDays>>
      BY <1>1, <2>2 DEF AllCycles, AllDays
    <2> QED BY <1>1, <1>2, <1>3, <1>4, <1>5, <1>8, <2>2, <2>4, <2>5
  <1>9. CASE Head(writes).op = "cycle"
    <2>1. Head(writes).at \in Instants /\ Head(writes).secs \in Nat
      BY <1>3, <1>9 DEF Calls
    <2>2. mem' = WithCycle(mem, Head(writes).at, Head(writes).secs)
      BY <1>9 DEF StatsWrites
    <2>3. mem'.acc = mem.acc /\ mem'.dirty
      BY <1>1, <2>2, AccKept, MarkedIsMarked
    <2>4. proc # "down"
      BY <1>2
    <2>5. \E c \in Cycles : /\ c \notin AllCycles /\ c.secs = Head(writes).secs
                            /\ AllCycles' = AllCycles \cup {c} /\ AllDays' = AllDays
      BY <1>1, <2>1, <2>2, <2>4, CycleDoes
    <2> QED BY <1>1, <1>2, <1>3, <1>5, <1>7, <1>9, <2>1, <2>3, <2>5
  <1>10. CASE Head(writes).op = "daily"
    <2>1. mem' = WithDaily(mem, Head(writes).row) /\ Head(writes).row \in Daily
      BY <1>3, <1>10 DEF StatsWrites, Calls
    <2>2. mem'.acc = mem.acc /\ mem'.cycles = mem.cycles /\ mem'.dirty
          /\ mem'.daily = Inserted(mem.daily, {Head(writes).row}, SameDay)
      BY <1>1, <2>1, AccKept, RowsKept, MarkedIsMarked
    <2>3. mem'.daily \subseteq mem.daily \cup {Head(writes).row}
      BY <2>2, InsertedRows
    <2>4. AllCycles' = AllCycles /\ AllDays' \subseteq AllDays \cup {Head(writes).row}
      BY <1>1, <2>2, <2>3 DEF AllCycles, AllDays
    <2> QED BY <1>1, <1>2, <1>3, <1>5, <1>7, <1>10, <2>1, <2>2, <2>4
  <1> QED BY <1>3, <1>8, <1>9, <1>10

\* A set of which nothing is new but one element stays finite.
LEMMA OneMore ==
    ASSUME NEW S, IsFiniteSet(S), NEW x, NEW T, T \subseteq S \cup {x}
    PROVE  IsFiniteSet(T)
  BY FS_AddElement, FS_Subset

\* A process that is gone leaves the database.
LEMMA DiesDoes ==
    ASSUME Dies
    PROVE  /\ proc' = "down" /\ UNCHANGED <<disk, now>> /\ flush' = Emptied /\ writes' = <<>>
           /\ AllCycles' = disk.cycles /\ AllDays' = disk.daily
           /\ ~stats'.observed /\ ~stats'.initialized
           /\ stats' = FreshStats(DefaultAccumulators, 0)
           /\ mem' = Hydrated(EmptyDisk)
           /\ (proc = "stopped" /\ UNCHANGED limits)
                \/ (/\ proc \notin {"down", "stopped"}
                    /\ limits' = [limits EXCEPT !.ends = @ - 1, !.died = TRUE])
  <1>1. /\ proc' = "down" /\ UNCHANGED <<disk, now>> /\ flush' = Emptied /\ writes' = <<>>
        /\ stats' = FreshStats(DefaultAccumulators, 0) /\ mem' = Hydrated(EmptyDisk)
        /\ (proc = "stopped" /\ UNCHANGED limits)
             \/ (/\ proc \notin {"down", "stopped"}
                 /\ limits' = [limits EXCEPT !.ends = @ - 1, !.died = TRUE])
    BY DEF Dies, Crash, Exit, Vanishes
  <1>2. mem'.cycles = {} /\ mem'.daily = {} /\ flush'.cycles = {} /\ flush'.daily = {}
    BY <1>1 DEF Hydrated, Emptied
  <1>3. AllCycles' = mem'.cycles \cup flush'.cycles \cup disk'.cycles
        /\ AllDays' = mem'.daily \cup flush'.daily \cup disk'.daily
    BY DEF AllCycles, AllDays
  <1>4. ~stats'.observed /\ ~stats'.initialized
    BY <1>1 DEF FreshStats
  <1> QED BY <1>1, <1>2, <1>3, <1>4

LEMMA OpenDoes ==
    ASSUME IInv, Open
    PROVE  /\ proc = "down" /\ proc' = "opened" /\ mem' = Hydrated(disk)
           /\ mem'.acc = disk.acc /\ mem'.cycles = {} /\ mem'.daily = {}
           /\ UNCHANGED <<disk, flush, legacy, limits, now>>
           /\ writes = <<>> /\ flush = Emptied
           /\ AllCycles' = disk.cycles /\ AllDays' = disk.daily /\ AllCycles = disk.cycles
  <1>1. /\ proc = "down" /\ proc' = "opened" /\ mem' = Hydrated(disk)
        /\ UNCHANGED <<disk, flush, legacy, limits, now>>
        /\ writes = <<>> /\ flush = Emptied /\ mem.cycles = {}
    BY DEF Open, IInv, DownIsEmpty
  <1>2. mem'.acc = disk.acc /\ mem'.cycles = {} /\ mem'.daily = {}
        /\ flush.cycles = {} /\ flush.daily = {}
    BY <1>1 DEF Hydrated, Emptied
  <1>3. AllCycles' = mem'.cycles \cup flush'.cycles \cup disk'.cycles
        /\ AllDays' = mem'.daily \cup flush'.daily \cup disk'.daily
    BY DEF AllCycles, AllDays
  <1> QED BY <1>1, <1>2, <1>3 DEF AllCycles

\* The legacy file: its totals first, then one cycle after the other.
LEMMA ImportDoes ==
    ASSUME IInv, DInv, ImportStarts \/ ImportsCycle
    PROVE  /\ UNCHANGED <<flush, disk, limits, AllDays, now>> /\ mem'.dirty
           /\ proc' = "importing" /\ proc # "down"
           /\ ImportStarts => /\ proc = "opened" /\ AllCycles' = AllCycles
                              /\ flush.pc = "idle" /\ writes = <<>>
                              /\ mem.acc = DefaultAccumulators
                              /\ mem'.acc = LegacyTotal /\ legacy'.left = LegacyCycles
           /\ ImportsCycle => /\ proc = "importing" /\ mem'.acc = mem.acc
                              /\ legacy.left # <<>> /\ Head(legacy.left).secs \in Nat
                              /\ legacy'.left = Tail(legacy.left)
                              /\ \E c \in Cycles : /\ c \notin AllCycles
                                                   /\ c.secs = Head(legacy.left).secs
                                                   /\ AllCycles' = AllCycles \cup {c}
  <1>0. mem \in MemStates /\ legacy \in Imports
    BY DEF IInv, TypeOK
  <1>1. CASE ImportStarts
    <2>1. /\ UNCHANGED <<flush, disk, limits, now>> /\ proc = "opened" /\ proc' = "importing"
          /\ mem' = WithAccumulators(mem, LegacyTotal) /\ legacy'.left = LegacyCycles
          /\ mem.acc = DefaultAccumulators
      BY <1>0, <1>1 DEF ImportStarts, ImportWanted, Imports
    <2>2. mem'.acc = LegacyTotal /\ mem'.cycles = mem.cycles /\ mem'.daily = mem.daily
          /\ mem'.dirty
      BY <1>0, <2>1, AccKept, RowsKept, MarkedIsMarked
    <2>3. UNCHANGED <<AllCycles, AllDays>>
      BY <2>1, <2>2 DEF AllCycles, AllDays
    <2>4. flush.pc = "idle" /\ writes = <<>>
      BY <2>1 DEF DInv, CallerWaits, TotalsFollow
    <2>5. ~ImportsCycle
      BY <2>1 DEF ImportsCycle
    <2> QED BY <1>1, <2>1, <2>2, <2>3, <2>4, <2>5
  <1>2. CASE ImportsCycle
    <2>1. Head(legacy.left) \in [at : Instants, secs : Nat]
      BY <1>0, <1>2, HeadTail DEF ImportsCycle, Imports
    <2>2. Head(legacy.left).at \in Instants /\ Head(legacy.left).secs \in Nat
      BY <2>1
    <2>3. /\ UNCHANGED <<flush, disk, limits, now, proc>> /\ proc = "importing"
          /\ mem' = WithCycle(mem, Head(legacy.left).at, Head(legacy.left).secs)
          /\ legacy.left # <<>> /\ legacy'.left = Tail(legacy.left)
      BY <1>0, <1>2 DEF ImportsCycle, Imports
    <2>4. mem'.acc = mem.acc /\ mem'.dirty
      BY <1>0, <2>3, AccKept, MarkedIsMarked
    <2>5. \E c \in Cycles : /\ c \notin AllCycles /\ c.secs = Head(legacy.left).secs
                            /\ AllCycles' = AllCycles \cup {c} /\ AllDays' = AllDays
      BY <2>2, <2>3, CycleDoes
    <2>6. ~ImportStarts
      BY <2>3 DEF ImportStarts
    <2> QED BY <2>2, <2>3, <2>4, <2>5, <2>6
  <1> QED BY <1>1, <1>2

\* Every step is one of these.
LEMMA StepKinds ==
    ASSUME Next
    PROVE  \/ StillSteps
           \/ (FlushCommits \/ FlushFails \/ FlushEnds \/ Open \/ ImportStarts \/ ImportsCycle)
                /\ Quiet
           \/ (HourlyFlush \/ ImportFlush \/ FinalFlush) /\ Quiet
           \/ StatsTick \/ StatsWrites \/ Started \/ Dies
  BY DEF Next, StoreStep, StoreNext, Quiet, StillSteps

\* Who takes a flush.
LEMMA FlushKinds ==
    ASSUME IInv, HourlyFlush \/ ImportFlush \/ FinalFlush
    PROVE  \E caller \in {"hourly", "import", "final"} :
              /\ FlushTakes(caller)
              /\ caller = "import" => proc = "importing" /\ legacy.left = <<>>
              /\ caller # "import" => proc \in {"up", "final"}
              /\ limits'.died = limits.died /\ limits'.lost = limits.lost
              /\ limits'.imported = limits.imported /\ limits'.late = limits.late
  <1>1. limits \in Limits
    BY DEF IInv, TypeOK
  <1>2. CASE HourlyFlush
    BY <1>1, <1>2 DEF HourlyFlush, Limits
  <1>3. CASE ImportFlush
    BY <1>3 DEF ImportFlush
  <1>4. CASE FinalFlush
    BY <1>4 DEF FinalFlush
  <1> QED BY <1>2, <1>3, <1>4

\* Every step keeps HInv.
LEMMA HistoryStep ==
    ASSUME IInv, CInv, DInv, HInv, Next
    PROVE  HInv'
  <1>0. /\ IsFiniteSet(AllCycles) /\ IsFiniteSet(AllDays)
        /\ IsFiniteSet(disk.cycles) /\ IsFiniteSet(disk.daily)
    BY FS_Subset DEF HInv, RowsAreFinite, AllCycles, AllDays
  <1>1. CASE StillSteps
    <2>1. /\ UNCHANGED <<disk, flush, legacy, stats, writes, AllCycles, AllDays>>
          /\ mem'.acc = mem.acc /\ mem'.cycles = mem.cycles /\ (mem.dirty => mem'.dirty)
          /\ limits'.lost = limits.lost /\ limits'.imported = limits.imported
          /\ (proc' = "importing" => proc = "importing")
          /\ (proc' = "stopped" =>
                proc = "stopped" \/ (proc = "final" /\ ~mem.dirty /\ flush.pc = "idle"))
      BY <1>1, StillDoes
    <2>2. CallsInTurn' /\ RowsAreFinite' /\ ObservedIsSeen'
      BY <2>1 DEF HInv, CallsInTurn, RowsAreFinite, ObservedIsSeen
    <2>3. FlushHolds'
      BY <2>1 DEF HInv, FlushHolds
    <2>4. StoppedIsWritten'
      BY <2>1 DEF HInv, StoppedIsWritten, CInv, CleanMeansWritten
    <2> QED BY <2>2, <2>3, <2>4 DEF HInv
  <1>2. CASE (HourlyFlush \/ ImportFlush \/ FinalFlush) /\ Quiet
    <2>1. PICK caller \in {"hourly", "import", "final"} :
              /\ FlushTakes(caller)
              /\ caller = "import" => proc = "importing" /\ legacy.left = <<>>
              /\ caller # "import" => proc \in {"up", "final"}
      BY <1>2, FlushKinds
    <2>2. /\ UNCHANGED <<proc, legacy, AllCycles, AllDays, stats, writes>>
          /\ mem'.dirty /\ flush'.pc = "taken"
      BY <1>2, <2>1, TakesDoes DEF Quiet
    <2>3. CallsInTurn' /\ RowsAreFinite' /\ ObservedIsSeen'
      BY <2>2 DEF HInv, CallsInTurn, RowsAreFinite, ObservedIsSeen
    <2>4. FlushHolds'
      BY <2>1, <2>2 DEF FlushHolds
    <2>5. StoppedIsWritten'
      BY <2>1, <2>2 DEF StoppedIsWritten
    <2> QED BY <2>3, <2>4, <2>5 DEF HInv
  <1>3. CASE FlushCommits /\ Quiet
    <2>1. /\ UNCHANGED <<proc, mem, legacy, AllCycles, stats, writes>>
          /\ flush.pc = "taken" /\ flush'.pc = "committed"
          /\ flush'.cycles = flush.cycles /\ flush'.daily = flush.daily
          /\ flush'.means = flush.means /\ flush'.caller = flush.caller
          /\ disk'.cycles = disk.cycles \cup flush.cycles
          /\ flush.daily \subseteq disk'.daily /\ disk'.daily \subseteq AllDays
          /\ flush.means \subseteq disk'.means
          /\ limits'.imported = (limits.imported \/ flush.caller = "import")
      BY <1>3, CommitDoes DEF Quiet
    <2>2. IsFiniteSet(AllDays')
      <3>1. AllDays' = mem'.daily \cup flush'.daily \cup disk'.daily
        BY DEF AllDays
      <3>2. AllDays' \subseteq AllDays
        BY <2>1, <3>1 DEF AllDays
      <3> QED BY <1>0, <3>2, FS_Subset
    <2>3. CallsInTurn' /\ RowsAreFinite' /\ ObservedIsSeen'
      BY <1>0, <2>1, <2>2 DEF HInv, CallsInTurn, RowsAreFinite, ObservedIsSeen
    <2>4. FlushHolds'
      BY <2>1 DEF HInv, FlushHolds
    <2>5. StoppedIsWritten'
      BY <2>1 DEF DInv, CallerWaits, StoppedIsWritten
    <2> QED BY <2>3, <2>4, <2>5 DEF HInv
  <1>4. CASE FlushFails /\ Quiet
    <2>1. /\ UNCHANGED <<mem, disk, legacy, stats, writes>> /\ flush' = Emptied
          /\ flush.pc = "taken" /\ limits'.lost
          /\ AllCycles' = mem.cycles \cup disk.cycles
          /\ AllDays' = mem.daily \cup disk.daily
          /\ proc' = Resumed(flush.caller)
      BY <1>4, FailDoes DEF FlushFails, Quiet
    <2>2. AllCycles' \subseteq AllCycles /\ AllDays' \subseteq AllDays
      BY <2>1 DEF AllCycles, AllDays
    <2>3. CallsInTurn' /\ RowsAreFinite' /\ ObservedIsSeen'
      <3>1. IsFiniteSet(AllCycles') /\ IsFiniteSet(AllDays')
        BY <1>0, <2>2, FS_Subset
      <3> QED BY <2>1, <3>1 DEF HInv, CallsInTurn, RowsAreFinite, ObservedIsSeen
    <2>4. proc' # "importing"
      BY <2>1, Resumes DEF DInv
    <2>5. FlushHolds' /\ StoppedIsWritten'
      BY <2>1, <2>4 DEF FlushHolds, StoppedIsWritten, Emptied
    <2> QED BY <2>3, <2>5 DEF HInv
  <1>5. CASE FlushEnds /\ Quiet
    <2>1. /\ UNCHANGED <<disk, limits, AllCycles, AllDays, stats, writes>>
          /\ flush' = Emptied /\ flush.pc = "committed" /\ proc' = Resumed(flush.caller)
          /\ mem'.acc = mem.acc /\ mem'.cycles = mem.cycles
      BY <1>5, EndDoes DEF FlushEnds, Quiet
    <2>2. CallsInTurn' /\ RowsAreFinite' /\ ObservedIsSeen'
      BY <2>1 DEF HInv, CallsInTurn, RowsAreFinite, ObservedIsSeen
    <2>3. proc' # "importing" /\ (proc' = "stopped" => flush.caller = "final")
      BY <2>1, Resumes DEF DInv, CallerWaits
    <2>4. FlushHolds'
      BY <2>1, <2>3 DEF FlushHolds, Emptied
    <2>5. StoppedIsWritten'
      <3>1. flush.caller = "final" => ~mem.moved
        BY <2>1 DEF DInv, CallerWaits
      <3>2. flush.caller = "final" => mem.cycles = {} /\ disk.acc = mem.acc
        BY <2>1, <3>1 DEF CInv, TakenIsHeld, CommittedIsOnDisk
      <3> QED BY <2>1, <2>3, <3>2 DEF StoppedIsWritten
    <2> QED BY <2>2, <2>4, <2>5 DEF HInv
  <1>6. CASE Open /\ Quiet
    <2>1. /\ proc' = "opened" /\ flush' = Emptied /\ writes' = <<>> /\ UNCHANGED stats
          /\ AllCycles' = disk.cycles /\ AllDays' = disk.daily
      BY <1>6, OpenDoes DEF Quiet
    <2>2. CallsInTurn' /\ RowsAreFinite' /\ ObservedIsSeen'
      BY <1>0, <2>1 DEF HInv, CallsInTurn, RowsAreFinite, ObservedIsSeen
    <2>3. FlushHolds' /\ StoppedIsWritten'
      BY <2>1 DEF FlushHolds, StoppedIsWritten, Emptied
    <2> QED BY <2>2, <2>3 DEF HInv
  <1>7. CASE (ImportStarts \/ ImportsCycle) /\ Quiet
    <2>1. /\ UNCHANGED <<flush, disk, limits, AllDays, stats, writes>> /\ mem'.dirty
          /\ proc' = "importing"
          /\ ImportStarts => AllCycles' = AllCycles /\ flush.pc = "idle"
          /\ ImportsCycle => /\ proc = "importing" /\ legacy.left # <<>>
                             /\ \E c \in Cycles : AllCycles' = AllCycles \cup {c}
      BY <1>7, ImportDoes DEF Quiet
    <2>2. IsFiniteSet(AllCycles')
      BY <1>0, <1>7, <2>1, FS_AddElement
    <2>3. CallsInTurn' /\ RowsAreFinite' /\ ObservedIsSeen'
      BY <1>0, <2>1, <2>2 DEF HInv, CallsInTurn, RowsAreFinite, ObservedIsSeen
    <2>4. flush.pc = "idle"
      BY <1>7, <2>1 DEF HInv, FlushHolds
    <2>5. FlushHolds' /\ StoppedIsWritten'
      BY <2>1, <2>4 DEF HInv, FlushHolds, StoppedIsWritten
    <2> QED BY <2>3, <2>5 DEF HInv
  <1>8. CASE StatsTick
    <2>1. /\ UNCHANGED storeVars
          /\ stats'.observed => stats'.initialized
          /\ \A i, j \in DOMAIN writes' : i < j => InTurn(writes'[i].op, writes'[j].op)
      BY <1>8, TickCounts
    <2>2. UNCHANGED <<AllCycles, AllDays>>
      BY <2>1 DEF storeVars, AllCycles, AllDays
    <2> QED BY <2>1, <2>2 DEF storeVars, HInv, CallsInTurn, RowsAreFinite, ObservedIsSeen,
                              FlushHolds, StoppedIsWritten
  <1>9. CASE StatsWrites
    <2>1. /\ UNCHANGED <<proc, flush, disk, legacy, limits, stats>>
          /\ proc \in {"up", "stranded", "cancelled"} /\ writes # <<>>
          /\ writes' = Tail(writes)
          /\ \E x : AllCycles' \subseteq AllCycles \cup {x}
          /\ \E x : AllDays' \subseteq AllDays \cup {x}
      BY <1>9, WriteDoes
    <2>2. IsFiniteSet(AllCycles') /\ IsFiniteSet(AllDays')
      BY <1>0, <2>1, OneMore
    <2>3. CallsInTurn'
      <3>1. writes \in Seq(Calls)
        BY DEF IInv, TypeOK
      <3> QED BY <2>1, <3>1, TailInTurn DEF HInv, CallsInTurn
    <2>4. RowsAreFinite' /\ ObservedIsSeen' /\ FlushHolds' /\ StoppedIsWritten'
      BY <2>1, <2>2 DEF HInv, RowsAreFinite, ObservedIsSeen, FlushHolds, StoppedIsWritten
    <2> QED BY <2>3, <2>4 DEF HInv
  <1>10. CASE Started
    <2>1. /\ UNCHANGED <<mem, disk, legacy, flush, limits, writes>> /\ proc' = "up"
          /\ ~stats'.observed
      BY <1>10 DEF Started, FreshStats
    <2>2. UNCHANGED <<AllCycles, AllDays>>
      BY <2>1 DEF AllCycles, AllDays
    <2> QED BY <2>1, <2>2 DEF HInv, CallsInTurn, RowsAreFinite, ObservedIsSeen,
                              FlushHolds, StoppedIsWritten
  <1>11. CASE Dies
    <2>1. /\ proc' = "down" /\ flush' = Emptied /\ writes' = <<>> /\ ~stats'.observed
          /\ AllCycles' = disk.cycles /\ AllDays' = disk.daily
      BY <1>11, DiesDoes
    <2> QED BY <1>0, <2>1 DEF HInv, CallsInTurn, RowsAreFinite, ObservedIsSeen,
                              FlushHolds, StoppedIsWritten, Emptied
  <1> QED BY <1>1, <1>2, <1>3, <1>4, <1>5, <1>6, <1>7, <1>8, <1>9, <1>10, <1>11, StepKinds

LEMMA HistoryInductive == Spec => [](IInv /\ CInv /\ DInv /\ HInv)
  <1>1. Init => HInv
    <2> SUFFICES ASSUME Init PROVE HInv
      OBVIOUS
    <2>1. /\ proc = "down" /\ flush = Emptied /\ writes = <<>> /\ ~stats.observed
          /\ mem.cycles = {} /\ mem.daily = {} /\ disk.cycles = {} /\ disk.daily = {}
          /\ flush.cycles = {} /\ flush.daily = {}
      BY DEF Init, StoreInit, Hydrated, EmptyDisk, Emptied, FreshStats
    <2>2. AllCycles = {} /\ AllDays = {}
      BY <2>1 DEF AllCycles, AllDays
    <2> QED BY <2>1, <2>2, FS_EmptySet
            DEF HInv, CallsInTurn, RowsAreFinite, ObservedIsSeen, FlushHolds,
                StoppedIsWritten, Emptied
  <1>2. IInv /\ CInv /\ DInv /\ HInv /\ [Next]_vars => HInv'
    <2>1. ASSUME HInv, UNCHANGED vars PROVE HInv'
      BY <2>1 DEF HInv, CallsInTurn, RowsAreFinite, ObservedIsSeen, FlushHolds,
                  StoppedIsWritten, AllCycles, AllDays, vars, storeVars
    <2> QED BY <2>1, HistoryStep
  <1> QED BY <1>1, <1>2, InvInductive, CleanInductive, FollowInductive, PTL DEF Spec

-----------------------------------------------------------------------------
(* The totals and the cycles they add up to.  A start is counted before its  *)
(* cycle is recorded, and a cycle is recorded before its seconds are handed  *)
(* over; a flush takes both at once.                                         *)

CyclesCounted ==
    /\ Cardinality(disk.cycles) <= disk.acc.starts
    /\ flush.pc = "taken" => Cardinality(disk.cycles \cup flush.cycles) <= flush.acc.starts
    /\ Ready => Cardinality(AllCycles) + CallCount <= mem.acc.starts
    /\ Running => Cardinality(AllCycles) + CallCount + InCycle <= stats.starts

\* What is imported so far, of the file that is being imported.
Imported ==
    proc = "importing" =>
        /\ mem.acc = LegacyTotal
        /\ \E k \in 0..Len(LegacyCycles) :
              /\ legacy.left = SubSeq(LegacyCycles, k + 1, Len(LegacyCycles))
              /\ Cardinality(AllCycles) = k
              /\ TotalSecs(AllCycles) = LegacySecs(k)

\* Not more than the cycles add up to, and as much when no process died.
Meets(x, y) == x <= y /\ (~limits.died => x = y)
FlushUnlisted == IF flush.caller = "import" THEN LegacyUnlisted ELSE Unlisted
SecsCounted ==
    ~limits.lost =>
        /\ disk.acc.secs <= TotalSecs(disk.cycles) + Unlisted
        /\ proc = "down" => Meets(disk.acc.secs, TotalSecs(disk.cycles) + Unlisted)
        /\ flush.pc = "taken" =>
             flush.acc.secs <= TotalSecs(disk.cycles \cup flush.cycles) + FlushUnlisted
        /\ Ready => mem.acc.secs <= TotalSecs(AllCycles) + Unlisted
        /\ Ready /\ writes = <<>> => Meets(mem.acc.secs, TotalSecs(AllCycles) + Unlisted)
        /\ Running => Meets(stats.secs, TotalSecs(AllCycles) + CallSecs + Unlisted)

TInv == CyclesCounted /\ Imported /\ SecsCounted

LEMMA UnlistedIs ==
    /\ LegacyUnlisted = LegacyTotal.secs - LegacySecs(Len(LegacyCycles))
    /\ LegacyUnlisted \in Int
    /\ LegacyTotal.starts \in Nat /\ LegacyTotal.secs \in Nat
    /\ Len(LegacyCycles) \in Nat /\ Len(LegacyCycles) <= LegacyTotal.starts
    /\ \A k \in 0..Len(LegacyCycles) : LegacySecs(k) \in Nat
  <1>1. DOMAIN LegacyCycles = 1..Len(LegacyCycles) /\ Len(LegacyCycles) \in Nat
    BY StorageAssumption
  <1>2. LegacyTotal.starts \in Nat /\ LegacyTotal.secs \in Nat
        /\ Len(LegacyCycles) <= LegacyTotal.starts
    BY StorageAssumption
  <1>3. \A k \in 0..Len(LegacyCycles) : LegacySecs(k) \in Nat
    BY LegacyAdd
  <1>4. LegacyUnlisted = LegacyTotal.secs - LegacySecs(Len(LegacyCycles))
    BY <1>1 DEF LegacyUnlisted, LegacySecs
  <1>5. LegacyUnlisted \in Int
    <2>1. LegacySecs(Len(LegacyCycles)) \in Nat
      BY <1>1, <1>3
    <2> QED BY <1>2, <1>4, <2>1
  <1> QED BY <1>1, <1>2, <1>3, <1>4, <1>5

\* Sums and counts of cycles are numbers.
LEMMA CountTypes ==
    ASSUME IInv, HInv
    PROVE  /\ \A S \in SUBSET AllCycles :
                 /\ IsFiniteSet(S) /\ Cardinality(S) \in Nat /\ TotalSecs(S) \in Nat
                 /\ Cardinality(S) <= Cardinality(AllCycles)
           /\ disk.cycles \subseteq AllCycles /\ disk.cycles \cup flush.cycles \subseteq AllCycles
           /\ \A c \in Cycles : c \notin AllCycles =>
                 /\ Cardinality(AllCycles \cup {c}) = Cardinality(AllCycles) + 1
                 /\ TotalSecs(AllCycles \cup {c}) = TotalSecs(AllCycles) + c.secs
           /\ mem.acc.starts \in Nat /\ mem.acc.secs \in Nat
           /\ disk.acc.starts \in Nat /\ disk.acc.secs \in Nat
           /\ flush.acc.starts \in Nat /\ flush.acc.secs \in Nat
           /\ stats.starts \in Nat /\ stats.secs \in Nat
           /\ CallCount \in {0, 1} /\ InCycle \in {0, 1} /\ CallSecs \in Nat
  <1>0. /\ IsFiniteSet(AllCycles) /\ AllCycles \subseteq Cycles
        /\ mem \in MemStates /\ disk \in Tables /\ flush \in Flushes
        /\ stats \in Trackers /\ writes \in Seq(Calls)
    BY DEF HInv, RowsAreFinite, IInv, TypeOK, AllCycles, MemStates, Tables, Flushes
  <1>1. \A c \in Cycles : c.secs \in Nat
    BY DEF Cycles
  <1>2. ASSUME NEW S \in SUBSET AllCycles
        PROVE  /\ IsFiniteSet(S) /\ Cardinality(S) \in Nat /\ TotalSecs(S) \in Nat
               /\ Cardinality(S) <= Cardinality(AllCycles)
    <2>1. IsFiniteSet(S) /\ Cardinality(S) <= Cardinality(AllCycles)
      BY <1>0, FS_Subset
    <2>2. Cardinality(S) \in Nat
      BY <2>1, FS_CardinalityType
    <2>3. TotalSecs(S) \in Nat
      <3>1. \A r \in S : r.secs \in Nat
        BY <1>0, <1>1
      <3> QED BY <2>1, <3>1, SecsNat
    <2> QED BY <2>1, <2>2, <2>3
  <1>3. ASSUME NEW c \in Cycles, c \notin AllCycles
        PROVE  /\ Cardinality(AllCycles \cup {c}) = Cardinality(AllCycles) + 1
               /\ TotalSecs(AllCycles \cup {c}) = TotalSecs(AllCycles) + c.secs
    <2>1. Cardinality(AllCycles \cup {c}) = Cardinality(AllCycles) + 1
      BY <1>0, <1>3, FS_AddElement
    <2>2. \A r \in AllCycles : r.secs \in Nat
      BY <1>0, <1>1
    <2>3. TotalSecs(AllCycles \cup {c}) = TotalSecs(AllCycles) + c.secs
      BY <1>0, <1>1, <1>3, <2>2, SecsAdd
    <2> QED BY <2>1, <2>3
  <1>4. /\ mem.acc.starts \in Nat /\ mem.acc.secs \in Nat
        /\ disk.acc.starts \in Nat /\ disk.acc.secs \in Nat
        /\ flush.acc.starts \in Nat /\ flush.acc.secs \in Nat
        /\ stats.starts \in Nat /\ stats.secs \in Nat
    BY <1>0 DEF MemStates, Tables, Flushes, Trackers, Accumulators
  <1>5. CallCount \in {0, 1} /\ InCycle \in {0, 1}
    BY DEF CallCount, InCycle
  <1>6. CallSecs \in Nat
    <2>1. writes # <<>> /\ Head(writes).op = "cycle" => Head(writes).secs \in Nat
      BY <1>0, HeadTail DEF Calls
    <2> QED BY <2>1 DEF CallSecs
  <1>7. disk.cycles \subseteq AllCycles /\ disk.cycles \cup flush.cycles \subseteq AllCycles
    BY DEF AllCycles
  <1> QED BY <1>2, <1>3, <1>4, <1>5, <1>6, <1>7

\* A file of which nothing is left is imported.
LEMMA AllImported ==
    ASSUME Imported, proc = "importing", legacy.left = <<>>
    PROVE  /\ mem.acc = LegacyTotal
           /\ Cardinality(AllCycles) = Len(LegacyCycles)
           /\ TotalSecs(AllCycles) = LegacySecs(Len(LegacyCycles))
  <1> DEFINE n == Len(LegacyCycles)
  <1>1. n \in Nat
    BY UnlistedIs
  <1>2. PICK k \in 0..n : /\ SubSeq(LegacyCycles, k + 1, n) = <<>>
                          /\ Cardinality(AllCycles) = k
                          /\ TotalSecs(AllCycles) = LegacySecs(k)
    BY DEF Imported
  <1>3. k = n
    <2>1. Len(SubSeq(LegacyCycles, k + 1, n)) = 0
      BY <1>2
    <2>2. LegacyCycles \in Seq([at : Instants, secs : Nat])
      BY StorageAssumption DEF Instants
    <2>3. Len(SubSeq(LegacyCycles, k + 1, n)) = IF k + 1 <= n THEN n - k ELSE 0
      BY <1>1, <2>2
    <2> QED BY <1>1, <2>1, <2>3
  <1> QED BY <1>2, <1>3 DEF Imported

LEMMA TotalsStill ==
    ASSUME IInv, DInv, HInv, TInv, StillSteps
    PROVE  TInv'
  <1>1. /\ UNCHANGED <<disk, flush, legacy, stats, writes, AllCycles>>
        /\ mem'.acc = mem.acc
        /\ limits'.died = limits.died /\ limits'.lost = limits.lost
        /\ limits'.imported = limits.imported
        /\ (Ready <=> Ready') /\ (Running' => Running)
        /\ (proc' \in {"importing", "down"} => proc' = proc)
    BY StillDoes
  <1>2. Unlisted' = Unlisted
    BY <1>1 DEF Unlisted
  <1>3. CallCount' = CallCount /\ CallSecs' = CallSecs /\ InCycle' = InCycle
    BY <1>1 DEF CallCount, CallSecs, InCycle
  <1>4. CyclesCounted'
    BY <1>1, <1>3 DEF TInv, CyclesCounted
  <1>5. Imported'
    BY <1>1 DEF TInv, Imported
  <1>6. SecsCounted'
    BY <1>1, <1>2, <1>3 DEF TInv, SecsCounted, Meets, FlushUnlisted
  <1> QED BY <1>4, <1>5, <1>6 DEF TInv

LEMMA TotalsTaken ==
    ASSUME IInv, DInv, HInv, TInv, HourlyFlush \/ ImportFlush \/ FinalFlush, Quiet
    PROVE  TInv'
  <1>0. PICK caller \in {"hourly", "import", "final"} :
              /\ FlushTakes(caller)
              /\ caller = "import" => proc = "importing" /\ legacy.left = <<>>
              /\ caller # "import" => proc \in {"up", "final"}
              /\ limits'.died = limits.died /\ limits'.lost = limits.lost
              /\ limits'.imported = limits.imported
    BY FlushKinds
  <1>1. /\ UNCHANGED <<proc, disk, legacy, stats, writes, AllCycles>>
        /\ mem'.acc = mem.acc /\ flush'.pc = "taken" /\ flush'.caller = caller
        /\ flush'.acc = mem.acc /\ disk'.cycles \cup flush'.cycles = AllCycles
    BY <1>0, TakesDoes DEF Quiet
  <1>2. Unlisted' = Unlisted /\ (Ready' <=> Ready) /\ (Running' <=> Running)
    BY <1>0, <1>1 DEF Unlisted, Ready, Running
  <1>3. CallCount' = CallCount /\ CallSecs' = CallSecs /\ InCycle' = InCycle
    BY <1>1 DEF CallCount, CallSecs, InCycle
  <1>4. caller = "import" =>
          /\ mem.acc = LegacyTotal
          /\ Cardinality(AllCycles) = Len(LegacyCycles)
          /\ TotalSecs(AllCycles) = LegacySecs(Len(LegacyCycles))
    <2> SUFFICES ASSUME caller = "import"
                 PROVE  /\ mem.acc = LegacyTotal
                        /\ Cardinality(AllCycles) = Len(LegacyCycles)
                        /\ TotalSecs(AllCycles) = LegacySecs(Len(LegacyCycles))
      OBVIOUS
    <2>1. proc = "importing" /\ legacy.left = <<>>
      BY <1>0
    <2> QED BY <2>1, AllImported DEF TInv
  <1>5. Cardinality(AllCycles) <= mem.acc.starts
    <2>1. CASE caller = "import"
      BY <1>4, <2>1, UnlistedIs
    <2>2. CASE caller # "import"
      <3>1. Ready
        BY <1>0, <2>2 DEF Ready
      <3>2. Cardinality(AllCycles) \in Nat /\ CallCount \in {0, 1} /\ mem.acc.starts \in Nat
        BY CountTypes
      <3> QED BY <3>1, <3>2 DEF TInv, CyclesCounted
    <2> QED BY <2>1, <2>2
  <1>6. CyclesCounted'
    <2>1. Cardinality(disk'.cycles \cup flush'.cycles) <= flush'.acc.starts
      BY <1>1, <1>5
    <2>2. UNCHANGED disk /\ UNCHANGED AllCycles /\ UNCHANGED stats
      BY <1>1
    <2> QED BY <1>1, <1>2, <1>3, <2>1, <2>2 DEF TInv, CyclesCounted
  <1>7. Imported'
    BY <1>1 DEF TInv, Imported
  <1>8. ~limits.lost => flush'.acc.secs <=
                          TotalSecs(disk'.cycles \cup flush'.cycles) + FlushUnlisted'
    <2> SUFFICES ASSUME ~limits.lost PROVE mem.acc.secs <= TotalSecs(AllCycles) + FlushUnlisted'
      BY <1>1
    <2>1. CASE caller = "import"
      <3>1. FlushUnlisted' = LegacyUnlisted
        BY <1>1, <2>1 DEF FlushUnlisted
      <3>2. LegacyTotal.secs \in Nat /\ LegacySecs(Len(LegacyCycles)) \in Nat
        BY UnlistedIs
      <3> QED BY <1>4, <2>1, <3>1, <3>2, UnlistedIs
    <2>2. CASE caller # "import"
      <3>1. FlushUnlisted' = Unlisted
        BY <1>1, <1>2, <2>2 DEF FlushUnlisted
      <3>2. Ready
        BY <1>0, <2>2 DEF Ready
      <3> QED BY <3>1, <3>2 DEF TInv, SecsCounted
    <2> QED BY <2>1, <2>2
  <1>9. SecsCounted'
    BY <1>0, <1>1, <1>2, <1>3, <1>8 DEF TInv, SecsCounted, Meets
  <1> QED BY <1>6, <1>7, <1>9 DEF TInv

LEMMA TotalsCommitted ==
    ASSUME IInv, DInv, HInv, TInv, FlushCommits, Quiet
    PROVE  TInv'
  <1>1. /\ UNCHANGED <<proc, mem, legacy, AllCycles, stats, writes>>
        /\ flush.pc = "taken" /\ flush'.pc = "committed"
        /\ disk'.acc = flush.acc /\ disk'.cycles = disk.cycles \cup flush.cycles
        /\ limits'.died = limits.died /\ limits'.lost = limits.lost
        /\ limits'.imported = (limits.imported \/ flush.caller = "import")
    BY CommitDoes DEF Quiet
  <1>2. (Ready' <=> Ready) /\ (Running' <=> Running) /\ CallCount' = CallCount
        /\ CallSecs' = CallSecs /\ InCycle' = InCycle
    BY <1>1 DEF Ready, Running, CallCount, CallSecs, InCycle
  <1>3. /\ flush.caller = "import" => proc = "importing"
        /\ proc # "down"
    BY <1>1 DEF DInv, CallerWaits
  <1>4. Unlisted' = FlushUnlisted /\ (flush.caller # "import" => Unlisted' = Unlisted)
    <2>1. flush.caller # "import" => Unlisted' = Unlisted
      BY <1>1 DEF Unlisted
    <2>2. flush.caller = "import" => Unlisted' = LegacyUnlisted
      BY <1>1 DEF Unlisted
    <2> QED BY <2>1, <2>2 DEF FlushUnlisted
  <1>5. CyclesCounted'
    BY <1>1, <1>2 DEF TInv, CyclesCounted
  <1>6. Imported'
    BY <1>1 DEF TInv, Imported
  <1>7. SecsCounted'
    <2>1. Ready => Unlisted' = Unlisted
      BY <1>3, <1>4 DEF Ready
    <2>2. Running => Ready
      BY DEF Running, Ready
    <2> QED BY <1>1, <1>2, <1>3, <1>4, <2>1, <2>2 DEF TInv, SecsCounted, Meets
  <1> QED BY <1>5, <1>6, <1>7 DEF TInv

\* A start goes on from an import, and a stop ends with a flush.
LEMMA TotalsEnded ==
    ASSUME IInv, DInv, HInv, TInv, FlushEnds, Quiet
    PROVE  TInv'
  <1>1. /\ UNCHANGED <<disk, limits, AllCycles, stats, writes>>
        /\ legacy'.left = legacy.left
        /\ flush' = Emptied /\ flush.pc = "committed" /\ proc' = Resumed(flush.caller)
        /\ mem'.acc = mem.acc
    BY EndDoes DEF FlushEnds, Quiet
  <1>2. Unlisted' = Unlisted /\ CallCount' = CallCount
        /\ CallSecs' = CallSecs /\ InCycle' = InCycle
    BY <1>1 DEF Unlisted, CallCount, CallSecs, InCycle
  <1>3. \/ flush.caller = "import" /\ proc = "importing" /\ proc' = "imported"
        \/ (Ready' => Ready) /\ (Running' => Running) /\ proc' # "importing" /\ proc' # "down"
    BY <1>1, Resumes DEF DInv, Ready, Running
  <1>4. CASE flush.caller = "import" /\ proc = "importing" /\ proc' = "imported"
    <2>1. legacy.left = <<>> /\ limits.imported
      BY <1>1, <1>4 DEF HInv, FlushHolds
    <2>2. /\ mem.acc = LegacyTotal
          /\ Cardinality(AllCycles) = Len(LegacyCycles)
          /\ TotalSecs(AllCycles) = LegacySecs(Len(LegacyCycles))
      BY <1>4, <2>1, AllImported DEF TInv
    <2>3. Unlisted = LegacyUnlisted
      BY <2>1 DEF Unlisted
    <2>4. LegacyTotal.secs = TotalSecs(AllCycles) + Unlisted
      BY <2>2, <2>3, UnlistedIs
    <2>5. writes = <<>> /\ CallCount = 0
      BY <1>4 DEF DInv, TotalsFollow, CallCount
    <2>6. ~Running' /\ proc' # "importing" /\ proc' # "down" /\ flush'.pc = "idle"
      BY <1>1, <1>4 DEF Running, Emptied
    <2>7. CyclesCounted'
      <3>1. Cardinality(AllCycles) + 0 <= mem.acc.starts
        BY <2>2, UnlistedIs
      <3> QED BY <1>1, <1>2, <2>5, <2>6, <3>1 DEF TInv, CyclesCounted
    <2>8. SecsCounted'
      <3>1. mem.acc.secs <= TotalSecs(AllCycles) + Unlisted
            /\ mem.acc.secs = TotalSecs(AllCycles) + Unlisted
        BY <2>2, <2>4, UnlistedIs
      <3> QED BY <1>1, <1>2, <2>6, <3>1 DEF TInv, SecsCounted, Meets
    <2>9. Imported'
      BY <2>6 DEF Imported
    <2> QED BY <2>7, <2>8, <2>9 DEF TInv
  <1>5. CASE (Ready' => Ready) /\ (Running' => Running) /\ proc' # "importing" /\ proc' # "down"
    <2>1. flush'.pc = "idle"
      BY <1>1 DEF Emptied
    <2>2. CyclesCounted'
      BY <1>1, <1>2, <1>5, <2>1 DEF TInv, CyclesCounted
    <2>3. SecsCounted'
      BY <1>1, <1>2, <1>5, <2>1 DEF TInv, SecsCounted, Meets
    <2>4. Imported'
      BY <1>5 DEF Imported
    <2> QED BY <2>2, <2>3, <2>4 DEF TInv
  <1> QED BY <1>3, <1>4, <1>5

\* What a failed flush took is gone, counted or not.
LEMMA TotalsLost ==
    ASSUME IInv, DInv, HInv, TInv, FlushFails, Quiet
    PROVE  TInv'
  <1>1. /\ UNCHANGED <<mem, disk, legacy, stats, writes>> /\ flush'.pc = "idle"
        /\ flush.pc = "taken" /\ limits'.lost
        /\ AllCycles' = mem.cycles \cup disk.cycles
        /\ proc' = Resumed(flush.caller)
    BY FailDoes DEF FlushFails, Quiet, Emptied
  <1>2. Cardinality(AllCycles') <= Cardinality(AllCycles) /\ Cardinality(AllCycles') \in Nat
        /\ Cardinality(AllCycles) \in Nat /\ CallCount \in {0, 1} /\ InCycle \in {0, 1}
        /\ mem.acc.starts \in Nat /\ stats.starts \in Nat
    <2>1. AllCycles' \in SUBSET AllCycles /\ AllCycles \in SUBSET AllCycles
      BY <1>1 DEF AllCycles
    <2> QED BY <2>1, CountTypes
  <1>3. CallCount' = CallCount /\ InCycle' = InCycle
    BY <1>1 DEF CallCount, InCycle
  <1>4. proc' # "importing"
    BY <1>1, Resumes DEF DInv
  <1>5. \/ proc = "importing" /\ legacy.left = <<>> /\ ~Running' /\ writes = <<>>
        \/ (Ready' => Ready) /\ (Running' => Running)
    BY <1>1, Resumes DEF DInv, HInv, FlushHolds, TotalsFollow, Ready, Running
  <1>6. CyclesCounted'
    <2>1. Ready' => Cardinality(AllCycles') + CallCount' <= mem'.acc.starts
      <3>1. CASE proc = "importing" /\ legacy.left = <<>> /\ ~Running' /\ writes = <<>>
        <4>1. Cardinality(AllCycles) <= mem.acc.starts
          BY <3>1, AllImported, UnlistedIs DEF TInv
        <4>2. CallCount = 0
          BY <3>1 DEF CallCount
        <4> QED BY <1>1, <1>2, <1>3, <4>1, <4>2
      <3>2. CASE (Ready' => Ready) /\ (Running' => Running)
        <4> SUFFICES ASSUME Ready' PROVE Cardinality(AllCycles') + CallCount' <= mem'.acc.starts
          OBVIOUS
        <4>1. Cardinality(AllCycles) + CallCount <= mem.acc.starts
          BY <3>2 DEF TInv, CyclesCounted
        <4> QED BY <1>1, <1>2, <1>3, <4>1
      <3> QED BY <1>5, <3>1, <3>2
    <2>2. Running' => Cardinality(AllCycles') + CallCount' + InCycle' <= stats'.starts
      <3> SUFFICES ASSUME Running'
                   PROVE  Cardinality(AllCycles') + CallCount' + InCycle' <= stats'.starts
        OBVIOUS
      <3>1. Cardinality(AllCycles) + CallCount + InCycle <= stats.starts
        BY <1>5 DEF TInv, CyclesCounted
      <3> QED BY <1>1, <1>2, <1>3, <3>1
    <2>3. Cardinality(disk'.cycles) <= disk'.acc.starts
      BY <1>1 DEF TInv, CyclesCounted
    <2> QED BY <1>1, <2>1, <2>2, <2>3 DEF CyclesCounted
  <1>7. Imported' /\ SecsCounted'
    BY <1>1, <1>4 DEF Imported, SecsCounted
  <1> QED BY <1>6, <1>7 DEF TInv

LEMMA TotalsOpened ==
    ASSUME IInv, DInv, HInv, TInv, Open, Quiet
    PROVE  TInv'
  <1>1. /\ proc = "down" /\ proc' = "opened" /\ mem'.acc = disk.acc
        /\ UNCHANGED <<disk, flush, legacy, limits, stats, writes>>
        /\ writes = <<>> /\ flush'.pc = "idle"
        /\ AllCycles' = disk.cycles
    BY OpenDoes DEF Quiet, Emptied
  <1>2. CallCount' = 0 /\ Unlisted' = Unlisted /\ ~Running' /\ Ready'
    BY <1>1 DEF CallCount, Unlisted, Running, Ready
  <1>3. Cardinality(disk.cycles) \in Nat
    BY CountTypes
  <1>4. CyclesCounted'
    BY <1>1, <1>2, <1>3 DEF TInv, CyclesCounted
  <1>5. SecsCounted'
    BY <1>1, <1>2 DEF TInv, SecsCounted, Meets
  <1>6. Imported'
    BY <1>1 DEF Imported
  <1> QED BY <1>4, <1>5, <1>6 DEF TInv

\* A database that has no totals has no cycles, so the file begins at nothing.
LEMMA TotalsToImport ==
    ASSUME IInv, DInv, HInv, TInv, ImportStarts, Quiet
    PROVE  TInv'
  <1>1. /\ UNCHANGED <<flush, disk, limits, stats, writes>>
        /\ proc = "opened" /\ proc' = "importing" /\ AllCycles' = AllCycles
        /\ flush.pc = "idle" /\ mem.acc = DefaultAccumulators
        /\ mem'.acc = LegacyTotal /\ legacy'.left = LegacyCycles
    BY ImportDoes DEF Quiet
  <1>2. AllCycles = {}
    <2>1. Cardinality(AllCycles) + CallCount <= 0
      BY <1>1 DEF TInv, CyclesCounted, Ready, DefaultAccumulators
    <2>2. Cardinality(AllCycles) \in Nat /\ CallCount \in {0, 1} /\ IsFiniteSet(AllCycles)
      BY CountTypes
    <2>3. Cardinality(AllCycles) = 0
      BY <2>1, <2>2
    <2> QED BY <2>2, <2>3, FS_EmptySet
  <1>3. Imported'
    <2>1. 0 \in 0..Len(LegacyCycles)
      BY UnlistedIs
    <2>2. LegacyCycles = SubSeq(LegacyCycles, 0 + 1, Len(LegacyCycles))
      <3>1. LegacyCycles \in Seq([at : Instants, secs : Nat])
        BY StorageAssumption DEF Instants
      <3> DEFINE q == LegacyCycles
                 E == [at : Instants, secs : Nat]
      <3> HIDE DEF q, E
      <3>2. q \in Seq(E)
        BY <3>1 DEF q, E
      <3>3. q = SubSeq(q, 1, Len(q))
        BY <3>2
      <3> QED BY <3>3 DEF q
    <2>3. Cardinality(AllCycles) = 0 /\ TotalSecs(AllCycles) = LegacySecs(0)
      BY <1>2, FS_EmptySet, SecsNone, LegacyAdd
    <2> QED BY <1>1, <2>1, <2>2, <2>3 DEF Imported
  <1>4. ~Ready' /\ ~Running' /\ Unlisted' = Unlisted /\ proc' # "down"
    BY <1>1 DEF Ready, Running, Unlisted
  <1>5. CyclesCounted' /\ SecsCounted'
    BY <1>1, <1>4 DEF TInv, CyclesCounted, SecsCounted
  <1> QED BY <1>3, <1>5 DEF TInv

LEMMA TotalsImported ==
    ASSUME IInv, DInv, HInv, TInv, ImportsCycle, Quiet
    PROVE  TInv'
  <1>1. /\ UNCHANGED <<flush, disk, limits, stats, writes, proc>>
        /\ proc = "importing" /\ mem'.acc = mem.acc
        /\ legacy.left # <<>> /\ legacy'.left = Tail(legacy.left)
    BY ImportDoes DEF Quiet
  <1>2. PICK c \in Cycles : /\ c \notin AllCycles /\ c.secs = Head(legacy.left).secs
                            /\ AllCycles' = AllCycles \cup {c}
    BY ImportDoes
  <1>3. flush.pc = "idle"
    BY <1>1 DEF HInv, FlushHolds
  <1>4. Imported'
    <2> DEFINE n == Len(LegacyCycles)
               E == [at : Instants, secs : Nat]
               q == LegacyCycles
    <2>1. PICK k \in 0..n : /\ legacy.left = SubSeq(q, k + 1, n)
                            /\ Cardinality(AllCycles) = k
                            /\ TotalSecs(AllCycles) = LegacySecs(k)
      BY <1>1 DEF TInv, Imported
    <2>2. q \in Seq(E) /\ n = Len(q) /\ n \in Nat
      BY StorageAssumption DEF Instants
    <2> HIDE DEF E, q, n
    <2>3. /\ k < n /\ k + 1 \in 0..n
          /\ Head(SubSeq(q, k + 1, n)) = q[k + 1]
          /\ Tail(SubSeq(q, k + 1, n)) = SubSeq(q, k + 2, n)
      <3>1. SubSeq(q, k + 1, n) # <<>>
        BY <1>1, <2>1
      <3>2. k < n
        <4> SUFFICES ASSUME k = n PROVE FALSE
          BY <2>2
        <4>1. SubSeq(q, n + 1, n) = <<>>
          BY <2>2
        <4> QED BY <3>1, <4>1
      <3> QED BY <2>2, <3>1, <3>2
    <2>4. /\ Cardinality(AllCycles') = k + 1
          /\ TotalSecs(AllCycles') = TotalSecs(AllCycles) + c.secs
      BY <1>2, <2>1, CountTypes
    <2>5. LegacySecs(k + 1) = LegacySecs(k) + q[k + 1].secs
      BY <2>3, LegacyAdd DEF q, n
    <2>6. TotalSecs(AllCycles') = LegacySecs(k + 1)
      BY <1>2, <2>1, <2>3, <2>4, <2>5
    <2>7. legacy'.left = SubSeq(q, (k + 1) + 1, n)
      <3>1. (k + 1) + 1 = k + 2
        BY <2>2
      <3> QED BY <1>1, <2>1, <2>3, <3>1
    <2>8. mem'.acc = LegacyTotal
      BY <1>1 DEF TInv, Imported
    <2>9. \E j \in 0..n : /\ legacy'.left = SubSeq(q, j + 1, n)
                          /\ Cardinality(AllCycles') = j
                          /\ TotalSecs(AllCycles') = LegacySecs(j)
      BY <2>3, <2>4, <2>6, <2>7
    <2> QED BY <2>8, <2>9 DEF Imported, n, q
  <1>5. ~Ready' /\ ~Running' /\ Unlisted' = Unlisted /\ proc' # "down"
    BY <1>1 DEF Ready, Running, Unlisted
  <1>6. CyclesCounted' /\ SecsCounted'
    BY <1>1, <1>3, <1>5 DEF TInv, CyclesCounted, SecsCounted
  <1> QED BY <1>4, <1>6 DEF TInv

LEMMA TotalsTicked ==
    ASSUME IInv, DInv, HInv, TInv, StatsTick
    PROVE  TInv'
  <1>1. /\ UNCHANGED storeVars /\ writes = <<>> /\ proc = "up"
        /\ CallCount' + InCycle' + stats.starts <= InCycle + stats'.starts
        /\ CallCount' <= InCycle
        /\ stats'.secs = stats.secs + CallSecs' /\ CallSecs' \in Nat
    BY TickCounts
  <1>2. /\ UNCHANGED <<AllCycles, Unlisted>> /\ Running /\ Running' /\ Ready /\ Ready'
        /\ proc' # "down"
    BY <1>1 DEF storeVars, AllCycles, Unlisted, Running, Ready
  <1>3. CallCount = 0 /\ CallSecs = 0 /\ InCycle \in {0, 1} /\ InCycle' \in {0, 1}
        /\ CallCount' \in {0, 1} /\ (writes' = <<>> => CallSecs' = 0)
    BY <1>1 DEF CallCount, CallSecs, InCycle
  <1>4. Cardinality(AllCycles) \in Nat /\ TotalSecs(AllCycles) \in Nat /\ stats.starts \in Nat
        /\ stats.secs \in Nat /\ mem.acc.starts \in Nat
    BY CountTypes
  <1>5. stats'.starts \in Nat
    <2>1. stats' \in Trackers
      BY StatsTypes DEF TypeOK
    <2> QED BY <2>1 DEF Trackers
  <1>6. Unlisted \in Int
    BY UnlistedIs DEF Unlisted
  <1>7. mem.acc.starts = stats.starts
    BY <1>1 DEF DInv, TotalsFollow, Told
  <1>8. CyclesCounted'
    <2>1. Cardinality(AllCycles) + InCycle <= stats.starts
      BY <1>2, <1>3, <1>4 DEF TInv, CyclesCounted
    <2>2. Cardinality(AllCycles) + CallCount' + InCycle' <= stats'.starts
      <3> DEFINE a == Cardinality(AllCycles)
                 b == InCycle
                 c == stats.starts
                 d == CallCount'
                 e == InCycle'
                 f == stats'.starts
      <3>1. a \in Int /\ b \in Int /\ c \in Int /\ d \in Int /\ e \in Int /\ f \in Int
        BY <1>3, <1>4, <1>5
      <3>2. d + e + c <= b + f /\ a + b <= c
        BY <1>1, <2>1
      <3> HIDE DEF a, b, c, d, e, f
      <3>3. a + d + e <= f
        BY <3>1, <3>2
      <3> QED BY <3>3 DEF a, d, e, f
    <2>3. Cardinality(AllCycles) + CallCount' <= mem.acc.starts
      BY <1>1, <1>3, <1>4, <1>7, <2>1
    <2> QED BY <1>1, <1>2, <2>2, <2>3 DEF storeVars, TInv, CyclesCounted
  <1>9. SecsCounted'
    <2>1. ~limits.lost => Meets(stats'.secs, TotalSecs(AllCycles) + CallSecs' + Unlisted)
      BY <1>1, <1>2, <1>3, <1>4, <1>6 DEF TInv, SecsCounted, Meets
    <2> QED BY <1>1, <1>2, <2>1 DEF storeVars, TInv, SecsCounted, Meets, FlushUnlisted
  <1>10. Imported'
    BY <1>1 DEF storeVars, Imported
  <1> QED BY <1>8, <1>9, <1>10 DEF TInv

LEMMA TotalsWritten ==
    ASSUME IInv, DInv, HInv, TInv, StatsWrites
    PROVE  TInv'
  <1>1. /\ UNCHANGED <<proc, flush, disk, legacy, limits, stats>>
        /\ proc \in {"up", "stranded", "cancelled"}
        /\ writes # <<>> /\ CallCount' = 0 /\ CallSecs' = 0
        /\ IF Head(writes).op = "acc"
           THEN writes' = <<>> /\ Told(mem'.acc) /\ AllCycles' = AllCycles
           ELSE writes' # <<>> /\ mem'.acc = mem.acc
        /\ Head(writes).op = "cycle" =>
             /\ Head(writes).secs \in Nat
             /\ \E c \in Cycles : /\ c \notin AllCycles /\ c.secs = Head(writes).secs
                                  /\ AllCycles' = AllCycles \cup {c}
        /\ Head(writes).op = "daily" => AllCycles' = AllCycles
        /\ Head(writes).op \in {"cycle", "daily", "acc"}
    BY WriteDoes
  <1>2. /\ Unlisted' = Unlisted /\ InCycle' = InCycle /\ Running /\ Running' /\ Ready /\ Ready'
        /\ proc' # "down"
    BY <1>1 DEF Unlisted, InCycle, Running, Ready
  <1>3. /\ CallCount = IF Head(writes).op = "cycle" THEN 1 ELSE 0
        /\ CallSecs = IF Head(writes).op = "cycle" THEN Head(writes).secs ELSE 0
    BY <1>1 DEF CallCount, CallSecs
  <1>4. /\ Cardinality(AllCycles') = Cardinality(AllCycles) + CallCount
        /\ TotalSecs(AllCycles') = TotalSecs(AllCycles) + CallSecs
    <2>1. Cardinality(AllCycles) \in Nat /\ TotalSecs(AllCycles) \in Nat
      BY CountTypes
    <2>2. CASE Head(writes).op = "cycle"
      <3>1. PICK c \in Cycles : /\ c \notin AllCycles /\ c.secs = Head(writes).secs
                                /\ AllCycles' = AllCycles \cup {c}
        BY <1>1, <2>2
      <3>2. /\ Cardinality(AllCycles \cup {c}) = Cardinality(AllCycles) + 1
            /\ TotalSecs(AllCycles \cup {c}) = TotalSecs(AllCycles) + c.secs
        BY <3>1, CountTypes
      <3> QED BY <1>3, <2>2, <3>1, <3>2
    <2>3. CASE Head(writes).op # "cycle"
      <3>1. AllCycles' = AllCycles /\ CallCount = 0 /\ CallSecs = 0
        BY <1>1, <1>3, <2>3
      <3> QED BY <2>1, <3>1
    <2> QED BY <2>2, <2>3
  <1>5. /\ Cardinality(AllCycles) \in Nat /\ CallCount \in Nat /\ InCycle \in Nat
        /\ TotalSecs(AllCycles) \in Nat /\ CallSecs \in Nat /\ Unlisted \in Int
        /\ mem.acc.secs \in Nat /\ stats.secs \in Nat
    BY CountTypes, UnlistedIs DEF Unlisted
  <1>6. mem'.acc = mem.acc
          \/ (mem'.acc.starts = stats.starts /\ mem'.acc.secs = stats.secs /\ writes' = <<>>)
    BY <1>1 DEF Told
  <1>7. CyclesCounted'
    <2>1. /\ Cardinality(AllCycles) + CallCount <= mem.acc.starts
          /\ Cardinality(AllCycles) + CallCount + InCycle <= stats.starts
      BY <1>2 DEF TInv, CyclesCounted
    <2>2. Cardinality(AllCycles') + CallCount' <= mem'.acc.starts
      <3>1. stats.starts \in Nat
        BY CountTypes
      <3> QED BY <1>1, <1>4, <1>5, <1>6, <2>1, <3>1
    <2>3. Cardinality(AllCycles') + CallCount' + InCycle' <= stats'.starts
      BY <1>1, <1>2, <1>4, <1>5, <2>1
    <2> QED BY <1>1, <2>2, <2>3 DEF TInv, CyclesCounted
  <1>8. Imported'
    BY <1>1 DEF Imported
  <1>9. SecsCounted'
    <2> SUFFICES ASSUME ~limits.lost PROVE SecsCounted'
      BY <1>1 DEF SecsCounted
    <2>1. /\ mem.acc.secs <= TotalSecs(AllCycles) + Unlisted
          /\ Meets(stats.secs, TotalSecs(AllCycles) + CallSecs + Unlisted)
      BY <1>2 DEF TInv, SecsCounted
    <2>2. TotalSecs(AllCycles') + CallSecs' + Unlisted' = TotalSecs(AllCycles) + CallSecs + Unlisted
      BY <1>1, <1>2, <1>4, <1>5
    <2>3. Meets(stats.secs, TotalSecs(AllCycles') + CallSecs' + Unlisted')
      BY <2>1, <2>2
    <2>4. TotalSecs(AllCycles') + CallSecs' + Unlisted' = TotalSecs(AllCycles') + Unlisted'
      BY <1>1, <1>2, <1>4, <1>5
    <2>5. mem'.acc.secs <= TotalSecs(AllCycles') + Unlisted'
      <3>1. CASE mem'.acc = mem.acc
        BY <1>2, <1>4, <1>5, <2>1, <3>1
      <3>2. CASE mem'.acc.secs = stats.secs
        BY <2>3, <2>4, <3>2 DEF Meets
      <3> QED BY <1>6, <3>1, <3>2
    <2>6. writes' = <<>> => Meets(mem'.acc.secs, TotalSecs(AllCycles') + Unlisted')
      <3>1. writes' = <<>> => mem'.acc.secs = stats.secs
        BY <1>1 DEF Told
      <3> QED BY <2>3, <2>4, <3>1
    <2> QED BY <1>1, <1>2, <2>3, <2>5, <2>6 DEF TInv, SecsCounted, Meets, FlushUnlisted
  <1> QED BY <1>7, <1>8, <1>9 DEF TInv

LEMMA TotalsStarted ==
    ASSUME IInv, DInv, HInv, TInv, Started
    PROVE  TInv'
  <1>1. /\ UNCHANGED <<mem, disk, legacy, flush, limits, writes>>
        /\ proc = "imported" /\ proc' = "up"
        /\ stats'.starts = mem.acc.starts /\ stats'.secs = mem.acc.secs /\ ~stats'.observed
    BY DEF Started, FreshStats
  <1>2. writes = <<>>
    BY <1>1 DEF DInv, TotalsFollow
  <1>3. /\ UNCHANGED <<AllCycles, Unlisted, CallCount, CallSecs>> /\ InCycle' = 0
        /\ CallCount = 0 /\ CallSecs = 0 /\ Ready
    BY <1>1, <1>2 DEF AllCycles, Unlisted, CallCount, CallSecs, InCycle, Ready
  <1>4. Cardinality(AllCycles) \in Nat /\ TotalSecs(AllCycles) \in Nat /\ Unlisted \in Int
    BY CountTypes, UnlistedIs DEF Unlisted
  <1>5. CyclesCounted'
    BY <1>1, <1>3, <1>4 DEF TInv, CyclesCounted
  <1>6. SecsCounted'
    BY <1>1, <1>2, <1>3, <1>4 DEF TInv, SecsCounted, Meets, FlushUnlisted
  <1>7. Imported'
    BY <1>1 DEF Imported
  <1> QED BY <1>5, <1>6, <1>7 DEF TInv

\* A process that has stopped leaves a database whose totals are its cycles'.
LEMMA TotalsLeft ==
    ASSUME IInv, DInv, HInv, TInv, Dies
    PROVE  TInv'
  <1>1. /\ proc' = "down" /\ UNCHANGED disk /\ flush'.pc = "idle"
        /\ AllCycles' = disk.cycles
        /\ (proc = "stopped" /\ UNCHANGED limits)
             \/ limits' = [limits EXCEPT !.ends = @ - 1, !.died = TRUE]
    BY DiesDoes DEF Emptied
  <1>2. /\ limits'.lost = limits.lost /\ limits'.imported = limits.imported
        /\ (limits'.died \/ (proc = "stopped" /\ limits'.died = limits.died))
    <2>1. limits \in Limits
      BY DEF IInv, TypeOK
    <2> QED BY <1>1, <2>1 DEF Limits
  <1>3. Unlisted' = Unlisted /\ ~Ready' /\ ~Running'
    BY <1>1, <1>2 DEF Unlisted, Ready, Running
  <1>4. CyclesCounted' /\ Imported'
    BY <1>1, <1>3 DEF TInv, CyclesCounted, Imported
  <1>5. ~limits.lost /\ proc = "stopped" =>
          Meets(disk.acc.secs, TotalSecs(disk.cycles) + Unlisted)
    <2> SUFFICES ASSUME ~limits.lost, proc = "stopped"
                 PROVE  Meets(disk.acc.secs, TotalSecs(disk.cycles) + Unlisted)
      OBVIOUS
    <2>1. disk.acc = mem.acc /\ mem.cycles = {}
      BY DEF HInv, StoppedIsWritten
    <2>2. writes = <<>> /\ flush.pc = "idle" /\ Ready
      BY DEF DInv, TotalsFollow, CallerWaits, Ready
    <2>3. flush.cycles = {}
      BY <2>2 DEF HInv, FlushHolds, Emptied
    <2>4. AllCycles = disk.cycles
      BY <2>1, <2>3 DEF AllCycles
    <2> QED BY <2>1, <2>2, <2>4 DEF TInv, SecsCounted
  <1>6. SecsCounted'
    BY <1>1, <1>2, <1>3, <1>5 DEF TInv, SecsCounted, Meets
  <1> QED BY <1>4, <1>6 DEF TInv

LEMMA TotalsInductive == Spec => []TInv
  <1>1. Init => TInv
    <2> SUFFICES ASSUME Init PROVE TInv
      OBVIOUS
    <2>1. /\ proc = "down" /\ flush.pc = "idle" /\ disk.cycles = {}
          /\ disk.acc = DefaultAccumulators /\ ~limits.imported
      BY DEF Init, StoreInit, EmptyDisk, Emptied
    <2>2. Cardinality(disk.cycles) = 0 /\ TotalSecs(disk.cycles) = 0 /\ Unlisted = 0
      BY <2>1, FS_EmptySet, SecsNone DEF Unlisted
    <2>3. ~Ready /\ ~Running
      BY <2>1 DEF Ready, Running
    <2>4. disk.acc.starts = 0 /\ disk.acc.secs = 0
      BY <2>1 DEF DefaultAccumulators
    <2> QED BY <2>1, <2>2, <2>3, <2>4 DEF TInv, CyclesCounted, Imported, SecsCounted, Meets
  <1>2. ASSUME IInv, CInv, DInv, HInv, TInv, [Next]_vars PROVE TInv'
    <2>1. CASE UNCHANGED vars
      <3>1. UNCHANGED <<proc, mem, disk, legacy, flush, limits, stats, writes>>
        BY <2>1 DEF vars, storeVars
      <3>2. UNCHANGED <<AllCycles, Unlisted, CallCount, CallSecs, InCycle, Ready, Running>>
        BY <3>1 DEF AllCycles, Unlisted, CallCount, CallSecs, InCycle, Ready, Running
      <3> QED BY <1>2, <3>1, <3>2
              DEF TInv, CyclesCounted, Imported, SecsCounted, Meets, FlushUnlisted
    <2>2. CASE Next
      BY <1>2, <2>2, StepKinds, TotalsStill, TotalsTaken, TotalsCommitted, TotalsEnded,
         TotalsLost, TotalsOpened, TotalsToImport, TotalsImported, TotalsTicked,
         TotalsWritten, TotalsStarted, TotalsLeft
    <2> QED BY <1>2, <2>1, <2>2
  <1> QED BY <1>1, <1>2, HistoryInductive, PTL DEF Spec

\* The lifetime total on disk is never more than the cycles on disk add up to,
\* unless a flush failed, and is exactly that when no process died and all is
\* written; there are never more cycles than starts (record_cycle before
\* set_accumulators, import_legacy_json before the rename).
THEOREM TotalsCorrect == Spec => []TotalsMatchCycles
  <1>1. ASSUME IInv, CInv, DInv, HInv, TInv PROVE TotalsMatchCycles
    <2>1. Cardinality(disk.cycles) <= disk.acc.starts
      BY <1>1 DEF TInv, CyclesCounted
    <2>2. ASSUME ~limits.lost, ~limits.died, writes = <<>>, ~mem.dirty, flush.pc = "idle"
          PROVE  disk.acc.secs = TotalSecs(disk.cycles) + Unlisted
      <3>1. CASE proc = "down"
        BY <1>1, <2>2, <3>1 DEF TInv, SecsCounted, Meets
      <3>2. CASE proc # "down"
        <4>1. mem.cycles = {} /\ disk.acc = mem.acc
          BY <1>1, <2>2, <3>2 DEF CInv, CleanMeansWritten
        <4>2. flush.cycles = {}
          BY <1>1, <2>2 DEF HInv, FlushHolds, Emptied
        <4>3. AllCycles = disk.cycles
          BY <4>1, <4>2 DEF AllCycles
        <4>4. Ready
          BY <1>1, <2>2, <3>2 DEF HInv, FlushHolds, Ready
        <4> QED BY <1>1, <2>2, <4>1, <4>3, <4>4 DEF TInv, SecsCounted, Meets
      <3> QED BY <3>1, <3>2
    <2>3. ~limits.lost => disk.acc.secs <= TotalSecs(disk.cycles) + Unlisted
      BY <1>1 DEF TInv, SecsCounted
    <2> QED BY <2>1, <2>2, <2>3 DEF TotalsMatchCycles
  <1> QED BY <1>1, HistoryInductive, TotalsInductive, PTL

-----------------------------------------------------------------------------
(* Minutes.  A mean is taken of a minute that is over, and holds what the    *)
(* trend ring has of it; every live sample of the ring is in a bucket or in  *)
(* a mean.                                                                   *)

LEMMA DivTimes ==
    ASSUME NEW k \in Nat, NEW d \in Nat \ {0}
    PROVE  (k * d) \div d = k
  OBVIOUS

LEMMA DivMonotone ==
    ASSUME NEW a \in Nat, NEW b \in Nat, NEW d \in Nat \ {0}, a <= b
    PROVE  a \div d <= b \div d
  OBVIOUS

LEMMA BelowDiv ==
    ASSUME NEW a \in Nat, NEW b \in Nat, NEW d \in Nat \ {0}, a < b \div d
    PROVE  a * d < b
  OBVIOUS

LEMMA MinuteOrder ==
    /\ \A t \in Instants : Minute(t) \in Nat
    /\ \A t, u \in Instants : t <= u => Minute(t) <= Minute(u)
    /\ \A m \in Nat : Minute(m * PerMinute) = m /\ m * PerMinute \in Nat
    /\ \A m \in Nat, t \in Instants : m < Minute(t) => m * PerMinute <= t
  <1>1. PerMinute \in Nat \ {0} /\ Instants \subseteq Nat
    BY InstantsNat, StorageAssumption
  <1>2. \A t \in Instants : Minute(t) \in Nat
    BY <1>1, DivNat DEF Minute
  <1>3. \A t, u \in Instants : t <= u => Minute(t) <= Minute(u)
    BY <1>1, DivMonotone DEF Minute
  <1>4. \A m \in Nat : Minute(m * PerMinute) = m /\ m * PerMinute \in Nat
    BY <1>1, DivTimes DEF Minute
  <1>5. \A m \in Nat, t \in Instants : m < Minute(t) => m * PerMinute <= t
    <2> SUFFICES ASSUME NEW m \in Nat, NEW t \in Instants, m < Minute(t)
                 PROVE  m * PerMinute <= t
      OBVIOUS
    <2>1. t \in Nat /\ m * PerMinute \in Nat
      BY <1>1, <1>4
    <2>2. m * PerMinute < t
      BY <1>1, BelowDiv DEF Minute
    <2> QED BY <2>1, <2>2
  <1> QED BY <1>2, <1>3, <1>4, <1>5

\* Nothing is later than the clock.
NothingIsAhead ==
    /\ \A m \in flush.means \cup disk.means : m.minute < Minute(now)
    /\ sweep.at <= now
    /\ \A p \in mem.ring : p.at <= now

\* Where the samples of a minute are.
Held == mem.open \cup flush.means \cup disk.means
MinutesHaveAll ==
    proc # "down" /\ ~limits.late /\ ~limits.lost =>
        /\ \A m \in Held : MinuteIsWhole(m)
        /\ \A p \in mem.ring : p.live =>
              \E m \in Held : m.sensor = p.sensor /\ m.minute = Minute(p.at)

MInv == NothingIsAhead /\ MinutesHaveAll

\* The steps that write neither samples nor means.
SameMinutes ==
    /\ mem'.ring = mem.ring /\ mem'.open = mem.open
    /\ flush'.means = flush.means /\ disk'.means = disk.means
    /\ limits'.late = limits.late /\ limits'.lost = limits.lost
    /\ (proc = "down" => proc' = "down")
LEMMA MinutesSame ==
    ASSUME MInv, SameMinutes
    PROVE  MinutesHaveAll'
  BY DEF MInv, SameMinutes, MinutesHaveAll, MinuteIsWhole, Held

LEMMA InstantsInt == \A t \in Instants \cup {-1} : t \in Int
  <1>1. -1 \in Int
    OBVIOUS
  <1> QED BY <1>1, InstantsNat

LEMMA NothingAhead ==
    ASSUME IInv, MInv, TypeOK', SameMinutes, sweep'.at \in {sweep.at, now, -1},
           now <= now'
    PROVE  NothingIsAhead'
  <1>1. /\ now \in Instants /\ now' \in Instants /\ sweep.at \in Instants \cup {-1}
        /\ now \in Nat /\ now' \in Nat
    BY InstantsNat DEF IInv, TypeOK, Sweeps
  <1>2. Minute(now) <= Minute(now') /\ Minute(now) \in Nat /\ Minute(now') \in Nat
    BY <1>1, MinuteOrder
  <1>3. \A m \in flush.means \cup disk.means : m.minute \in Nat
    BY DEF IInv, TypeOK, Flushes, Tables, Means
  <1>4. \A m \in flush'.means \cup disk'.means : m.minute < Minute(now')
    BY <1>2, <1>3 DEF MInv, NothingIsAhead, SameMinutes
  <1>5. sweep'.at <= now'
    <2>1. sweep.at \in Int
      BY <1>1, InstantsInt
    <2>2. sweep.at <= now
      BY DEF MInv, NothingIsAhead
    <2>3. -1 <= now' /\ sweep.at <= now'
      BY <1>1, <2>1, <2>2
    <2> QED BY <1>1, <2>3
  <1>6. \A p \in mem'.ring : p.at <= now'
    <2>1. \A p \in mem.ring : p.at \in Nat
      BY DEF IInv, TypeOK, MemStates, Points
    <2> QED BY <1>1, <2>1 DEF MInv, NothingIsAhead, SameMinutes
  <1>7. Minute(now)' = Minute(now')
    BY DEF Minute
  <1> QED BY <1>4, <1>5, <1>6, <1>7 DEF NothingIsAhead

\* What the calls of the tasks leave of the minutes.
LEMMA MinutesKept ==
    ASSUME NEW m \in MemStates
    PROVE  /\ \A acc : /\ WithAccumulators(m, acc).ring = m.ring
                       /\ WithAccumulators(m, acc).open = m.open
           /\ \A row : /\ WithDaily(m, row).ring = m.ring
                       /\ WithDaily(m, row).open = m.open
           /\ \A at \in Instants : \A secs : /\ WithCycle(m, at, secs).ring = m.ring
                                         /\ WithCycle(m, at, secs).open = m.open
           /\ CleanMark(m).ring = m.ring /\ CleanMark(m).open = m.open
  BY DEF WithAccumulators, WithDaily, WithCycle, CleanMark, Marked, MemStates

LEMMA SameSteps ==
    ASSUME IInv, DInv,
           \/ SweepStarts \/ SensorMissed \/ SweepAborted \/ NoFinalFlush \/ NoImport
           \/ Signal \/ TaskPanics \/ TimePasses \/ TasksSettled \/ ImportStarts \/ ImportsCycle
           \/ StatsTick \/ StatsWrites \/ Started
    PROVE  SameMinutes /\ sweep'.at \in {sweep.at, now, -1} /\ now <= now'
  <1>0. /\ mem \in MemStates /\ limits \in Limits /\ sweep \in Sweeps /\ legacy \in Imports
        /\ writes \in Seq(Calls) /\ now \in Nat
    BY InstantsNat DEF IInv, TypeOK
  <1>1. CASE SweepStarts
    BY <1>0, <1>1 DEF SweepStarts, SameMinutes
  <1>7. CASE NoFinalFlush \/ NoImport \/ TasksSettled \/ Started
    BY <1>0, <1>7 DEF NoFinalFlush, NoImport, TasksSettled, Started, SameMinutes
  <1>8. CASE Signal \/ TaskPanics
    <2>1. limits'.late = limits.late /\ limits'.lost = limits.lost
      BY <1>0, <1>8 DEF Signal, TaskPanics, Limits
    <2> QED BY <1>0, <1>8, <2>1 DEF Signal, TaskPanics, SameMinutes
  <1>9. CASE StatsTick
    <2>1. UNCHANGED storeVars
      BY <1>9 DEF StatsTick
    <2> QED BY <1>0, <2>1 DEF storeVars, SameMinutes
  <1>2. CASE TimePasses
    BY <1>0, <1>2 DEF TimePasses, SameMinutes
  <1>3. CASE SensorMissed \/ SweepAborted
    <2>1. sweep'.at = sweep.at
      BY <1>0, <1>3 DEF SensorMissed, SweepAborted, SweepGoesOn, Sweeps
    <2>2. limits'.late = limits.late /\ limits'.lost = limits.lost
      BY <1>0, <1>3 DEF SensorMissed, SweepAborted, Limits
    <2> QED BY <1>0, <1>3, <2>1, <2>2 DEF SensorMissed, SweepAborted, SameMinutes
  <1>4. CASE ImportStarts
    <2>1. mem' = WithAccumulators(mem, LegacyTotal)
          /\ UNCHANGED <<now, disk, sweep, flush, limits>> /\ proc # "down"
      BY <1>4 DEF ImportStarts
    <2> QED BY <1>0, <2>1, MinutesKept DEF SameMinutes
  <1>5. CASE ImportsCycle
    <2>1. Head(legacy.left) \in [at : Instants, secs : Nat]
      BY <1>0, <1>5, HeadTail DEF ImportsCycle, Imports
    <2>2. Head(legacy.left).at \in Instants
      BY <2>1
    <2>3. mem' = WithCycle(mem, Head(legacy.left).at, Head(legacy.left).secs)
          /\ UNCHANGED <<now, disk, sweep, flush, limits>> /\ proc # "down"
      BY <1>5 DEF ImportsCycle
    <2> QED BY <1>0, <2>2, <2>3, MinutesKept DEF SameMinutes
  <1>6. CASE StatsWrites
    <2>1. Head(writes) \in Calls /\ UNCHANGED <<now, disk, sweep, flush, limits, proc>>
      BY <1>0, <1>6, HeadTail DEF StatsWrites
    <2>2. mem'.ring = mem.ring /\ mem'.open = mem.open
      <3>1. CASE Head(writes).op = "cycle"
        <4>1. Head(writes).at \in Instants
          BY <2>1, <3>1 DEF Calls
        <4>2. mem' = WithCycle(mem, Head(writes).at, Head(writes).secs)
          BY <1>6, <3>1 DEF StatsWrites
        <4> QED BY <1>0, <4>1, <4>2, MinutesKept
      <3>2. CASE Head(writes).op = "daily"
        <4>1. mem' = WithDaily(mem, Head(writes).row)
          BY <1>6, <3>2 DEF StatsWrites
        <4> QED BY <1>0, <4>1, MinutesKept
      <3>3. CASE Head(writes).op = "acc"
        <4>1. mem' = WithAccumulators(mem, Head(writes).acc)
          BY <1>6, <3>3 DEF StatsWrites
        <4> QED BY <1>0, <4>1, MinutesKept
      <3> QED BY <2>1, <3>1, <3>2, <3>3 DEF Calls
    <2> QED BY <1>0, <2>1, <2>2 DEF SameMinutes
  <1> QED BY <1>1, <1>2, <1>3, <1>4, <1>5, <1>6, <1>7, <1>8, <1>9

\* A sample that is not late goes into the only bucket of its minute.
LEMMA SampleIsHeld ==
    ASSUME IInv, MInv, TypeOK', NEW on \in BOOLEAN, SensorRead(on)
    PROVE  MInv'
  <1> DEFINE s == Head(sweep.left)
             t == sweep.at
             p0 == [sensor |-> s, at |-> t, on |-> on, live |-> TRUE]
             b0 == [sensor |-> s, minute |-> Minute(t),
                    of |-> BucketOf(mem, s, t) \cup {[at |-> t, on |-> on]}]
  <1>0. /\ mem \in MemStates /\ limits \in Limits /\ s \in Sensors /\ t \in Instants
        /\ now \in Instants /\ now \in Nat /\ t \in Nat /\ flush \in Flushes /\ disk \in Tables
    BY InstantsNat DEF IInv, TypeOK, Stamped, SensorRead, Sweeps
  <1>1. /\ mem'.ring = mem.ring \cup {p0}
        /\ mem'.open = Inserted(mem.open, {b0}, SameMean)
        /\ UNCHANGED <<now, proc, disk, flush>>
    <2>1. mem' = WithSample(mem, s, t, on)
      BY DEF SensorRead
    <2> QED BY <1>0, <2>1 DEF SensorRead, WithSample, Marked, MemStates
  <1>2. /\ limits'.lost = limits.lost
        /\ limits'.late = (limits.late \/ IsLate(s, t))
    BY <1>0 DEF SensorRead, Limits
  <1>3. sweep'.at = sweep.at
    BY DEF SensorRead, SweepGoesOn, IInv, TypeOK, Sweeps
  <1>4. t <= now
    BY DEF MInv, NothingIsAhead
  <1>5. Minute(t) \in Nat /\ Minute(now) \in Nat /\ Minute(t) <= Minute(now)
    BY <1>0, <1>4, MinuteOrder
  <1>6. NothingIsAhead'
    <2>1. p0.at = t
      OBVIOUS
    <2>2. \A p \in mem'.ring : p.at <= now
      BY <1>1, <1>4, <2>1 DEF MInv, NothingIsAhead
    <2> QED BY <1>1, <1>3, <2>2 DEF MInv, NothingIsAhead, Minute
  <1>7. MinutesHaveAll'
    <2> SUFFICES ASSUME proc # "down", ~limits'.late, ~limits'.lost
                 PROVE  /\ \A m \in Held' : MinuteIsWhole(m)'
                        /\ \A p \in mem'.ring : p.live =>
                              \E m \in Held' : m.sensor = p.sensor /\ m.minute = Minute(p.at)
      BY <1>1 DEF MinutesHaveAll, Minute
    <2>1. /\ \A m \in Held : MinuteIsWhole(m)
          /\ \A p \in mem.ring : p.live =>
                \E m \in Held : m.sensor = p.sensor /\ m.minute = Minute(p.at)
      BY <1>2 DEF MInv, MinutesHaveAll
    <2>2. ~IsLate(s, t)
      BY <1>2
    <2>3. \A m \in flush.means \cup disk.means : ~(m.sensor = s /\ m.minute = Minute(t))
      <3> SUFFICES ASSUME NEW m \in flush.means \cup disk.means,
                          m.sensor = s, m.minute = Minute(t)
                   PROVE  FALSE
        OBVIOUS
      <3>1. m.minute < Minute(now)
        BY DEF MInv, NothingIsAhead
      <3> QED BY <2>2, <3>1 DEF IsLate
    <2> PICK b : b = b0
      OBVIOUS
    <2>4. b.sensor = s /\ b.minute = Minute(t)
          /\ b.of = BucketOf(mem, s, t) \cup {[at |-> t, on |-> on]}
          /\ p0.sensor = s /\ p0.at = t /\ p0.live
      OBVIOUS
    <2>44. mem'.open = Inserted(mem.open, {b}, SameMean)
      BY <1>1
    <2> HIDE DEF p0, b0, s, t
    <2>5. /\ Held' = {m \in mem.open : ~SameMean(m, b)} \cup {b} \cup flush.means \cup disk.means
      BY <1>1, <2>44 DEF Held, Inserted
    <2>6. ASSUME NEW m \in Held, ~(m.sensor = s /\ m.minute = Minute(t))
          PROVE  MinuteIsWhole(m)'
      <3>1. {q \in mem'.ring : q.sensor = m.sensor /\ Minute(q.at) = m.minute}
              = {q \in mem.ring : q.sensor = m.sensor /\ Minute(q.at) = m.minute}
        BY <1>1, <2>4, <2>6
      <3>2. MinuteIsWhole(m)
        BY <2>1
      <3>3. mem.ring \subseteq mem'.ring
        BY <1>1
      <3> QED BY <3>1, <3>2, <3>3 DEF MinuteIsWhole, Minute
    <2>7. MinuteIsWhole(b)'
      <3>1. CASE \E p \in mem.ring : ~p.live /\ p.sensor = s /\ Minute(p.at) = Minute(t)
        BY <1>1, <2>4, <3>1 DEF MinuteIsWhole, Minute
      <3>2. CASE ~(\E p \in mem.ring : ~p.live /\ p.sensor = s /\ Minute(p.at) = Minute(t))
        <4> DEFINE points == {q \in mem.ring : q.sensor = s /\ Minute(q.at) = Minute(t)}
                   same == {o \in mem.open : o.sensor = s /\ o.minute = Minute(t)}
        <4>1. \A o \in same : {x.at : x \in o.of} = {p.at : p \in points}
          <5> SUFFICES ASSUME NEW o \in same PROVE {x.at : x \in o.of} = {p.at : p \in points}
            OBVIOUS
          <5>1. MinuteIsWhole(o)
            BY <2>1 DEF Held
          <5>2. ~(\E p \in mem.ring : ~p.live /\ p.sensor = o.sensor /\ Minute(p.at) = o.minute)
            BY <3>2
          <5> QED BY <5>1, <5>2 DEF MinuteIsWhole
        <4>2. same = {} => points = {}
          <5> SUFFICES ASSUME same = {}, NEW p \in points PROVE FALSE
            OBVIOUS
          <5>1. p \in mem.ring /\ p.live /\ p.sensor = s /\ Minute(p.at) = Minute(t)
            BY <3>2
          <5>2. PICK m \in Held : m.sensor = s /\ m.minute = Minute(t)
            BY <2>1, <5>1
          <5> QED BY <2>3, <5>2 DEF Held
        <4>3. BucketOf(mem, s, t) = UNION {o.of : o \in same}
          BY DEF BucketOf
        <4>4. {x.at : x \in BucketOf(mem, s, t)} = {p.at : p \in points}
          <5>1. CASE same = {}
            <6>1. BucketOf(mem, s, t) = {}
              BY <4>3, <5>1
            <6>2. points = {}
              BY <4>2, <5>1
            <6> QED BY <6>1, <6>2
          <5>2. CASE same # {}
            <6>1. PICK o \in same : TRUE
              BY <5>2
            <6>2. ASSUME NEW x \in BucketOf(mem, s, t) PROVE x.at \in {p.at : p \in points}
              <7>1. PICK o2 \in same : x \in o2.of
                BY <4>3
              <7>2. x.at \in {y.at : y \in o2.of}
                BY <7>1
              <7> QED BY <4>1, <7>2
            <6>3. ASSUME NEW p \in points PROVE p.at \in {x.at : x \in BucketOf(mem, s, t)}
              <7>1. p.at \in {x.at : x \in o.of}
                BY <4>1
              <7>2. o.of \subseteq BucketOf(mem, s, t)
                BY <4>3
              <7> QED BY <7>1, <7>2
            <6> QED BY <6>2, <6>3
          <5> QED BY <5>1, <5>2
        <4>5. {q \in mem'.ring : q.sensor = b.sensor /\ Minute(q.at) = b.minute}
                = points \cup {p0}
          BY <1>1, <2>4
        <4>6. {x.at : x \in b.of} = {x.at : x \in BucketOf(mem, s, t)} \cup {t}
          <5>1. PICK e : e = [at |-> t, on |-> on]
            OBVIOUS
          <5>2. e.at = t /\ b.of = BucketOf(mem, s, t) \cup {e}
            BY <2>4, <5>1
          <5> HIDE DEF points
          <5> DEFINE bucket == BucketOf(mem, s, t)
          <5>3. b.of = bucket \cup {e}
            BY <5>2
          <5> HIDE DEF bucket
          <5>4. {x.at : x \in b.of} = {x.at : x \in bucket} \cup {t}
            BY <5>2, <5>3
          <5> QED BY <5>4 DEF bucket
        <4>7. {p.at : p \in points \cup {p0}} = {p.at : p \in points} \cup {t}
          BY <2>4
        <4> HIDE DEF points
        <4>8. {x.at : x \in b.of}
                = {p.at : p \in {q \in mem'.ring : q.sensor = b.sensor /\ Minute(q.at) = b.minute}}
          BY <4>4, <4>5, <4>6, <4>7
        <4> QED BY <4>8 DEF MinuteIsWhole, Minute
      <3> QED BY <3>1, <3>2
    <2>8. \A m \in Held' : MinuteIsWhole(m)'
      <3> SUFFICES ASSUME NEW m \in Held' PROVE MinuteIsWhole(m)'
        OBVIOUS
      <3>1. CASE m = b
        BY <2>7, <3>1
      <3>2. CASE m \in {n \in mem.open : ~SameMean(n, b)}
        BY <2>4, <2>6, <3>2 DEF SameMean, Held
      <3>3. CASE m \in flush.means \cup disk.means
        BY <2>3, <2>6, <3>3 DEF Held
      <3> QED BY <2>5, <3>1, <3>2, <3>3
    <2>9. ASSUME NEW p \in mem'.ring, p.live
          PROVE  \E m \in Held' : m.sensor = p.sensor /\ m.minute = Minute(p.at)
      <3>1. CASE p.sensor = s /\ Minute(p.at) = Minute(t)
        BY <2>4, <2>5, <3>1
      <3>2. CASE ~(p.sensor = s /\ Minute(p.at) = Minute(t))
        <4>1. p \in mem.ring
          BY <1>1, <2>4, <3>2
        <4>2. PICK m \in Held : m.sensor = p.sensor /\ m.minute = Minute(p.at)
          BY <2>1, <2>9, <4>1
        <4>3. m \in Held'
          BY <2>4, <2>5, <3>2, <4>2 DEF Held, SameMean
        <4> QED BY <4>2, <4>3
      <3> QED BY <3>1, <3>2
    <2> QED BY <2>8, <2>9
  <1> QED BY <1>6, <1>7 DEF MInv

\* When the ring stays and every bucket or mean has its like, minutes do too.
LEMMA HeldAlike ==
    ASSUME MInv, proc # "down", mem'.ring = mem.ring,
           limits'.late = limits.late, limits'.lost = limits.lost,
           \A m \in Held' : \E b \in Held : SameMean(m, b) /\ m.of = b.of,
           \A b \in Held : \E m \in Held' : SameMean(m, b)
    PROVE  MinutesHaveAll'
  <1> SUFFICES ASSUME ~limits.late, ~limits.lost
               PROVE  /\ \A m \in Held' : MinuteIsWhole(m)'
                      /\ \A p \in mem.ring : p.live =>
                            \E m \in Held' : m.sensor = p.sensor /\ m.minute = Minute(p.at)
    BY DEF MinutesHaveAll, Minute
  <1>1. /\ \A m \in Held : MinuteIsWhole(m)
        /\ \A p \in mem.ring : p.live =>
              \E m \in Held : m.sensor = p.sensor /\ m.minute = Minute(p.at)
    BY DEF MInv, MinutesHaveAll
  <1>2. ASSUME NEW m \in Held' PROVE MinuteIsWhole(m)'
    <2>1. PICK b \in Held : SameMean(m, b) /\ m.of = b.of
      OBVIOUS
    <2>2. MinuteIsWhole(b) /\ m.sensor = b.sensor /\ m.minute = b.minute
      BY <1>1, <2>1 DEF SameMean
    <2> QED BY <2>1, <2>2 DEF MinuteIsWhole, Minute
  <1>3. ASSUME NEW p \in mem.ring, p.live
        PROVE  \E m \in Held' : m.sensor = p.sensor /\ m.minute = Minute(p.at)
    <2>1. PICK b \in Held : b.sensor = p.sensor /\ b.minute = Minute(p.at)
      BY <1>1, <1>3
    <2>2. PICK m \in Held' : SameMean(m, b)
      OBVIOUS
    <2> QED BY <2>1, <2>2 DEF SameMean
  <1> QED BY <1>2, <1>3

LEMMA NoneIsAhead ==
    ASSUME MInv, UNCHANGED <<now, sweep>>, mem'.ring = mem.ring,
           \A m \in flush'.means \cup disk'.means : m.minute < Minute(now)
    PROVE  NothingIsAhead'
  BY DEF MInv, NothingIsAhead, Minute

\* A flush takes the buckets of minutes that are over as means.
LEMMA TakenIsStillHeld ==
    ASSUME IInv, HInv, MInv, NEW caller, FlushTakes(caller), proc # "down",
           limits'.late = limits.late, limits'.lost = limits.lost
    PROVE  MInv'
  <1> DEFINE over == {b \in mem.open : IsOver(b)}
             MeanOf(b, on) == [sensor |-> b.sensor, minute |-> b.minute, of |-> b.of, on |-> on]
  <1>0. mem \in MemStates /\ flush.means = {} /\ UNCHANGED <<now, proc, disk, sweep>>
    BY DEF IInv, TypeOK, HInv, FlushHolds, FlushTakes, Emptied
  <1>1. mem'.ring = mem.ring /\ mem'.open = mem.open \ over
    BY <1>0 DEF FlushTakes, MemStates
  <1>11. PICK reads \in [over -> BOOLEAN] :
            flush' = [pc |-> "taken", caller |-> caller, cycles |-> mem.cycles,
                      daily |-> mem.daily, acc |-> mem.acc,
                      means |-> {MeanOf(b, reads[b]) : b \in over}]
    BY Zenon DEF FlushTakes
  <1>12. flush'.means = {MeanOf(b, reads[b]) : b \in over}
    BY <1>11
  <1>2. \A b \in over : b \in mem.open /\ b.minute < Minute(now)
    BY DEF IsOver
  <1>22. \A b, on : SameMean(MeanOf(b, on), b) /\ MeanOf(b, on).of = b.of
    BY DEF SameMean
  <1> HIDE DEF over, MeanOf
  <1>3. \A b \in over : \E m \in flush'.means : SameMean(m, b)
    BY <1>12, <1>22
  <1>4. \A m \in flush'.means : \E b \in over : SameMean(m, b) /\ m.of = b.of
    BY <1>12, <1>22
  <1>5. NothingIsAhead'
    <2>1. \A m \in flush'.means : m.minute < Minute(now)
      BY <1>2, <1>4 DEF SameMean
    <2> QED BY <1>0, <1>1, <2>1, NoneIsAhead DEF MInv, NothingIsAhead
  <1>6. MinutesHaveAll'
    <2>1. Held = mem.open \cup disk.means
      BY <1>0 DEF Held
    <2>2. Held' = (mem.open \ over) \cup flush'.means \cup disk.means
      BY <1>0, <1>1 DEF Held
    <2>3. \A m : SameMean(m, m)
      BY DEF SameMean
    <2>4. \A m \in Held' : \E b \in Held : SameMean(m, b) /\ m.of = b.of
      BY <1>2, <1>4, <2>1, <2>2, <2>3
    <2>5. \A b \in Held : \E m \in Held' : SameMean(m, b)
      BY <1>2, <1>3, <2>1, <2>2, <2>3
    <2> QED BY <1>1, <2>4, <2>5, HeldAlike
  <1> QED BY <1>5, <1>6 DEF MInv

\* The steps after it: the means get to the tables, or are lost.
LEMMA WrittenIsStillHeld ==
    ASSUME IInv, DInv, HInv, MInv, FlushCommits \/ FlushFails \/ FlushEnds
    PROVE  MInv'
  <1>0. mem \in MemStates /\ limits \in Limits /\ UNCHANGED <<now, sweep>>
    BY DEF IInv, TypeOK, FlushCommits, FlushFails, FlushEnds
  <1>1. \A m : SameMean(m, m)
    BY DEF SameMean
  <1>2. proc # "down"
    <2>1. flush.pc # "idle"
      BY DEF FlushCommits, FlushFails, FlushEnds
    <2> QED BY <2>1 DEF IInv, DownIsEmpty, Emptied
  <1>3. CASE FlushCommits
    <2>1. /\ mem' = mem /\ flush'.means = flush.means
          /\ disk'.means = Inserted(disk.means, flush.means, SameMean)
          /\ limits'.lost = limits.lost /\ limits'.late = limits.late
      <3>1. flush \in Flushes
        BY DEF IInv, TypeOK
      <3> QED BY <1>0, <1>3, <3>1 DEF FlushCommits, Flushes, Limits
    <2>2. disk'.means \subseteq disk.means \cup flush.means
      BY <2>1 DEF Inserted
    <2>3. Held' = mem.open \cup flush.means \cup disk'.means
      BY <2>1 DEF Held
    <2>4. \A m \in Held' : \E b \in Held : SameMean(m, b) /\ m.of = b.of
      BY <1>1, <2>2, <2>3 DEF Held
    <2>5. \A b \in Held : \E m \in Held' : SameMean(m, b)
      <3>1. \A t \in disk.means : t \in disk'.means \/ \E r \in flush.means : SameMean(t, r)
        BY <2>1 DEF Inserted
      <3>2. \A t \in disk.means : \E m \in Held' : SameMean(m, t)
        BY <1>1, <2>3, <3>1 DEF SameMean
      <3> QED BY <1>1, <2>3, <3>2 DEF Held
    <2>6. MinutesHaveAll'
      BY <1>2, <2>1, <2>4, <2>5, HeldAlike
    <2>7. NothingIsAhead'
      BY <1>0, <2>1, <2>2, NoneIsAhead DEF MInv, NothingIsAhead
    <2> QED BY <2>6, <2>7 DEF MInv
  <1>4. CASE FlushFails
    <2>1. mem' = mem /\ disk' = disk /\ flush'.means = {} /\ limits'.lost
      BY <1>0, <1>4, FailDoes DEF Emptied
    <2>2. MinutesHaveAll'
      BY <2>1 DEF MinutesHaveAll
    <2>3. NothingIsAhead'
      BY <1>0, <2>1, NoneIsAhead DEF MInv, NothingIsAhead
    <2> QED BY <2>2, <2>3 DEF MInv
  <1>5. CASE FlushEnds
    <2>1. /\ mem'.ring = mem.ring /\ mem'.open = mem.open /\ disk' = disk
          /\ flush'.means = {} /\ limits' = limits /\ flush.pc = "committed"
      BY <1>0, <1>5, MinutesKept DEF FlushEnds, Emptied
    <2>2. flush.means \subseteq disk.means
      BY <2>1 DEF HInv, FlushHolds
    <2>3. Held' = Held
      BY <2>1, <2>2 DEF Held
    <2>4. MinutesHaveAll'
      BY <1>1, <1>2, <2>1, <2>3, HeldAlike
    <2>5. NothingIsAhead'
      BY <1>0, <2>1, NoneIsAhead DEF MInv, NothingIsAhead
    <2> QED BY <2>4, <2>5 DEF MInv
  <1> QED BY <1>3, <1>4, <1>5

\* open() fills the ring with a point for each minute on disk.
LEMMA OpenedIsHeld ==
    ASSUME IInv, MInv, Open
    PROVE  MInv'
  <1>1. /\ UNCHANGED <<now, disk, sweep, limits>> /\ mem'.open = {} /\ flush'.means = {}
        /\ mem'.ring = {[sensor |-> m.sensor, at |-> m.minute * PerMinute, on |-> m.on,
                         live |-> FALSE] : m \in disk.means}
    BY OpenDoes DEF Open, Hydrated, Emptied
  <1>2. \A m \in disk.means : m.minute \in Nat /\ m.minute < Minute(now)
    BY DEF MInv, NothingIsAhead, IInv, TypeOK, Tables, Means
  <1>3. now \in Instants
    BY DEF IInv, TypeOK
  <1>4. ASSUME NEW p \in mem'.ring PROVE ~p.live /\ p.at <= now
    <2>1. PICK m \in disk.means : p.at = m.minute * PerMinute /\ ~p.live
      BY <1>1
    <2> QED BY <1>2, <1>3, <2>1, MinuteOrder
  <1>5. NothingIsAhead'
    BY <1>1, <1>4 DEF MInv, NothingIsAhead, Minute
  <1>6. ASSUME NEW m \in disk.means PROVE MinuteIsWhole(m)'
    <2>1. PICK p \in mem'.ring : p = [sensor |-> m.sensor, at |-> m.minute * PerMinute,
                                     on |-> m.on, live |-> FALSE]
      BY <1>1
    <2>2. p.at = m.minute * PerMinute /\ ~p.live /\ p.sensor = m.sensor
      BY <2>1
    <2>3. Minute(p.at) = m.minute
      BY <1>2, <2>2, MinuteOrder
    <2> QED BY <2>2, <2>3 DEF MinuteIsWhole, Minute
  <1>7. Held' = disk.means
    BY <1>1 DEF Held
  <1>8. MinutesHaveAll'
    BY <1>4, <1>6, <1>7 DEF MinutesHaveAll
  <1> QED BY <1>5, <1>8 DEF MInv

LEMMA NothingIsLeft ==
    ASSUME IInv, MInv, Dies
    PROVE  MInv'
  <1>1. /\ proc' = "down" /\ UNCHANGED <<disk, now>> /\ flush'.means = {}
        /\ mem' = Hydrated(EmptyDisk) /\ sweep'.at = -1
    BY DiesDoes DEF Emptied, Dies, Crash, Exit, Vanishes, NoSweep
  <1>2. mem'.ring = {}
    BY <1>1 DEF Hydrated, EmptyDisk
  <1>3. now \in Nat
    BY InstantsNat DEF IInv, TypeOK
  <1>4. -1 <= now
    BY <1>3
  <1> QED BY <1>1, <1>2, <1>4 DEF MInv, NothingIsAhead, MinutesHaveAll, Minute

LEMMA MinutesInductive == Spec => []MInv
  <1>1. Init => MInv
    <2> SUFFICES ASSUME Init PROVE MInv
      OBVIOUS
    <2>1. /\ proc = "down" /\ now = 0 /\ sweep.at = -1 /\ mem.ring = {}
          /\ flush.means = {} /\ disk.means = {}
      BY DEF Init, StoreInit, Hydrated, EmptyDisk, Emptied, NoSweep
    <2>2. -1 <= 0
      OBVIOUS
    <2> QED BY <2>1, <2>2 DEF MInv, NothingIsAhead, MinutesHaveAll
  <1>2. ASSUME IInv, TypeOK', DInv, HInv, MInv, [Next]_vars PROVE MInv'
    <2>1. CASE UNCHANGED vars
      <3>1. UNCHANGED <<now, proc, mem, disk, sweep, flush, limits>>
        BY <2>1 DEF vars, storeVars
      <3> QED BY <1>2, <3>1
              DEF MInv, NothingIsAhead, MinutesHaveAll, MinuteIsWhole, Held, Minute
    <2>2. CASE \/ SweepStarts \/ SensorMissed \/ SweepAborted \/ NoFinalFlush \/ NoImport
               \/ Signal \/ TaskPanics \/ TimePasses \/ TasksSettled \/ ImportStarts
               \/ ImportsCycle \/ StatsTick \/ StatsWrites \/ Started
      <3>1. SameMinutes /\ sweep'.at \in {sweep.at, now, -1} /\ now <= now'
        BY <1>2, <2>2, SameSteps
      <3> QED BY <1>2, <3>1, NothingAhead, MinutesSame DEF MInv
    <2>3. ASSUME NEW on \in BOOLEAN, SensorRead(on) PROVE MInv'
      BY <1>2, <2>3, SampleIsHeld
    <2>4. CASE HourlyFlush \/ ImportFlush \/ FinalFlush
      <3>1. PICK caller \in {"hourly", "import", "final"} :
                /\ FlushTakes(caller)
                /\ caller = "import" => proc = "importing" /\ legacy.left = <<>>
                /\ caller # "import" => proc \in {"up", "final"}
                /\ limits'.lost = limits.lost /\ limits'.late = limits.late
        BY <1>2, <2>4, FlushKinds
      <3>2. proc # "down"
        BY <3>1
      <3> QED BY <1>2, <3>1, <3>2, TakenIsStillHeld
    <2>5. CASE FlushCommits \/ FlushFails \/ FlushEnds
      BY <1>2, <2>5, WrittenIsStillHeld
    <2>6. CASE Open
      BY <1>2, <2>6, OpenedIsHeld
    <2>7. CASE Dies
      BY <1>2, <2>7, NothingIsLeft
    <2> QED BY <1>2, <2>1, <2>2, <2>3, <2>4, <2>5, <2>6, <2>7, StepKinds
            DEF StillSteps
  <1>3. IInv => TypeOK
    BY DEF IInv
  <1> QED BY <1>1, <1>2, <1>3, HistoryInductive, PTL DEF Spec

\* A minute on disk is the mean of all its samples, unless a flush failed or a
\* sample came after its minute was taken (record_sample, flush).
THEOREM MinutesCorrect == Spec => []MinutesAreWhole
  <1>1. MInv => MinutesAreWhole
    BY DEF MInv, MinutesHaveAll, MinutesAreWhole, Held
  <1> QED BY <1>1, MinutesInductive, PTL

-----------------------------------------------------------------------------
(* Days.  A day has one row, and only when it is over; the cycle that runs   *)
(* is split at the midnights it has passed, its share of the days that are   *)
(* over being what it was credited; so the rows and the day in progress add  *)
(* up to what the tracker gained.                                            *)

\* The rows that calls hand over.
RowsOf(w) == {w[i].row : i \in {j \in DOMAIN w : w[j].op = "daily"}}
DayRows == AllDays \cup RowsOf(writes)

DaysAreUnique == \A a, b \in DayRows : a.day = b.day => a = b
DaysAreOver ==
    /\ \A r \in DayRows : r.day < DayOf(now)
    /\ Running => /\ \A r \in DayRows : r.day < stats.day
                  /\ stats.from.day <= stats.day /\ stats.day <= DayOf(now)

\* A tracker's running cycle, credited with its time before the day in progress.
Split(s) ==
    IF s.on /\ s.observed
    THEN /\ s.since <= now /\ DayOf(s.since) <= s.day
         /\ s.credited = Minus(DayStart(s.day), s.since)
    ELSE s.credited = 0
\* A tracker gained what its days have: S seconds and N starts, and today.
Gained(s, S, N) ==
    /\ S + s.daySecs = s.secs - s.from.secs + s.credited
    /\ N + s.dayStarts = s.starts - s.from.starts

\* A tracker with a status has it from a sample.
StatusIsSampled ==
    stats.initialized => /\ Running \/ proc = "stopped"
                         /\ Running => \E p \in mem.ring : p.sensor = "HpStatus"
DaysCounted ==
    Running /\ ~limits.lost => Gained(stats, TotalSecs(OwnDays), TotalStarts(OwnDays))

DaysInv == DaysAreUnique /\ DaysAreOver /\ Split(stats) /\ StatusIsSampled /\ DaysCounted

\* Days are in order, and begin no later than any of their instants.
LEMMA DayOrder ==
    /\ \A t, u \in Instants : t <= u => DayOf(t) <= DayOf(u)
    /\ \A t \in Instants : DayStart(DayOf(t)) \in Nat /\ DayStart(DayOf(t)) <= t
    /\ \A a, b \in Nat : a <= b => DayStart(a) <= DayStart(b)
  <1>1. PerDay \in Nat \ {0} /\ Instants \subseteq Nat
    BY InstantsNat, StatsAssumption
  <1>2. \A t, u \in Instants : t <= u => DayOf(t) <= DayOf(u)
    BY <1>1, DivMonotone DEF DayOf
  <1>3. ASSUME NEW t \in Nat, NEW d \in Nat \ {0} PROVE (t \div d) * d <= t
    OBVIOUS
  <1>4. ASSUME NEW a \in Nat, NEW b \in Nat, NEW d \in Nat, a <= b PROVE a * d <= b * d
    BY <1>4
  <1>5. \A t \in Instants : DayStart(DayOf(t)) \in Nat /\ DayStart(DayOf(t)) <= t
    BY <1>1, <1>3, DayTypes DEF DayStart, DayOf
  <1>6. \A a, b \in Nat : a <= b => DayStart(a) <= DayStart(b)
    BY <1>1, <1>4 DEF DayStart
  <1> QED BY <1>2, <1>5, <1>6

\* A cycle that began at x and is split at a and then at b.
LEMMA SplitTwice ==
    ASSUME NEW x \in Nat, NEW a \in Nat, NEW b \in Nat, a <= b
    PROVE  Minus(a, x) + Minus(b, Larger(x, a)) = Minus(b, x)
  BY DEF Minus, Larger

\* A rollover archives the day that is over, when anything happened in it, and
\* credits the running cycle with its part of it.
LEMMA RolloverGains ==
    ASSUME NEW s \in Trackers, now \in Instants, s.day <= DayOf(now), Split(s),
           NEW r, r = AfterRollover(s)
    PROVE  /\ r \in Trackers /\ r.day = DayOf(now) /\ Split(r) /\ r.from = s.from
           /\ r.on = s.on /\ r.initialized = s.initialized
           /\ Archived(s) = {} => \A S, N \in Nat : Gained(s, S, N) => Gained(r, S, N)
           /\ Archived(s) # {} =>
                \E row \in Daily : /\ Archived(s) = {row} /\ row.day = s.day
                                   /\ s.day < DayOf(now)
                                   /\ \A S, N \in Nat : Gained(s, S, N) =>
                                        Gained(r, S + row.secs, N + row.starts)
  <1>0. /\ s.since \in Instants /\ s.since \in Nat /\ s.credited \in Nat /\ s.day \in Nat
        /\ s.dayStarts \in Nat /\ s.daySecs \in Nat /\ s.starts \in Nat /\ s.secs \in Nat
        /\ s.from.secs \in Nat /\ s.from.starts \in Nat /\ now \in Nat /\ DayOf(now) \in Nat
        /\ s.on \in BOOLEAN /\ s.observed \in BOOLEAN
    BY DayTypes DEF Trackers
  <1>1. r \in Trackers
    <2>1. TRUE \in BOOLEAN
      OBVIOUS
    <2> QED BY <2>1, TrackerTypes
  <1>2. CASE ~Rolled(s)
    <2>1. r = s /\ s.day = DayOf(now) /\ Archived(s) = {}
      BY <1>2 DEF AfterRollover, Rolled, Archived
    <2> QED BY <1>1, <2>1
  <1>3. CASE Rolled(s)
    <2> DEFINE pre == PreMidnight(s)
               A == DayStart(s.day)
               B == DayStart(DayOf(now))
    <2>1. s.day < DayOf(now)
      BY <1>0, <1>3 DEF Rolled
    <2>2. A \in Nat /\ B \in Nat /\ A <= B
      BY <1>0, <2>1, DayTypes, DayOrder
    <2>3. /\ pre \in Nat
          /\ s.on /\ s.observed => s.credited + pre = Minus(B, s.since)
          /\ ~(s.on /\ s.observed) => pre = 0
      <3>1. CASE s.on /\ s.observed
        <4>1. pre = Minus(B, Larger(s.since, A)) /\ s.credited = Minus(A, s.since)
          BY <1>3, <3>1 DEF PreMidnight, Split
        <4> HIDE DEF A, B
        <4>2. Larger(s.since, A) \in Nat
          BY <1>0, <2>2, MinusLarger
        <4>3. pre \in Nat
          BY <2>2, <4>1, <4>2, MinusLarger
        <4> QED BY <1>0, <2>2, <3>1, <4>1, <4>3, SplitTwice
      <3>2. CASE ~(s.on /\ s.observed)
        BY <3>2 DEF PreMidnight
      <3> QED BY <3>1, <3>2
    <2> HIDE DEF pre
    <2>4. /\ r.credited = s.credited + pre /\ r.day = DayOf(now)
          /\ r.dayStarts = 0 /\ r.daySecs = 0 /\ r.starts = s.starts /\ r.secs = s.secs
          /\ r.from = s.from /\ r.on = s.on /\ r.observed = s.observed /\ r.since = s.since
          /\ r.initialized = s.initialized
      BY <1>3 DEF AfterRollover, Trackers, pre
    <2>5. Split(r)
      <3>1. CASE s.on /\ s.observed
        <4>1. s.since <= now /\ DayOf(s.since) <= s.day
          BY <3>1 DEF Split
        <4>2. DayOf(s.since) <= DayOf(now)
          BY <1>0, <4>1, DayOrder
        <4> QED BY <2>3, <2>4, <3>1, <4>1, <4>2 DEF Split
      <3>2. CASE ~(s.on /\ s.observed)
        <4>1. s.credited = 0
          BY <3>2 DEF Split
        <4> QED BY <2>3, <2>4, <3>2, <4>1 DEF Split
      <3> QED BY <3>1, <3>2
    <2> HIDE DEF A, B
    <2>6. CASE Archived(s) = {}
      <3>1. s.dayStarts = 0 /\ s.daySecs + pre = 0
        BY <1>3, <2>6 DEF Archived, pre
      <3>2. s.daySecs = 0 /\ pre = 0
        BY <1>0, <2>3, <3>1
      <3> QED BY <1>0, <1>1, <2>4, <2>5, <2>6, <3>1, <3>2 DEF Gained
    <2>7. CASE Archived(s) # {}
      <3> DEFINE row == [day |-> s.day, starts |-> s.dayStarts, secs |-> s.daySecs + pre]
      <3>1. Archived(s) = {row}
        BY <2>7 DEF Archived, pre
      <3>2. row \in Daily /\ row.day = s.day /\ row.secs = s.daySecs + pre
            /\ row.starts = s.dayStarts
        BY <1>0, <2>3 DEF Daily
      <3> HIDE DEF row
      <3>3. \A S, N \in Nat : Gained(s, S, N) => Gained(r, S + row.secs, N + row.starts)
        <4> SUFFICES ASSUME NEW S \in Nat, NEW N \in Nat, Gained(s, S, N)
                     PROVE  Gained(r, S + row.secs, N + row.starts)
          OBVIOUS
        <4>1. S + s.daySecs = s.secs - s.from.secs + s.credited
              /\ N + s.dayStarts = s.starts - s.from.starts
          BY DEF Gained
        <4>2. S + (s.daySecs + pre) + 0 = s.secs - s.from.secs + (s.credited + pre)
          BY <1>0, <2>3, <4>1
        <4>3. (N + s.dayStarts) + 0 = s.starts - s.from.starts
          BY <1>0, <4>1
        <4> QED BY <2>4, <3>2, <4>2, <4>3 DEF Gained
      <3> QED BY <1>1, <2>1, <2>4, <2>5, <2>7, <3>1, <3>2, <3>3
    <2> QED BY <2>6, <2>7
  <1> QED BY <1>2, <1>3

LEMMA SameDifference ==
    /\ \A S, a, x, f, c, d \in Nat :
          S + a = x - f + c => S + (a + (d - c)) = (x + d) - f + 0
    /\ \A N, a, x, f \in Nat : N + a = x - f => N + (a + 1) = (x + 1) - f
  OBVIOUS

\* What the status then tells changes what was gained and today alike.
LEMMA FollowGains ==
    ASSUME NEW r \in Trackers, now \in Instants, r.day = DayOf(now), Split(r),
           NEW on \in BOOLEAN, NEW t, t = Followed(r, on)
    PROVE  /\ Split(t) /\ t.day = r.day /\ t.from = r.from /\ t.initialized = r.initialized
           /\ \A S, N \in Nat : Gained(r, S, N) => Gained(t, S, N)
  <1>0. /\ r.since \in Nat /\ r.credited \in Nat /\ r.day \in Nat
        /\ r.dayStarts \in Nat /\ r.daySecs \in Nat /\ r.starts \in Nat /\ r.secs \in Nat
        /\ r.from.secs \in Nat /\ r.from.starts \in Nat /\ now \in Nat
        /\ r.on \in BOOLEAN /\ r.observed \in BOOLEAN
    BY DayTypes DEF Trackers
  <1>1. DayStart(r.day) \in Nat /\ DayStart(r.day) <= now
    BY DayOrder
  <1>2. CASE r.on /\ ~on
    <2>1. t = AfterOff(r)
      BY <1>2 DEF Followed
    <2>2. /\ t.secs = r.secs + (IF r.observed THEN Duration(r) ELSE 0)
          /\ t.daySecs = r.daySecs
                + (IF r.observed THEN Minus(Duration(r), r.credited) ELSE 0)
          /\ t.credited = 0 /\ ~t.on /\ t.day = r.day /\ t.from = r.from
          /\ t.starts = r.starts /\ t.dayStarts = r.dayStarts
          /\ t.initialized = r.initialized
      BY <2>1 DEF AfterOff, Trackers
    <2>3. CASE r.observed
      <3>1. r.since <= now /\ r.credited = Minus(DayStart(r.day), r.since)
        BY <1>2, <2>3 DEF Split
      <3>2. Duration(r) = now - r.since /\ Duration(r) \in Nat
        BY <1>0, <3>1 DEF Duration, Minus
      <3>3. Minus(Duration(r), r.credited) = Duration(r) - r.credited
        <4> HIDE DEF DayStart
        <4>1. r.credited <= now - r.since
          BY <1>0, <1>1, <3>1 DEF Minus
        <4> QED BY <1>0, <3>2, <4>1 DEF Minus
      <3>4. /\ t.secs = r.secs + Duration(r) /\ t.credited = 0
            /\ t.daySecs = r.daySecs + (Duration(r) - r.credited)
        BY <2>2, <2>3, <3>3
      <3> DEFINE d == Duration(r)
      <3>5. ASSUME NEW S \in Nat, NEW N \in Nat, Gained(r, S, N) PROVE Gained(t, S, N)
        <4>0. d \in Nat
          BY <3>2
        <4>1. S + r.daySecs = r.secs - r.from.secs + r.credited
              /\ N + r.dayStarts = r.starts - r.from.starts
          BY <3>5 DEF Gained
        <4> HIDE DEF d
        <4>2. S + (r.daySecs + (d - r.credited)) = (r.secs + d) - r.from.secs + 0
          BY <1>0, <4>0, <4>1, SameDifference
        <4> USE DEF d
        <4> QED BY <2>2, <3>4, <4>1, <4>2 DEF Gained
      <3> QED BY <2>2, <3>5 DEF Split
    <2>4. CASE ~r.observed
      <3>1. r.credited = 0
        BY <2>4 DEF Split
      <3> QED BY <1>0, <2>2, <2>4, <3>1 DEF Gained, Split
    <2> QED BY <2>3, <2>4
  <1>3. CASE ~r.on /\ on
    <2>1. t = AfterOn(r) /\ r.credited = 0
      BY <1>3 DEF Followed, Split
    <2>2. /\ t.on /\ t.observed /\ t.since = now /\ t.credited = 0 /\ t.day = r.day
          /\ t.starts = r.starts + 1 /\ t.dayStarts = r.dayStarts + 1 /\ t.secs = r.secs
          /\ t.daySecs = r.daySecs /\ t.from = r.from /\ t.initialized = r.initialized
      BY <2>1 DEF AfterOn, Trackers
    <2>3. Minus(DayStart(r.day), now) = 0
      BY <1>0, <1>1 DEF Minus
    <2>4. Split(t)
      BY <1>0, <2>2, <2>3 DEF Split
    <2>5. ASSUME NEW S \in Nat, NEW N \in Nat, Gained(r, S, N) PROVE Gained(t, S, N)
      <3>1. S + r.daySecs = r.secs - r.from.secs + r.credited
            /\ N + r.dayStarts = r.starts - r.from.starts
        BY <2>5 DEF Gained
      <3>2. N + (r.dayStarts + 1) = (r.starts + 1) - r.from.starts
        BY <1>0, <3>1, SameDifference
      <3> QED BY <2>1, <2>2, <3>1, <3>2 DEF Gained
    <2> QED BY <2>2, <2>4, <2>5
  <1>4. CASE r.on = on
    BY <1>0, <1>4 DEF Followed
  <1> QED BY <1>0, <1>2, <1>3, <1>4

\* The rows that calls hand over: none, those of the first call and of the
\* others, the archived one of a tick.
LEMMA NoRows == RowsOf(<<>>) = {}
  BY DEF RowsOf

LEMMA RowsOfHead ==
    ASSUME NEW w \in Seq(Calls), w # <<>>
    PROVE  RowsOf(w) = RowsOf(Tail(w))
                         \cup (IF Head(w).op = "daily" THEN {Head(w).row} ELSE {})
  <1>1. /\ Len(w) \in Nat /\ Len(w) > 0 /\ DOMAIN w = 1..Len(w) /\ Head(w) = w[1]
        /\ DOMAIN Tail(w) = 1..(Len(w) - 1)
        /\ \A i \in 1..(Len(w) - 1) : Tail(w)[i] = w[i + 1]
    OBVIOUS
  <1> DEFINE n == Len(w)
             t == Tail(w)
  <1> HIDE DEF n, t
  <1>2. ASSUME NEW i \in DOMAIN t, t[i].op = "daily" PROVE t[i].row \in RowsOf(w)
    <2>1. i + 1 \in DOMAIN w /\ w[i + 1] = t[i]
      BY <1>1 DEF n, t
    <2> QED BY <1>2, <2>1 DEF RowsOf
  <1>3. ASSUME NEW i \in DOMAIN w, w[i].op = "daily", i # 1 PROVE w[i].row \in RowsOf(t)
    <2>1. i - 1 \in DOMAIN t /\ t[i - 1] = w[(i - 1) + 1] /\ (i - 1) + 1 = i
      BY <1>1, <1>3 DEF n, t
    <2>2. t[i - 1] = w[i]
      BY <2>1
    <2> QED BY <1>3, <2>1, <2>2 DEF RowsOf
  <1>4. 1 \in DOMAIN w
    BY <1>1
  <1>5. Head(w).op = "daily" => Head(w).row \in RowsOf(w)
    BY <1>1, <1>4 DEF RowsOf
  <1>6. RowsOf(t) \subseteq RowsOf(w)
    BY <1>2 DEF RowsOf
  <1>7. \A x \in RowsOf(w) : x \in RowsOf(t) \/ (Head(w).op = "daily" /\ x = Head(w).row)
    <2> SUFFICES ASSUME NEW x \in RowsOf(w), ~(Head(w).op = "daily" /\ x = Head(w).row)
                 PROVE  x \in RowsOf(t)
      OBVIOUS
    <2>1. PICK i \in DOMAIN w : w[i].op = "daily" /\ x = w[i].row
      BY DEF RowsOf
    <2>2. i # 1
      BY <1>1, <2>1
    <2> QED BY <1>3, <2>1, <2>2
  <1> QED BY <1>5, <1>6, <1>7 DEF t

LEMMA ConcatIs ==
    ASSUME NEW S, NEW u \in Seq(S), NEW z \in Seq(S)
    PROVE  /\ DOMAIN (u \o z) = 1..(Len(u) + Len(z))
           /\ \A i \in 1..Len(u) : (u \o z)[i] = u[i]
           /\ \A i \in (Len(u) + 1)..(Len(u) + Len(z)) :
                 (u \o z)[i] = z[i - Len(u)] /\ i - Len(u) \in DOMAIN z
  OBVIOUS

LEMMA RowsOfThree ==
    ASSUME NEW S, NEW x \in Seq(S), NEW y \in Seq(S), NEW z \in Seq(S),
           \A i \in DOMAIN x : x[i].op # "daily", \A i \in DOMAIN z : z[i].op # "daily"
    PROVE  RowsOf(x \o y \o z) = RowsOf(y)
  <1> DEFINE w == x \o y \o z
             a == Len(x)
             b == Len(y)
             c == Len(z)
             u == x \o y
  <1>1. a \in Nat /\ b \in Nat /\ c \in Nat
    OBVIOUS
  <1>2. /\ u \in Seq(S) /\ Len(u) = a + b
        /\ \A i \in 1..a : u[i] = x[i] /\ i \in DOMAIN x
        /\ \A i \in (a + 1)..(a + b) : u[i] = y[i - a] /\ i - a \in DOMAIN y
        /\ DOMAIN y = 1..b
    OBVIOUS
  <1> HIDE DEF a, b, u
  <1>3. /\ DOMAIN w = 1..(a + b + c)
        /\ \A i \in 1..(a + b) : w[i] = u[i]
        /\ \A i \in (a + b + 1)..(a + b + c) : w[i] = z[i - (a + b)] /\ i - (a + b) \in DOMAIN z
    <2>1. w = u \o z
      BY DEF u
    <2>2. /\ DOMAIN (u \o z) = 1..(Len(u) + Len(z))
          /\ \A i \in 1..Len(u) : (u \o z)[i] = u[i]
          /\ \A i \in (Len(u) + 1)..(Len(u) + Len(z)) :
                (u \o z)[i] = z[i - Len(u)] /\ i - Len(u) \in DOMAIN z
      BY <1>2, ConcatIs
    <2> HIDE DEF w
    <2> QED BY <1>2, <2>1, <2>2
  <1> HIDE DEF c, w
  <1>4. ASSUME NEW i \in DOMAIN w, w[i].op = "daily" PROVE w[i].row \in RowsOf(y)
    <2>1. i \in 1..a \/ i \in (a + 1)..(a + b) \/ i \in (a + b + 1)..(a + b + c)
      BY <1>1, <1>3
    <2>2. i \notin 1..a
      <3> SUFFICES ASSUME i \in 1..a PROVE FALSE
        OBVIOUS
      <3>1. i \in 1..(a + b)
        BY <1>1
      <3> QED BY <1>2, <1>3, <1>4, <3>1
    <2>3. i \notin (a + b + 1)..(a + b + c)
      BY <1>3, <1>4
    <2>4. i \in (a + 1)..(a + b) /\ i \in 1..(a + b)
      BY <1>1, <2>1, <2>2, <2>3
    <2>5. w[i] = y[i - a] /\ i - a \in DOMAIN y
      BY <1>2, <1>3, <2>4
    <2> QED BY <1>4, <2>5 DEF RowsOf
  <1>5. ASSUME NEW j \in DOMAIN y, y[j].op = "daily" PROVE y[j].row \in RowsOf(w)
    <2>1. /\ j + a \in (a + 1)..(a + b) /\ (j + a) - a = j
          /\ j + a \in 1..(a + b) /\ j + a \in 1..(a + b + c)
      BY <1>1, <1>2
    <2>2. w[j + a] = y[(j + a) - a] /\ j + a \in DOMAIN w
      BY <1>2, <1>3, <2>1
    <2>3. w[j + a] = y[j]
      BY <2>1, <2>2
    <2> QED BY <1>5, <2>2, <2>3 DEF RowsOf
  <1>6. RowsOf(w) = RowsOf(y)
    BY <1>4, <1>5 DEF RowsOf
  <1> QED BY <1>6 DEF w

LEMMA RowsOfCalls ==
    ASSUME NEW s \in Trackers, NEW on \in BOOLEAN, NEW w, w = CallsFor(s, on),
           NEW row, Archived(s) \in {{}, {row}}
    PROVE  RowsOf(w) = Archived(s)
  <1> DEFINE c == [op |-> "cycle", at |-> s.since, secs |-> Duration(s)]
             d == [op |-> "daily", row |-> CHOOSE r \in Archived(s) : TRUE]
             a == [op |-> "acc", acc |-> LifetimeOf(Followed(AfterRollover(s), on))]
             S == {c, d, a}
             x == IF Closes(s, on) THEN <<c>> ELSE <<>>
             y == IF Archived(s) = {} THEN <<>> ELSE <<d>>
             z == IF Archived(s) # {} \/ Closes(s, on) \/ (~s.on /\ on) THEN <<a>> ELSE <<>>
  <1>1. w = x \o y \o z
    BY DEF CallsFor, InOrder
  <1>2. c.op = "cycle" /\ d.op = "daily" /\ a.op = "acc"
    OBVIOUS
  <1>3. Archived(s) = {row} => d.row = row
    OBVIOUS
  <1> HIDE DEF c, d, a
  <1>4. /\ x \in Seq(S) /\ y \in Seq(S) /\ z \in Seq(S)
        /\ \A i \in DOMAIN x : x[i].op # "daily"
        /\ \A i \in DOMAIN z : z[i].op # "daily"
    <2>1. \A e \in S : <<e>> \in Seq(S) /\ DOMAIN <<e>> = {1} /\ <<e>>[1] = e
      OBVIOUS
    <2>2. <<>> \in Seq(S) /\ DOMAIN <<>> = {}
      OBVIOUS
    <2>3. c \in S /\ d \in S /\ a \in S
      OBVIOUS
    <2> HIDE DEF S
    <2>5. x \in Seq(S) /\ \A i \in DOMAIN x : x[i] = c
      BY <2>1, <2>2, <2>3
    <2>6. y \in Seq(S)
      BY <2>1, <2>2, <2>3
    <2>7. z \in Seq(S) /\ \A i \in DOMAIN z : z[i] = a
      BY <2>1, <2>2, <2>3
    <2> QED BY <1>2, <2>5, <2>6, <2>7
  <1>5. RowsOf(y) = Archived(s)
    <2>1. CASE Archived(s) = {}
      <3>1. y = <<>>
        BY <2>1
      <3> QED BY <2>1, <3>1, NoRows
    <2>2. CASE Archived(s) # {}
      <3>1. y = <<d>> /\ Archived(s) = {row} /\ d.row = row
        BY <1>3, <2>2
      <3>2. DOMAIN y = {1} /\ y[1] = d
        BY <3>1
      <3> QED BY <1>2, <3>1, <3>2 DEF RowsOf
    <2> QED BY <2>1, <2>2
  <1> HIDE DEF x, y, z, S
  <1>6. RowsOf(x \o y \o z) = RowsOf(y)
    BY <1>4, RowsOfThree
  <1> QED BY <1>1, <1>5, <1>6

\* Rows have the type of a row, and there are finitely many.
LEMMA DayRowsAre ==
    ASSUME IInv, HInv
    PROVE  /\ DayRows \subseteq Daily /\ IsFiniteSet(DayRows)
           /\ OwnDays = {r \in DayRows : r.day >= stats.from.day}
  <1>0. /\ writes \in Seq(Calls) /\ mem \in MemStates /\ flush \in Flushes /\ disk \in Tables
        /\ IsFiniteSet(AllDays)
    BY DEF IInv, TypeOK, HInv, RowsAreFinite, AllDays
  <1>1. ASSUME NEW i \in DOMAIN writes, writes[i].op = "daily" PROVE writes[i].row \in Daily
    <2>1. writes[i] \in Calls
      BY <1>0
    <2> QED BY <1>1, <2>1 DEF Calls
  <1>2. RowsOf(writes) \subseteq Daily
    BY <1>1 DEF RowsOf
  <1>3. AllDays \subseteq Daily
    BY <1>0 DEF AllDays, MemStates, Flushes, Tables
  <1>4. IsFiniteSet(RowsOf(writes))
    <2> DEFINE I == {j \in DOMAIN writes : writes[j].op = "daily"}
    <2>1. IsFiniteSet(1..Len(writes)) /\ DOMAIN writes = 1..Len(writes)
      <3>1. Len(writes) \in Int
        BY <1>0
      <3> QED BY <1>0, <3>1, FS_Interval
    <2>2. IsFiniteSet(I)
      BY <2>1, FS_Subset
    <2> HIDE DEF I
    <2> DEFINE f == [i \in I |-> writes[i].row]
    <2>3. f \in Surjection(I, {writes[i].row : i \in I})
      BY DEF Surjection
    <2>4. IsFiniteSet({writes[i].row : i \in I})
      BY <2>2, <2>3, FS_Surjection
    <2> QED BY <2>4 DEF RowsOf, I
  <1>5. IsFiniteSet(DayRows)
    BY <1>0, <1>4, FS_Union DEF DayRows
  <1>6. OwnDays = {r \in DayRows : r.day >= stats.from.day}
    BY DEF OwnDays, DayRows, AllDays, RowsOf
  <1> QED BY <1>2, <1>3, <1>5, <1>6 DEF DayRows

\* A row whose day nobody else has is added.
LEMMA AddedRow ==
    ASSUME NEW T, NEW R, \A t \in T : \A r \in R : t.day = r.day => t = r
    PROVE  Inserted(T, R, SameDay) = T \cup R
  BY DEF Inserted, SameDay

\* What keeps the days: the tracker stays, no row appears, and rows are lost
\* only by a flush that fails or a process that ends.
LEMMA DaysKept ==
    ASSUME IInv, HInv, DaysInv, TypeOK', HInv', IInv', UNCHANGED stats,
           DayRows' \subseteq DayRows, now <= now',
           Running' => Running /\ mem.ring \subseteq mem'.ring,
           (Running \/ proc = "stopped") => (Running' \/ proc' = "stopped"),
           Running' /\ ~limits'.lost => ~limits.lost /\ DayRows' = DayRows
    PROVE  DaysInv'
  <1>0. /\ now \in Instants /\ now' \in Instants /\ now \in Nat /\ now' \in Nat
        /\ DayOf(now) \in Nat /\ DayOf(now') \in Nat /\ DayOf(now) <= DayOf(now')
        /\ stats \in Trackers /\ stats.day \in Nat /\ stats.since \in Nat
    BY DayTypes, DayOrder DEF IInv, TypeOK, Trackers
  <1>1. DayOf(now)' = DayOf(now')
    BY DEF DayOf
  <1>2. DaysAreUnique'
    BY DEF DaysInv, DaysAreUnique
  <1>3. DaysAreOver'
    <2>1. \A r \in DayRows : r.day \in Nat
      BY DayRowsAre DEF Daily
    <2>2. \A r \in DayRows' : r.day < DayOf(now')
      BY <1>0, <2>1 DEF DaysInv, DaysAreOver
    <2>3. Running' => /\ \A r \in DayRows' : r.day < stats.day
                      /\ stats.from.day <= stats.day /\ stats.day <= DayOf(now')
      BY <1>0 DEF DaysInv, DaysAreOver
    <2> QED BY <1>1, <2>2, <2>3 DEF DaysAreOver
  <1>4. Split(stats)'
    <2>1. Split(stats)
      BY DEF DaysInv
    <2>2. stats.since <= now => stats.since <= now'
      BY <1>0
    <2> QED BY <2>1, <2>2 DEF Split, Minus, DayStart, DayOf
  <1>5. StatusIsSampled'
    BY DEF DaysInv, StatusIsSampled
  <1>6. DaysCounted'
    <2> SUFFICES ASSUME Running', ~limits'.lost
                 PROVE  Gained(stats', TotalSecs(OwnDays'), TotalStarts(OwnDays'))
      BY DEF DaysCounted
    <2>1. OwnDays' = OwnDays
      <3>1. OwnDays = {r \in DayRows : r.day >= stats.from.day}
        BY DayRowsAre
      <3>2. OwnDays' = {r \in DayRows' : r.day >= stats'.from.day}
        BY DEF OwnDays, DayRows, AllDays, RowsOf
      <3> QED BY <3>1, <3>2
    <2>2. stats' = stats
      OBVIOUS
    <2>3. Gained(stats, TotalSecs(OwnDays), TotalStarts(OwnDays))
      BY DEF DaysInv, DaysCounted
    <2> QED BY <2>1, <2>2, <2>3
  <1> QED BY <1>2, <1>3, <1>4, <1>5, <1>6 DEF DaysInv

LEMMA StillAges ==
    ASSUME IInv, TypeOK', StillSteps
    PROVE  /\ now <= now' /\ mem.ring \subseteq mem'.ring
           /\ (Running \/ proc = "stopped") => (Running' \/ proc' = "stopped")
  <1>0. mem \in MemStates /\ now \in Nat /\ now <= now
    BY InstantsNat DEF IInv, TypeOK
  <1>1. now' \in {now, now + 1}
    BY DEF StillSteps, SweepStarts, SensorRead, SensorMissed, SweepAborted, NoFinalFlush,
           NoImport, Signal, TaskPanics, TimePasses, TasksSettled
  <1>2. now <= now'
    BY <1>0, <1>1
  <1>3. ASSUME NEW on \in BOOLEAN, SensorRead(on) PROVE mem.ring \subseteq mem'.ring
    BY <1>0, <1>3 DEF SensorRead, WithSample, Marked, MemStates
  <1>4. mem.ring \subseteq mem'.ring
    BY <1>3 DEF StillSteps, SweepStarts, SensorMissed, SweepAborted, NoFinalFlush,
                NoImport, Signal, TaskPanics, TimePasses, TasksSettled
  <1>5. (Running \/ proc = "stopped") => (Running' \/ proc' = "stopped")
    BY DEF StillSteps, SweepStarts, SensorRead, SensorMissed, SweepAborted, NoFinalFlush,
           NoImport, Signal, TaskPanics, TimePasses, TasksSettled, Running
  <1> QED BY <1>2, <1>4, <1>5

\* The steps of the store, and the start and the end of a process.
LEMMA StoreKeepsDays ==
    ASSUME IInv, DInv, HInv, DaysInv, TypeOK', IInv', HInv',
           \/ StillSteps
           \/ (FlushCommits \/ FlushFails \/ FlushEnds \/ Open \/ ImportStarts \/ ImportsCycle)
                /\ Quiet
           \/ (HourlyFlush \/ ImportFlush \/ FinalFlush) /\ Quiet
    PROVE  DaysInv'
  <1>0. now \in Nat /\ now <= now /\ mem \in MemStates
    BY InstantsNat DEF IInv, TypeOK
  <1>1. CASE StillSteps
    <2>1. UNCHANGED <<stats, writes, AllDays>> /\ (Running' => Running)
          /\ limits'.lost = limits.lost
      BY <1>1, StillDoes
    <2>2. DayRows' = DayRows
      BY <2>1 DEF DayRows
    <2> QED BY <1>1, <2>1, <2>2, StillAges, DaysKept
  <1>2. CASE (HourlyFlush \/ ImportFlush \/ FinalFlush) /\ Quiet
    <2>1. PICK caller \in {"hourly", "import", "final"} :
              FlushTakes(caller) /\ limits'.lost = limits.lost
      BY <1>2, FlushKinds
    <2>2. /\ UNCHANGED <<proc, AllDays, stats, writes, now>> /\ mem'.ring = mem.ring
      BY <1>0, <1>2, <2>1, TakesDoes DEF Quiet, FlushTakes, MemStates
    <2>3. DayRows' = DayRows /\ Running' = Running
      BY <2>2 DEF DayRows, Running
    <2> QED BY <1>0, <2>1, <2>2, <2>3, DaysKept
  <1>3. CASE FlushCommits /\ Quiet
    <2>1. /\ UNCHANGED <<proc, mem, stats, writes, now>>
          /\ flush'.daily = flush.daily
          /\ disk'.daily = Inserted(disk.daily, flush.daily, SameDay)
          /\ limits'.lost = limits.lost
      BY <1>3, CommitDoes DEF FlushCommits, Quiet
    <2>2. Inserted(disk.daily, flush.daily, SameDay) = disk.daily \cup flush.daily
      <3>1. \A t \in disk.daily : \A r \in flush.daily : t.day = r.day => t = r
        BY DEF DaysInv, DaysAreUnique, DayRows, AllDays
      <3> QED BY <3>1, AddedRow
    <2>3. DayRows' = DayRows /\ Running' = Running
      BY <2>1, <2>2 DEF DayRows, AllDays, Running
    <2> QED BY <1>0, <2>1, <2>3, DaysKept
  <1>4. CASE FlushFails /\ Quiet
    <2>1. /\ UNCHANGED <<mem, disk, stats, writes, now>> /\ limits'.lost
          /\ AllDays' = mem.daily \cup disk.daily
          /\ proc' = Resumed(flush.caller) /\ flush.pc # "idle"
      BY <1>4, FailDoes DEF FlushFails, Quiet
    <2>2. DayRows' \subseteq DayRows
      BY <2>1 DEF DayRows, AllDays
    <2>3. /\ (Running' => Running)
          /\ (Running \/ proc = "stopped") => (Running' \/ proc' = "stopped")
      BY <2>1, Resumes DEF DInv, CallerWaits, Running
    <2> QED BY <1>0, <2>1, <2>2, <2>3, DaysKept
  <1>5. CASE FlushEnds /\ Quiet
    <2>1. /\ UNCHANGED <<disk, limits, AllDays, stats, writes, now>>
          /\ flush.pc # "idle" /\ proc' = Resumed(flush.caller) /\ mem'.ring = mem.ring
      BY <1>0, <1>5, EndDoes, MinutesKept DEF FlushEnds, Quiet
    <2>2. DayRows' = DayRows
      BY <2>1 DEF DayRows
    <2>3. /\ (Running' => Running)
          /\ (Running \/ proc = "stopped") => (Running' \/ proc' = "stopped")
      BY <2>1, Resumes DEF DInv, CallerWaits, Running
    <2> QED BY <1>0, <2>1, <2>2, <2>3, DaysKept
  <1>6. CASE (Open \/ ImportStarts \/ ImportsCycle) /\ Quiet
    <2>1. /\ UNCHANGED <<stats, writes, now>> /\ AllDays' \subseteq AllDays
          /\ proc' \in {"opened", "importing"} /\ proc \in {"down", "opened", "importing"}
      <3>1. CASE Open
        BY <1>6, <3>1, OpenDoes DEF Quiet, AllDays
      <3>2. CASE ImportStarts \/ ImportsCycle
        BY <1>6, <3>2, ImportDoes DEF Quiet
      <3> QED BY <1>6, <3>1, <3>2
    <2>2. DayRows' \subseteq DayRows
      BY <2>1 DEF DayRows
    <2>3. ~Running' /\ ~Running /\ proc # "stopped"
      BY <2>1 DEF Running
    <2> QED BY <1>0, <2>1, <2>2, <2>3, DaysKept
  <1> QED BY <1>1, <1>2, <1>3, <1>4, <1>5, <1>6

\* A call hands over the row that was its.
LEMMA WritesKeepDays ==
    ASSUME IInv, DInv, HInv, DaysInv, TypeOK', IInv', HInv', StatsWrites
    PROVE  DaysInv'
  <1>0. now \in Nat /\ now <= now /\ mem \in MemStates /\ writes \in Seq(Calls)
    BY InstantsNat DEF IInv, TypeOK
  <1>1. /\ UNCHANGED <<proc, flush, disk, limits, stats, now>>
        /\ writes # <<>> /\ writes' = Tail(writes)
        /\ Head(writes).op \in {"cycle", "daily", "acc"}
    BY WriteDoes
  <1>2. RowsOf(writes) = RowsOf(Tail(writes))
                \cup (IF Head(writes).op = "daily" THEN {Head(writes).row} ELSE {})
    BY <1>0, <1>1, RowsOfHead
  <1>3. Running' = Running
    BY <1>1 DEF Running
  <1>4. Head(writes) \in Calls
    BY <1>0, <1>1, HeadTail
  <1>5. DayRows' = AllDays' \cup RowsOf(Tail(writes))
    BY <1>1 DEF DayRows
  <1>6. DayRows' = DayRows /\ mem'.ring = mem.ring
    <2>1. CASE Head(writes).op = "daily"
      <3>1. mem' = WithDaily(mem, Head(writes).row)
        BY <2>1 DEF StatsWrites
      <3>2. mem'.daily = Inserted(mem.daily, {Head(writes).row}, SameDay)
            /\ mem'.ring = mem.ring
        BY <1>0, <3>1, RowsKept, MinutesKept
      <3>3. Head(writes).row \in RowsOf(writes)
        BY <1>2, <2>1
      <3>4. \A t \in mem.daily : \A r \in {Head(writes).row} : t.day = r.day => t = r
        BY <3>3 DEF DaysInv, DaysAreUnique, DayRows, AllDays
      <3>5. mem'.daily = mem.daily \cup {Head(writes).row}
        BY <3>2, <3>4, AddedRow
      <3>6. AllDays' = AllDays \cup {Head(writes).row}
        BY <1>1, <3>5 DEF AllDays
      <3> QED BY <1>2, <1>5, <2>1, <3>2, <3>6 DEF DayRows
    <2>2. CASE Head(writes).op = "cycle"
      <3>1. Head(writes).at \in Instants
        BY <1>4, <2>2 DEF Calls
      <3>2. mem' = WithCycle(mem, Head(writes).at, Head(writes).secs)
        BY <2>2 DEF StatsWrites
      <3>3. mem'.daily = mem.daily /\ mem'.ring = mem.ring
        BY <1>0, <3>1, <3>2, RowsKept, MinutesKept
      <3>4. AllDays' = AllDays
        BY <1>1, <3>3 DEF AllDays
      <3> QED BY <1>2, <1>5, <2>2, <3>3, <3>4 DEF DayRows
    <2>3. CASE Head(writes).op = "acc"
      <3>1. mem' = WithAccumulators(mem, Head(writes).acc)
        BY <2>3 DEF StatsWrites
      <3>2. mem'.daily = mem.daily /\ mem'.ring = mem.ring
        BY <1>0, <3>1, RowsKept, MinutesKept
      <3>3. AllDays' = AllDays
        BY <1>1, <3>2 DEF AllDays
      <3> QED BY <1>2, <1>5, <2>3, <3>2, <3>3 DEF DayRows
    <2> QED BY <1>1, <2>1, <2>2, <2>3
  <1> QED BY <1>0, <1>1, <1>3, <1>6, DaysKept

\* A sensor that was read once has a latest sample.
LEMMA LatestExists ==
    ASSUME IInv, NothingIsAhead, NEW sensor, NEW p \in mem.ring, p.sensor = sensor
    PROVE  Latest(sensor) # {}
  <1> DEFINE points == {q \in mem.ring : q.sensor = sensor}
             ats == {q.at : q \in points}
  <1>0. now \in Nat /\ mem \in MemStates
    BY InstantsNat DEF IInv, TypeOK
  <1>1. \A q \in points : q.at \in Nat /\ q.at <= now
    BY <1>0 DEF NothingIsAhead, MemStates, Points
  <1>2. ats \in SUBSET Nat /\ ats # {} /\ now + 1 \in Nat /\ \A x \in ats : x < now + 1
    BY <1>0, <1>1
  <1> HIDE DEF ats
  <1>3. \E k \in ats : k = Max(ats) /\ \A x \in ats : x <= k
    BY <1>2, BoundedMax
  <1>4. PICK k \in ats : \A x \in ats : x <= k
    BY <1>3
  <1>5. PICK q \in points : q.at = k
    BY <1>4 DEF ats
  <1>6. \A x \in points : x.at <= q.at
    BY <1>4, <1>5 DEF ats
  <1>7. q \in Latest(sensor)
    BY <1>5, <1>6 DEF Latest
  <1> QED BY <1>7

\* A tick: the row of a day that is over, and a tracker that gained as much.
LEMMA TickKeepsDays ==
    ASSUME IInv, HInv, MInv, DaysInv, IInv', HInv', StatsTick
    PROVE  DaysInv'
  <1>0. /\ UNCHANGED <<now, proc, mem, disk, flush, limits>> /\ writes = <<>> /\ proc = "up"
        /\ stats \in Trackers /\ mem \in MemStates /\ now \in Instants
        /\ DayOf(now) \in Nat /\ stats.day \in Nat /\ stats.from.day \in Nat
    BY DayTypes DEF StatsTick, IInv, TypeOK, storeVars, Trackers
  <1>1. /\ Running /\ Running' /\ AllDays' = AllDays /\ DayRows = AllDays
        /\ DayRows' = AllDays \cup RowsOf(writes') /\ DayOf(now)' = DayOf(now)
    BY <1>0, NoRows DEF AllDays, DayRows, Running, DayOf
  <1>2. /\ DayRows \subseteq Daily /\ IsFiniteSet(DayRows)
        /\ OwnDays = {r \in DayRows : r.day >= stats.from.day}
        /\ OwnDays' = {r \in DayRows' : r.day >= stats'.from.day}
    BY DayRowsAre DEF OwnDays, DayRows, AllDays, RowsOf
  <1>4. /\ \A r \in DayRows : r.day < DayOf(now) /\ r.day < stats.day
        /\ stats.from.day <= stats.day /\ stats.day <= DayOf(now) /\ Split(stats)
        /\ (~limits.lost => Gained(stats, TotalSecs(OwnDays), TotalStarts(OwnDays)))
    BY <1>1 DEF DaysInv, DaysAreOver, DaysCounted
  <1>5. CASE writes' = writes /\ ~stats.initialized
    <2>1. ~stats.observed /\ stats.credited = 0
      BY <1>4, <1>5 DEF HInv, ObservedIsSeen, Split
    <2>2. /\ stats'.day = stats.day /\ stats'.from = stats.from /\ ~stats'.observed
          /\ stats'.credited = 0 /\ stats'.daySecs = stats.daySecs
          /\ stats'.dayStarts = stats.dayStarts /\ stats'.starts = stats.starts
          /\ stats'.secs = stats.secs
          /\ stats'.initialized => \E p \in mem.ring : p.sensor = "HpStatus"
      <3>1. CASE stats' = PollFailed(stats)
        <4>1. stats.daySecs \in Nat
          BY <1>0 DEF Trackers
        <4>2. Minus(stats.daySecs, 0) = stats.daySecs
          BY <4>1 DEF Minus
        <4> QED BY <1>0, <2>1, <3>1, <4>2 DEF PollFailed, Trackers
      <3>2. ASSUME NEW p \in Latest("HpStatus"),
                   stats' = [stats EXCEPT !.initialized = TRUE, !.on = p.on, !.since = now]
            PROVE  /\ stats'.day = stats.day /\ stats'.from = stats.from /\ ~stats'.observed
                   /\ stats'.credited = 0 /\ stats'.daySecs = stats.daySecs
                   /\ stats'.dayStarts = stats.dayStarts /\ stats'.starts = stats.starts
                   /\ stats'.secs = stats.secs
                   /\ stats'.initialized => \E q \in mem.ring : q.sensor = "HpStatus"
        BY <1>0, <2>1, <3>2 DEF Trackers, Latest
      <3> QED BY <1>5, <3>1, <3>2 DEF StatsTick
    <2>3. DayRows' = DayRows /\ OwnDays' = OwnDays
      BY <1>0, <1>1, <1>2, <1>5, <2>2, NoRows
    <2>4. DaysAreUnique' /\ DaysAreOver' /\ StatusIsSampled'
      BY <1>0, <1>1, <1>4, <2>2, <2>3
         DEF DaysInv, DaysAreUnique, DaysAreOver, StatusIsSampled
    <2>5. Split(stats)'
      BY <2>2 DEF Split
    <2>6. DaysCounted'
      BY <1>0, <1>4, <2>1, <2>2, <2>3 DEF DaysCounted, Gained
    <2> QED BY <2>4, <2>5, <2>6 DEF DaysInv
  <1>6. ASSUME NEW on \in BOOLEAN, stats.initialized,
               stats' = Followed(AfterRollover(stats), on), writes' = CallsFor(stats, on)
        PROVE  DaysInv'
    <2> DEFINE r == AfterRollover(stats)
    <2>1. /\ r \in Trackers /\ r.day = DayOf(now) /\ Split(r) /\ r.from = stats.from
          /\ r.initialized = stats.initialized
          /\ Archived(stats) = {} => \A S, N \in Nat : Gained(stats, S, N) => Gained(r, S, N)
          /\ Archived(stats) # {} =>
                \E row \in Daily : /\ Archived(stats) = {row} /\ row.day = stats.day
                                   /\ stats.day < DayOf(now)
                                   /\ \A S, N \in Nat : Gained(stats, S, N) =>
                                        Gained(r, S + row.secs, N + row.starts)
      BY <1>0, <1>4, RolloverGains
    <2> HIDE DEF r
    <2>2. stats' = Followed(r, on)
      BY <1>6 DEF r
    <2>3. /\ Split(stats') /\ stats'.day = r.day /\ stats'.from = r.from
          /\ stats'.initialized = r.initialized
          /\ \A S, N \in Nat : Gained(r, S, N) => Gained(stats', S, N)
      BY <1>0, <2>1, <2>2, FollowGains
    <2>4. Split(stats)'
      BY <1>0, <2>3 DEF Split
    <2>5. StatusIsSampled'
      BY <1>0, <1>1, <1>6, <2>1, <2>3 DEF DaysInv, StatusIsSampled
    <2>6. IsFiniteSet(OwnDays) /\ OwnDays \subseteq Daily
      BY <1>2, FS_Subset
    <2>7. TotalSecs(OwnDays) \in Nat /\ TotalStarts(OwnDays) \in Nat
      BY <2>6, SecsNat, StartsNat DEF Daily
    <2>8. CASE Archived(stats) = {}
      <3>1. RowsOf(writes') = {}
        BY <1>0, <1>6, <2>8, RowsOfCalls
      <3>2. DayRows' = DayRows /\ OwnDays' = OwnDays
        BY <1>1, <1>2, <2>1, <2>3, <3>1
      <3>3. DaysAreUnique' /\ DaysAreOver'
        BY <1>0, <1>1, <1>4, <2>1, <2>3, <3>2 DEF DaysInv, DaysAreUnique, DaysAreOver
      <3>4. DaysCounted'
        BY <1>0, <1>4, <2>1, <2>3, <2>7, <2>8, <3>2 DEF DaysCounted
      <3> QED BY <2>4, <2>5, <3>3, <3>4 DEF DaysInv
    <2>9. CASE Archived(stats) # {}
      <3>1. PICK row \in Daily : /\ Archived(stats) = {row} /\ row.day = stats.day
                                 /\ stats.day < DayOf(now)
                                 /\ \A S, N \in Nat : Gained(stats, S, N) =>
                                      Gained(r, S + row.secs, N + row.starts)
        BY <2>1, <2>9
      <3>2. RowsOf(writes') = {row}
        BY <1>0, <1>6, <3>1, RowsOfCalls
      <3>3. DayRows' = DayRows \cup {row} /\ \A x \in DayRows : x.day # row.day
        <4>1. \A x \in DayRows : x.day \in Nat
          BY <1>2 DEF Daily
        <4> QED BY <1>0, <1>1, <1>4, <3>1, <3>2, <4>1
      <3>4. OwnDays' = OwnDays \cup {row} /\ row \notin OwnDays
        <4>1. row.day >= stats.from.day
          BY <1>0, <1>4, <3>1
        <4> QED BY <1>2, <2>1, <2>3, <3>3, <4>1
      <3>5. DaysAreUnique'
        BY <3>3 DEF DaysInv, DaysAreUnique
      <3>6. DaysAreOver'
        BY <1>0, <1>1, <1>4, <2>1, <2>3, <3>1, <3>3 DEF DaysAreOver
      <3>7. /\ TotalSecs(OwnDays') = TotalSecs(OwnDays) + row.secs
            /\ TotalStarts(OwnDays') = TotalStarts(OwnDays) + row.starts
            /\ row.secs \in Nat /\ row.starts \in Nat
        <4>1. row.secs \in Nat /\ row.starts \in Nat
          BY DEF Daily
        <4>2. \A x \in OwnDays : x.secs \in Nat /\ x.starts \in Nat
          BY <2>6 DEF Daily
        <4> QED BY <2>6, <3>4, <4>1, <4>2, SecsAdd, StartsAdd
      <3>8. DaysCounted'
        <4> SUFFICES ASSUME ~limits.lost
                     PROVE  Gained(stats', TotalSecs(OwnDays'), TotalStarts(OwnDays'))
          BY <1>0 DEF DaysCounted
        <4>1. Gained(r, TotalSecs(OwnDays) + row.secs, TotalStarts(OwnDays) + row.starts)
          BY <1>4, <2>7, <3>1
        <4>2. TotalSecs(OwnDays) + row.secs \in Nat /\ TotalStarts(OwnDays) + row.starts \in Nat
          BY <2>7, <3>7
        <4> QED BY <2>3, <3>7, <4>1, <4>2
      <3> QED BY <2>4, <2>5, <3>5, <3>6, <3>8 DEF DaysInv
    <2> QED BY <2>8, <2>9
  <1>7. Latest("HpStatus") = {} => ~stats.initialized
    BY <1>1, LatestExists DEF MInv, DaysInv, StatusIsSampled
  <1>8. \A p \in Latest("HpStatus") : p.on \in BOOLEAN
    BY <1>0 DEF Latest, MemStates, Points
  <1> QED BY <1>5, <1>6, <1>7, <1>8 DEF StatsTick

\* A tracker that starts has no day of its own yet.
LEMMA StartKeepsDays ==
    ASSUME IInv, HInv, DaysInv, Started
    PROVE  DaysInv'
  <1>0. /\ UNCHANGED <<now, mem, disk, flush, limits, writes>> /\ now \in Instants
        /\ stats' = FreshStats(mem.acc, now) /\ mem \in MemStates
        /\ DayOf(now) \in Nat /\ mem.acc.secs \in Nat /\ mem.acc.starts \in Nat
    BY DayTypes DEF Started, IInv, TypeOK, MemStates, Accumulators
  <1>1. /\ ~stats'.on /\ ~stats'.initialized /\ stats'.credited = 0
        /\ stats'.day = DayOf(now) /\ stats'.from.day = DayOf(now)
        /\ stats'.daySecs = 0 /\ stats'.dayStarts = 0
        /\ stats'.starts = mem.acc.starts /\ stats'.from.starts = mem.acc.starts
        /\ stats'.secs = mem.acc.secs /\ stats'.from.secs = mem.acc.secs
    BY <1>0 DEF FreshStats
  <1>2. /\ DayRows' = DayRows /\ DayOf(now)' = DayOf(now)
        /\ OwnDays' = {r \in DayRows' : r.day >= stats'.from.day}
    BY <1>0 DEF OwnDays, DayRows, AllDays, RowsOf, DayOf
  <1>3. \A r \in DayRows : r.day \in Nat /\ r.day < DayOf(now)
    BY DayRowsAre DEF DaysInv, DaysAreOver, Daily
  <1>4. OwnDays' = {}
    BY <1>0, <1>1, <1>2, <1>3
  <1>5. TotalSecs(OwnDays') = 0 /\ TotalStarts(OwnDays') = 0
    BY <1>4, SecsNone, StartsNone
  <1>6. DaysAreUnique' /\ DaysAreOver'
    BY <1>0, <1>1, <1>2, <1>3 DEF DaysInv, DaysAreUnique, DaysAreOver
  <1>7. Split(stats)' /\ StatusIsSampled'
    BY <1>1 DEF Split, StatusIsSampled
  <1>8. DaysCounted'
    BY <1>0, <1>1, <1>5 DEF DaysCounted, Gained
  <1> QED BY <1>6, <1>7, <1>8 DEF DaysInv

LEMMA EndKeepsDays ==
    ASSUME IInv, DaysInv, Dies
    PROVE  DaysInv'
  <1>1. /\ proc' = "down" /\ UNCHANGED <<disk, now>> /\ writes' = <<>>
        /\ AllDays' = disk.daily /\ ~stats'.observed /\ ~stats'.initialized
        /\ stats'.credited = 0
    BY DiesDoes DEF FreshStats
  <1>2. DayRows' \subseteq DayRows /\ ~Running' /\ DayOf(now)' = DayOf(now)
    BY <1>1, NoRows DEF DayRows, AllDays, Running, DayOf
  <1>3. DaysAreUnique' /\ DaysAreOver'
    BY <1>1, <1>2 DEF DaysInv, DaysAreUnique, DaysAreOver
  <1> QED BY <1>1, <1>2, <1>3 DEF DaysInv, Split, StatusIsSampled, DaysCounted

LEMMA DaysInductive == Spec => []DaysInv
  <1>1. Init => DaysInv
    <2> SUFFICES ASSUME Init PROVE DaysInv
      OBVIOUS
    <2>1. /\ proc = "down" /\ writes = <<>> /\ mem.daily = {} /\ disk.daily = {}
          /\ flush.daily = {} /\ ~stats.observed /\ ~stats.initialized /\ stats.credited = 0
      BY DEF Init, StoreInit, Hydrated, EmptyDisk, Emptied, FreshStats
    <2>2. DayRows = {} /\ ~Running
      BY <2>1, NoRows DEF DayRows, AllDays, Running
    <2> QED BY <2>1, <2>2 DEF DaysInv, DaysAreUnique, DaysAreOver, Split, StatusIsSampled,
                              DaysCounted
  <1>2. ASSUME IInv, DInv, HInv, MInv, DaysInv, IInv', HInv', [Next]_vars PROVE DaysInv'
    <2>1. TypeOK'
      BY <1>2 DEF IInv
    <2>2. CASE UNCHANGED vars
      <3>1. UNCHANGED <<now, proc, mem, disk, flush, limits, stats, writes>>
        BY <2>2 DEF vars, storeVars
      <3>2. DayRows' = DayRows /\ Running' = Running /\ now \in Nat /\ now <= now
        BY <1>2, <3>1, InstantsNat DEF DayRows, AllDays, RowsOf, Running, IInv, TypeOK
      <3> QED BY <1>2, <2>1, <3>1, <3>2, DaysKept
    <2>3. CASE Next
      BY <1>2, <2>1, <2>3, StepKinds, StoreKeepsDays, TickKeepsDays, WritesKeepDays,
         StartKeepsDays, EndKeepsDays
    <2> QED BY <1>2, <2>2, <2>3
  <1> QED BY <1>1, <1>2, HistoryInductive, MinutesInductive, PTL DEF Spec

\* Every start and every operating second since the process came up is in
\* exactly one day (check_window_rollovers, update_state), while no flush failed.
THEOREM DaysCorrect == Spec => []DaysAddUp
  <1>1. DaysInv => DaysAddUp
    BY DEF DaysInv, DaysCounted, Gained, DaysAddUp, Running
  <1> QED BY <1>1, DaysInductive, PTL

\* The history on disk adds up: totals, days and minutes.
THEOREM HistoryCorrect == Spec => []HistoryAddsUp
  BY TotalsCorrect, DaysCorrect, MinutesCorrect, PTL DEF HistoryAddsUp
=============================================================================
