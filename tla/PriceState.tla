----------------------------- MODULE PriceState -----------------------------
(***************************************************************************)
(* PriceState of energy/price.rs and the price levels of main.rs: what the *)
(* program reads out of the two buckets of prices it holds.                *)
(*                                                                         *)
(* Time is counted in slots from the local midnight before now, and a      *)
(* bucket is the curve of one day with that day's distance from today: 0   *)
(* for today's, 1 for tomorrow's, -1 for any past day's (no reader looks   *)
(* back).  A curve of SlotsPerDay prices has one price a slot, a shorter   *)
(* one (an hourly day) lets each price last longer.  Prices are whole öre, *)
(* so the tolerance of half an öre is equality; EUR, exchange rate, zone   *)
(* and texts are left out, and so is PriceStateInner.current, which        *)
(* update_prices writes and nobody reads.                                  *)
(***************************************************************************)
EXTENDS Integers, Sequences, FiniteSets, SequencesExt

CONSTANTS
    SlotsPerDay,  \* 96 quarters of an hour in the source
    Curves,       \* the price curves a day can have
    Window,       \* auto_resume_window_hours, in slots
    RunSlots,     \* auto_resume_min_duration_minutes, in slots
    Picks,        \* how many candidates the dashboard's picker shows (6)
    Nothing       \* Rust's None

ASSUME PriceStateAssumption ==
    /\ SlotsPerDay \in Nat \ {0} /\ RunSlots \in Nat \ {0}
    /\ Window \in Nat /\ Picks \in Nat \ {0}
    /\ Curves \subseteq Seq(Int)
    /\ \A c \in Curves : c # <<>> /\ SlotsPerDay % Len(c) = 0
    /\ Nothing \notin Curves \cup Int

Empty == [day |-> 0, curve |-> <<>>]
Bucket(day, curve) == [day |-> day, curve |-> curve]
Buckets == [day : {-1, 0, 1}, curve : Curves] \cup {Empty}

Lowest(S) == CHOOSE x \in S : \A y \in S : x <= y

\* The sum of the values of a function.
Total(w) == MapThenSumSet(LAMBDA x : w[x], DOMAIN w)

-----------------------------------------------------------------------------
(* Levels: nearest-rank percentiles of the day, strict comparisons. *)

\* The k-th value (from 0) of the curve in ascending order.
InOrderAt(curve, k) ==
    CHOOSE v \in ToSet(curve) :
        /\ Cardinality({i \in DOMAIN curve : curve[i] < v}) <= k
        /\ k < Cardinality({i \in DOMAIN curve : curve[i] <= v})

Percentile(curve, percent) ==
    InOrderAt(curve, Lowest({(percent * Len(curve)) \div 100, Len(curve) - 1}))

IsFlat(curve) == Cardinality(ToSet(curve)) = 1

LevelOf(curve, price) ==
    IF IsFlat(curve) THEN "normal"
    ELSE IF price < Percentile(curve, 25) THEN "very_cheap"
    ELSE IF price < Percentile(curve, 40) THEN "cheap"
    ELSE IF price < Percentile(curve, 60) THEN "normal"
    ELSE IF price < Percentile(curve, 75) THEN "expensive"
    ELSE "very_expensive"

Point(bucket, i) ==
    LET lasts == SlotsPerDay \div Len(bucket.curve)
        start == bucket.day * SlotsPerDay + (i - 1) * lasts
    IN  [start |-> start, end |-> start + lasts, spot |-> bucket.curve[i],
         level |-> LevelOf(bucket.curve, bucket.curve[i])]

Points(bucket) == [i \in DOMAIN bucket.curve |-> Point(bucket, i)]

\* today.iter().chain(tomorrow.iter())
Chain(today, tomorrow) == Points(today) \o Points(tomorrow)

-----------------------------------------------------------------------------
(* The price of now, and the two days the dashboard is served. *)

CoversNow(p, now) == p.start <= now /\ now < p.end

BucketCovers(bucket, now) ==
    bucket # Empty /\ Points(bucket)[1].start <= now /\ now < Last(Points(bucket)).end

InPast(bucket, now) == bucket = Empty \/ now >= Last(Points(bucket)).end

CurrentIn(bucket, now) ==
    LET covering == {p \in ToSet(Points(bucket)) : CoversNow(p, now)}
    IN  IF covering = {} THEN Nothing ELSE CHOOSE p \in covering : TRUE

\* Mutant of Current: no look at tomorrow's bucket.
CurrentOfToday(today, tomorrow, now) == CurrentIn(today, now)

Current(today, tomorrow, now) ==
    IF CurrentIn(today, now) # Nothing \/ ~InPast(today, now)
    THEN CurrentIn(today, now)
    ELSE CurrentIn(tomorrow, now)

Served(today, tomorrow, now) ==
    IF BucketCovers(today, now) THEN [today |-> today, tomorrow |-> tomorrow]
    ELSE IF BucketCovers(tomorrow, now) THEN [today |-> tomorrow, tomorrow |-> Empty]
    ELSE Nothing

-----------------------------------------------------------------------------
(* What SmartGrid's auto-resume asks for. *)

InWindow(p, now) == now < p.start /\ p.start <= now + Window

\* Mutant of CheapWindowEnd: slots that have begun count.
CheapWindowEndFromStart(today, tomorrow, now) ==
    LET c     == Chain(today, tomorrow)
        stops == {i \in DOMAIN c : /\ c[i].level \notin {"very_cheap", "cheap"}
                                  /\ \A j \in 1..i : c[j].start <= now + Window}
    IN  CASE stops # {} -> c[Lowest(stops)].start
          [] c = <<>>   -> Nothing
          [] OTHER      -> now + Window

\* The end of the cheap slots: the loop breaks at the first slot past the
\* window and returns at the first one that is not cheap.
CheapWindowEnd(today, tomorrow, now) ==
    LET c       == Chain(today, tomorrow)
        reached == {i \in DOMAIN c : /\ c[i].start > now
                                     /\ \A j \in 1..i : c[j].start <= now + Window}
        stops   == {i \in reached : c[i].level \notin {"very_cheap", "cheap"}}
    IN  CASE stops # {}   -> c[Lowest(stops)].start
          [] reached = {} -> Nothing
          [] OTHER        -> now + Window

\* min_by: the first of the cheapest.
CheapestWithin(today, tomorrow, now) ==
    LET c  == Chain(today, tomorrow)
        in == {i \in DOMAIN c : InWindow(c[i], now)}
    IN  IF in = {} THEN Nothing
        ELSE c[Lowest({i \in in : \A j \in in : c[i].spot <= c[j].spot})]

Adjacent(c, i, j) == \A k \in i..j - 1 : c[k].end = c[k + 1].start

Lasts(p) == p.end - p.start

Costs(p) == p.spot * Lasts(p)

\* How long the slots from i to j last, and what they cost.
LengthOf(c, i, j) == Total([k \in i..j |-> Lasts(c[k])])
CostOf(c, i, j)   == Total([k \in i..j |-> Costs(c[k])])

\* Where the run that starts at slot i of the chain is long enough.
RunEnds(c, i) ==
    {j \in i..Len(c) : Adjacent(c, i, j) /\ LengthOf(c, i, j) >= RunSlots}

RunFrom(c, i) ==
    LET last == Lowest(RunEnds(c, i))
    IN  [at |-> i, start |-> c[i].start, end |-> c[last].end, cost |-> CostOf(c, i, last)]

RunsWithin(today, tomorrow, now) ==
    LET c == Chain(today, tomorrow)
    IN  {RunFrom(c, i) : i \in {k \in DOMAIN c : InWindow(c[k], now) /\ RunEnds(c, k) # {}}}

\* avg compared without dividing: costs and lengths are integers.
Cheaper(r, s) == r.cost * Lasts(s) < s.cost * Lasts(r)
Before(r, s)  == Cheaper(r, s) \/ (~Cheaper(s, r) /\ r.at < s.at)

CheapestRunWithin(today, tomorrow, now) ==
    LET runs == RunsWithin(today, tomorrow, now)
    IN  IF runs = {} THEN Nothing
        ELSE CHOOSE r \in runs : \A s \in runs \ {r} : Before(r, s)

Overlap(r, s) == r.start < s.end /\ s.start < r.end

\* sort_by is stable: the cheapest first, a tie in the order of the slots.
Sorted(runs) ==
    [n \in 1..Cardinality(runs) |->
        CHOOSE r \in runs : Cardinality({s \in runs : Before(s, r)}) = n - 1]

Take(chosen, run) ==
    IF Len(chosen) >= Picks \/ \E r \in ToSet(chosen) : Overlap(run, r)
    THEN chosen
    ELSE Append(chosen, run)

Chosen(runs) ==
    LET out[n \in 0..Len(runs)] == IF n = 0 THEN <<>> ELSE Take(out[n - 1], runs[n])
    IN  out[Len(runs)]

CheapestRunsWithin(today, tomorrow, now) == Chosen(Sorted(RunsWithin(today, tomorrow, now)))

\* compute_resume_target: what a scheduled Blocking or LowPrice ends at, and
\* the preview of the route, which follows the same two steps.
ResumeTarget(mode, today, tomorrow, now) ==
    LET run  == CheapestRunWithin(today, tomorrow, now)
        slot == CheapestWithin(today, tomorrow, now)
    IN  IF mode = "Normal" THEN Nothing
        ELSE IF mode \in {"LowPrice", "Overcapacity"}
        THEN CheapWindowEnd(today, tomorrow, now)
        ELSE IF run # Nothing THEN run.start
        ELSE IF slot # Nothing THEN slot.start
        ELSE Nothing

\* The dashboard's cheapest hours still to come, cheapest first.
OptimalHours(today, tomorrow, now, count) ==
    LET c     == Chain(today, tomorrow)
        ahead == {i \in DOMAIN c : c[i].start > now}
        Sooner(i, j) == c[i].spot < c[j].spot \/ (c[i].spot = c[j].spot /\ i < j)
        order == SetToSortSeq(ahead, Sooner)
    IN  [i \in 1..Lowest({count, Cardinality(ahead)}) |-> c[order[i]]]
=============================================================================
