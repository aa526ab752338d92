------------------------------ MODULE PriceFeed ------------------------------
(***************************************************************************)
(* The price loop of main.rs and its client energy/elpris.rs: once a day,  *)
(* at FetchSlot, it asks elpris for today's and tomorrow's prices, keeps   *)
(* what it had of the day whose request failed, and retries every slot     *)
(* (15 minutes) until both arrived or midnight is near.  Nothing rotates   *)
(* the two buckets at midnight: the readers of PriceState sort that out.   *)
(*                                                                         *)
(* Time goes round: at midnight tomorrow becomes today, and a bucket's day *)
(* moves one day back.  elpris publishes the next day once a day, late or  *)
(* never; a request that is answered before midnight can be applied after. *)
(***************************************************************************)
EXTENDS PriceState

CONSTANTS
    FetchSlot     \* config: fetch_hour_local, as a slot of the day

ASSUME PriceFeedAssumption == FetchSlot \in 0..SlotsPerDay - 1

VARIABLES
    slotNow,   \* the slot of the day it is
    market,    \* what elpris has published: today's and tomorrow's curve
    network,   \* "up", or "flaky": any request may fail
    today,     \* PriceStateInner.today
    tomorrow,  \* PriceStateInner.tomorrow
    loop,      \* the loop: what it waits for, how long, and the answers it holds
    cancelled  \* the cancellation token

priceVars == <<slotNow, market, network, today, tomorrow, loop, cancelled>>

\* The two days a request can be about, and the two buckets.
Asked == {"today", "tomorrow"}

NoAnswers == [d \in Asked |-> Nothing]
Waiting(n) == [at |-> "asleep", wait |-> n, day |-> 0, got |-> NoAnswers]
Asking     == [at |-> "ask", wait |-> 0, day |-> 0, got |-> NoAnswers]
Stopped    == [at |-> "stopped", wait |-> 0, day |-> 0, got |-> NoAnswers]

PriceTypeOK ==
    /\ slotNow \in 0..SlotsPerDay - 1
    /\ market \in [Asked -> Curves \cup {Nothing}]
    /\ network \in {"up", "flaky"}
    /\ today \in Buckets /\ tomorrow \in Buckets
    /\ today.day \in {-1, 0}
    /\ loop \in [at : {"asleep", "ask", "answered", "stopped"}, wait : 0..SlotsPerDay,
                 day : {-1, 0}, got : [Asked -> Curves \cup {Nothing}]]
    /\ cancelled \in BOOLEAN

PriceInit ==
    /\ slotNow \in 0..SlotsPerDay - 1
    /\ market \in [Asked -> Curves \cup {Nothing}]
    /\ network \in {"up", "flaky"}
    /\ today = Empty /\ tomorrow = Empty
    /\ loop = Asking
    /\ cancelled = FALSE

-----------------------------------------------------------------------------
(* The world: time, elpris, the network, the shutdown. *)

Aged(bucket) ==
    IF bucket.day = -1 \/ bucket = Empty THEN bucket
    ELSE Bucket(bucket.day - 1, bucket.curve)

\* An HTTP request does not outlive the slot after the one it was sent in
\* (main.rs's client gives up long before), and a sleep that is over ends.
MayPass ==
    \/ loop.at = "asleep" /\ loop.wait > 0
    \/ loop.at = "answered" /\ loop.wait = 0
    \/ loop.at = "stopped"

Midnight ==
    /\ market' = [market EXCEPT !["today"] = market["tomorrow"], !["tomorrow"] = Nothing]
    /\ today' = Aged(today)
    /\ tomorrow' = Aged(tomorrow)

Tick ==
    /\ MayPass
    /\ slotNow' = IF slotNow + 1 = SlotsPerDay THEN 0 ELSE slotNow + 1
    /\ loop' = CASE loop.at = "asleep"   -> [loop EXCEPT !.wait = @ - 1]
                 [] loop.at = "answered" -> [loop EXCEPT !.wait = 1,
                                              !.day = IF slotNow' = 0 THEN -1 ELSE @]
                 [] OTHER                -> loop
    /\ IF slotNow' = 0 THEN Midnight ELSE UNCHANGED <<market, today, tomorrow>>
    /\ UNCHANGED <<network, cancelled>>

Publish(d, curve) ==
    /\ market[d] = Nothing
    /\ market' = [market EXCEPT ![d] = curve]
    /\ UNCHANGED <<slotNow, network, today, tomorrow, loop, cancelled>>

NetworkChanges ==
    /\ network' = IF network = "up" THEN "flaky" ELSE "up"
    /\ UNCHANGED <<slotNow, market, today, tomorrow, loop, cancelled>>

Cancel ==
    /\ ~cancelled
    /\ cancelled' = TRUE
    /\ UNCHANGED <<slotNow, market, network, today, tomorrow, loop>>

-----------------------------------------------------------------------------
(* The loop. *)

\* Which answers the two requests, sent together, can bring.
Answers ==
    {got \in [Asked -> Curves \cup {Nothing}] :
        \A d \in Asked : got[d] = market[d] \/ (network = "flaky" /\ got[d] = Nothing)}

AskElpris ==
    /\ loop.at = "ask"
    /\ \E got \in Answers : loop' = [Asking EXCEPT !.at = "answered", !.got = got]
    /\ UNCHANGED <<slotNow, market, network, today, tomorrow, cancelled>>

\* Mutants of UntilFetch and Kept.
UntilFetchTomorrow == SlotsPerDay - slotNow + FetchSlot
KeptAsOfNow(bucket, curve, day) ==
    IF curve = Nothing THEN bucket ELSE Bucket(IF day = -1 THEN 0 ELSE day, curve)

\* next_fire_at_local_hour_in: strictly after now.
UntilFetch ==
    IF slotNow < FetchSlot THEN FetchSlot - slotNow ELSE SlotsPerDay - slotNow + FetchSlot

GivesUp == slotNow < FetchSlot \/ SlotsPerDay - slotNow <= 1

\* What is cached stays when the request for its bucket brought nothing.
Kept(bucket, curve, day) == IF curve = Nothing THEN bucket ELSE Bucket(day, curve)

AfterFetch ==
    IF (\A d \in Asked : loop.got[d] # Nothing) \/ GivesUp
    THEN Waiting(UntilFetch)
    ELSE Waiting(1)

TakeAnswers ==
    /\ loop.at = "answered"
    /\ today' = Kept(today, loop.got["today"], loop.day)
    /\ tomorrow' = Kept(tomorrow, loop.got["tomorrow"], loop.day + 1)
    /\ loop' = AfterFetch
    /\ UNCHANGED <<slotNow, market, network, cancelled>>

Wake ==
    /\ loop.at = "asleep" /\ loop.wait = 0 /\ ~cancelled
    /\ loop' = Asking
    /\ UNCHANGED <<slotNow, market, network, today, tomorrow, cancelled>>

\* cancellable_sleep looks at the token first.
Stop ==
    /\ loop.at = "asleep" /\ cancelled
    /\ loop' = Stopped
    /\ UNCHANGED <<slotNow, market, network, today, tomorrow, cancelled>>

PriceNext ==
    \/ Tick
    \/ \E d \in Asked, curve \in Curves : Publish(d, curve)
    \/ NetworkChanges
    \/ Cancel
    \/ AskElpris \/ TakeAnswers \/ Wake \/ Stop

\* Time passes, and the runtime polls a task that is ready.
PriceFairness == WF_priceVars(Tick) /\ WF_priceVars(AskElpris) /\ WF_priceVars(TakeAnswers)
            /\ WF_priceVars(Wake) /\ WF_priceVars(Stop)

PriceSpec == PriceInit /\ [][PriceNext]_priceVars /\ PriceFairness

-----------------------------------------------------------------------------
(* Properties. *)

Known == ToSet(Points(today)) \cup ToSet(Points(tomorrow))

\* From some moment on nothing fails and elpris publishes in time.
Healthy ==
    /\ network = "up" /\ ~cancelled
    /\ market["today"] # Nothing
    /\ slotNow >= FetchSlot => market["tomorrow"] # Nothing

\* PricesAreGenuine: a price filed under an hour of today or tomorrow is the one
\* published for that hour, though nobody rotates the buckets at midnight and an
\* answer asked for before midnight is filed after it (run_price_fetch_loop).
Genuine(bucket) ==
    /\ bucket.day = 1 => bucket.curve = market["tomorrow"]
    /\ bucket.day = 0 /\ bucket # Empty => bucket.curve = market["today"]

PricesAreGenuine == Genuine(today) /\ Genuine(tomorrow)

\* PricesComeBack: whatever was lost before, once requests succeed and elpris
\* publishes in time there is, from some moment on, always a price for now and
\* a day to serve (run_price_fetch_loop; no bucket is rotated at midnight).
PricesComeBack ==
    <>[]Healthy
        => <>[](/\ Current(today, tomorrow, slotNow) # Nothing
                /\ Served(today, tomorrow, slotNow) # Nothing)

\* The run that starts at instant s, read off the timeline of known prices and
\* not off the chain of buckets: whole slots without a gap, up to RunSlots.
CoverFrom(s) ==
    LET ends == {p.end : p \in {q \in Known : /\ q.end >= s + RunSlots
                                              /\ \A t \in s..q.end - 1 :
                                                   \E r \in Known : r.start <= t /\ t < r.end}}
    IN  IF ends = {} THEN Nothing ELSE Lowest(ends)

CostFrom(s) ==
    Total([p \in {q \in Known : s <= q.start /\ q.start < CoverFrom(s)} |-> Costs(p)])

Eligible == {p.start : p \in {q \in Known : InWindow(q, slotNow)
                                            /\ CoverFrom(q.start) # Nothing}}

\* The run a Blocking mode resumes into starts in the window and no gapless run
\* of the prices known costs less per hour, with buckets stale, doubled or a day
\* apart (cheapest_run_within).
RunPickIsCheapest ==
    LET pick == CheapestRunWithin(today, tomorrow, slotNow)
    IN  IF Eligible = {} THEN pick = Nothing
        ELSE /\ pick.start \in Eligible
             /\ pick.cost = CostFrom(pick.start) /\ pick.end = CoverFrom(pick.start)
             /\ \A s \in Eligible : pick.cost * (CoverFrom(s) - s)
                                      <= CostFrom(s) * Lasts(pick)

Shared(r, s) == \E t \in r.start..r.end - 1 : t \in s.start..s.end - 1

\* The picker's runs do not overlap, get dearer, and no cheaper run was left out
\* for another reason than an overlap or a full list (cheapest_runs_within).
CandidatesAreApart ==
    LET picks == CheapestRunsWithin(today, tomorrow, slotNow)
        runs  == RunsWithin(today, tomorrow, slotNow)
    IN  /\ \A i, j \in DOMAIN picks : i < j => /\ ~Shared(picks[i], picks[j])
                                               /\ ~Cheaper(picks[j], picks[i])
        /\ \A r \in runs :
              \/ \E i \in DOMAIN picks : ~Cheaper(r, picks[i])
                                         /\ (picks[i] = r \/ Shared(picks[i], r))
              \/ Len(picks) = Picks /\ ~Cheaper(r, Last(picks))

\* A LowPrice or Overcapacity mode is left when the first slot that is not cheap
\* starts, seen over the whole timeline, and never later than the window
\* (cheap_window_end).
BufferEndsWithCheapPrices ==
    LET near == {p \in Known : InWindow(p, slotNow)}
        dear == {p \in near : p.level \notin {"very_cheap", "cheap"}}
        ends == ResumeTarget("LowPrice", today, tomorrow, slotNow)
    IN  IF near = {} THEN ends = Nothing
        ELSE ends = Lowest({slotNow + Window} \cup {p.start : p \in dear})

\* ResumesFollowPrices: the resume that is proposed and those offered in the
\* picker are the cheapest gapless runs of the prices known, and the end of a
\* cheap mode is the end of the cheap prices (optimal_resume_target,
\* top_run_candidates).
ResumesFollowPrices ==
    RunPickIsCheapest /\ CandidatesAreApart /\ BufferEndsWithCheapPrices

\* TomorrowIsNotToday: the next day that is served starts where today ends.
TomorrowIsNotToday ==
    LET served == Served(today, tomorrow, slotNow)
    IN  served # Nothing =>
            \/ served.tomorrow = Empty
            \/ Points(served.tomorrow)[1].start = Last(Points(served.today)).end

\* BlipKeepsPrices: a fetch does not take the price of now away.
BlipKeepsPrices ==
    [][TakeAnswers /\ Current(today, tomorrow, slotNow) # Nothing
         => Current(today', tomorrow', slotNow) # Nothing]_priceVars
=============================================================================
