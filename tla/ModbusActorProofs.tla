-------------------------- MODULE ModbusActorProofs --------------------------
(***************************************************************************)
(* Proofs about ModbusActor: type correctness, that no call is lost or     *)
(* served twice, that the counters balance, that nothing is put on the bus *)
(* in vain, and that the actor implements RegisterService.  They rest on   *)
(* one inductive invariant: where a request may be (CallsInv), and what    *)
(* each stage knows of the request it serves (Fits).                       *)
(***************************************************************************)
EXTENDS ModbusActor, TLAPS

-----------------------------------------------------------------------------
(* Words. *)

\* What the unsigned comparison accepts is in range when the sign is applied.
LEMMA AcceptedInRange ==
    ASSUME NEW p \in Params, NEW w \in Word, Accepted(p, w)
    PROVE  InRange(p, w)
<1> DEFINE lo == Bounds[p].min
           hi == Bounds[p].max
<1>1. /\ lo \in Word /\ hi \in Word /\ Bounds[p].step \in Word
      /\ Half \in Nat \ {0} /\ ValueOf(p, lo) <= ValueOf(p, hi)
  BY RegistersAssumption
<1>2. /\ lo <= w /\ w <= hi /\ MultipleOf(w - lo, Bounds[p].step)
  BY DEF Accepted, WithinBounds
<1>3. /\ ValueOf(p, lo) <= ValueOf(p, w) /\ ValueOf(p, w) <= ValueOf(p, hi)
      /\ ValueOf(p, w) - ValueOf(p, lo) = w - lo
  <2> HIDE DEF lo, hi
  <2> QED
    BY <1>1, <1>2 DEF ValueOf, SignedWord, Word
<1> QED
  BY <1>2, <1>3 DEF InRange

\* With bounds on both sides of zero every value of a signed parameter is
\* refused, the least of the range too, against "Check if value is within range"
\* (modbus/actor.rs:1208): as words the minimum is above the maximum.
THEOREM StraddlingRefusesAll ==
    ASSUME NEW p \in Params \ Unsigned,
           ValueOf(p, Bounds[p].min) < 0, ValueOf(p, Bounds[p].max) >= 0
    PROVE  /\ \A w \in Word : ~Accepted(p, w)
           /\ InRange(p, Bounds[p].min)
<1>1. /\ Bounds[p].min \in Word /\ Bounds[p].max \in Word /\ Bounds[p].step \in Word
      /\ Half \in Nat \ {0} /\ ValueOf(p, Bounds[p].min) <= ValueOf(p, Bounds[p].max)
  BY RegistersAssumption
<1>2. Bounds[p].min >= Half /\ Bounds[p].max < Half
  BY <1>1 DEF ValueOf, SignedWord, Word
<1>3. \A w \in Word : ~Accepted(p, w)
  BY <1>1, <1>2 DEF Accepted, WithinBounds, Word
<1>4. MultipleOf(0, Bounds[p].step)
  BY <1>1 DEF MultipleOf, Word
<1>5. ValueOf(p, Bounds[p].min) - ValueOf(p, Bounds[p].min) = 0
  BY <1>1 DEF ValueOf, SignedWord, Word
<1>6. InRange(p, Bounds[p].min)
  <2>1. ValueOf(p, Bounds[p].min) <= ValueOf(p, Bounds[p].min)
    BY <1>1 DEF ValueOf, SignedWord, Word
  <2>2. MultipleOf(ValueOf(p, Bounds[p].min) - ValueOf(p, Bounds[p].min), Bounds[p].step)
    BY <1>4, <1>5
  <2> QED
    BY <1>1, <2>1, <2>2 DEF InRange
<1> QED
  BY <1>3, <1>6

\* A number a register can hold has a word.
LEMMA RawTyped ==
    ASSUME NEW p \in Params, NEW v \in Int, Representable(p, v)
    PROVE  RawValue(v) \in Word
  BY RegistersAssumption DEF Representable, RawValue, Word

LEMMA AskTyped ==
    ASSUME NEW a \in Asks
    PROVE  /\ a.op \in Operations /\ a.param \in Params /\ a.value \in Int
           /\ a.op = "rawWrite" => RawOf(a) \in Word
           /\ Access[a.param] \in {"R", "RW", "W"}
  BY RegistersAssumption DEF RawOf

-----------------------------------------------------------------------------
(* The inductive invariant. *)

\* What a stage knows of its request; out: its write may have gone out.
Fits(a, stage, out) ==
    /\ stage = "scan" => a.op \in {"read", "write", "visibility"} /\ ~out
    /\ stage = "bounds" =>
          Checked(a) /\ Representable(a.param, a.value) /\ RawOf(a) \in Word /\ ~out
    /\ stage = "write" =>
          /\ a.op = "write" /\ Access[a.param] # "R"
          /\ Representable(a.param, a.value) /\ RawOf(a) \in Word
          /\ Access[a.param] = "RW" => InRange(a.param, RawOf(a))
    /\ stage = "verify" => Checked(a) /\ out
    /\ stage \in {"read", "rawRead", "rawWrite"} => a.op = stage

QueuedIsOpen == \A i \in 1..Len(queue) : req[queue[i]].pc \in {"waiting", "left"}

ServedIsOpen == Busy => req[job.r].pc \in {"waiting", "left"}

SentIsServed ==
    \A r \in sent : job.r = r \/ req[r].pc \in Results \cup {"left"}

CallsInv == WaitingHasOnePlace /\ QueuedIsOpen /\ ServedIsOpen /\ SentIsServed

StageInv == Busy => Fits(Current, job.stage, job.r \in sent)

ModbusInv == TypeOK /\ CallsInv /\ StageInv

-----------------------------------------------------------------------------
(* The stage lists. *)

LEMMA DispatchFits ==
    ASSUME NEW a \in Asks, NEW known \in BOOLEAN
    PROVE  LET d == Dispatch(a, known)
           IN  /\ d \in Stages \cup Results
               /\ d \in Stages => Fits(a, d, FALSE)
               /\ d = "ok" => a.op \notin {"write", "rawWrite"}
<1>1. a.op \in Operations /\ a.param \in Params /\ a.value \in Int
      /\ (a.op = "rawWrite" => RawOf(a) \in Word)
      /\ Access[a.param] \in {"R", "RW", "W"}
  BY AskTyped
<1>2. CASE a.op \in {"stats", "visibility", "rawRead", "rawWrite"}
  BY <1>1, <1>2 DEF Dispatch, Fits, Stages, Results, Refusals, Failures
<1>3. CASE a.op \in {"read", "write"} /\ IsHidden(a, known)
  BY <1>1, <1>3 DEF Dispatch, Fits, Stages, Results, Refusals, Failures
<1>4. CASE a.op = "read" /\ ~IsHidden(a, known)
  BY <1>1, <1>4 DEF Dispatch, Fits, Stages, Results, Refusals, Failures
<1>5. CASE a.op = "write" /\ ~IsHidden(a, known)
  <2>1. Representable(a.param, a.value) => RawOf(a) \in Word
    BY <1>1, <1>5, RawTyped DEF RawOf
  <2>2. Dispatch(a, known) =
           IF Access[a.param] = "R" THEN "readOnly"
           ELSE IF ~Representable(a.param, a.value) THEN "outOfRange"
           ELSE IF Access[a.param] = "W" THEN "write" ELSE "bounds"
    BY <1>5 DEF Dispatch
  <2> QED
    BY <1>1, <1>5, <2>1, <2>2 DEF Fits, Stages, Results, Refusals, Failures, Checked
<1> QED
  BY <1>1, <1>2, <1>3, <1>4, <1>5 DEF Operations

LEMMA SuccessFits ==
    ASSUME TypeOK, NEW a \in Asks, NEW stage \in Stages, NEW out \in BOOLEAN,
           Fits(a, stage, out)
    PROVE  LET n == AfterSuccess(a, stage)
               went == out \/ stage \in {"write", "rawWrite"}
           IN  /\ n \in Stages \cup Results
               /\ n \in Stages => Fits(a, n, went)
               /\ n \in Refusals => ~went
               /\ n = "ok" /\ a.op \in {"write", "rawWrite"} => went
               /\ n = "ok" /\ Checked(a) => stage = "verify" /\ reg[a.param] = RawOf(a)
<1> USE DEF Stages, Results, Refusals, Failures
<1>1. CASE stage = "scan"
  <2>1. AfterSuccess(a, stage) = Dispatch(a, TRUE) /\ ~out
    BY <1>1 DEF AfterSuccess, Fits
  <2> QED
    BY <1>1, <2>1, DispatchFits DEF Checked
<1>2. CASE stage = "bounds"
  <2>1. Checked(a) /\ RawOf(a) \in Word /\ ~out
    BY <1>2 DEF Fits
  <2>2. a.param \in Params
    BY AskTyped
  <2>3. Accepted(a.param, RawOf(a)) => InRange(a.param, RawOf(a))
    BY <2>1, <2>2, AcceptedInRange
  <2>4. AfterSuccess(a, stage) \in {"outOfRange", "invalidStep", "write"}
        /\ (AfterSuccess(a, stage) = "write" => Accepted(a.param, RawOf(a)))
    BY <1>2 DEF AfterSuccess
  <2> QED
    BY <1>2, <2>1, <2>3, <2>4 DEF Fits, Checked
<1>3. CASE stage = "write"
  <2>1. a.op = "write" /\ Access[a.param] \in {"RW", "W"}
    BY <1>3, AskTyped DEF Fits
  <2> QED
    BY <1>3, <2>1 DEF Fits, Checked, AfterSuccess
<1>4. CASE stage = "verify"
  BY <1>4 DEF Fits, Checked, AfterSuccess
<1>5. CASE stage \in {"read", "rawRead", "rawWrite"}
  BY <1>5 DEF Fits, Checked, AfterSuccess
<1> QED
  BY <1>1, <1>2, <1>3, <1>4, <1>5

LEMMA FailureFits ==
    ASSUME NEW a \in Asks, NEW stage \in Stages, NEW out \in BOOLEAN,
           Fits(a, stage, out)
    PROVE  LET n == AfterFailure(a, stage)
           IN  /\ n \in Stages \cup Results
               /\ n \in Stages => Fits(a, n, out) /\ stage = "scan"
               /\ n \in Refusals => ~out /\ stage = "scan"
               /\ n = "ok" => a.op \notin {"write", "rawWrite"} /\ stage = "scan"
<1>1. CASE stage = "scan"
  <2>1. AfterFailure(a, stage) = Dispatch(a, FALSE) /\ ~out
    BY <1>1 DEF AfterFailure, Fits
  <2> QED
    BY <1>1, <2>1, DispatchFits
<1>2. CASE stage # "scan"
  BY <1>2 DEF AfterFailure, Stages, Results, Refusals, Failures
<1> QED
  BY <1>1, <1>2

-----------------------------------------------------------------------------
(* Steps of the queue and of the job. *)

LEMMA HeadTail ==
    ASSUME NEW S, NEW s \in Seq(S), s # <<>>
    PROVE  /\ Tail(s) \in Seq(S) /\ Head(s) \in S /\ Head(s) = s[1]
           /\ Len(s) \in Nat \ {0} /\ Len(Tail(s)) = Len(s) - 1
           /\ \A i \in 1..Len(Tail(s)) : i + 1 \in 1..Len(s) /\ Tail(s)[i] = s[i + 1]
           /\ \A i \in 1..Len(s) : i # 1 =>
                 i - 1 \in 1..Len(Tail(s)) /\ s[i] = Tail(s)[i - 1]
  OBVIOUS

LEMMA InitHolds == Init => ModbusInv
<1> SUFFICES ASSUME Init PROVE ModbusInv
  OBVIOUS
<1>1. NoAsk \in Asks /\ NoRequest \notin Requests
  BY ModbusAssumption DEF NoAsk
<1>2. limits \in Limits /\ queue = <<>> /\ sent = {} /\ job.r = NoRequest
  BY ModbusAssumption DEF Init, Limits, NoJob
<1>3. TypeOK
  BY <1>1, <1>2, ModbusAssumption DEF Init, TypeOK, NoJob, NoStats, Stages, Counters
<1>4. CallsInv
  BY <1>1, <1>2 DEF Init, CallsInv, WaitingHasOnePlace, QueuedIsOpen, ServedIsOpen,
                    SentIsServed, Busy
<1>5. StageInv
  BY <1>2 DEF StageInv, Busy
<1> QED
  BY <1>3, <1>4, <1>5 DEF ModbusInv

\* Where a request goes next leaves job and req typed.
LEMMA GoesTyped ==
    ASSUME TypeOK, NEW r \in Requests, NEW next \in Stages \cup Results, Goes(r, next)
    PROVE  /\ job' \in [r : Requests \cup {NoRequest}, stage : Stages, attempt : 0..MaxRetries]
           /\ req' \in [Requests -> [pc : {"idle", "sending", "waiting", "left"} \cup Results,
                                     ask : Asks]]
           /\ \A s \in Requests : req'[s].ask = req[s].ask
<1>1. CASE next \in Stages
  BY <1>1, ModbusAssumption DEF Goes, TypeOK
<1>2. CASE next \notin Stages
  <2>1. Reply(r, next) \in {"idle", "sending", "waiting", "left"} \cup Results
    BY <1>2 DEF Reply, TypeOK
  <2>2. job' = NoJob /\ req' = [req EXCEPT ![r].pc = Reply(r, next)]
    BY <1>2 DEF Goes
  <2> QED
    BY <2>1, <2>2, ModbusAssumption DEF TypeOK, NoJob, Stages
<1> QED
  BY <1>1, <1>2

\* The places of the requests after a request r, open and off the channel,
\* has moved on.
LEMMA GoesCalls ==
    ASSUME TypeOK, CallsInv, NEW r \in Requests, NEW next \in Stages \cup Results,
           Goes(r, next),
           req[r].pc \in {"waiting", "left"}, job.r \in {r, NoRequest},
           \A i \in 1..Len(queue') : queue'[i] # r /\ queue'[i] \in Requests,
           \A i, j \in 1..Len(queue') : queue'[i] = queue'[j] => i = j,
           \A i \in 1..Len(queue') : \E j \in 1..Len(queue) : queue'[i] = queue[j],
           \A j \in 1..Len(queue) : queue[j] = r \/ \E i \in 1..Len(queue') : queue'[i] = queue[j],
           sent' \subseteq sent \cup {r}, sent \subseteq Requests
    PROVE  CallsInv'
<1> USE ModbusAssumption
<1>1. job'.r \in {r, NoRequest} /\ (job'.r = r \/ req'[r].pc \in Results \cup {"left"})
  BY DEF Goes, NoJob, TypeOK, Reply
<1>2. \A s \in Requests : s # r => req'[s].pc = req[s].pc
  BY DEF Goes, TypeOK
<1>3. job'.r = r => req'[r].pc = req[r].pc
  BY DEF Goes, NoJob
<1>4. WaitingHasOnePlace'
  <2>1. \A i \in 1..Len(queue') : queue'[i] # job'.r
    BY <1>1
  <2>2. ASSUME NEW s \in Requests, req'[s].pc = "waiting"
        PROVE  job'.r = s \/ \E i \in 1..Len(queue') : queue'[i] = s
    <3>1. CASE s = r
      BY <1>1, <2>2, <3>1 DEF Results, Refusals, Failures
    <3>2. CASE s # r
      <4>1. req[s].pc = "waiting" /\ job.r # s
        BY <1>2, <2>2, <3>2
      <4>2. PICK j \in 1..Len(queue) : queue[j] = s
        BY <4>1 DEF CallsInv, WaitingHasOnePlace
      <4> QED
        BY <3>2, <4>2
    <3> QED
      BY <3>1, <3>2
  <2> QED
    BY <2>1, <2>2 DEF WaitingHasOnePlace
<1>5. QueuedIsOpen'
  <2> SUFFICES ASSUME NEW i \in 1..Len(queue')
               PROVE  req'[queue'[i]].pc \in {"waiting", "left"}
    BY DEF QueuedIsOpen
  <2>1. PICK j \in 1..Len(queue) : queue'[i] = queue[j]
    OBVIOUS
  <2> QED
    BY <1>2, <2>1 DEF CallsInv, QueuedIsOpen
<1>6. ServedIsOpen'
  BY <1>1, <1>3 DEF ServedIsOpen, Busy
<1>7. SentIsServed'
  <2> SUFFICES ASSUME NEW s \in sent'
               PROVE  job'.r = s \/ req'[s].pc \in Results \cup {"left"}
    BY DEF SentIsServed
  <2>1. CASE s = r
    BY <1>1, <2>1
  <2>2. CASE s # r
    <3>1. s \in sent /\ s \in Requests /\ job.r # s
      BY <2>2
    <3>2. req[s].pc \in Results \cup {"left"}
      BY <3>1 DEF CallsInv, SentIsServed
    <3> QED
      BY <1>2, <2>2, <3>1, <3>2
  <2> QED
    BY <2>1, <2>2
<1> QED
  BY <1>4, <1>5, <1>6, <1>7 DEF CallsInv

\* A stage that follows fits, as far as the request's write is concerned.
LEMMA GoesFits ==
    ASSUME TypeOK, NEW r \in Requests, NEW next, Goes(r, next), TypeOK',
           next \in Stages => Fits(req[r].ask, next, r \in sent')
    PROVE  StageInv'
<1>1. CASE next \in Stages
  <2>1. job'.r = r /\ job'.stage = next /\ req' = req
    BY <1>1 DEF Goes
  <2> QED
    BY <1>1, <2>1 DEF StageInv, Current
<1>2. CASE next \notin Stages
  BY <1>2 DEF Goes, NoJob, StageInv, Busy
<1> QED
  BY <1>1, <1>2

\* The counters stay numbers, one by one and then together.
LEMMA CounterSet ==
    ASSUME NEW c \in Counters, NEW n \in Nat
    PROVE  /\ [c EXCEPT !.ops = n] \in Counters /\ [c EXCEPT !.skips = n] \in Counters
           /\ [c EXCEPT !.wire = n] \in Counters /\ [c EXCEPT !.retries = n] \in Counters
           /\ [c EXCEPT !.errors = n] \in Counters /\ [c EXCEPT !.failures = n] \in Counters
  BY DEF Counters

LEMMA CountersTyped ==
    ASSUME stats \in Counters, NEW last \in BOOLEAN
    PROVE  /\ CountSuccess \in Counters /\ CountError(last) \in Counters
           /\ NoStats \in Counters
           /\ [stats EXCEPT !.ops = @ + 1, !.skips = @ + 1] \in Counters
<1> DEFINE n == IF last THEN 1 ELSE 0
<1>1. /\ stats.ops + 1 \in Nat /\ stats.skips + 1 \in Nat /\ stats.wire + 1 \in Nat
      /\ stats.retries + Retried \in Nat /\ stats.errors + 1 \in Nat
      /\ stats.failures + n \in Nat
  BY DEF Retried, Counters
<1>2. CountSuccess \in Counters
  <2> DEFINE a == [stats EXCEPT !.ops = stats.ops + 1]
             b == [a EXCEPT !.wire = stats.wire + 1]
             c == [b EXCEPT !.retries = stats.retries + Retried]
  <2>1. CountSuccess = c
    BY DEF CountSuccess, Counters
  <2>2. a \in Counters
    BY <1>1, CounterSet
  <2>3. b \in Counters
    BY <1>1, <2>2, CounterSet
  <2>4. c \in Counters
    BY <1>1, <2>3, CounterSet
  <2> QED
    BY <2>1, <2>4
<1>3. CountError(last) \in Counters
  <2> DEFINE a == [stats EXCEPT !.wire = stats.wire + 1]
             b == [a EXCEPT !.retries = stats.retries + Retried]
             c == [b EXCEPT !.errors = stats.errors + 1]
             d == [c EXCEPT !.failures = stats.failures + n]
  <2>1. CountError(last) = d
    BY DEF CountError, Counters
  <2>2. a \in Counters
    BY <1>1, CounterSet
  <2>3. b \in Counters
    BY <1>1, <2>2, CounterSet
  <2>4. c \in Counters
    BY <1>1, <2>3, CounterSet
  <2>5. d \in Counters
    BY <1>1, <2>4, CounterSet
  <2> QED
    BY <2>1, <2>5
<1>4. NoStats \in Counters
  BY DEF NoStats, Counters
<1>5. [stats EXCEPT !.ops = @ + 1, !.skips = @ + 1] \in Counters
  <2> DEFINE a == [stats EXCEPT !.ops = stats.ops + 1]
             b == [a EXCEPT !.skips = stats.skips + 1]
  <2>1. [stats EXCEPT !.ops = @ + 1, !.skips = @ + 1] = b
    BY DEF Counters
  <2>2. a \in Counters
    BY <1>1, CounterSet
  <2>3. b \in Counters
    BY <1>1, <2>2, CounterSet
  <2> QED
    BY <2>1, <2>3
<1> QED
  BY <1>2, <1>3, <1>4, <1>5

LEMMA LimitsTyped ==
    ASSUME limits \in Limits
    PROVE  /\ limits.panics > 0 => [limits EXCEPT !.panics = @ - 1] \in Limits
           /\ limits.opens > 0 => [limits EXCEPT !.opens = @ - 1] \in Limits
           /\ limits.display > 0 => [limits EXCEPT !.display = @ - 1] \in Limits
  BY ModbusAssumption DEF Limits

-----------------------------------------------------------------------------
(* The actor's own steps, each from the lemmas above. *)

\* A request that moves on leaves everything typed.
LEMMA Typed ==
    ASSUME TypeOK, reg' \in [Params -> Word], sent' \subseteq Requests,
           queue' \in Seq(Requests), cache' \in {"none", "known"},
           port' \in {"closed", "open"}, stats' \in Counters, limits' \in Limits,
           NEW r \in Requests, NEW next \in Stages \cup Results, Goes(r, next)
    PROVE  TypeOK'
<1>1. /\ job' \in [r : Requests \cup {NoRequest}, stage : Stages, attempt : 0..MaxRetries]
      /\ req' \in [Requests -> [pc : {"idle", "sending", "waiting", "left"} \cup Results,
                                ask : Asks]]
  BY GoesTyped
<1> QED
  BY <1>1 DEF TypeOK

\* The word that lands is a word.
LEMMA LandTyped ==
    ASSUME ModbusInv, Busy, Lands \/ UNCHANGED reg
    PROVE  reg' \in [Params -> Word]
<1>1. job.r \in Requests /\ Current \in Asks /\ reg \in [Params -> Word]
  BY DEF ModbusInv, TypeOK, Busy, Current
<1>2. CASE UNCHANGED reg
  BY <1>1, <1>2
<1>3. CASE Lands
  <2>1. job.stage \in {"write", "rawWrite"}
    BY <1>3 DEF Lands, Writing
  <2>2. RawOf(Current) \in Word
    BY <1>1, <2>1, AskTyped DEF ModbusInv, StageInv, Fits
  <2>3. reg' = [reg EXCEPT ![Current.param] = RawOf(Current)]
    BY <1>3 DEF Lands
  <2> HIDE DEF Current
  <2> QED
    BY <1>1, <2>2, <2>3
<1> QED
  BY <1>2, <1>3

\* The channel after its first request was taken.
LEMMA TakeQueue ==
    ASSUME queue \in Seq(Requests), queue # <<>>, queue' = Tail(queue), WaitingHasOnePlace
    PROVE  /\ queue' \in Seq(Requests) /\ Head(queue) \in Requests
           /\ 1 \in 1..Len(queue) /\ Head(queue) = queue[1]
           /\ \A i \in 1..Len(queue') : queue'[i] # Head(queue) /\ queue'[i] \in Requests
           /\ \A i, j \in 1..Len(queue') : queue'[i] = queue'[j] => i = j
           /\ \A i \in 1..Len(queue') : \E j \in 1..Len(queue) : queue'[i] = queue[j]
           /\ \A j \in 1..Len(queue) : queue[j] = Head(queue)
                 \/ \E i \in 1..Len(queue') : queue'[i] = queue[j]
<1>1. /\ Tail(queue) \in Seq(Requests) /\ Head(queue) \in Requests
      /\ Head(queue) = queue[1]
      /\ Len(queue) \in Nat \ {0} /\ Len(Tail(queue)) = Len(queue) - 1
      /\ \A i \in 1..Len(Tail(queue)) :
            i + 1 \in 1..Len(queue) /\ Tail(queue)[i] = queue[i + 1]
      /\ \A i \in 1..Len(queue) : i # 1 =>
            i - 1 \in 1..Len(Tail(queue)) /\ queue[i] = Tail(queue)[i - 1]
  BY HeadTail
<1>2. \A i, j \in 1..Len(queue) : queue[i] = queue[j] => i = j
  BY DEF WaitingHasOnePlace
<1>3. \A i \in 1..Len(queue) : queue[i] \in Requests
  OBVIOUS
<1>4. \A i \in 1..Len(queue') : queue'[i] # Head(queue) /\ queue'[i] \in Requests
  BY <1>1, <1>2, <1>3
<1>5. \A i, j \in 1..Len(queue') : queue'[i] = queue'[j] => i = j
  BY <1>1, <1>2
<1>6. \A i \in 1..Len(queue') : \E j \in 1..Len(queue) : queue'[i] = queue[j]
  BY <1>1
<1>7. \A j \in 1..Len(queue) : queue[j] = Head(queue)
         \/ \E i \in 1..Len(queue') : queue'[i] = queue[j]
  BY <1>1
<1> QED
  BY <1>1, <1>4, <1>5, <1>6, <1>7

\* The first stage fits a request whose write has not gone out.
LEMMA FirstFits ==
    ASSUME TypeOK, NEW a \in Asks
    PROVE  LET d == FirstStage(a)
           IN  /\ d \in Stages \cup Results
               /\ d \in Stages => Fits(a, d, FALSE)
               /\ d = "ok" => a.op \notin {"write", "rawWrite"}
<1>1. CASE cache = "none" /\ a.op \in {"read", "write", "visibility"}
  BY <1>1 DEF FirstStage, Stages, Fits
<1>2. CASE ~(cache = "none" /\ a.op \in {"read", "write", "visibility"})
  <2>1. FirstStage(a) = Dispatch(a, TRUE)
    BY <1>2 DEF FirstStage
  <2> QED
    BY <2>1, DispatchFits
<1> QED
  BY <1>1, <1>2

\* What is known of the request that is taken.
LEMMA TakeFacts ==
    ASSUME ModbusInv, Takes, ~Closed(Head(queue))
    PROVE  /\ Head(queue) \in Requests /\ req[Head(queue)].ask \in Asks
           /\ req[Head(queue)].pc = "waiting" /\ Head(queue) \notin sent
           /\ job.r = NoRequest
<1>1. TypeOK /\ queue \in Seq(Requests) /\ queue # <<>> /\ queue' = Tail(queue)
      /\ job.r = NoRequest /\ WaitingHasOnePlace /\ NoRequest \notin Requests
  BY ModbusAssumption DEF Takes, Busy, ModbusInv, TypeOK, CallsInv
<1>2. Head(queue) \in Requests /\ 1 \in 1..Len(queue) /\ Head(queue) = queue[1]
  BY <1>1, TakeQueue
<1>3. req[Head(queue)].pc = "waiting"
  BY <1>2 DEF ModbusInv, CallsInv, QueuedIsOpen, Closed
<1>4. Head(queue) \notin sent
  BY <1>1, <1>2, <1>3 DEF ModbusInv, CallsInv, SentIsServed, Results, Refusals, Failures
<1> QED
  BY <1>1, <1>2, <1>3, <1>4 DEF TypeOK

LEMMA TakeKeeps == ModbusInv /\ Take => ModbusInv'
<1> SUFFICES ASSUME ModbusInv, Take PROVE ModbusInv'
  OBVIOUS
<1> DEFINE r == Head(queue)
           next == FirstStage(req[r].ask)
<1>1. /\ TypeOK /\ CallsInv /\ Takes /\ ~Closed(r) /\ Goes(r, next)
      /\ UNCHANGED <<reg, sent, cache, port, stats, limits>>
  BY DEF Take, ModbusInv
<1>2. /\ r \in Requests /\ req[r].ask \in Asks /\ req[r].pc = "waiting" /\ r \notin sent
      /\ job.r = NoRequest
  BY <1>1, TakeFacts
<1>3. next \in Stages \cup Results /\ (next \in Stages => Fits(req[r].ask, next, FALSE))
  BY <1>1, <1>2, FirstFits
<1>4. queue \in Seq(Requests) /\ queue # <<>> /\ queue' = Tail(queue) /\ WaitingHasOnePlace
  BY <1>1 DEF Takes, TypeOK, CallsInv
<1>5. /\ queue' \in Seq(Requests)
      /\ \A i \in 1..Len(queue') : queue'[i] # r /\ queue'[i] \in Requests
      /\ \A i, j \in 1..Len(queue') : queue'[i] = queue'[j] => i = j
      /\ \A i \in 1..Len(queue') : \E j \in 1..Len(queue) : queue'[i] = queue[j]
      /\ \A j \in 1..Len(queue) : queue[j] = r
            \/ \E i \in 1..Len(queue') : queue'[i] = queue[j]
  BY <1>4, TakeQueue
<1> HIDE DEF r, next
<1>6. TypeOK'
  BY <1>1, <1>2, <1>3, <1>5, Typed DEF TypeOK
<1>7. CallsInv'
  BY <1>1, <1>2, <1>3, <1>5, GoesCalls DEF TypeOK
<1>8. next \in Stages => Fits(req[r].ask, next, r \in sent')
  BY <1>1, <1>2, <1>3 DEF Fits
<1>9. StageInv'
  BY <1>1, <1>2, <1>6, <1>8, GoesFits
<1> QED
  BY <1>6, <1>7, <1>9 DEF ModbusInv

LEMMA SkipKeeps == ModbusInv /\ Skip => ModbusInv'
<1> SUFFICES ASSUME ModbusInv, Skip PROVE ModbusInv'
  OBVIOUS
<1>1. /\ TypeOK /\ queue \in Seq(Requests) /\ queue # <<>> /\ queue' = Tail(queue)
      /\ WaitingHasOnePlace /\ req[Head(queue)].pc = "left"
      /\ stats' = [stats EXCEPT !.ops = @ + 1, !.skips = @ + 1]
      /\ UNCHANGED <<reg, req, sent, job, cache, port, limits>>
  BY DEF Skip, Takes, Closed, ModbusInv, TypeOK, CallsInv
<1>2. /\ queue' \in Seq(Requests) /\ Head(queue) \in Requests
      /\ \A i, j \in 1..Len(queue') : queue'[i] = queue'[j] => i = j
      /\ \A i \in 1..Len(queue') : \E j \in 1..Len(queue) : queue'[i] = queue[j]
      /\ \A j \in 1..Len(queue) : queue[j] = Head(queue)
            \/ \E i \in 1..Len(queue') : queue'[i] = queue[j]
  BY <1>1, TakeQueue
<1>3. stats' \in Counters
  BY <1>1, CountersTyped DEF TypeOK
<1>4. TypeOK'
  BY <1>1, <1>2, <1>3 DEF TypeOK
<1>5. WaitingHasOnePlace'
  <2>1. ASSUME NEW s \in Requests, req[s].pc = "waiting", job.r # s
        PROVE  \E i \in 1..Len(queue') : queue'[i] = s
    <3>1. PICK j \in 1..Len(queue) : queue[j] = s
      BY <1>1, <2>1 DEF WaitingHasOnePlace
    <3>2. s # Head(queue)
      BY <1>1, <2>1
    <3> QED
      BY <1>2, <3>1, <3>2
  <2>2. \A i \in 1..Len(queue') : queue'[i] # job.r
    BY <1>1, <1>2 DEF WaitingHasOnePlace
  <2> QED
    BY <1>1, <1>2, <2>1, <2>2 DEF WaitingHasOnePlace
<1>6. QueuedIsOpen'
  BY <1>1, <1>2 DEF ModbusInv, CallsInv, QueuedIsOpen
<1>7. ServedIsOpen' /\ SentIsServed' /\ StageInv'
  BY <1>1 DEF ModbusInv, CallsInv, ServedIsOpen, SentIsServed, StageInv, Busy, Current
<1> QED
  BY <1>4, <1>5, <1>6, <1>7 DEF ModbusInv, CallsInv

\* What is known of the request under service.
LEMMA BusyFacts ==
    ASSUME ModbusInv, Busy
    PROVE  /\ job.r \in Requests /\ Current \in Asks /\ job.stage \in Stages
           /\ job.attempt \in 0..MaxRetries /\ job.r # NoRequest
           /\ req[job.r].pc \in {"waiting", "left"}
           /\ Fits(Current, job.stage, job.r \in sent)
  BY DEF ModbusInv, TypeOK, CallsInv, ServedIsOpen, StageInv, Busy, Current

\* The request under service is not in the channel, which it leaves alone.
LEMMA StayQueue ==
    ASSUME ModbusInv, UNCHANGED queue
    PROVE  /\ queue' \in Seq(Requests)
           /\ \A i \in 1..Len(queue') : queue'[i] # job.r /\ queue'[i] \in Requests
           /\ \A i, j \in 1..Len(queue') : queue'[i] = queue'[j] => i = j
           /\ \A i \in 1..Len(queue') : \E j \in 1..Len(queue) : queue'[i] = queue[j]
           /\ \A j \in 1..Len(queue) : queue[j] = job.r
                 \/ \E i \in 1..Len(queue') : queue'[i] = queue[j]
<1>1. queue \in Seq(Requests) /\ WaitingHasOnePlace
  BY DEF ModbusInv, TypeOK, CallsInv
<1>2. \A i \in 1..Len(queue) : queue[i] \in Requests
  BY <1>1
<1> QED
  BY <1>1, <1>2 DEF WaitingHasOnePlace

LEMMA SucceedsKeeps == ModbusInv /\ Succeeds => ModbusInv'
<1> SUFFICES ASSUME ModbusInv, Succeeds PROVE ModbusInv'
  OBVIOUS
<1> DEFINE r == job.r
           next == AfterSuccess(Current, job.stage)
<1>1. /\ TypeOK /\ CallsInv /\ Busy /\ (Lands \/ UNCHANGED reg) /\ NotesSent
      /\ stats' = CountSuccess /\ cache' = (IF job.stage = "scan" THEN "known" ELSE cache)
      /\ Goes(r, next) /\ UNCHANGED <<queue, port, limits>>
  BY DEF Succeeds, ModbusInv
<1>2. /\ r \in Requests /\ Current \in Asks /\ job.stage \in Stages
      /\ req[r].pc \in {"waiting", "left"} /\ Fits(Current, job.stage, r \in sent)
      /\ Current = req[r].ask
  BY <1>1, BusyFacts DEF Current
<1>3. /\ next \in Stages \cup Results
      /\ next \in Stages => Fits(Current, next, r \in sent \/ job.stage \in {"write", "rawWrite"})
  <2> DEFINE out == r \in sent
             a == Current
  <2>1. out \in BOOLEAN /\ a \in Asks /\ Fits(a, job.stage, out)
    BY <1>2
  <2> HIDE DEF out, a
  <2>2. LET n == AfterSuccess(a, job.stage)
            went == out \/ job.stage \in {"write", "rawWrite"}
        IN  n \in Stages \cup Results /\ (n \in Stages => Fits(a, n, went))
    BY <1>1, <1>2, <2>1, SuccessFits
  <2> QED
    BY <2>2 DEF out, a
<1>4. reg' \in [Params -> Word] /\ stats' \in Counters
  BY <1>1, LandTyped, CountersTyped DEF TypeOK
<1>5. /\ sent' \subseteq sent \cup {r} /\ sent' \subseteq Requests
      /\ (r \in sent') = (r \in sent \/ job.stage \in {"write", "rawWrite"})
  BY <1>1, <1>2 DEF NotesSent, Writing, TypeOK
<1>6. /\ queue' \in Seq(Requests)
      /\ \A i \in 1..Len(queue') : queue'[i] # r /\ queue'[i] \in Requests
      /\ \A i, j \in 1..Len(queue') : queue'[i] = queue'[j] => i = j
      /\ \A i \in 1..Len(queue') : \E j \in 1..Len(queue) : queue'[i] = queue[j]
      /\ \A j \in 1..Len(queue) : queue[j] = r
            \/ \E i \in 1..Len(queue') : queue'[i] = queue[j]
  BY <1>1, StayQueue
<1>7. next \in Stages => Fits(req[r].ask, next, r \in sent')
  BY <1>2, <1>3, <1>5
<1> HIDE DEF next
<1>8. TypeOK'
  BY <1>1, <1>2, <1>3, <1>4, <1>5, <1>6, Typed DEF TypeOK
<1>9. CallsInv'
  BY <1>1, <1>2, <1>3, <1>5, <1>6, GoesCalls DEF TypeOK
<1>10. StageInv'
  BY <1>1, <1>2, <1>7, <1>8, GoesFits
<1> QED
  BY <1>8, <1>9, <1>10 DEF ModbusInv

LEMMA FailsKeeps == ASSUME ModbusInv, NEW fault, Fails(fault) PROVE ModbusInv'
<1> DEFINE r == job.r
           next == AfterFailure(Current, job.stage)
           last == IsLast(fault)
<1>1. /\ TypeOK /\ CallsInv /\ Busy /\ (Lands \/ UNCHANGED reg) /\ NotesSent
      /\ stats' = CountError(last)
      /\ IF last THEN Goes(r, next)
         ELSE job' = [job EXCEPT !.attempt = @ + 1] /\ UNCHANGED req
      /\ UNCHANGED <<queue, cache, port, limits>>
  BY DEF Fails, ModbusInv
<1>2. /\ r \in Requests /\ Current \in Asks /\ job.stage \in Stages
      /\ job.attempt \in 0..MaxRetries
      /\ req[r].pc \in {"waiting", "left"} /\ Fits(Current, job.stage, r \in sent)
      /\ Current = req[r].ask
  BY <1>1, BusyFacts DEF Current
<1>3. /\ next \in Stages \cup Results
      /\ next \in Stages => Fits(Current, next, r \in sent) /\ job.stage = "scan"
  <2> DEFINE out == r \in sent
             a == Current
  <2>1. out \in BOOLEAN /\ a \in Asks /\ Fits(a, job.stage, out)
    BY <1>2
  <2> HIDE DEF out, a
  <2>2. LET n == AfterFailure(a, job.stage)
        IN  /\ n \in Stages \cup Results
            /\ n \in Stages => Fits(a, n, out) /\ job.stage = "scan"
    BY <1>2, <2>1, FailureFits
  <2> QED
    BY <2>2 DEF out, a
<1>4. reg' \in [Params -> Word]
  BY <1>1, LandTyped
<1>5. stats' \in Counters
  <2>1. last \in BOOLEAN
    BY DEF IsLast
  <2> HIDE DEF last
  <2> QED
    BY <1>1, <2>1, CountersTyped DEF TypeOK
<1>6. /\ sent' \subseteq sent \cup {r} /\ sent \subseteq sent' /\ sent' \subseteq Requests
      /\ (r \in sent') = (r \in sent \/ job.stage \in {"write", "rawWrite"})
  BY <1>1, <1>2 DEF NotesSent, Writing, TypeOK
<1>7. /\ queue' \in Seq(Requests)
      /\ \A i \in 1..Len(queue') : queue'[i] # r /\ queue'[i] \in Requests
      /\ \A i, j \in 1..Len(queue') : queue'[i] = queue'[j] => i = j
      /\ \A i \in 1..Len(queue') : \E j \in 1..Len(queue) : queue'[i] = queue[j]
      /\ \A j \in 1..Len(queue) : queue[j] = r
            \/ \E i \in 1..Len(queue') : queue'[i] = queue[j]
  BY <1>1, StayQueue
<1>8. CASE last
  <2>1. Goes(r, next)
    BY <1>1, <1>8
  <2>2. next \in Stages => Fits(req[r].ask, next, r \in sent')
    BY <1>2, <1>3, <1>6
  <2> HIDE DEF next, last
  <2>3. TypeOK'
    BY <1>1, <1>2, <1>3, <1>4, <1>5, <1>6, <1>7, <2>1, Typed DEF TypeOK
  <2>4. CallsInv'
    BY <1>1, <1>2, <1>3, <1>6, <1>7, <2>1, GoesCalls DEF TypeOK
  <2>5. StageInv'
    BY <1>1, <1>2, <2>1, <2>2, <2>3, GoesFits
  <2> QED
    BY <2>3, <2>4, <2>5 DEF ModbusInv
<1>9. CASE ~last
  <2>1. job' = [job EXCEPT !.attempt = @ + 1] /\ UNCHANGED req
    BY <1>1, <1>9
  <2>2. job.attempt # MaxRetries
    BY <1>9 DEF IsLast
  <2>3. job.attempt + 1 \in 0..MaxRetries
    BY <1>2, <2>2, ModbusAssumption
  <2>4. job' \in [r : Requests \cup {NoRequest}, stage : Stages, attempt : 0..MaxRetries]
        /\ job'.r = r /\ job'.stage = job.stage
    BY <1>1, <2>1, <2>3 DEF TypeOK
  <2>5. TypeOK'
    BY <1>1, <1>4, <1>5, <1>6, <1>7, <2>1, <2>4 DEF TypeOK
  <2>6. CallsInv'
    BY <1>1, <1>6, <2>1, <2>4
       DEF CallsInv, WaitingHasOnePlace, QueuedIsOpen, ServedIsOpen, SentIsServed, Busy
  <2>7. Fits(Current, job.stage, r \in sent')
    BY <1>2, <1>6 DEF Fits
  <2>8. StageInv'
    BY <1>2, <2>1, <2>4, <2>7 DEF StageInv, Current
  <2> QED
    BY <2>5, <2>6, <2>8 DEF ModbusInv
<1> QED
  BY <1>8, <1>9

-----------------------------------------------------------------------------
(* Clients and supervisor. *)

LEMMA AskKeeps == ASSUME ModbusInv, NEW r \in Requests, Ask(r) PROVE ModbusInv'
<1>1. PICK a \in Asks : req' = [req EXCEPT ![r] = [pc |-> "sending", ask |-> a]]
  BY DEF Ask
<1>2. /\ TypeOK /\ CallsInv /\ StageInv /\ req[r].pc = "idle"
      /\ UNCHANGED <<reg, sent, queue, job, cache, port, stats, limits>>
  BY DEF Ask, ModbusInv
<1>3. /\ \A s \in Requests : s # r => req'[s] = req[s]
      /\ req'[r].pc = "sending"
  BY <1>1, <1>2 DEF TypeOK
<1>4. Busy => job.r # r /\ job.r \in Requests
  BY <1>2 DEF CallsInv, ServedIsOpen, Busy, TypeOK
<1>5. \A i \in 1..Len(queue) : queue[i] # r /\ queue[i] \in Requests
  <2>1. queue \in Seq(Requests)
    BY <1>2 DEF TypeOK
  <2> QED
    BY <1>2, <2>1 DEF CallsInv, QueuedIsOpen
<1>6. r \notin sent
  <2>1. job.r # r
    BY <1>4, ModbusAssumption DEF Busy
  <2>2. r \in sent => job.r = r \/ req[r].pc \in Results \cup {"left"}
    BY <1>2 DEF CallsInv, SentIsServed
  <2> QED
    BY <1>2, <2>1, <2>2 DEF Results, Refusals, Failures
<1>7. TypeOK'
  BY <1>1, <1>2 DEF TypeOK
<1>8. WaitingHasOnePlace'
  BY <1>2, <1>3 DEF CallsInv, WaitingHasOnePlace
<1>9. QueuedIsOpen' /\ ServedIsOpen' /\ SentIsServed'
  <2>1. QueuedIsOpen'
    BY <1>2, <1>3, <1>5 DEF CallsInv, QueuedIsOpen
  <2>2. ServedIsOpen'
    BY <1>2, <1>3, <1>4 DEF CallsInv, ServedIsOpen, Busy
  <2>3. SentIsServed'
    <3>1. sent \subseteq Requests
      BY <1>2 DEF TypeOK
    <3>2. \A s \in sent : job.r = s \/ req[s].pc \in Results \cup {"left"}
      BY <1>2 DEF CallsInv, SentIsServed
    <3> QED
      BY <1>2, <1>3, <1>6, <3>1, <3>2 DEF SentIsServed
  <2> QED
    BY <2>1, <2>2, <2>3
<1>10. StageInv'
  BY <1>2, <1>3, <1>4 DEF StageInv, Busy, Current
<1> QED
  BY <1>7, <1>8, <1>9, <1>10 DEF ModbusInv, CallsInv

LEMMA EnqueueKeeps == ASSUME ModbusInv, NEW r \in Requests, Enqueue(r) PROVE ModbusInv'
<1>1. /\ TypeOK /\ CallsInv /\ StageInv /\ req[r].pc = "sending"
      /\ queue \in Seq(Requests) /\ queue' = Append(queue, r)
      /\ req' = [req EXCEPT ![r].pc = "waiting"]
      /\ UNCHANGED <<reg, sent, job, cache, port, stats, limits>>
  BY DEF Enqueue, ModbusInv, TypeOK
<1>2. /\ \A s \in Requests : s # r => req'[s] = req[s]
      /\ req'[r].pc = "waiting" /\ req'[r].ask = req[r].ask
  BY <1>1 DEF TypeOK
<1>3. Busy => job.r # r /\ job.r \in Requests
  BY <1>1 DEF CallsInv, ServedIsOpen, Busy, TypeOK
<1>4. \A i \in 1..Len(queue) : queue[i] # r /\ queue[i] \in Requests
  BY <1>1 DEF CallsInv, QueuedIsOpen
<1>5. /\ queue' \in Seq(Requests) /\ Len(queue) \in Nat /\ Len(queue') = Len(queue) + 1
      /\ \A i \in 1..Len(queue) : i \in 1..Len(queue') /\ queue'[i] = queue[i]
      /\ Len(queue') \in 1..Len(queue') /\ queue'[Len(queue')] = r
      /\ \A i \in 1..Len(queue') : i \in 1..Len(queue) \/ i = Len(queue')
  BY <1>1
<1>6. job.r # r
  BY <1>3, ModbusAssumption DEF Busy
<1>7. r \notin sent
  <2>1. r \in sent => job.r = r \/ req[r].pc \in Results \cup {"left"}
    BY <1>1 DEF CallsInv, SentIsServed
  <2> QED
    BY <1>1, <1>6, <2>1 DEF Results, Refusals, Failures
<1>8. TypeOK'
  BY <1>1, <1>5 DEF TypeOK
<1>9. WaitingHasOnePlace'
  <2>1. \A i, j \in 1..Len(queue') : queue'[i] = queue'[j] => i = j
    BY <1>1, <1>4, <1>5 DEF CallsInv, WaitingHasOnePlace
  <2>2. \A i \in 1..Len(queue') : queue'[i] # job.r
    BY <1>1, <1>5, <1>6 DEF CallsInv, WaitingHasOnePlace
  <2>3. ASSUME NEW s \in Requests, req'[s].pc = "waiting", job.r # s
        PROVE  \E i \in 1..Len(queue') : queue'[i] = s
    <3>1. CASE s = r
      BY <1>5, <3>1
    <3>2. CASE s # r
      <4>1. PICK j \in 1..Len(queue) : queue[j] = s
        BY <1>1, <1>2, <2>3, <3>2 DEF CallsInv, WaitingHasOnePlace
      <4> QED
        BY <1>5, <4>1
    <3> QED
      BY <3>1, <3>2
  <2> QED
    BY <1>1, <2>1, <2>2, <2>3 DEF WaitingHasOnePlace
<1>10. QueuedIsOpen'
  <2> SUFFICES ASSUME NEW i \in 1..Len(queue')
               PROVE  req'[queue'[i]].pc \in {"waiting", "left"}
    BY DEF QueuedIsOpen
  <2> QED
    BY <1>1, <1>2, <1>4, <1>5 DEF CallsInv, QueuedIsOpen
<1>11. ServedIsOpen' /\ SentIsServed'
  <2>1. ServedIsOpen'
    BY <1>1, <1>2, <1>3 DEF CallsInv, ServedIsOpen, Busy
  <2>2. SentIsServed'
    <3>1. sent \subseteq Requests
      BY <1>1 DEF TypeOK
    <3>2. \A s \in sent : job.r = s \/ req[s].pc \in Results \cup {"left"}
      BY <1>1 DEF CallsInv, SentIsServed
    <3> QED
      BY <1>1, <1>2, <1>7, <3>1, <3>2 DEF SentIsServed
  <2> QED
    BY <2>1, <2>2
<1>12. StageInv'
  BY <1>1, <1>2, <1>3 DEF StageInv, Busy, Current
<1> QED
  BY <1>8, <1>9, <1>10, <1>11, <1>12 DEF ModbusInv, CallsInv

LEMMA LeaveKeeps == ASSUME ModbusInv, NEW r \in Requests, Leave(r) PROVE ModbusInv'
<1>1. /\ TypeOK /\ CallsInv /\ StageInv /\ queue \in Seq(Requests)
      /\ req' = [req EXCEPT ![r].pc = "left"]
      /\ UNCHANGED <<reg, sent, queue, job, cache, port, stats, limits>>
  BY DEF Leave, ModbusInv, TypeOK
<1>2. /\ \A s \in Requests : s # r => req'[s] = req[s]
      /\ req'[r].pc = "left" /\ req'[r].ask = req[r].ask
  BY <1>1 DEF TypeOK
<1>3. TypeOK'
  BY <1>1 DEF TypeOK
<1>4. WaitingHasOnePlace'
  BY <1>1, <1>2 DEF CallsInv, WaitingHasOnePlace
<1>5. QueuedIsOpen'
  <2>1. \A i \in 1..Len(queue) : queue[i] \in Requests
    BY <1>1
  <2> QED
    BY <1>1, <1>2, <2>1 DEF CallsInv, QueuedIsOpen
<1>6. ServedIsOpen' /\ SentIsServed'
  BY <1>1, <1>2 DEF CallsInv, ServedIsOpen, SentIsServed, Busy, TypeOK
<1>7. StageInv'
  BY <1>1, <1>2 DEF StageInv, Busy, Current, TypeOK
<1> QED
  BY <1>3, <1>4, <1>5, <1>6, <1>7 DEF ModbusInv, CallsInv

LEMMA PanicKeeps == ModbusInv /\ Panic => ModbusInv'
<1> SUFFICES ASSUME ModbusInv, Panic PROVE ModbusInv'
  OBVIOUS
<1>1. /\ TypeOK /\ CallsInv /\ queue \in Seq(Requests) /\ NoRequest \notin Requests
      /\ job' = NoJob /\ port' = "closed"
      /\ UNCHANGED <<reg, sent, queue, cache, stats>>
      /\ limits' = [limits EXCEPT !.panics = @ - 1] /\ limits.panics > 0
  BY ModbusAssumption DEF Panic, ModbusInv, TypeOK
<1>2. limits' \in Limits
  BY <1>1, LimitsTyped DEF TypeOK
<1>3. job' \in [r : Requests \cup {NoRequest}, stage : Stages, attempt : 0..MaxRetries]
      /\ job'.r = NoRequest
  BY <1>1, ModbusAssumption DEF NoJob, Stages
<1>4. StageInv' /\ ServedIsOpen'
  BY <1>3 DEF StageInv, ServedIsOpen, Busy
<1>5. \A i \in 1..Len(queue) : queue[i] \in Requests
  BY <1>1
<1>6. CASE Busy
  <2>1. /\ job.r \in Requests /\ req[job.r].pc \in {"waiting", "left"}
        /\ req' = [req EXCEPT ![job.r].pc = Reply(job.r, "dropped")]
    BY <1>6, BusyFacts DEF Panic
  <2>2. Reply(job.r, "dropped") \in {"left"} \cup Results
    BY <2>1 DEF Reply, Results, Failures
  <2>3. /\ \A s \in Requests : s # job.r => req'[s] = req[s]
        /\ req'[job.r].pc \in {"left"} \cup Results
        /\ req' \in [Requests -> [pc : {"idle", "sending", "waiting", "left"} \cup Results,
                                  ask : Asks]]
    BY <1>1, <2>1, <2>2 DEF TypeOK
  <2>4. TypeOK'
    BY <1>1, <1>2, <1>3, <2>3 DEF TypeOK
  <2>5. WaitingHasOnePlace'
    <3>1. \A i \in 1..Len(queue) : queue[i] # NoRequest
      BY <1>1, <1>5
    <3>2. ASSUME NEW s \in Requests, req'[s].pc = "waiting"
          PROVE  \E i \in 1..Len(queue) : queue[i] = s
      <4>1. s # job.r
        BY <2>3, <3>2 DEF Results, Refusals, Failures
      <4> QED
        BY <1>1, <2>3, <3>2, <4>1 DEF CallsInv, WaitingHasOnePlace
    <3> QED
      BY <1>1, <1>3, <3>1, <3>2 DEF CallsInv, WaitingHasOnePlace
  <2>6. QueuedIsOpen'
    BY <1>1, <1>5, <2>3 DEF CallsInv, QueuedIsOpen, WaitingHasOnePlace
  <2>7. SentIsServed'
    BY <1>1, <2>3 DEF CallsInv, SentIsServed, TypeOK
  <2> QED
    BY <1>4, <2>4, <2>5, <2>6, <2>7 DEF ModbusInv, CallsInv
<1>7. CASE ~Busy
  <2>1. UNCHANGED req /\ job.r = NoRequest
    BY <1>7 DEF Panic, Busy
  <2>2. TypeOK'
    BY <1>1, <1>2, <1>3, <2>1 DEF TypeOK
  <2>3. WaitingHasOnePlace' /\ QueuedIsOpen' /\ SentIsServed'
    BY <1>1, <1>3, <2>1 DEF CallsInv, WaitingHasOnePlace, QueuedIsOpen, SentIsServed
  <2> QED
    BY <1>4, <2>2, <2>3 DEF ModbusInv, CallsInv
<1> QED
  BY <1>6, <1>7

\* Steps that leave the calls and the job alone.
LEMMA QuietKeeps ==
    ASSUME ModbusInv, UNCHANGED <<req, sent, queue, job>>,
           reg' \in [Params -> Word], cache' \in {"none", "known"},
           port' \in {"closed", "open"}, stats' \in Counters, limits' \in Limits
    PROVE  ModbusInv'
<1>1. TypeOK'
  BY DEF ModbusInv, TypeOK
<1>2. CallsInv' /\ StageInv'
  BY DEF ModbusInv, CallsInv, WaitingHasOnePlace, QueuedIsOpen, ServedIsOpen,
         SentIsServed, StageInv, Busy, Current
<1> QED
  BY <1>1, <1>2 DEF ModbusInv

LEMMA StepHolds == ModbusInv /\ [Next]_vars => ModbusInv'
<1> SUFFICES ASSUME ModbusInv, [Next]_vars PROVE ModbusInv'
  OBVIOUS
<1>1. ASSUME NEW r \in Requests, Ask(r) \/ Enqueue(r) \/ Leave(r) PROVE ModbusInv'
  BY <1>1, AskKeeps, EnqueueKeeps, LeaveKeeps
<1>2. CASE Serves
  BY <1>2, SkipKeeps, TakeKeeps, SucceedsKeeps, FailsKeeps DEF Serves
<1>3. CASE Panic
  BY <1>3, PanicKeeps
<1>4. TypeOK
  BY DEF ModbusInv
<1>5. CASE Build
  <2>1. stats' \in Counters
    BY <1>4, <1>5, CountersTyped DEF Build, TypeOK
  <2> QED
    BY <1>4, <1>5, <2>1, QuietKeeps DEF Build, TypeOK
<1>6. CASE BuildFails
  <2>1. limits' \in Limits
    BY <1>4, <1>6, LimitsTyped DEF BuildFails, TypeOK
  <2> QED
    BY <1>4, <1>6, <2>1, QuietKeeps DEF BuildFails, TypeOK
<1>7. ASSUME NEW p \in Params, NEW w \in Word, DisplaySets(p, w) PROVE ModbusInv'
  <2>1. limits' \in Limits
    BY <1>4, <1>7, LimitsTyped DEF DisplaySets, TypeOK
  <2>2. reg' \in [Params -> Word]
    BY <1>4, <1>7 DEF DisplaySets, TypeOK
  <2> QED
    BY <1>4, <1>7, <2>1, <2>2, QuietKeeps DEF DisplaySets, TypeOK
<1>8. CASE UNCHANGED vars
  BY <1>4, <1>8, QuietKeeps DEF vars, TypeOK
<1> QED
  BY <1>1, <1>2, <1>3, <1>5, <1>6, <1>7, <1>8 DEF Next

(***************************************************************************)
(* The inductive invariant holds in every reachable state.                 *)
(***************************************************************************)
THEOREM InvCorrect == Spec => []ModbusInv
<1>1. ModbusInv /\ [Next]_vars => ModbusInv'
  BY StepHolds
<1> QED
  BY InitHolds, <1>1, PTL DEF Spec

(***************************************************************************)
(* Every reachable state is typed: the attempts stay within max_retries    *)
(* and every register holds a word, for all catalogues and bounds.         *)
(***************************************************************************)
THEOREM TypeCorrect == Spec => []TypeOK
<1>1. ModbusInv => TypeOK
  BY DEF ModbusInv
<1> QED
  BY InvCorrect, <1>1, PTL

(***************************************************************************)
(* No call is lost or served twice, whatever fails or panics.              *)
(***************************************************************************)
THEOREM WaitingCorrect == Spec => []WaitingHasOnePlace
<1>1. ModbusInv => WaitingHasOnePlace
  BY DEF ModbusInv, CallsInv
<1> QED
  BY InvCorrect, <1>1, PTL

-----------------------------------------------------------------------------
(* The telemetry of with_retry!.                                           *)

\* The counters of this actor balance up to the first attempt of a stage that
\* is still being retried; only a request under service is retried, and only
\* an actor serves one.
Pending == IF job.attempt > 0 THEN 1 ELSE 0

Balanced ==
    /\ port = "closed" => ~Busy
    /\ ~Busy => job.attempt = 0
    /\ port = "open" =>
          /\ stats.wire = (stats.ops - stats.skips) + stats.errors
          /\ stats.wire - stats.retries = (stats.ops - stats.skips) + stats.failures + Pending

\* Where a request goes, it starts with no failed attempt.
LEMMA GoesFresh ==
    ASSUME NEW r, NEW next, Goes(r, next) PROVE job'.attempt = 0
  BY DEF Goes, NoJob

\* The counters after a success and after an error.
LEMMA SuccessCounted ==
    ASSUME stats \in Counters, stats' = CountSuccess
    PROVE  /\ stats'.ops = stats.ops + 1 /\ stats'.skips = stats.skips
           /\ stats'.wire = stats.wire + 1 /\ stats'.retries = stats.retries + Pending
           /\ stats'.errors = stats.errors /\ stats'.failures = stats.failures
  BY DEF CountSuccess, Retried, Pending, Counters

LEMMA ErrorCounted ==
    ASSUME stats \in Counters, NEW last \in BOOLEAN, stats' = CountError(last)
    PROVE  /\ stats'.ops = stats.ops /\ stats'.skips = stats.skips
           /\ stats'.wire = stats.wire + 1 /\ stats'.retries = stats.retries + Pending
           /\ stats'.errors = stats.errors + 1
           /\ stats'.failures = stats.failures + IF last THEN 1 ELSE 0
<1> DEFINE n == IF last THEN 1 ELSE 0
<1>1. stats' = [stats EXCEPT !.wire = @ + 1, !.retries = @ + Pending, !.errors = @ + 1,
                             !.failures = @ + n]
  BY DEF CountError, Retried, Pending
<1> HIDE DEF n
<1>2. /\ stats'.ops = stats.ops /\ stats'.skips = stats.skips
      /\ stats'.wire = stats.wire + 1 /\ stats'.retries = stats.retries + Pending
      /\ stats'.errors = stats.errors + 1 /\ stats'.failures = stats.failures + n
  BY <1>1 DEF Counters
<1> QED
  BY <1>2 DEF n

LEMMA FieldsCounted ==
    ASSUME stats \in Counters
    PROVE  /\ stats.ops \in Nat /\ stats.skips \in Nat /\ stats.wire \in Nat
           /\ stats.retries \in Nat /\ stats.errors \in Nat /\ stats.failures \in Nat
  BY DEF Counters

LEMMA BalanceStep ==
    ASSUME TypeOK, Balanced, [Next]_vars PROVE Balanced'
<1>1. /\ stats \in Counters /\ port \in {"closed", "open"}
      /\ job.attempt \in Nat
  BY ModbusAssumption DEF TypeOK
<1>2. /\ stats.ops \in Nat /\ stats.skips \in Nat /\ stats.wire \in Nat
      /\ stats.retries \in Nat /\ stats.errors \in Nat /\ stats.failures \in Nat
  BY <1>1, FieldsCounted
<1>3. ASSUME UNCHANGED <<stats, job, port>> PROVE Balanced'
  BY <1>3 DEF Balanced, Pending, Busy
<1>4. CASE Skip
  <2>1. /\ stats'.ops = stats.ops + 1 /\ stats'.skips = stats.skips + 1
        /\ stats'.wire = stats.wire /\ stats'.retries = stats.retries
        /\ stats'.errors = stats.errors /\ stats'.failures = stats.failures
        /\ UNCHANGED <<job, port>>
    BY <1>1, <1>4 DEF Skip, Counters
  <2> QED
    BY <1>1, <1>2, <2>1 DEF Balanced, Pending, Busy
<1>5. CASE Take
  <2>1. job'.attempt = 0 /\ UNCHANGED <<stats, port>> /\ port = "open" /\ ~Busy
    BY <1>5, GoesFresh DEF Take, Takes
  <2> QED
    BY <1>1, <1>2, <2>1 DEF Balanced, Pending
<1>6. CASE Succeeds
  <2>1. /\ job'.attempt = 0 /\ port = "open" /\ UNCHANGED port
        /\ stats' = CountSuccess
    BY <1>6, GoesFresh DEF Succeeds
  <2>2. /\ stats'.ops = stats.ops + 1 /\ stats'.skips = stats.skips
        /\ stats'.wire = stats.wire + 1 /\ stats'.retries = stats.retries + Pending
        /\ stats'.errors = stats.errors /\ stats'.failures = stats.failures
    BY <1>1, <2>1, SuccessCounted
  <2> QED
    BY <1>1, <1>2, <2>1, <2>2 DEF Balanced, Pending
<1>7. ASSUME NEW fault, Fails(fault) PROVE Balanced'
  <2> DEFINE last == IsLast(fault)
  <2>1. /\ port = "open" /\ UNCHANGED port /\ stats' = CountError(last) /\ Busy
        /\ last => job'.attempt = 0
        /\ ~last => job'.attempt = job.attempt + 1 /\ job'.r = job.r
    <3>1. ~last => job' = [job EXCEPT !.attempt = @ + 1]
      BY <1>7 DEF Fails
    <3>2. ~last => job'.attempt = job.attempt + 1 /\ job'.r = job.r
      BY <3>1 DEF TypeOK
    <3>3. last => job'.attempt = 0
      BY <1>7, GoesFresh DEF Fails
    <3> QED
      BY <1>7, <3>2, <3>3 DEF Fails
  <2>2. last \in BOOLEAN
    BY DEF IsLast, IsTransient
  <2> HIDE DEF last
  <2>3. /\ stats'.ops = stats.ops /\ stats'.skips = stats.skips
        /\ stats'.wire = stats.wire + 1 /\ stats'.retries = stats.retries + Pending
        /\ stats'.errors = stats.errors + 1
        /\ stats'.failures = stats.failures + IF last THEN 1 ELSE 0
    BY <1>1, <2>1, <2>2, ErrorCounted
  <2> QED
    <3>1. job'.attempt = 0 \/ Busy'
      BY <2>1 DEF Busy
    <3>2. CASE last
      BY <1>1, <1>2, <2>1, <2>3, <3>1, <3>2 DEF Balanced, Pending
    <3>3. CASE ~last
      BY <1>1, <1>2, <2>1, <2>3, <3>1, <3>3 DEF Balanced, Pending
    <3> QED
      BY <3>2, <3>3
<1>8. CASE Panic
  BY <1>8 DEF Panic, NoJob, Balanced, Busy
<1>9. CASE Build
  BY <1>9 DEF Build, NoStats, Balanced, Pending, Busy
<1> QED
  BY <1>3, <1>4, <1>5, <1>6, <1>7, <1>8, <1>9
  DEF Next, Serves, Ask, Enqueue, Leave, BuildFails, DisplaySets, vars

(***************************************************************************)
(* The counters of an actor balance at every moment of its life: what went *)
(* out on the wire is a success or an error, and what is not a retry       *)
(* belongs to a stage that succeeded, failed or is still being tried.      *)
(***************************************************************************)
THEOREM TelemetryCorrect == Spec => []TelemetryBalances
<1>1. Init => Balanced
  BY DEF Init, NoJob, Balanced, Busy
<1>2. TypeOK /\ Balanced /\ [Next]_vars => Balanced'
  BY BalanceStep
<1>3. TypeOK /\ Balanced => TelemetryBalances
  <2> SUFFICES ASSUME TypeOK, Balanced PROVE TelemetryBalances
    OBVIOUS
  <2>1. /\ stats.ops \in Nat /\ stats.skips \in Nat /\ stats.failures \in Nat
    BY FieldsCounted DEF TypeOK
  <2> QED
    BY <2>1 DEF Balanced, Pending, TelemetryBalances
<1> QED
  BY TypeCorrect, <1>1, <1>2, <1>3, PTL DEF Spec

-----------------------------------------------------------------------------
(* Nothing is put on the bus in vain. *)

\* Where a request goes, it is under service or nobody's is.
LEMMA GoesPlace ==
    ASSUME NEW r, NEW next, Goes(r, next)
    PROVE  \/ job'.r = r /\ next \in Stages
           \/ job'.r = NoRequest
  BY DEF Goes, NoJob

LEMMA LeftStep ==
    ASSUME ModbusInv, [Next]_vars, NEW r \in Requests,
           req[r].pc = "left", job.r # r
    PROVE  job'.r # r
<1>1. NoRequest # r /\ TypeOK
  BY ModbusAssumption DEF ModbusInv
<1>2. CASE Take
  <2>1. Head(queue) # r /\ Goes(Head(queue), FirstStage(req[Head(queue)].ask))
    BY <1>2 DEF Take, Closed
  <2> QED
    BY <1>1, <2>1, GoesPlace
<1>3. CASE Succeeds
  <2>1. Goes(job.r, AfterSuccess(Current, job.stage))
    BY <1>3 DEF Succeeds
  <2> QED
    BY <1>1, <2>1, GoesPlace
<1>4. ASSUME NEW fault, Fails(fault) PROVE job'.r # r
  <2>1. \/ Goes(job.r, AfterFailure(Current, job.stage))
        \/ job' = [job EXCEPT !.attempt = @ + 1]
    BY <1>4 DEF Fails
  <2>2. job' = [job EXCEPT !.attempt = @ + 1] => job'.r = job.r
    BY <1>1 DEF TypeOK
  <2> QED
    BY <1>1, <2>1, <2>2, GoesPlace
<1>5. CASE Panic
  BY <1>1, <1>5 DEF Panic, NoJob
<1>6. CASE UNCHANGED job
  BY <1>6
<1> QED
  BY <1>2, <1>3, <1>4, <1>5, <1>6
  DEF Next, Serves, Ask, Enqueue, Leave, Skip, Build, BuildFails, DisplaySets, vars

\* A request that goes on with its question unchanged.
LEMMA GoesAsks ==
    ASSUME TypeOK, NEW r \in Requests, NEW next \in Stages \cup Results, Goes(r, next), Busy'
    PROVE  job'.r = r /\ next \in Stages /\ Current' = req[r].ask
<1>1. job'.r = r /\ next \in Stages
  BY GoesPlace DEF Busy
<1>2. req'[r].ask = req[r].ask
  BY GoesTyped
<1> QED
  BY <1>1, <1>2 DEF Current

LEMMA HiddenStep ==
    ASSUME ModbusInv, HiddenIsLeftAlone, [Next]_vars PROVE HiddenIsLeftAlone'
<1> SUFFICES ASSUME Busy', cache' = "known", Current'.op \in {"read", "write"}
             PROVE  Current'.param \notin Hidden
  BY DEF HiddenIsLeftAlone
<1>1. TypeOK
  BY DEF ModbusInv
<1>2. ASSUME UNCHANGED <<job, cache>>, Busy => Current' = Current
      PROVE  Current'.param \notin Hidden
  BY <1>2 DEF HiddenIsLeftAlone, Busy
<1>3. ASSUME NEW r \in Requests, Ask(r) PROVE Current'.param \notin Hidden
  <2>1. Busy => job.r # r /\ job.r \in Requests
    BY <1>3, BusyFacts DEF Ask
  <2>2. \A s \in Requests : s # r => req'[s] = req[s]
    BY <1>1, <1>3 DEF Ask, TypeOK
  <2> QED
    BY <1>2, <1>3, <2>1, <2>2 DEF Ask, Current
<1>4. ASSUME NEW r \in Requests, Enqueue(r) \/ Leave(r)
      PROVE  Current'.param \notin Hidden
  <2>1. Busy => job.r \in Requests
    BY BusyFacts
  <2>2. \A s \in Requests : req'[s].ask = req[s].ask
    BY <1>1, <1>4 DEF Enqueue, Leave, TypeOK
  <2> QED
    BY <1>2, <1>4, <2>1, <2>2 DEF Enqueue, Leave, Current
<1>5. CASE Take
  <2> DEFINE r == Head(queue)
             next == FirstStage(req[r].ask)
  <2>1. Takes /\ ~Closed(r) /\ Goes(r, next) /\ UNCHANGED cache
    BY <1>5 DEF Take
  <2>2. r \in Requests /\ req[r].ask \in Asks
    BY <2>1, TakeFacts
  <2>3. next \in Stages \cup Results
    BY <1>1, <2>2, FirstFits
  <2>4. next = Dispatch(req[r].ask, TRUE)
    BY <2>1 DEF FirstStage
  <2> HIDE DEF r, next
  <2>5. next \in Stages /\ Current' = req[r].ask
    BY <1>1, <2>1, <2>2, <2>3, GoesAsks
  <2>6. req[r].ask.op \in {"read", "write"}
    BY <2>5
  <2>7. req[r].ask.param \notin Hidden
    BY <2>4, <2>5, <2>6 DEF Dispatch, IsHidden, Stages
  <2> QED
    BY <2>5, <2>7
<1>6. CASE Succeeds
  <2> DEFINE r == job.r
             next == AfterSuccess(Current, job.stage)
  <2>1. /\ Busy /\ Goes(r, next)
        /\ cache' = IF job.stage = "scan" THEN "known" ELSE cache
    BY <1>6 DEF Succeeds
  <2>2. /\ r \in Requests /\ Current \in Asks /\ Current = req[r].ask
        /\ Fits(Current, job.stage, r \in sent) /\ job.stage \in Stages
    BY <2>1, BusyFacts DEF Current
  <2>3. next \in Stages \cup Results
    <3> DEFINE a == Current
               out == r \in sent
    <3>1. out \in BOOLEAN /\ a \in Asks /\ Fits(a, job.stage, out)
      BY <2>2
    <3> HIDE DEF out, a
    <3>2. AfterSuccess(a, job.stage) \in Stages \cup Results
      BY <1>1, <2>2, <3>1, SuccessFits
    <3> QED
      BY <3>2 DEF a
  <2>4. job.stage = "scan" => next = Dispatch(Current, TRUE)
    BY DEF AfterSuccess
  <2> HIDE DEF r, next
  <2>5. next \in Stages /\ Current' = Current
    BY <1>1, <2>1, <2>2, <2>3, GoesAsks
  <2>6. CASE job.stage = "scan"
    <3>1. Current.op \in {"read", "write"}
      BY <2>5
    <3>2. Current.param \notin Hidden
      BY <2>4, <2>5, <2>6, <3>1 DEF Dispatch, IsHidden, Stages
    <3> QED
      BY <2>5, <3>2
  <2>7. CASE job.stage # "scan"
    BY <2>1, <2>5, <2>7 DEF HiddenIsLeftAlone
  <2> QED
    BY <2>6, <2>7
<1>7. ASSUME NEW fault, Fails(fault) PROVE Current'.param \notin Hidden
  <2> DEFINE r == job.r
             next == AfterFailure(Current, job.stage)
  <2>1. /\ Busy /\ UNCHANGED cache
        /\ \/ Goes(r, next)
           \/ job' = [job EXCEPT !.attempt = @ + 1] /\ UNCHANGED req
    BY <1>7 DEF Fails
  <2>2. /\ r \in Requests /\ Current \in Asks /\ Current = req[r].ask
        /\ Fits(Current, job.stage, r \in sent) /\ job.stage \in Stages
    BY <2>1, BusyFacts DEF Current
  <2>3. next \in Stages \cup Results
    <3> DEFINE a == Current
               out == r \in sent
    <3>1. out \in BOOLEAN /\ a \in Asks /\ Fits(a, job.stage, out)
      BY <2>2
    <3> HIDE DEF out, a
    <3>2. AfterFailure(a, job.stage) \in Stages \cup Results
      BY <2>2, <3>1, FailureFits
    <3> QED
      BY <3>2 DEF a
  <2> HIDE DEF next
  <2>4. job' = [job EXCEPT !.attempt = @ + 1] => job'.r = job.r
    BY <1>1 DEF TypeOK
  <2>5. Current' = Current
    <3> HIDE DEF r
    <3>1. Goes(r, next) => Current' = Current
      BY <1>1, <2>2, <2>3, GoesAsks
    <3>2. job'.r = job.r /\ UNCHANGED req => Current' = Current
      BY DEF Current
    <3> QED
      BY <2>1, <2>4, <3>1, <3>2
  <2> QED
    BY <2>1, <2>5 DEF HiddenIsLeftAlone
<1>8. CASE Panic
  BY <1>8 DEF Panic, NoJob, Busy
<1>9. CASE Build
  BY <1>9 DEF Build
<1>10. CASE Skip \/ BuildFails \/ (\E p \in Params, w \in Word : DisplaySets(p, w))
            \/ UNCHANGED vars
  <2>1. UNCHANGED <<req, job, cache>>
    BY <1>10 DEF Skip, BuildFails, DisplaySets, vars
  <2> QED
    BY <1>2, <2>1 DEF Current
<1> QED
  BY <1>3, <1>4, <1>5, <1>6, <1>7, <1>8, <1>9, <1>10 DEF Next, Serves

(***************************************************************************)
(* Nothing is put on the bus in vain: a request whose client left before   *)
(* the actor took it is not served, and once the heater has told what it   *)
(* has, no checked operation asks for what it does not have.               *)
(***************************************************************************)
THEOREM InVainCorrect == Spec => NothingIsAskedInVain
<1>1. ModbusInv /\ [Next]_vars =>
         [\A r \in Requests : req[r].pc = "left" /\ job.r # r => job'.r # r]_vars
  BY LeftStep
<1>2. Init => HiddenIsLeftAlone
  BY DEF Init, NoJob, Busy, HiddenIsLeftAlone
<1>3. ModbusInv /\ HiddenIsLeftAlone /\ [Next]_vars => HiddenIsLeftAlone'
  BY HiddenStep
<1> QED
  BY InvCorrect, <1>1, <1>2, <1>3, PTL DEF Spec, NothingIsAskedInVain, LeftBehindIsNotServed

-----------------------------------------------------------------------------
(* The actor implements the register service: the initial states map to    *)
(* initial states, and every step of the actor, of a client or of the      *)
(* supervisor maps to one step of the service or to a stutter.             *)

\* What the service sees of a request.
Call(r) == [phase |-> Phase(req[r].pc), ask |-> req[r].ask, sent |-> r \in sent]

Unmoved(r) ==
    \A s \in Requests : s # r => /\ req'[s] = req[s]
                                 /\ s \in sent' <=> s \in sent

-----------------------------------------------------------------------------
(* The shape of the mapped variable. *)

LEMMA CallsTyped ==
    ASSUME TypeOK
    PROVE  /\ calls \in [Requests -> [phase : {Phase(req[r].pc) : r \in Requests},
                                      ask : Asks, sent : BOOLEAN]]
           /\ \A r \in Requests :
                 /\ calls[r].phase = Phase(req[r].pc) /\ calls[r].ask = req[r].ask
                 /\ calls[r].sent <=> r \in sent
                 /\ calls[r].sent \in BOOLEAN
<1>1. \A r \in Requests : req[r].ask \in Asks
  BY DEF TypeOK
<1>2. \A r \in Requests : calls[r] = Call(r)
  BY DEF calls, Call
<1>3. \A r \in Requests :
         Call(r) \in [phase : {Phase(req[s].pc) : s \in Requests}, ask : Asks, sent : BOOLEAN]
  BY <1>1 DEF Call
<1> QED
  BY <1>2, <1>3 DEF calls, Call

\* A field of a call set on its own.
LEMMA CallFields ==
    ASSUME TypeOK, NEW r \in Requests, NEW p, NEW o
    PROVE  /\ [calls EXCEPT ![r].phase = p] =
                  [calls EXCEPT ![r] = [phase |-> p, ask |-> calls[r].ask,
                                        sent |-> calls[r].sent]]
           /\ [calls EXCEPT ![r].sent = o] =
                  [calls EXCEPT ![r] = [phase |-> calls[r].phase, ask |-> calls[r].ask,
                                        sent |-> o]]
<1> DEFINE P == {Phase(req[s].pc) : s \in Requests}
           B == BOOLEAN
           f == calls
<1>1. f \in [Requests -> [phase : P, ask : Asks, sent : B]]
  BY CallsTyped
<1> HIDE DEF P, B, f
<1>2. /\ [f EXCEPT ![r].phase = p] =
            [f EXCEPT ![r] = [phase |-> p, ask |-> f[r].ask, sent |-> f[r].sent]]
      /\ [f EXCEPT ![r].sent = o] =
            [f EXCEPT ![r] = [phase |-> f[r].phase, ask |-> f[r].ask, sent |-> o]]
  <2>1. ASSUME NEW c \in [phase : P, ask : Asks, sent : B]
        PROVE  /\ [c EXCEPT !.phase = p] = [phase |-> p, ask |-> c.ask, sent |-> c.sent]
               /\ [c EXCEPT !.sent = o] = [phase |-> c.phase, ask |-> c.ask, sent |-> o]
    OBVIOUS
  <2>2. /\ [f EXCEPT ![r].phase = p] = [f EXCEPT ![r] = [f[r] EXCEPT !.phase = p]]
        /\ [f EXCEPT ![r].sent = o] = [f EXCEPT ![r] = [f[r] EXCEPT !.sent = o]]
    OBVIOUS
  <2>3. f[r] \in [phase : P, ask : Asks, sent : B]
    BY <1>1
  <2> QED
    BY <2>1, <2>2, <2>3
<1> QED
  BY <1>2 DEF f

\* A step that leaves all calls but one alone.
LEMMA CallsMove ==
    ASSUME NEW r \in Requests, Unmoved(r)
    PROVE  calls' = [calls EXCEPT ![r] =
                       [phase |-> Phase(req'[r].pc), ask |-> req'[r].ask, sent |-> r \in sent']]
<1> DEFINE moved == [phase |-> Phase(req'[r].pc), ask |-> req'[r].ask, sent |-> r \in sent']
<1>1. calls' = [s \in Requests |-> [phase |-> Phase(req'[s].pc), ask |-> req'[s].ask,
                                    sent |-> s \in sent']]
  BY DEF calls, Phase
<1>2. calls = [s \in Requests |-> [phase |-> Phase(req[s].pc), ask |-> req[s].ask,
                                   sent |-> s \in sent]]
  BY DEF calls
<1>3. \A s \in Requests : s # r => calls'[s] = calls[s]
  BY <1>1, <1>2 DEF Unmoved
<1>4. calls'[r] = moved
  BY <1>1
<1> HIDE DEF moved
<1>5. DOMAIN calls' = Requests /\ calls' = [s \in Requests |-> calls'[s]]
  BY <1>1
<1>6. calls = [s \in Requests |-> calls[s]]
  BY <1>2
<1> QED
  BY <1>3, <1>4, <1>5, <1>6 DEF moved

\* The four ways in which the steps change the calls.
LEMMA CallsSame ==
    ASSUME UNCHANGED sent,
           \A s \in Requests : /\ Phase(req'[s].pc) = Phase(req[s].pc)
                               /\ req'[s].ask = req[s].ask
    PROVE  calls' = calls
<1>1. calls' = [s \in Requests |-> [phase |-> Phase(req'[s].pc), ask |-> req'[s].ask,
                                    sent |-> s \in sent']]
  BY DEF calls, Phase
<1> QED
  BY <1>1 DEF calls

LEMMA CallsPhase ==
    ASSUME TypeOK, NEW r \in Requests, Unmoved(r), UNCHANGED sent,
           req'[r].ask = req[r].ask
    PROVE  calls' = [calls EXCEPT ![r].phase = Phase(req'[r].pc)]
<1> DEFINE p == Phase(req'[r].pc)
<1>1. calls' = [calls EXCEPT ![r] = [phase |-> p, ask |-> req'[r].ask, sent |-> r \in sent']]
  BY CallsMove
<1>2. calls[r].ask = req[r].ask /\ calls[r].sent = (r \in sent)
  BY DEF calls
<1> HIDE DEF p
<1>3. calls' = [calls EXCEPT ![r] = [phase |-> p, ask |-> calls[r].ask, sent |-> calls[r].sent]]
  BY <1>1, <1>2
<1>4. [calls EXCEPT ![r].phase = p] =
         [calls EXCEPT ![r] = [phase |-> p, ask |-> calls[r].ask, sent |-> calls[r].sent]]
  BY CallFields
<1> QED
  BY <1>3, <1>4 DEF p

LEMMA CallsSent ==
    ASSUME TypeOK, NEW r \in Requests, Unmoved(r), req'[r] = req[r], r \in sent'
    PROVE  calls' = [calls EXCEPT ![r].sent = TRUE]
<1>1. calls' = [calls EXCEPT ![r] = [phase |-> Phase(req'[r].pc), ask |-> req'[r].ask,
                                     sent |-> r \in sent']]
  BY CallsMove
<1>2. calls[r].ask = req[r].ask /\ calls[r].phase = Phase(req[r].pc)
  BY DEF calls
<1>3. (r \in sent') = TRUE
  OBVIOUS
<1>4. calls' = [calls EXCEPT ![r] = [phase |-> calls[r].phase, ask |-> calls[r].ask,
                                     sent |-> TRUE]]
  BY <1>1, <1>2, <1>3
<1>5. [calls EXCEPT ![r].sent = TRUE] =
         [calls EXCEPT ![r] = [phase |-> calls[r].phase, ask |-> calls[r].ask, sent |-> TRUE]]
  BY CallFields
<1> QED
  BY <1>4, <1>5

LEMMA CallsBoth ==
    ASSUME NEW r \in Requests, Unmoved(r), req'[r].ask = req[r].ask, r \in sent'
    PROVE  calls' = [calls EXCEPT ![r] = [phase |-> Phase(req'[r].pc), ask |-> @.ask,
                                          sent |-> TRUE]]
<1>1. calls' = [calls EXCEPT ![r] = [phase |-> Phase(req'[r].pc), ask |-> req'[r].ask,
                                     sent |-> r \in sent']]
  BY CallsMove
<1>2. calls[r].ask = req[r].ask
  BY DEF calls
<1>3. (r \in sent') = TRUE
  OBVIOUS
<1> QED
  BY <1>1, <1>2, <1>3

-----------------------------------------------------------------------------
(* The steps, one lemma per action that changes what the service sees. *)

\* A promise about a call from what the actor knows of its request.
LEMMA Promised ==
    ASSUME NEW r \in Requests, NEW answer,
           answer = "refused" => r \notin sent,
           answer = "ok" /\ req[r].ask.op \in {"write", "rawWrite"} => r \in sent,
           answer = "ok" /\ Checked(req[r].ask) =>
              reg[req[r].ask.param] = RawOf(req[r].ask)
    PROVE  Service!MayAnswer(calls[r], answer)
<1>1. calls[r].ask = req[r].ask /\ calls[r].sent = (r \in sent)
  BY DEF calls
<1> QED
  BY <1>1 DEF Service!MayAnswer, Service!Checked, Service!RawOf, Service!RawValue,
              Checked, RawOf, RawValue

LEMMA AskMaps ==
    ASSUME ModbusInv, NEW r \in Requests, Ask(r) PROVE Service!Open(r)
<1>1. PICK a \in Asks : req' = [req EXCEPT ![r] = [pc |-> "sending", ask |-> a]]
  BY DEF Ask
<1>2. /\ TypeOK /\ req[r].pc = "idle" /\ UNCHANGED <<reg, sent>>
      /\ req'[r].pc = "sending" /\ req'[r].ask = a
      /\ Unmoved(r)
  BY <1>1 DEF Ask, ModbusInv, TypeOK, Unmoved
<1>3. r \notin sent
  <2>1. Busy => job.r # r
    BY <1>2 DEF ModbusInv, CallsInv, ServedIsOpen, Busy
  <2>2. job.r # r
    BY <2>1, ModbusAssumption DEF Busy
  <2>3. r \in sent => job.r = r \/ req[r].pc \in Results \cup {"left"}
    BY DEF ModbusInv, CallsInv, SentIsServed
  <2> QED
    BY <1>2, <2>2, <2>3 DEF Results, Refusals, Failures
<1>4. (r \in sent') = FALSE
  BY <1>2, <1>3
<1>5. calls' = [calls EXCEPT ![r] = [phase |-> Phase(req'[r].pc), ask |-> req'[r].ask,
                                     sent |-> r \in sent']]
  BY <1>2, CallsMove
<1>6. Phase(req'[r].pc) = "open" /\ calls[r].phase = "idle"
  BY <1>2 DEF Phase, calls, Refusals, Failures
<1>7. calls' = [calls EXCEPT ![r] = [phase |-> "open", ask |-> a, sent |-> FALSE]]
  BY <1>2, <1>4, <1>5, <1>6
<1> QED
  BY <1>2, <1>6, <1>7 DEF Service!Open

LEMMA OpenPhase ==
    /\ Phase("sending") = "open" /\ Phase("waiting") = "open"
    /\ Phase("left") = "left" /\ Phase("idle") = "idle"
  BY DEF Phase, Refusals, Failures

LEMMA EnqueueMaps ==
    ASSUME ModbusInv, NEW r \in Requests, Enqueue(r)
    PROVE  UNCHANGED Service!serviceVars
<1>1. /\ TypeOK /\ req[r].pc = "sending" /\ req' = [req EXCEPT ![r].pc = "waiting"]
      /\ UNCHANGED <<reg, sent>>
  BY DEF Enqueue, ModbusInv
<1>2. /\ \A s \in Requests : s # r => req'[s] = req[s]
      /\ req'[r].pc = "waiting" /\ req'[r].ask = req[r].ask
  BY <1>1 DEF TypeOK
<1>3. \A s \in Requests : Phase(req'[s].pc) = Phase(req[s].pc) /\ req'[s].ask = req[s].ask
  BY <1>1, <1>2, OpenPhase
<1> QED
  BY <1>1, <1>3, CallsSame DEF Service!serviceVars

LEMMA LeaveMaps ==
    ASSUME ModbusInv, NEW r \in Requests, Leave(r)
    PROVE  Service!Leave(r)
<1>1. /\ TypeOK /\ req[r].pc \in {"sending", "waiting"} /\ UNCHANGED <<reg, sent>>
      /\ req' = [req EXCEPT ![r].pc = "left"]
  BY DEF Leave, ModbusInv
<1>2. Unmoved(r) /\ req'[r].pc = "left" /\ req'[r].ask = req[r].ask
  BY <1>1 DEF TypeOK, Unmoved
<1>3. calls' = [calls EXCEPT ![r].phase = Phase(req'[r].pc)]
  BY <1>1, <1>2, CallsPhase
<1>4. calls[r].phase = "open" /\ Phase(req'[r].pc) = "left"
  BY <1>1, <1>2, OpenPhase DEF calls
<1> QED
  BY <1>1, <1>3, <1>4 DEF Service!Leave

\* What a client hears when its request moves on.
LEMMA GoesHeard ==
    ASSUME TypeOK, NEW r \in Requests, NEW next \in Stages \cup Results, Goes(r, next),
           req[r].pc \in {"waiting", "left"}
    PROVE  /\ \A s \in Requests : s # r => req'[s] = req[s]
           /\ req'[r].ask = req[r].ask
           /\ next \in Stages \/ req[r].pc = "left" => req'[r] = req[r]
           /\ next \notin Stages /\ req[r].pc = "waiting" =>
                 /\ next \in Results /\ req'[r].pc = next
<1>1. CASE next \in Stages
  BY <1>1 DEF Goes
<1>2. CASE next \notin Stages
  <2>1. req' = [req EXCEPT ![r].pc = Reply(r, next)]
    BY <1>2 DEF Goes
  <2>2. CASE req[r].pc = "left"
    <3>1. Reply(r, next) = req[r].pc
      BY <2>2 DEF Reply
    <3> QED
      BY <1>2, <2>1, <2>2, <3>1 DEF TypeOK
  <2>3. CASE req[r].pc = "waiting"
    <3>1. Reply(r, next) = next
      BY <2>3 DEF Reply
    <3> QED
      BY <1>2, <2>1, <2>3, <3>1 DEF TypeOK
  <2> QED
    BY <2>2, <2>3
<1> QED
  BY <1>1, <1>2

LEMMA ResultPhase ==
    ASSUME NEW result \in Results
    PROVE  /\ Phase(result) \in {"ok", "refused", "failed"}
           /\ Phase(result) = "refused" <=> result \in Refusals
           /\ Phase(result) = "ok" <=> result = "ok"
  BY DEF Phase, Results, Refusals, Failures

\* A request that moves on without a write on the wire is answered, if that
\* was its last stage, or nothing happens to it.
LEMMA AnswerMaps ==
    ASSUME ModbusInv, NEW r \in Requests, NEW next \in Stages \cup Results, Goes(r, next),
           req[r].pc \in {"waiting", "left"}, UNCHANGED <<reg, sent>>,
           next \in Refusals => r \notin sent,
           next = "ok" /\ req[r].ask.op \in {"write", "rawWrite"} => r \in sent,
           next = "ok" /\ Checked(req[r].ask) => reg[req[r].ask.param] = RawOf(req[r].ask)
    PROVE  Service!Answer(r) \/ UNCHANGED Service!serviceVars
<1>1. TypeOK
  BY DEF ModbusInv
<1>2. /\ \A s \in Requests : s # r => req'[s] = req[s]
      /\ req'[r].ask = req[r].ask
      /\ next \in Stages \/ req[r].pc = "left" => req'[r] = req[r]
      /\ next \notin Stages /\ req[r].pc = "waiting" => next \in Results /\ req'[r].pc = next
  BY <1>1, GoesHeard
<1>3. CASE next \in Stages \/ req[r].pc = "left"
  <2>1. \A s \in Requests : Phase(req'[s].pc) = Phase(req[s].pc) /\ req'[s].ask = req[s].ask
    BY <1>2, <1>3
  <2> QED
    BY <2>1, CallsSame DEF Service!serviceVars
<1>4. CASE next \notin Stages /\ req[r].pc = "waiting"
  <2>1. Unmoved(r) /\ next \in Results /\ req'[r].pc = next
    BY <1>2, <1>4 DEF Unmoved
  <2>2. calls' = [calls EXCEPT ![r].phase = Phase(next)]
    BY <1>1, <1>2, <2>1, CallsPhase
  <2>3. calls[r].phase = "open"
    BY <1>4, OpenPhase DEF calls
  <2>4. /\ Phase(next) \in {"ok", "refused", "failed"}
        /\ Phase(next) = "refused" <=> next \in Refusals
        /\ Phase(next) = "ok" <=> next = "ok"
    BY <2>1, ResultPhase
  <2>5. Service!MayAnswer(calls[r], Phase(next))
    BY <2>4, Promised
  <2> QED
    BY <2>2, <2>3, <2>4, <2>5 DEF Service!Answer, Service!Answers
<1> QED
  BY <1>3, <1>4

LEMMA PanicMaps ==
    ASSUME ModbusInv, Panic
    PROVE  (\E r \in Requests : Service!Answer(r)) \/ UNCHANGED Service!serviceVars
<1>1. CASE Busy
  <2> DEFINE r == job.r
  <2>1. r \in Requests /\ req[r].pc \in {"waiting", "left"}
    BY <1>1, BusyFacts
  <2>2. Goes(r, "dropped") /\ UNCHANGED <<reg, sent>>
    BY <1>1 DEF Panic, Goes, Stages
  <2>3. "dropped" \in Results /\ "dropped" \notin Refusals
    BY DEF Results, Refusals, Failures
  <2> HIDE DEF r
  <2> QED
    BY <2>1, <2>2, <2>3, AnswerMaps
<1>2. CASE ~Busy
  BY <1>2, CallsSame DEF Panic, Service!serviceVars
<1> QED
  BY <1>1, <1>2

LEMMA TakeMaps ==
    ASSUME ModbusInv, Take
    PROVE  (\E r \in Requests : Service!Answer(r)) \/ UNCHANGED Service!serviceVars
<1> DEFINE r == Head(queue)
           next == FirstStage(req[r].ask)
<1>1. TypeOK /\ Takes /\ ~Closed(r) /\ Goes(r, next) /\ UNCHANGED <<reg, sent>>
  BY DEF Take, ModbusInv
<1>2. /\ r \in Requests /\ req[r].ask \in Asks /\ req[r].pc = "waiting" /\ r \notin sent
  BY <1>1, TakeFacts
<1>3. /\ next \in Stages \cup Results
      /\ next = "ok" => req[r].ask.op \notin {"write", "rawWrite"}
  BY <1>1, <1>2, FirstFits
<1> HIDE DEF r, next
<1>4. next = "ok" => ~Checked(req[r].ask)
  BY <1>3 DEF Checked
<1> QED
  BY <1>1, <1>2, <1>3, <1>4, AnswerMaps

\* A write that goes out while its request stays where it is.
LEMMA SendMaps ==
    ASSUME ModbusInv, NEW r \in Requests, req[r].pc \in {"waiting", "left"},
           \A s \in Requests : req'[s] = req[s], sent' = sent \cup {r},
           \/ reg' = [reg EXCEPT ![req[r].ask.param] = RawOf(req[r].ask)]
           \/ UNCHANGED reg,
           Service!MayBeSent(req[r].ask)
    PROVE  Service!Send(r)
<1>1. TypeOK /\ Unmoved(r) /\ r \in sent'
  BY DEF ModbusInv, Unmoved
<1>2. calls' = [calls EXCEPT ![r].sent = TRUE]
  BY <1>1, CallsSent
<1>3. calls[r].ask = req[r].ask /\ calls[r].phase \in {"open", "left"}
  BY OpenPhase DEF calls
<1>4. Service!RawOf(calls[r].ask) = RawOf(req[r].ask)
  BY <1>3 DEF Service!RawOf, Service!RawValue, RawOf, RawValue
<1> QED
  BY <1>2, <1>3, <1>4 DEF Service!Send

\* A write that goes out with the step that decides about its request.
LEMMA SendAnswerMaps ==
    ASSUME ModbusInv, NEW r \in Requests, NEW next \in Stages \cup Results, Goes(r, next),
           req[r].pc \in {"waiting", "left"}, sent' = sent \cup {r},
           \/ reg' = [reg EXCEPT ![req[r].ask.param] = RawOf(req[r].ask)]
           \/ UNCHANGED reg,
           Service!MayBeSent(req[r].ask),
           next \notin Refusals, next = "ok" => ~Checked(req[r].ask)
    PROVE  Service!Send(r) \/ Service!SendAndAnswer(r)
<1>1. TypeOK
  BY DEF ModbusInv
<1>2. /\ \A s \in Requests : s # r => req'[s] = req[s]
      /\ req'[r].ask = req[r].ask
      /\ next \in Stages \/ req[r].pc = "left" => req'[r] = req[r]
      /\ next \notin Stages /\ req[r].pc = "waiting" => next \in Results /\ req'[r].pc = next
  BY <1>1, GoesHeard
<1>3. CASE next \in Stages \/ req[r].pc = "left"
  BY <1>2, <1>3, SendMaps
<1>4. CASE next \notin Stages /\ req[r].pc = "waiting"
  <2>1. Unmoved(r) /\ next \in Results /\ req'[r].pc = next /\ r \in sent'
    BY <1>2, <1>4 DEF Unmoved
  <2>2. calls' = [calls EXCEPT ![r] = [phase |-> Phase(req'[r].pc), ask |-> @.ask,
                                       sent |-> TRUE]]
    BY <1>2, <2>1, CallsBoth
  <2>3. calls[r].phase = "open" /\ calls[r].ask = req[r].ask
    BY <1>4, OpenPhase DEF calls
  <2>4. Phase(next) \in {"ok", "failed"} /\ (Phase(next) = "ok" <=> next = "ok")
    BY <2>1, ResultPhase
  <2>5. Service!RawOf(calls[r].ask) = RawOf(req[r].ask)
        /\ Service!Checked(calls[r].ask) = Checked(req[r].ask)
    BY <2>3 DEF Service!RawOf, Service!RawValue, RawOf, RawValue, Service!Checked, Checked
  <2> QED
    BY <2>1, <2>2, <2>3, <2>4, <2>5 DEF Service!SendAndAnswer
<1> QED
  BY <1>3, <1>4

\* The service reads registers and bounds as the actor's model does.
LEMMA SameReading ==
    ASSUME NEW p, NEW w PROVE Service!InRange(p, w) <=> InRange(p, w)
<1>1. \A v : Service!ValueOf(p, v) = ValueOf(p, v)
  BY DEF Service!ValueOf, Service!SignedWord, ValueOf, SignedWord
<1>2. \A x, n : Service!MultipleOf(x, n) <=> MultipleOf(x, n)
  BY DEF Service!MultipleOf, MultipleOf
<1> QED
  BY <1>1, <1>2 DEF Service!InRange, InRange

\* What is on the wire may be sent.
LEMMA WritingMaySend ==
    ASSUME ModbusInv, Busy, Writing PROVE Service!MayBeSent(Current)
<1> DEFINE out == job.r \in sent
<1>1. Current \in Asks /\ Fits(Current, job.stage, out)
  BY BusyFacts
<1>2. /\ job.stage = "write" =>
            /\ Current.op = "write" /\ Access[Current.param] # "R"
            /\ Representable(Current.param, Current.value)
            /\ Access[Current.param] = "RW" => InRange(Current.param, RawOf(Current))
      /\ job.stage = "rawWrite" => Current.op = "rawWrite"
  BY <1>1 DEF Fits
<1>3. Service!RawOf(Current) = RawOf(Current)
  BY DEF Service!RawOf, Service!RawValue, RawOf, RawValue
<1>4. Service!InRange(Current.param, RawOf(Current)) <=>
         InRange(Current.param, RawOf(Current))
  BY SameReading
<1>5. CASE job.stage = "rawWrite"
  BY <1>2, <1>5 DEF Service!MayBeSent
<1>6. CASE job.stage = "write"
  <2>1. /\ Current.op = "write" /\ Access[Current.param] # "R"
        /\ Service!Representable(Current.param, Current.value)
    BY <1>2, <1>6 DEF Service!Representable, Service!Word, Representable, Word
  <2>2. Access[Current.param] = "RW" =>
           Service!InRange(Current.param, Service!RawOf(Current))
    BY <1>2, <1>3, <1>4, <1>6
  <2> QED
    BY <2>1, <2>2 DEF Service!MayBeSent
<1> QED
  BY <1>5, <1>6 DEF Writing

LEMMA SucceedsMaps ==
    ASSUME ModbusInv, Succeeds
    PROVE  \/ \E r \in Requests :
                 Service!Answer(r) \/ Service!Send(r) \/ Service!SendAndAnswer(r)
           \/ UNCHANGED Service!serviceVars
<1> DEFINE r == job.r
           next == AfterSuccess(Current, job.stage)
           out == r \in sent
           went == out \/ job.stage \in {"write", "rawWrite"}
<1>1. /\ TypeOK /\ Busy /\ (Lands \/ UNCHANGED reg) /\ NotesSent /\ Goes(r, next)
  BY DEF Succeeds, ModbusInv
<1>2. /\ r \in Requests /\ Current \in Asks /\ job.stage \in Stages
      /\ req[r].pc \in {"waiting", "left"} /\ Fits(Current, job.stage, out)
      /\ Current = req[r].ask
  BY <1>1, BusyFacts DEF Current
<1>3. /\ next \in Stages \cup Results
      /\ next \in Refusals => ~went
      /\ next = "ok" /\ Current.op \in {"write", "rawWrite"} => went
      /\ next = "ok" /\ Checked(Current) =>
            job.stage = "verify" /\ reg[Current.param] = RawOf(Current)
  <2> DEFINE a == Current
  <2>1. out \in BOOLEAN /\ a \in Asks /\ Fits(a, job.stage, out)
    BY <1>2
  <2> HIDE DEF out, a
  <2>2. LET n == AfterSuccess(a, job.stage)
        IN  /\ n \in Stages \cup Results
            /\ n \in Refusals => ~went
            /\ n = "ok" /\ a.op \in {"write", "rawWrite"} => went
            /\ n = "ok" /\ Checked(a) =>
                  job.stage = "verify" /\ reg[a.param] = RawOf(a)
    BY <1>1, <1>2, <2>1, SuccessFits
  <2> QED
    BY <2>2 DEF a
<1> HIDE DEF next
<1>4. CASE Writing
  <2>1. sent' = sent \cup {r} /\ Service!MayBeSent(req[r].ask)
    BY <1>1, <1>2, <1>4, WritingMaySend DEF NotesSent
  <2>2. \/ reg' = [reg EXCEPT ![req[r].ask.param] = RawOf(req[r].ask)]
        \/ UNCHANGED reg
    BY <1>1, <1>2 DEF Lands
  <2>3. next \notin Refusals /\ (next = "ok" => ~Checked(req[r].ask))
    BY <1>2, <1>3, <1>4 DEF Writing
  <2> HIDE DEF r
  <2> QED
    BY <1>1, <1>2, <1>3, <2>1, <2>2, <2>3, SendAnswerMaps
<1>5. CASE ~Writing
  <2>1. UNCHANGED <<reg, sent>>
    BY <1>1, <1>5 DEF Lands, NotesSent
  <2>2. /\ next \in Refusals => r \notin sent
        /\ next = "ok" /\ req[r].ask.op \in {"write", "rawWrite"} => r \in sent
        /\ next = "ok" /\ Checked(req[r].ask) =>
              reg[req[r].ask.param] = RawOf(req[r].ask)
    BY <1>2, <1>3, <1>5 DEF Writing
  <2> HIDE DEF r
  <2> QED
    BY <1>1, <1>2, <1>3, <2>1, <2>2, AnswerMaps
<1> QED
  BY <1>4, <1>5

LEMMA FailsMaps ==
    ASSUME ModbusInv, NEW fault, Fails(fault)
    PROVE  \/ \E r \in Requests :
                 Service!Answer(r) \/ Service!Send(r) \/ Service!SendAndAnswer(r)
           \/ UNCHANGED Service!serviceVars
<1> DEFINE r == job.r
           next == AfterFailure(Current, job.stage)
           out == r \in sent
<1>1. /\ TypeOK /\ Busy /\ (Lands \/ UNCHANGED reg) /\ NotesSent
      /\ Goes(r, next) \/ UNCHANGED req
  BY DEF Fails, ModbusInv
<1>2. /\ r \in Requests /\ Current \in Asks /\ job.stage \in Stages
      /\ req[r].pc \in {"waiting", "left"} /\ Fits(Current, job.stage, out)
      /\ Current = req[r].ask
  BY <1>1, BusyFacts DEF Current
<1>3. /\ next \in Stages \cup Results
      /\ next \in Refusals => ~out /\ job.stage = "scan"
      /\ next = "ok" => Current.op \notin {"write", "rawWrite"} /\ job.stage = "scan"
  <2> DEFINE a == Current
  <2>1. out \in BOOLEAN /\ a \in Asks /\ Fits(a, job.stage, out)
    BY <1>2
  <2> HIDE DEF out, a
  <2>2. LET n == AfterFailure(a, job.stage)
        IN  /\ n \in Stages \cup Results
            /\ n \in Refusals => ~out /\ job.stage = "scan"
            /\ n = "ok" => a.op \notin {"write", "rawWrite"} /\ job.stage = "scan"
    BY <1>2, <2>1, FailureFits
  <2> QED
    BY <2>2 DEF a
<1> HIDE DEF next
<1>4. CASE Writing
  <2>1. sent' = sent \cup {r} /\ Service!MayBeSent(req[r].ask)
    BY <1>1, <1>2, <1>4, WritingMaySend DEF NotesSent
  <2>2. \/ reg' = [reg EXCEPT ![req[r].ask.param] = RawOf(req[r].ask)]
        \/ UNCHANGED reg
    BY <1>1, <1>2 DEF Lands
  <2>3. next \notin Refusals /\ next # "ok"
    BY <1>3, <1>4 DEF Writing
  <2> HIDE DEF r
  <2>4. CASE Goes(r, next)
    BY <1>1, <1>2, <1>3, <2>1, <2>2, <2>3, <2>4, SendAnswerMaps
  <2>5. CASE UNCHANGED req
    BY <1>1, <1>2, <2>1, <2>2, <2>5, SendMaps
  <2> QED
    BY <1>1, <2>4, <2>5
<1>5. CASE ~Writing
  <2>1. UNCHANGED <<reg, sent>>
    BY <1>1, <1>5 DEF Lands, NotesSent
  <2>2. /\ next \in Refusals => r \notin sent
        /\ next = "ok" => req[r].ask.op \notin {"write", "rawWrite"}
                          /\ ~Checked(req[r].ask)
    BY <1>2, <1>3 DEF Checked
  <2> HIDE DEF r
  <2>3. CASE Goes(r, next)
    BY <1>1, <1>2, <1>3, <2>1, <2>2, <2>3, AnswerMaps
  <2>4. CASE UNCHANGED req
    BY <2>1, <2>4, CallsSame DEF Service!serviceVars
  <2> QED
    BY <1>1, <2>3, <2>4
<1> QED
  BY <1>4, <1>5

-----------------------------------------------------------------------------
(* The refinement. *)

LEMMA InitMaps == Init => Service!ServiceInit
<1> SUFFICES ASSUME Init PROVE Service!ServiceInit
  OBVIOUS
<1>1. reg \in [Params -> Word] /\ NoAsk \in Asks
  BY ModbusAssumption DEF Init, NoAsk
<1>2. \A r \in Requests :
         /\ Phase(req[r].pc) = "idle" /\ req[r].ask \in Asks
         /\ (r \in sent) = FALSE
  BY <1>1, OpenPhase DEF Init
<1>3. calls \in [Requests -> [phase : {"idle"}, ask : Asks, sent : {FALSE}]]
  BY <1>2 DEF calls
<1> QED
  BY <1>1, <1>3 DEF Service!ServiceInit, Service!Word, Word

LEMMA StepMaps == ModbusInv /\ [Next]_vars => [Service!ServiceNext]_Service!serviceVars
<1> SUFFICES ASSUME ModbusInv, [Next]_vars
             PROVE  Service!ServiceNext \/ UNCHANGED Service!serviceVars
  OBVIOUS
<1> USE DEF Service!ServiceNext
<1>1. ASSUME NEW r \in Requests, Ask(r) \/ Enqueue(r) \/ Leave(r)
      PROVE  Service!ServiceNext \/ UNCHANGED Service!serviceVars
  BY <1>1, AskMaps, EnqueueMaps, LeaveMaps
<1>2. CASE Serves
  <2>1. CASE Skip
    BY <2>1, CallsSame DEF Skip, Service!serviceVars
  <2>2. CASE Take
    BY <2>2, TakeMaps
  <2>3. CASE Succeeds
    BY <2>3, SucceedsMaps
  <2>4. ASSUME NEW fault, Fails(fault)
        PROVE  Service!ServiceNext \/ UNCHANGED Service!serviceVars
    BY <2>4, FailsMaps
  <2> QED
    BY <1>2, <2>1, <2>2, <2>3, <2>4 DEF Serves
<1>3. CASE Panic
  BY <1>3, PanicMaps
<1>4. CASE Build \/ BuildFails \/ UNCHANGED vars
  BY <1>4, CallsSame DEF Build, BuildFails, vars, Service!serviceVars
<1>5. ASSUME NEW p \in Params, NEW w \in Word, DisplaySets(p, w)
      PROVE  Service!ServiceNext \/ UNCHANGED Service!serviceVars
  <2>1. UNCHANGED calls /\ reg' = [reg EXCEPT ![p] = w]
    BY <1>5, CallsSame DEF DisplaySets
  <2> QED
    BY <2>1 DEF Service!Display, Service!Word, Word
<1> QED
  BY <1>1, <1>2, <1>3, <1>4, <1>5 DEF Next

(***************************************************************************)
(* The Modbus actor keeps its promise to its clients: over any sequence of *)
(* retries, late landings, panics and restarts, a refused write has left   *)
(* no trace, an accepted checked write was in the register when it was     *)
(* answered, and only legal values are sent to a checked register.         *)
(***************************************************************************)
THEOREM ServiceCorrect == Spec => ServicePromise
<1>1. Init => Service!ServiceInit
  BY InitMaps
<1>2. ModbusInv /\ [Next]_vars => [Service!ServiceNext]_Service!serviceVars
  BY StepMaps
<1> QED
  BY InvCorrect, <1>1, <1>2, PTL DEF Spec, ServicePromise, Service!ServiceSpec
=============================================================================
