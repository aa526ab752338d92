----------------------------- MODULE ModbusActor -----------------------------
(***************************************************************************)
(* The Modbus actor (modbus/actor.rs) with its supervisor and its clients  *)
(* (modbus/operations.rs).  Clients queue requests; the actor serves one   *)
(* at a time as a sequence of stages, each one register access with its    *)
(* own retries; a panic loses the request being served, not the queue.     *)
(*                                                                         *)
(* An attempt is one step: the serial line carries one exchange at a time  *)
(* and a slave answers in order.  An attempt that reports an error may     *)
(* have reached the heater, and the heater may acknowledge a write it      *)
(* ignores.  Delays, gaps, histograms and the ring of recent retries are   *)
(* left out, and so is a visibility register out of range, which is        *)
(* refused at once.                                                        *)
(***************************************************************************)
EXTENDS Registers, Sequences

CONSTANTS
    NoRequest,        \* the actor is between requests
    QueueCap,         \* config: capacity of the request channel
    MaxRetries,       \* config: modbus.max_retries
    MaxPanics,        \* bound: panics of the actor loop
    MaxOpenFailures,  \* bound: times the serial port cannot be opened
    MaxDisplay        \* bound: changes made at the heater's display

ASSUME ModbusAssumption ==
    /\ NoRequest \notin Requests /\ Asks # {}
    /\ QueueCap \in Nat \ {0} /\ MaxRetries \in Nat
    /\ MaxPanics \in Nat /\ MaxOpenFailures \in Nat /\ MaxDisplay \in Nat

VARIABLES
    reg,    \* the heater's registers
    req,    \* the requests of the clients: where they are, what they ask
    sent,   \* history: requests whose write went out on the wire
    queue,  \* the request channel
    job,    \* the request being served: its stage and its failed attempts
    cache,  \* visibility_cache: "none" until a scan succeeds
    port,   \* "closed" while the supervisor has no actor
    stats,  \* the actor's counters, reset with every new actor
    limits  \* what is left of the bounds

vars == <<reg, req, sent, queue, job, cache, port, stats, limits>>

Busy == job.r # NoRequest

Stages   == {"scan", "bounds", "write", "verify", "read", "rawRead", "rawWrite"}
Refusals == {"hidden", "readOnly", "outOfRange", "invalidStep"}
Failures == {"mismatch", "failed", "dropped"}
Results  == Refusals \cup Failures \cup {"ok"}

NoJob == [r |-> NoRequest, stage |-> "scan", attempt |-> 0]
NoAsk == CHOOSE a \in Asks : TRUE

NoStats == [ops |-> 0, skips |-> 0, wire |-> 0, retries |-> 0, errors |-> 0,
            failures |-> 0]

Counters == [ops : Nat, skips : Nat, wire : Nat, retries : Nat, errors : Nat,
             failures : Nat]

Limits == [panics : 0..MaxPanics, opens : 0..MaxOpenFailures,
           display : 0..MaxDisplay]

TypeOK ==
    /\ reg \in [Params -> Word]
    /\ req \in [Requests -> [pc : {"idle", "sending", "waiting", "left"} \cup Results,
                             ask : Asks]]
    /\ sent \subseteq Requests
    /\ queue \in Seq(Requests)
    /\ job \in [r : Requests \cup {NoRequest}, stage : Stages, attempt : 0..MaxRetries]
    /\ cache \in {"none", "known"}
    /\ port \in {"closed", "open"}
    /\ stats \in Counters
    /\ limits \in Limits

Readable == {p \in Params : Access[p] # "W" /\ p \notin Hidden}

\* The user's settings are legal; a register nobody can read counts as 0.
Init ==
    /\ reg \in [Params -> Word]
    /\ \A p \in Params :
          IF p \in Readable THEN Access[p] = "RW" => InRange(p, reg[p]) ELSE reg[p] = 0
    /\ req = [r \in Requests |-> [pc |-> "idle", ask |-> NoAsk]]
    /\ sent = {}
    /\ queue = <<>>
    /\ job = NoJob
    /\ cache = "none"
    /\ port = "closed"
    /\ stats = NoStats
    /\ limits = [panics |-> MaxPanics, opens |-> MaxOpenFailures,
                 display |-> MaxDisplay]

-----------------------------------------------------------------------------
(* Clients. *)

Ask(r) ==
    /\ req[r].pc = "idle"
    /\ \E a \in Asks : req' = [req EXCEPT ![r] = [pc |-> "sending", ask |-> a]]
    /\ UNCHANGED <<reg, sent, queue, job, cache, port, stats, limits>>

\* send().await waits for room, without a timeout.
Enqueue(r) ==
    /\ req[r].pc = "sending"
    /\ Len(queue) < QueueCap
    /\ queue' = Append(queue, r)
    /\ req' = [req EXCEPT ![r].pc = "waiting"]
    /\ UNCHANGED <<reg, sent, job, cache, port, stats, limits>>

\* request_timeout runs out, or the HTTP client hangs up.
Leave(r) ==
    /\ req[r].pc \in {"sending", "waiting"}
    /\ req' = [req EXCEPT ![r].pc = "left"]
    /\ UNCHANGED <<reg, sent, queue, job, cache, port, stats, limits>>

-----------------------------------------------------------------------------
(* What a request does next: a stage, or the result it is answered with. *)

\* Range and step are compared on the words.
WithinBounds(p, w) == w >= Bounds[p].min /\ w <= Bounds[p].max

Accepted(p, w) ==
    WithinBounds(p, w) /\ MultipleOf(w - Bounds[p].min, Bounds[p].step)

\* Without a cache everything is assumed visible.
IsHidden(a, known) == known /\ a.param \in Hidden

\* Once visibility is settled: known, or the scan has failed.
Dispatch(a, known) ==
    CASE a.op = "stats" -> "ok"
      [] a.op = "visibility" -> IF known THEN "ok" ELSE "failed"
      [] a.op \in {"rawRead", "rawWrite"} -> a.op
      [] a.op \in {"read", "write"} /\ IsHidden(a, known) -> "hidden"
      [] a.op = "read" /\ ~IsHidden(a, known) -> "read"
      [] OTHER ->
           IF Access[a.param] = "R" THEN "readOnly"
           ELSE IF ~Representable(a.param, a.value) THEN "outOfRange"
           ELSE IF Access[a.param] = "W" THEN "write" ELSE "bounds"

\* Lazy scan: only the operations that look at visibility start one.
FirstStage(a) ==
    IF cache = "none" /\ a.op \in {"read", "write", "visibility"}
    THEN "scan" ELSE Dispatch(a, TRUE)

\* Slip: the read-back is not compared.
NotCompared(a, stage) ==
    CASE stage = "scan"   -> Dispatch(a, TRUE)
      [] stage = "bounds" -> IF Accepted(a.param, RawOf(a)) THEN "write"
                             ELSE "outOfRange"
      [] stage = "write"  -> IF Access[a.param] = "W" THEN "ok" ELSE "verify"
      [] OTHER            -> "ok"

AfterSuccess(a, stage) ==
    CASE stage = "scan"   -> Dispatch(a, TRUE)
      [] stage = "bounds" -> IF ~WithinBounds(a.param, RawOf(a)) THEN "outOfRange"
                             ELSE IF ~Accepted(a.param, RawOf(a)) THEN "invalidStep"
                             ELSE "write"
      [] stage = "write"  -> IF Access[a.param] = "W" THEN "ok" ELSE "verify"
      [] stage = "verify" -> IF reg[a.param] = RawOf(a) THEN "ok" ELSE "mismatch"
      [] OTHER            -> "ok"

AfterFailure(a, stage) == IF stage = "scan" THEN Dispatch(a, FALSE) ELSE "failed"

\* A client that has left hears nothing.
Reply(r, result) == IF req[r].pc = "waiting" THEN result ELSE req[r].pc

Goes(r, next) ==
    IF next \in Stages
    THEN /\ job' = [r |-> r, stage |-> next, attempt |-> 0]
         /\ UNCHANGED req
    ELSE /\ job' = NoJob
         /\ req' = [req EXCEPT ![r].pc = Reply(r, next)]

-----------------------------------------------------------------------------
(* The actor loop. *)

Takes == port = "open" /\ ~Busy /\ queue # <<>> /\ queue' = Tail(queue)

\* Slip: requests are served whether or not anybody waits.
NeverClosed(r) == FALSE

\* respond_to.is_closed()
Closed(r) == req[r].pc = "left"

Skip ==
    /\ Takes /\ Closed(Head(queue))
    /\ stats' = [stats EXCEPT !.ops = @ + 1, !.skips = @ + 1]
    /\ UNCHANGED <<reg, req, sent, job, cache, port, limits>>

Take ==
    /\ Takes /\ ~Closed(Head(queue))
    /\ Goes(Head(queue), FirstStage(req[Head(queue)].ask))
    /\ UNCHANGED <<reg, sent, cache, port, stats, limits>>

-----------------------------------------------------------------------------
(* with_retry!: one attempt at the current stage. *)

Current == req[job.r].ask

Writing == job.stage \in {"write", "rawWrite"}

\* The heater answers an access to a register it does not have, bounds
\* included, with an exception.
Illegal == job.stage # "scan" /\ Current.param \in Hidden

Lands == Writing /\ ~Illegal /\ reg' = [reg EXCEPT ![Current.param] = RawOf(Current)]

NotesSent == sent' = IF Writing THEN sent \cup {job.r} ELSE sent

\* Slip: a failed attempt is not counted when it is the last one.
CountsError(last) == [stats EXCEPT !.wire = @ + 1]

Retried == IF job.attempt > 0 THEN 1 ELSE 0

CountSuccess ==
    [stats EXCEPT !.ops = @ + 1, !.wire = @ + 1, !.retries = @ + Retried]

CountError(last) ==
    [stats EXCEPT !.wire = @ + 1, !.retries = @ + Retried, !.errors = @ + 1,
                  !.failures = @ + IF last THEN 1 ELSE 0]

Succeeds ==
    /\ port = "open" /\ Busy /\ ~Illegal
    /\ Lands \/ UNCHANGED reg
    /\ NotesSent
    /\ stats' = CountSuccess
    /\ cache' = IF job.stage = "scan" THEN "known" ELSE cache
    /\ Goes(job.r, AfterSuccess(Current, job.stage))
    /\ UNCHANGED <<queue, port, limits>>

\* The errors of the stages, with the class is_transient puts them in.
ErrorOf(fault) ==
    CASE fault = "timeout" -> "Timeout"
      [] fault = "exception" ->
           IF job.stage = "bounds" THEN "ValidationReadError"
           ELSE IF Writing THEN "WriteError" ELSE "ReadError"
      [] fault = "transport" ->
           IF job.stage \in {"bounds", "verify", "read"} THEN "ProtocolError"
           ELSE IF Writing THEN "WriteError" ELSE "ReadError"

Permanent == {"ReadOnly", "OutOfRange", "InvalidStep", "InvalidAlarmInfoValue",
              "ParameterNotVisible", "VisibilityNotScanned",
              "InvalidVisibilityRegister", "ProtocolError: illegal"}

IsTransient(error) == error \notin Permanent

\* Slip: one attempt more than max_retries allows.
OneTooMany(fault) == ~IsTransient(ErrorOf(fault)) \/ job.attempt > MaxRetries

IsLast(fault) == ~IsTransient(ErrorOf(fault)) \/ job.attempt = MaxRetries

\* A timeout or a transport error may hide an exchange that took place; an
\* exception refuses it.
Fails(fault) ==
    LET last == IsLast(fault)
    IN  /\ port = "open" /\ Busy
        /\ Illegal => fault = "exception"
        /\ (fault # "exception" /\ Lands) \/ UNCHANGED reg
        /\ NotesSent
        /\ stats' = CountError(last)
        /\ IF last THEN Goes(job.r, AfterFailure(Current, job.stage))
           ELSE job' = [job EXCEPT !.attempt = @ + 1] /\ UNCHANGED req
        /\ UNCHANGED <<queue, cache, port, limits>>

-----------------------------------------------------------------------------
(* The supervisor.  The receiver survives the actor; the request in        *)
(* progress does not: its respond_to is dropped with the loop's stack.     *)

Panic ==
    /\ port = "open" /\ limits.panics > 0
    /\ limits' = [limits EXCEPT !.panics = @ - 1]
    /\ port' = "closed"
    /\ job' = NoJob
    /\ req' = IF Busy
              THEN [req EXCEPT ![job.r].pc = Reply(job.r, "dropped")] ELSE req
    /\ UNCHANGED <<reg, sent, queue, cache, stats>>

\* Slip: the new actor starts with the queue of the old one dropped.
BuildDropsQueue ==
    /\ port = "closed"
    /\ port' = "open"
    /\ cache' = "none"
    /\ stats' = NoStats
    /\ queue' = <<>>
    /\ UNCHANGED <<reg, req, sent, job, limits>>

Build ==
    /\ port = "closed"
    /\ port' = "open"
    /\ cache' = "none"
    /\ stats' = NoStats
    /\ UNCHANGED <<reg, req, sent, queue, job, limits>>

BuildFails ==
    /\ port = "closed" /\ limits.opens > 0
    /\ limits' = [limits EXCEPT !.opens = @ - 1]
    /\ UNCHANGED <<reg, req, sent, queue, job, cache, port, stats>>

\* The display lets the user set legal values only.
DisplaySets(p, w) ==
    /\ limits.display > 0
    /\ limits' = [limits EXCEPT !.display = @ - 1]
    /\ p \in Readable /\ Access[p] = "RW" /\ InRange(p, w)
    /\ reg' = [reg EXCEPT ![p] = w]
    /\ UNCHANGED <<req, sent, queue, job, cache, port, stats>>

-----------------------------------------------------------------------------
(* The specification. *)

Serves == Skip \/ Take \/ Succeeds
          \/ \E fault \in {"timeout", "exception", "transport"} : Fails(fault)

Next ==
    \/ \E r \in Requests : Ask(r) \/ Enqueue(r) \/ Leave(r)
    \/ Serves
    \/ Panic \/ Build \/ BuildFails
    \/ \E p \in Params, w \in Word : DisplaySets(p, w)

\* The actor serves, the supervisor rebuilds, a waiting send gets its room;
\* nothing is assumed of the heater's answers or of the clients' patience.
Fairness ==
    /\ WF_vars(Serves) /\ WF_vars(Build)
    /\ \A r \in Requests : WF_vars(Enqueue(r))

Spec == Init /\ [][Next]_vars /\ Fairness

-----------------------------------------------------------------------------
(* Properties *)

(***************************************************************************)
(* No request is lost and none is served twice, whatever panics: a client  *)
(* that waits has its request in the channel once or under service, never  *)
(* both (spawn_supervised keeps the receiver and drops the request in      *)
(* progress, so that its client is told).                                  *)
(***************************************************************************)
WaitingHasOnePlace ==
    /\ \A i, j \in 1..Len(queue) : queue[i] = queue[j] => i = j
    /\ \A i \in 1..Len(queue) : queue[i] # job.r
    /\ \A r \in Requests : req[r].pc = "waiting" =>
          job.r = r \/ \E i \in 1..Len(queue) : queue[i] = r

(***************************************************************************)
(* What the actor promises its clients (RegisterService): a refused write  *)
(* left no trace, an accepted checked write is in the register, and only   *)
(* legal values are sent, over retries, late landings and panics.          *)
(***************************************************************************)
Phase(pc) ==
    CASE pc \in {"sending", "waiting"} -> "open"
      [] pc \in Refusals -> "refused"
      [] pc \in Failures -> "failed"
      [] OTHER -> pc

calls == [r \in Requests |-> [phase |-> Phase(req[r].pc), ask |-> req[r].ask,
                              sent |-> r \in sent]]

Service == INSTANCE RegisterService WITH call <- calls

ServicePromise == Service!ServiceSpec

(***************************************************************************)
(* Nothing is put on the bus in vain.  A client that left before its       *)
(* request was taken off the channel causes no traffic, even after a panic *)
(* (respond_to.is_closed in run); and once the visibility scan has         *)
(* succeeded, the checked operations no more ask for a parameter the       *)
(* heater does not have, as they may before that (check_visibility).       *)
(***************************************************************************)
LeftBehindIsNotServed ==
    [][\A r \in Requests :
          req[r].pc = "left" /\ job.r # r => job'.r # r]_vars

HiddenIsLeftAlone ==
    Busy /\ cache = "known" /\ Current.op \in {"read", "write"} =>
        Current.param \notin Hidden

NothingIsAskedInVain == LeftBehindIsNotServed /\ []HiddenIsLeftAlone

(***************************************************************************)
(* The telemetry contract of with_retry!: every attempt on the wire is     *)
(* either a success or an error of a register, and, between stages, every  *)
(* first attempt belongs to a stage that succeeded or failed for good.     *)
(***************************************************************************)
TelemetryBalances ==
    port = "open" =>
        /\ stats.wire = (stats.ops - stats.skips) + stats.errors
        /\ job.attempt = 0 =>
              stats.wire - stats.retries = (stats.ops - stats.skips) + stats.failures

(***************************************************************************)
(* A client that does not give up is answered, through retries, panics and *)
(* failed openings of the port.                                            *)
(***************************************************************************)
EveryCallIsAnswered ==
    \A r \in Requests :
        req[r].pc \in {"sending", "waiting"} ~> req[r].pc \in Results \cup {"left"}

(***************************************************************************)
(* modbus/actor.rs:1208 "Check if value is within range", and error.rs:108 *)
(* "is outside allowed range": a value refused as out of range is out of   *)
(* the range the heater gives for it.                                      *)
(***************************************************************************)
RefusedIsOutOfRange ==
    \A r \in Requests :
        req[r].pc = "outOfRange" /\ Representable(req[r].ask.param, req[r].ask.value)
            => ~InRange(req[r].ask.param, RawOf(req[r].ask))
=============================================================================
