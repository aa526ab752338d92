------------------------------ MODULE HttpApi ------------------------------
(***************************************************************************)
(* The HTTP server around the actors: what the settings start (main.rs),   *)
(* what each handler under routes/ answers at once and whom it asks, how   *)
(* the actors' answers and errors become a status, and what requests see   *)
(* of a shutdown.                                                          *)
(*                                                                         *)
(* The Modbus actor is RegisterService, which ModbusActor implements; the  *)
(* SmartGrid and the DHW actor are their mailboxes and the outcomes of     *)
(* their commands, whose steps SmartGrid and DhwBoost model.               *)
(***************************************************************************)
EXTENDS RegisterService, Config, Sequences, FiniteSets

CONSTANTS
    Givens,       \* bound: environments, files and broken equipment of a start
    Requested,    \* bound: what each request may ask for over HTTP
    Catalogue,    \* the parameters with an entry in bms_parameters
    Polled,       \* those the sensor poller sweeps
    Conditional,  \* those of the catalogue with a visibility register
    Setpoint,     \* HEATSYSTEM_ROOM_SETTEMP
    AlarmCount,   \* CTC_ALARM_INFO_COUNT
    Nothing

VARIABLES
    given,    \* what the process is started with
    phase,    \* of the process
    parts,    \* the parts that were started
    sg,       \* the SmartGrid actor: its mode, whether a resume is due
    boost,    \* the DHW actor's boost
    box,      \* the mailboxes of the two actors
    req       \* the HTTP requests

vars == <<reg, call, given, phase, parts, sg, boost, box, req>>

Modes == {"normal", "blocking", "lowprice", "overcapacity"}

Routes ==
    {"getCtc", "postCtc", "temperature", "setpoint", "setSetpoint", "visibility",
     "allVisibility", "paramVisibility", "alarmStatus", "modbusStats", "setPowersave",
     "getPowersave", "setSmartgrid", "getSmartgrid", "cancelResume", "dhwState",
     "setComfort", "startBoost", "cancelBoost", "pump", "prices", "memory"}

\* Every request has one of the routes, and its body has its types (serde).
ASSUME HttpAssumption ==
    /\ Nothing \notin Requests /\ Asks # {}
    /\ \A c \in Requests : \A a \in Requested[c] :
          /\ a.route \in Routes
          /\ a.route \in {"setPowersave", "setSmartgrid"} => a.schedule \in BOOLEAN
          /\ a.route = "startBoost" => a.hours \in Int \cup {Absent}

Conf == Settings(given)
-----------------------------------------------------------------------------
(* main: the parts.                                                        *)

HomeyStarts == Conf["homey.enabled"] /\ "homey" \notin given.broken

SmartGridStarts == Conf["gpio.enabled"] /\ "gpio" \notin given.broken

Started ==
    {"sensors", "flush", "recorder"} \cup
    (IF Conf["heatpump_stats.enabled"] THEN {"stats"} ELSE {}) \cup
    (IF Conf["tibber.enabled"] /\ Conf["tibber.api.token"] # Absent
     THEN {"tibber"} ELSE {}) \cup
    (IF HomeyStarts THEN {"homey"} ELSE {}) \cup
    (IF SmartGridStarts THEN {"smartgrid"} ELSE {}) \cup
    (IF HomeyStarts /\ Conf["homey.poll_interval_secs"] > 0 THEN {"poller"} ELSE {}) \cup
    (IF Conf["price.enabled"] THEN {"prices"} ELSE {}) \cup
    (IF SmartGridStarts /\ HomeyStarts THEN {"dhw"} ELSE {})

\* Settings, serial port, store or listener: main returns an error.
StartFails ==
    \/ LoadFails(given)
    \/ SerialFails(Conf)
    \/ "store" \in given.broken
    \/ "port" \in given.broken

InitialMode == IF given.powersave THEN "blocking" ELSE "normal"

Starts ==
    /\ phase = "starting"
    /\ IF StartFails
       THEN phase' = "refused" /\ UNCHANGED <<parts, sg>>
       ELSE /\ phase' = "serving"
            /\ parts' = Started
            /\ sg' = [mode |-> InitialMode, due |-> FALSE, alive |-> SmartGridStarts]
    /\ UNCHANGED <<reg, call, given, boost, box, req>>
-----------------------------------------------------------------------------
(* The handlers: an answer at once, or whom they ask.  sampled are the     *)
(* parameters with a sample in the ring, served is that today has prices.  *)

Says(status) == [to |-> "client", status |-> status]

Modbus(op, p, v) ==
    [to |-> "modbus", ask |-> [op |-> op, param |-> p, value |-> v]]

SmartGrid(commands) ==
    IF "smartgrid" \in parts THEN [to |-> "smartgrid", commands |-> commands]
    ELSE Says(503)

\* Slip: the routes are mounted in any case.
DhwAlways(command) == [to |-> "dhw", commands |-> <<command>>]

\* The routes are mounted only when the actor came up.
Dhw(command) ==
    IF "dhw" \in parts THEN [to |-> "dhw", commands |-> <<command>>] ELSE Says(404)

\* Any other address becomes a parameter of its own.
GetCtcData(a, sampled) ==
    IF a.param \in sampled THEN Says(200)
    ELSE IF a.custom \/ a.param \in Catalogue THEN Modbus("read", a.param, 0)
    ELSE Says(400)

PostCtcData(a) ==
    IF a.param \in Catalogue /\ a.value # Absent THEN Modbus("write", a.param, a.value)
    ELSE Says(400)

GetTemperature(a, sampled) ==
    IF a.param \in sampled THEN Says(200) ELSE Modbus("read", a.param, 0)

GetRoomSetTemp == Modbus("read", Setpoint, 0)

SetRoomSetTemp(a) ==
    IF \/ a.value < Conf["temperature_validation.min"]
       \/ a.value > Conf["temperature_validation.max"]
    THEN Says(400)
    ELSE Modbus("write", Setpoint, a.value)

GetVisibility(a) == Modbus("visibility", a.param, 0)

GetAllVisibility == Modbus("visibility", Setpoint, 0)

GetParameterVisibility(a) ==
    IF a.param \in Catalogue \cap Conditional THEN Modbus("visibility", a.param, 0)
    ELSE Says(200)

GetAlarmStatus == Modbus("read", AlarmCount, 0)

GetModbusStats == Modbus("stats", Setpoint, 0)

SetCommand(mode, schedule) == [do |-> "set", mode |-> mode, schedule |-> schedule]

Reading(what) == [do |-> what]

SetPowerSave(a) ==
    SmartGrid(<<SetCommand(IF a.active THEN "blocking" ELSE "normal", a.schedule)>>)

GetPowerSave == SmartGrid(<<Reading("mode"), Reading("due")>>)

\* at: an instant to resume at, none, one that does not parse or is stale.
SetSmartGrid(a) ==
    IF "smartgrid" \notin parts THEN Says(503)
    ELSE IF a.mode \notin Modes \/ a.at \in {"garbled", "stale"} THEN Says(400)
    ELSE SmartGrid(<<SetCommand(a.mode, a.schedule)>>)

GetSmartGrid == SmartGrid(<<Reading("mode"), Reading("changed"), Reading("due")>>)

DeleteScheduledResume == SmartGrid(<<Reading("cancel")>>)

GetDhwState == Dhw([do |-> "snapshot"])

SetComfort(a) ==
    IF "dhw" \in parts /\ a.level \notin {"economy", "normal", "komfort", "comfort"}
    THEN Says(400)
    ELSE Dhw([do |-> "comfort"])

StartBoost(a) ==
    IF "dhw" \notin parts THEN Says(404)
    ELSE IF a.preset = "shower" THEN Dhw([do |-> "shower"])
    ELSE IF a.preset = "bath" /\ a.hours # Absent
    THEN Dhw([do |-> "bath", hours |-> a.hours])
    ELSE Says(400)

CancelBoost == Dhw([do |-> "cancel"])

GetPump == IF "homey" \in parts THEN Says(200) ELSE Says(503)

GetPrices(served) == IF served THEN Says(200) ELSE Says(503)

\* Grid, tariff, current price, cheapest hours, proposed resume and its
\* candidates, statistics and their history: always an answer, if empty.
FromMemory == Says(200)

Handler(a, sampled, served) ==
    CASE a.route = "getCtc"           -> GetCtcData(a, sampled)
      [] a.route = "postCtc"          -> PostCtcData(a)
      [] a.route = "temperature"      -> GetTemperature(a, sampled)
      [] a.route = "setpoint"         -> GetRoomSetTemp
      [] a.route = "setSetpoint"      -> SetRoomSetTemp(a)
      [] a.route = "visibility"       -> GetVisibility(a)
      [] a.route = "allVisibility"    -> GetAllVisibility
      [] a.route = "paramVisibility"  -> GetParameterVisibility(a)
      [] a.route = "alarmStatus"      -> GetAlarmStatus
      [] a.route = "modbusStats"      -> GetModbusStats
      [] a.route = "setPowersave"     -> SetPowerSave(a)
      [] a.route = "getPowersave"     -> GetPowerSave
      [] a.route = "setSmartgrid"     -> SetSmartGrid(a)
      [] a.route = "getSmartgrid"     -> GetSmartGrid
      [] a.route = "cancelResume"     -> DeleteScheduledResume
      [] a.route = "dhwState"         -> GetDhwState
      [] a.route = "setComfort"       -> SetComfort(a)
      [] a.route = "startBoost"       -> StartBoost(a)
      [] a.route = "cancelBoost"      -> CancelBoost
      [] a.route = "pump"             -> GetPump
      [] a.route = "prices"           -> GetPrices(served)
      [] a.route = "memory"           -> FromMemory
-----------------------------------------------------------------------------
(* A request.                                                              *)

Unasked == [pc |-> "none", asks |-> Nothing, plan |-> Nothing, status |-> 0,
            view |-> <<>>, done |-> FALSE]

Answered(r, status) == [r EXCEPT !.pc = "answered", !.status = status]

\* The listener is there until the closure that waits for the signal has
\* returned.  What the ring holds of the polled sensors, and whether there are
\* prices for today, is as StepRecorder and PriceFeed have it: either.
Listening == phase \in {"serving", "stopping"}

Accept(c) ==
    /\ Listening
    /\ req[c].pc = "none"
    /\ \E a \in Requested[c],
          sampled \in {{}, Polled}, served \in {FALSE, "prices" \in parts} :
          LET h == Handler(a, sampled, served)
              r == [Unasked EXCEPT !.pc = "asking", !.asks = a, !.plan = h]
          IN  req' = [req EXCEPT
                        ![c] = IF h.to = "client" THEN Answered(r, h.status) ELSE r]
    /\ UNCHANGED <<reg, call, given, phase, parts, sg, boost, box>>

\* tx.send: the call joins the Modbus actor's queue.
AskModbus(c) ==
    /\ req[c].pc = "asking" /\ req[c].plan.to = "modbus"
    /\ Open(c) /\ call'[c].ask = req[c].plan.ask
    /\ req' = [req EXCEPT ![c].pc = "waiting"]
    /\ UNCHANGED <<given, phase, parts, sg, boost, box>>

AskActor(c) ==
    LET actor == req[c].plan.to
    IN  /\ req[c].pc = "asking" /\ actor \in {"smartgrid", "dhw"}
        /\ IF actor = "smartgrid" /\ ~sg.alive
           THEN req' = [req EXCEPT ![c] = Answered(@, 503)] /\ UNCHANGED box
           ELSE /\ req' = [req EXCEPT ![c].pc = "waiting"]
                /\ box' = [box EXCEPT ![actor] =
                             Append(@, [from    |-> c,
                                        command |-> Head(req[c].plan.commands)])]
        /\ UNCHANGED <<reg, call, given, phase, parts, sg, boost>>
-----------------------------------------------------------------------------
(* The Modbus actor, and what its answers become.                          *)

\* What the actor refuses: a hidden parameter, or a write it finds illegal.
Refusable(r) ==
    LET a == r.plan.ask
    IN  \/ a.op = "visibility"
        \/ a.op = "write"
        \/ a.param \in Hidden /\ a.op = "read"

\* NotFound for what this heater does not show, BadRequest for a value.
RefusedAs(a) ==
    (IF a.op = "visibility" \/ a.param \in Hidden THEN {404} ELSE {}) \cup
    (IF a.op = "write" THEN {400} ELSE {})

\* Slip: a failed read-back blames the value.
ReadBackIsBadRequest == {400, 408, 503, 500}

\* Timeout; a reply channel dropped by an actor that panicked; the rest, a
\* write whose read-back differs among it.
FailedAs == {408, 503, 500}

StatusesOf(a, outcome) ==
    CASE outcome = "ok"      -> {200}
      [] outcome = "refused" -> RefusedAs(a)
      [] outcome = "failed"  -> FailedAs

ModbusWorks(c) ==
    /\ \/ Send(c)
       \/ Answer(c) /\ (call'[c].phase = "refused" => Refusable(req[c]))
       \/ SendAndAnswer(c)
    /\ UNCHANGED <<given, phase, parts, sg, boost, box, req>>

ModbusAnswers(c) ==
    /\ req[c].pc = "waiting" /\ req[c].plan.to = "modbus"
    /\ call[c].phase \in Answers
    /\ \E s \in StatusesOf(req[c].plan.ask, call[c].phase) :
          req' = [req EXCEPT ![c] = Answered(@, s)]
    /\ UNCHANGED <<reg, call, given, phase, parts, sg, boost, box>>

\* The handler's own timeout; the call stays in the actor's hands.
HandlerTimesOut(c) ==
    /\ req[c].pc = "waiting" /\ req[c].plan.to = "modbus"
    /\ Leave(c)
    /\ req' = [req EXCEPT ![c] = Answered(@, 408)]
    /\ UNCHANGED <<given, phase, parts, sg, boost, box>>
-----------------------------------------------------------------------------
(* The SmartGrid actor takes one command; the handler asks the next one    *)
(* only when it has the answer.                                            *)

Gets(r, answer) ==
    IF Len(r.plan.commands) = 1 THEN Answered([r EXCEPT !.view = answer], 200)
    ELSE [r EXCEPT !.pc = "asking", !.view = answer, !.plan.commands = Tail(@)]

Waits(c) == req[c].pc = "waiting"

Reply(c, r) == req' = IF Waits(c) THEN [req EXCEPT ![c] = r] ELSE req

Due(command) == command.schedule /\ command.mode # "normal"

\* A schedule needs a target, which the prices may not give.
SgSets(m) ==
    \/ \E due \in {FALSE, Due(m.command) /\ Conf["smartgrid.auto_resume_enabled"]} :
          /\ sg' = [sg EXCEPT !.mode = m.command.mode, !.due = due]
          /\ Reply(m.from, [Answered(req[m.from], 200) EXCEPT !.done = TRUE])
    \* The lines cannot be set: the schedule is gone all the same.
    \/ /\ sg' = [sg EXCEPT !.due = FALSE]
       /\ Reply(m.from, [Answered(req[m.from], 500) EXCEPT !.done = TRUE])

SgCancels(m) ==
    /\ sg' = [sg EXCEPT !.due = FALSE]
    /\ Reply(m.from, [Answered(req[m.from], 204) EXCEPT !.done = TRUE])

SgTells(m) ==
    LET seen == req[m.from].view
    IN  /\ Reply(m.from, Gets(req[m.from],
                   CASE m.command.do = "mode"    -> Append(seen, sg.mode)
                     [] m.command.do = "due"     -> Append(seen, sg.due)
                     [] m.command.do = "changed" -> seen))
        /\ UNCHANGED sg

\* The cancelled token is looked at before the mailbox.
SgServes ==
    /\ sg.alive /\ phase = "serving" /\ box.smartgrid # <<>>
    /\ LET m == Head(box.smartgrid)
       IN  CASE m.command.do = "set"    -> SgSets(m)
             [] m.command.do = "cancel" -> SgCancels(m)
             [] OTHER                   -> SgTells(m)
    /\ box' = [box EXCEPT !.smartgrid = Tail(@)]
    /\ UNCHANGED <<reg, call, given, phase, parts, boost>>

\* The timer of a resume fires.
ResumeFires ==
    /\ sg.alive /\ phase = "serving" /\ sg.due
    /\ sg' = [sg EXCEPT !.mode = "normal", !.due = FALSE]
    /\ UNCHANGED <<reg, call, given, phase, parts, boost, box, req>>

Senders(q) == {q[i].from : i \in DOMAIN q}

\* Slip: nobody notices.
GoneUnnoticed(dropped) == req

\* Who waits for an answer of an actor that ends is told ActorGone.
Gone(dropped) ==
    [c \in Requests |->
        IF c \in dropped /\ Waits(c) THEN Answered(req[c], 503) ELSE req[c]]

SgEnds ==
    /\ sg.alive /\ phase \notin {"starting", "serving"}
    /\ sg' = [sg EXCEPT !.alive = FALSE, !.due = FALSE]
    /\ box' = [box EXCEPT !.smartgrid = <<>>]
    /\ req' = Gone(Senders(box.smartgrid))
    /\ UNCHANGED <<reg, call, given, phase, parts, boost>>
-----------------------------------------------------------------------------
(* The DHW actor: one command with all its writes.  An outcome is the      *)
(* answer, the boost afterwards, whether anything was done or needed no    *)
(* doing, and the mode the SmartGrid actor was told to take.               *)

Outcome(answer, b, done, mode) ==
    [answer |-> answer, boost |-> b, done |-> done, mode |-> mode]

\* The poller holds the other end of the override lane; told to stop, it lets
\* go of it at a time of its own.
LaneIsHeard ==
    IF "poller" \notin parts \/ phase = "draining" THEN {FALSE}
    ELSE IF phase = "serving" THEN {TRUE} ELSE {TRUE, FALSE}

SgListens == sg.alive /\ phase = "serving"

\* DhwError::into_response.
StatusOf(error) ==
    CASE error \in {"active", "notCheap", "showerRuns"}       -> 409
      [] error = "outOfRange"                                 -> 422
      [] error \in {"modbus", "lane", "smartgrid"}            -> 500
      [] error = "sensor"                                     -> 503

Untouched(error) == Outcome(StatusOf(error), boost, FALSE, Nothing)

\* At its target the heater is left alone, and that is an answer too.
ShowerStarts(heard) ==
    IF boost # "none" THEN {Untouched("active")}
    ELSE {Untouched("modbus"), Untouched("sensor"),
          Outcome(200, "none", TRUE, Nothing)} \cup
         IF heard
         THEN {Outcome(200, "shower", TRUE, Nothing),
               Outcome(StatusOf("modbus"), "none", TRUE, Nothing)}
         ELSE {Untouched("lane")}

\* A side effect that fails - the lane is the first, then the SmartGrid mode -
\* is followed by a rollback that undoes all of them, done or not, as far as it
\* gets: at the SmartGrid actor it succeeds or fails in its turn.
RolledBack(error) ==
    {Outcome(StatusOf(error), "none", TRUE, mode) :
        mode \in {"normal", IF error = "modbus" THEN "overcapacity" ELSE "failed"}}

\* Hours are whole here.
BathStarts(hours, heard) ==
    IF boost # "none" THEN {Untouched("active")}
    ELSE IF hours \notin 1 .. Conf["dhw.bath_max_hours"] THEN {Untouched("outOfRange")}
    ELSE {Untouched("notCheap"), Untouched("modbus")} \cup
         IF ~heard THEN RolledBack("lane")
         ELSE IF ~SgListens THEN RolledBack("smartgrid")
         ELSE {Outcome(200, "bath", TRUE, "overcapacity")}
              \cup RolledBack("modbus") \cup RolledBack("smartgrid")

\* stop_boost; a failure leaves the boost to the next cancel.
BathStops(heard) ==
    {Outcome(StatusOf("modbus"), "bath", TRUE, Nothing),
     Outcome(StatusOf("smartgrid"), "bath", TRUE, "failed"),
     IF heard /\ SgListens THEN Outcome(204, "none", TRUE, "normal")
     ELSE Outcome(StatusOf("lane"), "bath", TRUE, "normal")}

BoostIsCancelled(heard) ==
    CASE boost = "none"   -> {Outcome(204, "none", TRUE, Nothing)}
      [] boost = "shower" -> {Untouched("showerRuns")}
      [] boost = "bath"   -> BathStops(heard)

\* A write that is reported lost may have landed.
ComfortIsSet == {Outcome(204, boost, TRUE, Nothing), Outcome(500, boost, TRUE, Nothing)}

Outcomes(command, heard) ==
    CASE command.do = "snapshot" -> {Outcome(200, boost, FALSE, Nothing)}
      [] command.do = "comfort"  -> ComfortIsSet
      [] command.do = "shower"   -> ShowerStarts(heard)
      [] command.do = "bath"     -> BathStarts(command.hours, heard)
      [] command.do = "cancel"   -> BoostIsCancelled(heard)
      [] command.do = "save"     -> {Outcome(204, boost, FALSE, Nothing)}

\* "failed": the lines could not be set, the schedule is gone all the same.
Told(mode) ==
    IF mode = Nothing \/ ~SgListens THEN sg
    ELSE [sg EXCEPT !.mode = IF mode = "failed" THEN @ ELSE mode, !.due = FALSE]

DhwServes ==
    /\ phase \in {"serving", "stopping", "draining"} /\ box.dhw # <<>>
    /\ LET m == Head(box.dhw)
       IN  \E heard \in LaneIsHeard : \E o \in Outcomes(m.command, heard) :
              /\ boost' = o.boost
              /\ sg' = Told(o.mode)
              /\ IF m.from = Nothing THEN UNCHANGED req
                 ELSE Reply(m.from,
                            [Answered(req[m.from], o.answer) EXCEPT !.done = o.done])
    /\ box' = [box EXCEPT !.dhw = Tail(@)]
    /\ UNCHANGED <<reg, call, given, phase, parts>>

ShowerEnds == {Outcome(204, "none", TRUE, Nothing)}

\* A watcher ends its boost: the timer, a cold room, the price.
BoostEnds ==
    /\ boost # "none" /\ phase \in {"serving", "stopping", "draining"}
    /\ \E heard \in LaneIsHeard :
          \E o \in IF boost = "bath" THEN BathStops(heard) ELSE ShowerEnds :
             boost' = o.boost /\ sg' = Told(o.mode)
    /\ UNCHANGED <<reg, call, given, phase, parts, box, req>>
-----------------------------------------------------------------------------
(* Clients that leave, and the shutdown.                                   *)

\* The client hangs up: the handler is dropped where it waits.
HangsUp(c) ==
    /\ req[c].pc \in {"asking", "waiting"}
    /\ req' = [req EXCEPT ![c].pc = "gone"]
    /\ IF call[c].phase = "open" THEN Leave(c) ELSE UNCHANGED <<reg, call>>
    /\ UNCHANGED <<given, phase, parts, sg, boost, box>>

Save == [from |-> Nothing, command |-> [do |-> "save"]]

\* SIGTERM: every background task is told, the DHW actor asked to save.
Signal ==
    /\ phase = "serving"
    /\ phase' = "stopping"
    /\ box' = IF "dhw" \in parts THEN [box EXCEPT !.dhw = Append(@, Save)] ELSE box
    /\ UNCHANGED <<reg, call, given, parts, sg, boost, req>>

\* The tasks have ended and the store is flushed: no new connections.
StopsListening ==
    /\ phase = "stopping"
    /\ ~sg.alive /\ Save \notin {box.dhw[i] : i \in DOMAIN box.dhw}
    /\ phase' = "draining"
    /\ UNCHANGED <<reg, call, given, parts, sg, boost, box, req>>

InFlight == {c \in Requests : req[c].pc \in {"asking", "waiting"}}

\* axum waits for the requests in flight, then main returns.
Exits ==
    /\ phase = "draining" /\ InFlight = {}
    /\ phase' = "stopped"
    /\ UNCHANGED <<reg, call, given, parts, sg, boost, box, req>>

\* The registers' values are the business of ModbusActor, they start at zero.
Init ==
    /\ reg = [p \in Params |-> 0]
    /\ call = [c \in Requests |->
                 [phase |-> "idle", ask |-> CHOOSE a \in Asks : TRUE, sent |-> FALSE]]
    /\ given \in Givens
    /\ phase = "starting" /\ parts = {}
    /\ sg = [mode |-> "normal", due |-> FALSE, alive |-> FALSE]
    /\ boost = "none"
    /\ box = [smartgrid |-> <<>>, dhw |-> <<>>]
    /\ req = [c \in Requests |-> Unasked]

Handling(c) ==
    AskModbus(c) \/ AskActor(c) \/ ModbusAnswers(c) \/ HandlerTimesOut(c)

Next ==
    \/ Starts \/ SgServes \/ SgEnds \/ ResumeFires \/ DhwServes \/ BoostEnds
    \/ Signal \/ StopsListening \/ Exits
    \/ \E c \in Requests : Accept(c) \/ Handling(c) \/ ModbusWorks(c) \/ HangsUp(c)

\* The runtime polls every task that can run: the handlers and both actors.
\* That the DHW actor gets through a command rests on the timeouts of its
\* calls to the Modbus actor.
Fairness ==
    /\ \A c \in Requests : WF_vars(Handling(c))
    /\ WF_vars(SgServes) /\ WF_vars(SgEnds) /\ WF_vars(DhwServes)
    /\ WF_vars(StopsListening) /\ WF_vars(Exits)

Spec == Init /\ [][Next]_vars /\ Fairness
-----------------------------------------------------------------------------
\* Types.
Statuses == {0, 200, 204, 400, 404, 408, 409, 422, 500, 503}

\* Every variable has its type; what a process that refused to start has
\* started is nothing; an actor's mailbox holds at most one message of a
\* request, and none when the actor was never started (main.rs, routes).
TypeOK ==
    /\ reg \in [Params -> Word]
    /\ \A c \in Requests :
          /\ call[c].phase \in {"idle", "open", "left"} \cup Answers
          /\ call[c].ask \in Asks /\ call[c].sent \in BOOLEAN
          /\ req[c].pc \in {"none", "asking", "waiting", "answered", "gone"}
          /\ req[c].status \in Statuses /\ req[c].done \in BOOLEAN
          /\ (req[c].pc = "answered") = (req[c].status # 0)
    /\ phase \in {"starting", "refused", "serving", "stopping", "draining", "stopped"}
    /\ phase \in {"starting", "refused"} => parts = {} /\ ~sg.alive
    /\ sg.mode \in Modes /\ sg.due \in BOOLEAN /\ sg.alive \in BOOLEAN
    /\ boost \in {"none", "shower", "bath"}
    /\ \A actor \in {"smartgrid", "dhw"} :
          /\ actor \notin parts => box[actor] = <<>>
          /\ \A i, j \in DOMAIN box[actor] :
                box[actor][i].from = box[actor][j].from => i = j

Changes ==
    {"postCtc", "setSetpoint", "setPowersave", "setSmartgrid", "cancelResume", "setComfort",
     "startBoost", "cancelBoost"}

DhwRoutes == {"dhwState", "setComfort", "startBoost", "cancelBoost"}

SmartGridRoutes ==
    {"setSmartgrid", "getSmartgrid", "setPowersave", "getPowersave", "cancelResume"}

Has(c, statuses) == req[c].pc = "answered" /\ req[c].status \in statuses

SentToHeater(c) == call[c].sent

\* A refusal means it: whoever is told that the request was bad (400), not
\* there (404), in conflict (409) or out of range (422) has changed nothing,
\* at the heater, the SmartGrid lines or a boost - and neither has whoever is
\* told 503 by an actor other than Modbus (error.rs, routes).
RefusedLeavesNoTrace ==
    \A c \in Requests :
        /\ Has(c, {400, 404, 409, 422}) => ~req[c].done /\ ~SentToHeater(c)
        /\ Has(c, {503}) /\ req[c].plan.to # "modbus" => ~req[c].done

\* A success means it: a change that is acknowledged was made, and sent to
\* the heater where it is a register (routes/ctc.rs, temperatures.rs).
AcknowledgedIsDone ==
    \A c \in Requests :
        Has(c, {200, 204}) /\ req[c].asks.route \in Changes =>
            IF req[c].plan.to = "modbus" THEN SentToHeater(c) ELSE req[c].done

\* A part is called missing only when it was not started, or has ended: 404
\* for the boosts, 503 for SmartGrid and the pump.
MissingIsMissing ==
    \A c \in Requests :
        /\ Has(c, {404}) /\ req[c].asks.route \in DhwRoutes => "dhw" \notin parts
        /\ Has(c, {503}) /\ req[c].asks.route \in SmartGridRoutes =>
              "smartgrid" \notin parts \/ phase # "serving"
        /\ Has(c, {503}) /\ req[c].asks.route = "pump" => "homey" \notin parts

\* What a status says about the request is so, over refusals of two layers,
\* timeouts, actors that end in between and parts that never started.
StatusIsTrue == RefusedLeavesNoTrace /\ AcknowledgedIsDone /\ MissingIsMissing

\* Every accepted request ends with an answer unless its client leaves, also
\* when the process is told to stop while it waits in an actor's mailbox; and
\* a process that is told to stop stops (main.rs, with_graceful_shutdown).
RequestsEnd ==
    /\ \A c \in Requests : (c \in InFlight) ~> (c \notin InFlight)
    /\ (phase = "stopping") ~> (phase = "stopped")

\* Not so: one GET of the SmartGrid mode and the resume is one moment.  Three
\* messages are three moments (routes/smartgrid.rs, get_smartgrid).
StatusIsOneMoment ==
    \A c \in Requests :
        Has(c, {200}) /\ req[c].asks.route = "getSmartgrid" =>
            req[c].view # <<"normal", TRUE>>

\* Not so: "All settings can be overridden with environment variables using
\* the CTC_ prefix" (README.md): what a variable says of a setting holds.  Most
\* names with two words find no way to their field, and the "optional override
\* via env: CTC_DHW_PERSIST_PATH" of the DHW design makes the load fail.
EnvironmentOverrides ==
    phase # "starting" => \A k \in DOMAIN given.env : Conf[k] = given.env[k]

\* Not so: the rollback of a Bath start undoes "what we wrote" (dhw/actor.rs).
\* A start that fails at the lane has written nothing, and yet its rollback
\* sets the SmartGrid mode to normal and drops a schedule.
RollbackUndoesItsOwn ==
    [][/\ DhwServes
       /\ boost = "none" /\ Head(box.dhw).command.do = "bath"
       /\ LaneIsHeard = {FALSE}
       => sg' = sg]_vars
=============================================================================
