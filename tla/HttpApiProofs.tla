--------------------------- MODULE HttpApiProofs ---------------------------
(***************************************************************************)
(* Theorems about the HTTP server (HttpApi), for every set of requests,    *)
(* catalogue, settings and registers:                                      *)
(*   TypeCorrect    every variable keeps its type                          *)
(*   StatusCorrect  what a status says about a request is so               *)
(* A request is followed from its handler's plan over the call to the      *)
(* Modbus actor, or the message in an actor's mailbox, to its answer.      *)
(***************************************************************************)
EXTENDS HttpApi, TLAPS

-----------------------------------------------------------------------------
(* The inductive invariant.  r is a request, k its call, ps the parts that   *)
(* were started and ph the phase of the process.                             *)

Phases == {"starting", "refused", "serving", "stopping", "draining", "stopped"}

\* An answer the handler gives by itself.
SaysRight(a, status, ps) ==
    /\ status \in {200, 400, 404, 503}
    /\ status = 200 => a.route \notin Changes
    /\ status = 404 /\ a.route \in DhwRoutes => "dhw" \notin ps
    /\ status = 503 /\ a.route \in SmartGridRoutes => "smartgrid" \notin ps
    /\ status = 503 /\ a.route = "pump" => "homey" \notin ps

\* What the handler of each route asks the actors.
AsksModbus(a, h) ==
    /\ a.route \notin SmartGridRoutes \cup DhwRoutes \cup {"pump"}
    /\ a.route \in Changes => h.ask.op = "write"

SgCommands ==
    [do : {"set"}, mode : Modes, schedule : BOOLEAN] \cup
    [do : {"mode", "due", "changed", "cancel"}]
SgChanges(command) == command.do \in {"set", "cancel"}
AsksSmartGrid(a, h, ps) ==
    /\ a.route \in SmartGridRoutes /\ "smartgrid" \in ps
    /\ DOMAIN h = {"to", "commands"}
    /\ h.commands \in Seq(SgCommands) /\ h.commands # <<>>
    /\ \A i \in 1 .. Len(h.commands) :
          SgChanges(h.commands[i]) <=> a.route \in Changes

DhwCommands ==
    [do : {"snapshot", "comfort", "shower", "cancel", "save"}] \cup
    [do : {"bath"}, hours : Int]
AsksDhw(a, h, ps) ==
    /\ a.route \in DhwRoutes /\ "dhw" \in ps
    /\ h.commands \in Seq(DhwCommands) /\ h.commands # <<>>
    /\ a.route \in Changes => Head(h.commands).do \notin {"snapshot", "save"}

PlanFits(a, h, ps) ==
    \/ h.to = "client" /\ SaysRight(a, h.status, ps)
    \/ h.to = "modbus" /\ AsksModbus(a, h)
    \/ h.to = "smartgrid" /\ AsksSmartGrid(a, h, ps)
    \/ h.to = "dhw" /\ AsksDhw(a, h, ps)

\* A request and what it carries.
ReqFields == {"pc", "asks", "plan", "status", "view", "done"}
Reports(r, statuses) == r.pc = "answered" /\ r.status \in statuses
ReqFits(r, ps) ==
    /\ DOMAIN r = ReqFields
    /\ r.pc \in {"none", "asking", "waiting", "answered", "gone"}
    /\ r.status \in Statuses /\ r.done \in BOOLEAN
    /\ (r.pc = "answered") = (r.status # 0)
    /\ r.pc # "answered" => ~r.done
    /\ r.pc # "none" => PlanFits(r.asks, r.plan, ps)
    /\ r.pc \in {"asking", "waiting"} => r.plan.to # "client"

\* Its call: none before it is made, and none but a Modbus request makes one;
\* who was refused by the actor, or by nobody's call, has sent nothing.
CallFits(r, k) ==
    /\ k.phase \in {"idle", "refused"} => ~k.sent
    /\ k.phase = "ok" /\ k.ask.op = "write" => k.sent
    /\ r.pc \in {"none", "asking"} => k.phase = "idle"
    /\ r.pc \in {"waiting", "answered"} /\ r.plan.to # "modbus" => k.phase = "idle"
    /\ r.pc = "waiting" /\ r.plan.to = "modbus" =>
          k.phase \notin {"idle", "left"} /\ k.ask = r.plan.ask
    /\ Reports(r, {400, 404, 409, 422}) => k.phase \in {"idle", "refused"}

\* What its status says is so.
StatusFits(r, k, ps, ph) ==
    /\ Reports(r, {400, 404, 409, 422}) => ~r.done
    /\ Reports(r, {503}) /\ r.plan.to # "modbus" => ~r.done
    /\ Reports(r, {200, 204}) /\ r.asks.route \in Changes =>
          IF r.plan.to = "modbus" THEN k.sent ELSE r.done
    /\ Reports(r, {404}) /\ r.asks.route \in DhwRoutes => "dhw" \notin ps
    /\ Reports(r, {503}) /\ r.asks.route \in SmartGridRoutes =>
          "smartgrid" \notin ps \/ ph # "serving"
    /\ Reports(r, {503}) /\ r.asks.route = "pump" => "homey" \notin ps

RequestFits(r, k, ps, ph) == ReqFits(r, ps) /\ CallFits(r, k) /\ StatusFits(r, k, ps, ph)

\* A mailbox: each message is the command of a request that waits for its
\* answer, or has waited, and the only one of it; or it is the order to save.
Actors == {"smartgrid", "dhw"}
Messages(actor) ==
    [from : Requests \cup {Nothing},
     command : IF actor = "dhw" THEN DhwCommands ELSE SgCommands]
MailFits(actor, q, rs, ps) ==
    /\ q \in Seq(Messages(actor))
    /\ q # <<>> => actor \in ps
    /\ \A i \in 1 .. Len(q) : q[i].from # Nothing =>
          /\ rs[q[i].from].pc \in {"waiting", "gone"}
          /\ rs[q[i].from].plan.to = actor
          /\ q[i].command = Head(rs[q[i].from].plan.commands)
    /\ \A i \in 1 .. Len(q) : q[i].from = Nothing => actor = "dhw" /\ q[i] = Save
    /\ \A i, j \in 1 .. Len(q) : q[i].from = q[j].from => i = j

\* The process: nobody asks before it serves, the SmartGrid actor lives as long
\* as the process serves, and saving is asked of the DHW actor at the end.
PhaseInv ==
    /\ phase \in Phases
    /\ phase \in {"starting", "refused"} =>
          parts = {} /\ ~sg.alive /\ \A c \in Requests : req[c].pc = "none"
    /\ phase = "serving" /\ "smartgrid" \in parts => sg.alive
    /\ sg.alive => "smartgrid" \in parts
    /\ phase \in {"starting", "refused", "serving"} =>
          \A i \in 1 .. Len(box.dhw) : box.dhw[i].from # Nothing

Calls == [Requests -> [phase : {"idle", "open", "left"} \cup Answers, ask : Asks,
                       sent : BOOLEAN]]

ActorInv ==
    /\ given \in Givens
    /\ sg \in [mode : Modes, due : BOOLEAN, alive : BOOLEAN]
    /\ boost \in {"none", "shower", "bath"}

HInv ==
    /\ reg \in [Params -> Word]
    /\ call \in Calls
    /\ DOMAIN req = Requests
    /\ \A c \in Requests : RequestFits(req[c], call[c], parts, phase)
    /\ DOMAIN box = Actors
    /\ \A actor \in Actors : MailFits(actor, box[actor], req, parts)
    /\ PhaseInv /\ ActorInv

-----------------------------------------------------------------------------
(* The handlers: the plan of each route fits it. *)

\* A list of one, two or three commands.
LEMMA Lists ==
    ASSUME NEW S, NEW a \in S, NEW b \in S, NEW d \in S
    PROVE  /\ <<a>> \in Seq(S) /\ <<a>> # <<>> /\ Len(<<a>>) = 1 /\ Head(<<a>>) = a
           /\ <<a, b>> \in Seq(S) /\ <<a, b>> # <<>> /\ Len(<<a, b>>) = 2
           /\ <<a, b, d>> \in Seq(S) /\ <<a, b, d>> # <<>> /\ Len(<<a, b, d>>) = 3
  OBVIOUS

LEMMA SaysFits ==
    ASSUME NEW a, NEW status, SaysRight(a, status, parts)
    PROVE  PlanFits(a, Says(status), parts)
  BY DEF Says, PlanFits

LEMMA ModbusFits ==
    ASSUME NEW a, NEW op, NEW p, NEW v,
           a.route \notin SmartGridRoutes \cup DhwRoutes \cup {"pump"},
           a.route \in Changes => op = "write"
    PROVE  PlanFits(a, Modbus(op, p, v), parts)
  BY DEF Modbus, PlanFits, AsksModbus

LEMMA SmartGridFits ==
    ASSUME NEW a, NEW commands \in Seq(SgCommands), commands # <<>>,
           a.route \in SmartGridRoutes,
           \A i \in 1 .. Len(commands) : SgChanges(commands[i]) <=> a.route \in Changes
    PROVE  PlanFits(a, SmartGrid(commands), parts)
  <1>1. CASE "smartgrid" \in parts
    BY <1>1 DEF SmartGrid, PlanFits, AsksSmartGrid
  <1>2. CASE "smartgrid" \notin parts
    <2>1. a.route \notin DhwRoutes /\ a.route # "pump"
      BY DEF SmartGridRoutes, DhwRoutes
    <2>2. SaysRight(a, 503, parts)
      BY <1>2, <2>1 DEF SaysRight
    <2> QED BY <1>2, <2>2, SaysFits DEF SmartGrid
  <1> QED BY <1>1, <1>2

LEMMA DhwFits ==
    ASSUME NEW a, NEW command \in DhwCommands, a.route \in DhwRoutes,
           a.route \in Changes => command.do \notin {"snapshot", "save"}
    PROVE  PlanFits(a, Dhw(command), parts)
  <1>1. CASE "dhw" \in parts
    BY <1>1, Lists DEF Dhw, PlanFits, AsksDhw
  <1>2. CASE "dhw" \notin parts
    <2>1. SaysRight(a, 404, parts)
      BY <1>2 DEF SaysRight
    <2> QED BY <1>2, <2>1, SaysFits DEF Dhw
  <1> QED BY <1>1, <1>2

LEMMA HandlerFits ==
    ASSUME NEW c \in Requests, NEW a \in Requested[c], NEW sampled, NEW served
    PROVE  PlanFits(a, Handler(a, sampled, served), parts)
  <1> DEFINE h == Handler(a, sampled, served)
  <1> SUFFICES PlanFits(a, h, parts)
    OBVIOUS
  <1> USE DEF SmartGridRoutes, DhwRoutes, Changes
  <1>0. /\ a.route \in Routes
        /\ a.route \in {"setPowersave", "setSmartgrid"} => a.schedule \in BOOLEAN
        /\ a.route = "startBoost" => a.hours \in Int \cup {Absent}
    BY HttpAssumption
  <1>1. /\ PlanFits(a, Says(400), parts)
        /\ a.route \notin Changes => PlanFits(a, Says(200), parts)
        /\ a.route \notin SmartGridRoutes \cup {"pump"} => PlanFits(a, Says(503), parts)
        /\ a.route = "pump" /\ "homey" \notin parts => PlanFits(a, Says(503), parts)
        /\ "smartgrid" \notin parts /\ a.route # "pump" => PlanFits(a, Says(503), parts)
        /\ "dhw" \notin parts => PlanFits(a, Says(404), parts)
    BY SaysFits DEF SaysRight
  <1>2. CASE a.route \in {"getCtc", "temperature", "setpoint", "visibility", "allVisibility",
                          "paramVisibility", "alarmStatus", "modbusStats"}
    <2>1. \A op, p, v : PlanFits(a, Modbus(op, p, v), parts)
      BY <1>2, ModbusFits
    <2>2. PlanFits(a, Says(400), parts) /\ PlanFits(a, Says(200), parts)
      BY <1>1, <1>2
    <2>3. h \in {GetCtcData(a, sampled), GetTemperature(a, sampled), GetRoomSetTemp,
                 GetVisibility(a), GetAllVisibility, GetParameterVisibility(a),
                 GetAlarmStatus, GetModbusStats}
      BY <1>2 DEF Handler
    <2> HIDE DEF h
    <2> QED BY <2>1, <2>2, <2>3 DEF GetCtcData, GetTemperature, GetRoomSetTemp, GetVisibility,
               GetAllVisibility, GetParameterVisibility, GetAlarmStatus, GetModbusStats
  <1>3. CASE a.route \in {"postCtc", "setSetpoint"}
    <2>1. \A p, v : PlanFits(a, Modbus("write", p, v), parts)
      BY <1>3, ModbusFits
    <2>2. h \in {PostCtcData(a), SetRoomSetTemp(a)}
      BY <1>3 DEF Handler
    <2> HIDE DEF h
    <2> QED BY <1>1, <2>1, <2>2 DEF PostCtcData, SetRoomSetTemp
  <1>4. CASE a.route \in {"setPowersave", "setSmartgrid"}
    <2>1. ASSUME NEW mode \in Modes
          PROVE  PlanFits(a, SmartGrid(<<SetCommand(mode, a.schedule)>>), parts)
      <3> DEFINE k == SetCommand(mode, a.schedule)
      <3>1. k \in SgCommands /\ SgChanges(k)
        BY <1>0, <1>4 DEF SetCommand, SgCommands, SgChanges
      <3> HIDE DEF k
      <3>2. <<k>> \in Seq(SgCommands) /\ <<k>> # <<>> /\ Len(<<k>>) = 1
        BY <3>1, Lists
      <3>3. \A i \in 1 .. Len(<<k>>) : <<k>>[i] = k
        BY <3>2
      <3>4. PlanFits(a, SmartGrid(<<k>>), parts)
        BY <1>4, <3>1, <3>2, <3>3, SmartGridFits
      <3> QED BY <3>4 DEF k
    <2>2. CASE a.route = "setPowersave"
      <3>1. h = SetPowerSave(a)
        BY <2>2 DEF Handler
      <3>2. "blocking" \in Modes /\ "normal" \in Modes
        BY DEF Modes
      <3> HIDE DEF h
      <3> QED BY <2>1, <3>1, <3>2 DEF SetPowerSave
    <2>3. CASE a.route = "setSmartgrid"
      <3>1. h = SetSmartGrid(a)
        BY <2>3 DEF Handler
      <3>2. a.route # "pump"
        BY <2>3
      <3> HIDE DEF h
      <3> QED BY <1>1, <2>1, <3>1, <3>2 DEF SetSmartGrid
    <2> QED BY <1>4, <2>2, <2>3
  <1>5. CASE a.route \in {"getPowersave", "getSmartgrid", "cancelResume"}
    <2>1. \A what \in {"mode", "due", "changed", "cancel"} :
            /\ Reading(what) \in SgCommands
            /\ SgChanges(Reading(what)) <=> what = "cancel"
      BY DEF Reading, SgCommands, SgChanges
    <2> DEFINE mode == Reading("mode")
               due == Reading("due")
               changed == Reading("changed")
               cancel == Reading("cancel")
    <2>2. /\ {mode, due, changed, cancel} \subseteq SgCommands
          /\ ~SgChanges(mode) /\ ~SgChanges(due) /\ ~SgChanges(changed) /\ SgChanges(cancel)
      BY <2>1
    <2> HIDE DEF mode, due, changed, cancel
    <2>3. CASE a.route = "getPowersave"
      <3>1. h = SmartGrid(<<mode, due>>)
        BY <2>3 DEF Handler, GetPowerSave, mode, due
      <3>2. <<mode, due>> \in Seq(SgCommands) /\ <<mode, due>> # <<>>
            /\ Len(<<mode, due>>) = 2
        BY <2>2, Lists
      <3>3. \A i \in 1 .. Len(<<mode, due>>) : <<mode, due>>[i] \in {mode, due}
        BY <3>2
      <3> HIDE DEF h
      <3>4. \A i \in 1 .. Len(<<mode, due>>) :
              SgChanges(<<mode, due>>[i]) <=> a.route \in Changes
        BY <2>2, <2>3, <3>3
      <3>5. PlanFits(a, SmartGrid(<<mode, due>>), parts)
        BY <2>3, <3>2, <3>4, SmartGridFits
      <3> QED BY <3>1, <3>5
    <2>4. CASE a.route = "getSmartgrid"
      <3>1. h = SmartGrid(<<mode, changed, due>>)
        BY <2>4 DEF Handler, GetSmartGrid, mode, changed, due
      <3>2. <<mode, changed, due>> \in Seq(SgCommands) /\ <<mode, changed, due>> # <<>>
            /\ Len(<<mode, changed, due>>) = 3
        BY <2>2, Lists
      <3>3. \A i \in 1 .. Len(<<mode, changed, due>>) :
              <<mode, changed, due>>[i] \in {mode, changed, due}
        BY <3>2
      <3> HIDE DEF h
      <3>4. \A i \in 1 .. Len(<<mode, changed, due>>) :
              SgChanges(<<mode, changed, due>>[i]) <=> a.route \in Changes
        BY <2>2, <2>4, <3>3
      <3>5. PlanFits(a, SmartGrid(<<mode, changed, due>>), parts)
        BY <2>4, <3>2, <3>4, SmartGridFits
      <3> QED BY <3>1, <3>5
    <2>5. CASE a.route = "cancelResume"
      <3>1. h = SmartGrid(<<cancel>>)
        BY <2>5 DEF Handler, DeleteScheduledResume, cancel
      <3>2. <<cancel>> \in Seq(SgCommands) /\ <<cancel>> # <<>> /\ Len(<<cancel>>) = 1
        BY <2>2, Lists
      <3>3. \A i \in 1 .. Len(<<cancel>>) : <<cancel>>[i] = cancel
        BY <3>2
      <3> HIDE DEF h
      <3>4. PlanFits(a, SmartGrid(<<cancel>>), parts)
        BY <2>2, <2>5, <3>2, <3>3, SmartGridFits
      <3> QED BY <3>1, <3>4
    <2> QED BY <1>5, <2>3, <2>4, <2>5
  <1>6. CASE a.route \in DhwRoutes
    <2>1. ASSUME NEW command \in DhwCommands,
                 a.route \in Changes => command.do \notin {"snapshot", "save"}
          PROVE  PlanFits(a, Dhw(command), parts)
      BY <1>6, <2>1, DhwFits
    <2>2. /\ \A what \in {"snapshot", "comfort", "shower", "cancel"} :
               [do |-> what] \in DhwCommands
          /\ \A hours \in Int : [do |-> "bath", hours |-> hours] \in DhwCommands
      BY DEF DhwCommands
    <2>3. CASE a.route = "dhwState"
      <3>1. h = Dhw([do |-> "snapshot"])
        BY <2>3 DEF Handler, GetDhwState
      <3> QED BY <2>1, <2>2, <2>3, <3>1
    <2>4. CASE a.route = "setComfort"
      <3>1. h = SetComfort(a)
        BY <2>4 DEF Handler
      <3>2. PlanFits(a, Dhw([do |-> "comfort"]), parts)
        BY <2>1, <2>2
      <3> HIDE DEF h
      <3> QED BY <1>1, <3>1, <3>2 DEF SetComfort
    <2>5. CASE a.route = "startBoost"
      <3>1. h = StartBoost(a)
        BY <2>5 DEF Handler
      <3>2. PlanFits(a, Dhw([do |-> "shower"]), parts)
        BY <2>1, <2>2
      <3>3. a.hours \in Int => PlanFits(a, Dhw([do |-> "bath", hours |-> a.hours]), parts)
        BY <2>1, <2>2
      <3> HIDE DEF h
      <3> QED BY <1>0, <1>1, <2>5, <3>1, <3>2, <3>3 DEF StartBoost
    <2>6. CASE a.route = "cancelBoost"
      <3>1. h = Dhw([do |-> "cancel"])
        BY <2>6 DEF Handler, CancelBoost
      <3> QED BY <2>1, <2>2, <2>6, <3>1
    <2> QED BY <1>6, <2>3, <2>4, <2>5, <2>6
  <1>7. CASE a.route \in {"pump", "prices", "memory"}
    <2>2. PlanFits(a, Says(200), parts)
      BY <1>1, <1>7
    <2>3. CASE a.route = "pump"
      <3>1. h = GetPump
        BY <2>3 DEF Handler
      <3> HIDE DEF h
      <3> QED BY <1>1, <2>2, <2>3, <3>1 DEF GetPump
    <2>4. CASE a.route # "pump"
      <3>1. h \in {GetPrices(served), FromMemory}
        BY <1>7, <2>4 DEF Handler
      <3>2. PlanFits(a, Says(503), parts)
        BY <1>1, <1>7, <2>4
      <3> HIDE DEF h
      <3> QED BY <2>2, <3>1, <3>2 DEF GetPrices, FromMemory
    <2> QED BY <2>3, <2>4
  <1> QED BY <1>0, <1>2, <1>3, <1>4, <1>5, <1>6, <1>7 DEF Routes

-----------------------------------------------------------------------------
(* What becomes of one request. *)

\* The fields of a request that moves on.
LEMMA Shapes ==
    ASSUME NEW r, DOMAIN r = ReqFields
    PROVE  /\ \A x : LET m == [r EXCEPT !.pc = x] IN
                /\ DOMAIN m = ReqFields /\ m.pc = x /\ m.asks = r.asks /\ m.plan = r.plan
                /\ m.status = r.status /\ m.done = r.done
           /\ \A s : LET m == Answered(r, s) IN
                /\ DOMAIN m = ReqFields /\ m.pc = "answered" /\ m.asks = r.asks
                /\ m.plan = r.plan /\ m.status = s /\ m.done = r.done
           /\ \A s, d : LET m == [Answered(r, s) EXCEPT !.done = d] IN
                /\ DOMAIN m = ReqFields /\ m.pc = "answered" /\ m.asks = r.asks
                /\ m.plan = r.plan /\ m.status = s /\ m.done = d
           /\ \A v : LET m == [r EXCEPT !.view = v] IN
                /\ DOMAIN m = ReqFields /\ m.pc = r.pc /\ m.asks = r.asks
                /\ m.plan = r.plan /\ m.status = r.status /\ m.done = r.done
  BY DEF Answered, ReqFields

\* A request that is answered where it waits for an actor.
LEMMA ActorAnswers ==
    ASSUME NEW r, NEW m, NEW k, NEW ps, NEW ph, RequestFits(r, k, ps, ph),
           r.pc \in {"asking", "waiting"}, r.plan.to \in Actors,
           DOMAIN m = ReqFields, m.pc = "answered", m.asks = r.asks, m.plan = r.plan,
           m.done \in BOOLEAN, m.status \in {200, 204, 409, 422, 500, 503},
           m.status \in {409, 422, 503} => ~m.done,
           m.status \in {200, 204} /\ r.asks.route \in Changes => m.done,
           m.status = 503 /\ r.asks.route \in SmartGridRoutes =>
              "smartgrid" \notin ps \/ ph # "serving"
    PROVE  RequestFits(m, k, ps, ph)
  <1> USE DEF RequestFits
  <1>1. k.phase = "idle" /\ ~k.sent /\ PlanFits(r.asks, r.plan, ps)
    BY DEF ReqFits, CallFits, Actors
  <1>2. r.asks.route \in SmartGridRoutes \cup DhwRoutes
    BY <1>1 DEF PlanFits, AsksSmartGrid, AsksDhw, Actors
  <1>3. ReqFits(m, ps)
    BY <1>1 DEF ReqFits, Statuses
  <1>4. CallFits(m, k)
    BY <1>1 DEF CallFits, Actors
  <1>5. StatusFits(m, k, ps, ph)
    BY <1>1, <1>2 DEF StatusFits, Reports, Actors, SmartGridRoutes, DhwRoutes
  <1> QED BY <1>3, <1>4, <1>5

\* A request that is answered where it waits for the Modbus actor, by the
\* outcome of its call.
LEMMA ModbusAnswered ==
    ASSUME NEW r, NEW m, NEW k, NEW ps, NEW ph, RequestFits(r, k, ps, ph),
           r.pc = "waiting", r.plan.to = "modbus", k.phase \in Answers,
           NEW status \in StatusesOf(r.plan.ask, k.phase), m = Answered(r, status)
    PROVE  RequestFits(m, k, ps, ph)
  <1> USE DEF RequestFits
  <1>1. /\ DOMAIN m = ReqFields /\ m.pc = "answered" /\ m.asks = r.asks
        /\ m.plan = r.plan /\ m.status = status /\ m.done = r.done
    BY Shapes DEF ReqFits
  <1>2. ~r.done /\ AsksModbus(r.asks, r.plan) /\ PlanFits(r.asks, r.plan, ps)
    BY DEF ReqFits, PlanFits
  <1>3. /\ k.phase = "ok" => status = 200
        /\ k.phase = "refused" => status \in {400, 404}
        /\ k.phase = "failed" => status \in {408, 503, 500}
    BY DEF StatusesOf, RefusedAs, FailedAs
  <1>4. status \in {200, 400, 404, 408, 500, 503}
    BY <1>3 DEF Answers
  <1>5. ReqFits(m, ps)
    BY <1>1, <1>2, <1>4 DEF ReqFits, Statuses
  <1>6. CallFits(m, k)
    BY <1>1, <1>3 DEF CallFits, Reports, Answers
  <1>7. status = 200 /\ r.asks.route \in Changes => k.sent
    <2>1. status = 200 => k.phase = "ok"
      BY <1>3 DEF Answers
    <2> QED BY <1>2, <2>1 DEF CallFits, AsksModbus
  <1>8. StatusFits(m, k, ps, ph)
    BY <1>1, <1>2, <1>4, <1>7 DEF StatusFits, Reports, AsksModbus
  <1> QED BY <1>5, <1>6, <1>8

\* A request whose client or whose patience is gone.
LEMMA LeftBehind ==
    ASSUME NEW r, NEW m, NEW k, NEW k2, NEW ps, NEW ph, RequestFits(r, k, ps, ph),
           r.pc \in {"asking", "waiting"},
           k2.phase \in {"idle", "refused"} => ~k2.sent,
           k2.phase = "ok" /\ k2.ask.op = "write" => k2.sent,
           \/ m = [r EXCEPT !.pc = "gone"]
           \/ m = Answered(r, 408) /\ r.plan.to = "modbus"
    PROVE  RequestFits(m, k2, ps, ph)
  <1>1. DOMAIN r = ReqFields
    BY DEF RequestFits, ReqFits
  <1>2. CASE m = [r EXCEPT !.pc = "gone"]
    <2>1. /\ DOMAIN m = ReqFields /\ m.pc = "gone" /\ m.asks = r.asks
          /\ m.plan = r.plan /\ m.status = r.status /\ m.done = r.done
      BY <1>1, <1>2, Shapes
    <2>2. ReqFits(m, ps)
      BY <2>1 DEF RequestFits, ReqFits
    <2>3. CallFits(m, k2) /\ StatusFits(m, k2, ps, ph)
      BY <2>1 DEF CallFits, StatusFits, Reports
    <2> QED BY <2>2, <2>3 DEF RequestFits
  <1>3. CASE m = Answered(r, 408) /\ r.plan.to = "modbus"
    <2>1. /\ DOMAIN m = ReqFields /\ m.pc = "answered" /\ m.asks = r.asks
          /\ m.plan = r.plan /\ m.status = 408 /\ m.done = r.done
      BY <1>1, <1>3, Shapes
    <2>2. ReqFits(m, ps)
      BY <2>1 DEF RequestFits, ReqFits, Statuses
    <2>3. CallFits(m, k2) /\ StatusFits(m, k2, ps, ph)
      BY <1>3, <2>1 DEF CallFits, StatusFits, Reports
    <2> QED BY <2>2, <2>3 DEF RequestFits
  <1> QED BY <1>2, <1>3

\* A request that is as it was, when its call goes on, or the process does.
LEMMA CallGoesOn ==
    ASSUME NEW r, NEW k, NEW k2, NEW ps, NEW ph, RequestFits(r, k, ps, ph),
           k.phase \in {"open", "left"}, k2.ask = k.ask,
           k2.phase \notin {"idle"}, k2.phase = "left" => k.phase = "left",
           k2.sent \in BOOLEAN, k.sent => k2.sent,
           k2.phase = "refused" => ~k2.sent,
           k2.phase = "ok" /\ k2.ask.op = "write" => k2.sent
    PROVE  RequestFits(r, k2, ps, ph)
  <1>1. CallFits(r, k2)
    BY DEF RequestFits, CallFits
  <1>2. StatusFits(r, k2, ps, ph)
    BY DEF RequestFits, StatusFits
  <1> QED BY <1>1, <1>2 DEF RequestFits

LEMMA PhaseGoesOn ==
    ASSUME NEW r, NEW k, NEW ps, NEW ph, NEW ph2, RequestFits(r, k, ps, ph),
           ph2 # "serving"
    PROVE  RequestFits(r, k, ps, ph2)
  BY DEF RequestFits, StatusFits

\* A request nobody has made.
LEMMA UnaskedFits ==
    ASSUME NEW k, NEW ps, NEW ph, k.phase = "idle", ~k.sent
    PROVE  RequestFits(Unasked, k, ps, ph)
  BY DEF RequestFits, ReqFits, CallFits, StatusFits, Reports, Unasked, ReqFields, Statuses

-----------------------------------------------------------------------------
(* The calls to the Modbus actor. *)

LEMMA SentIsWord ==
    ASSUME NEW a \in Asks, MayBeSent(a)
    PROVE  RawOf(a) \in Word /\ a.param \in Params
  <1>1. a \in [op : Operations, param : Params, value : Int]
    BY RegistersAssumption
  <1>2. CASE a.op = "rawWrite"
    BY <1>1, <1>2, RegistersAssumption DEF RawOf
  <1>3. CASE a.op = "write" /\ Representable(a.param, a.value)
    BY <1>1, <1>3, RegistersAssumption DEF RawOf, RawValue, Representable, Word
  <1> QED BY <1>1, <1>2, <1>3 DEF MayBeSent

\* What a step of the actor on a call leaves of it.
LEMMA WorkDone ==
    ASSUME reg \in [Params -> Word], call \in Calls, NEW c \in Requests,
           Send(c) \/ Answer(c) \/ SendAndAnswer(c)
    PROVE  /\ reg' \in [Params -> Word] /\ call' \in Calls
           /\ \A d \in Requests : d # c => call'[d] = call[d]
           /\ call[c].phase \in {"open", "left"}
           /\ call'[c].ask = call[c].ask
           /\ call'[c].phase # "idle"
           /\ call'[c].phase = "left" => call[c].phase = "left"
           /\ call[c].sent => call'[c].sent
           /\ call'[c].phase = "refused" => ~call'[c].sent
           /\ call'[c].phase = "ok" /\ call'[c].ask.op = "write" => call'[c].sent
  <1>0. call[c].ask \in Asks /\ call[c].sent \in BOOLEAN
        /\ call[c] = [phase |-> call[c].phase, ask |-> call[c].ask, sent |-> call[c].sent]
    BY DEF Calls
  <1>1. MayBeSent(call[c].ask) /\ (\/ reg' = [reg EXCEPT ![call[c].ask.param] = RawOf(call[c].ask)]
                                   \/ UNCHANGED reg)
        => reg' \in [Params -> Word]
    BY <1>0, SentIsWord
  <1>2. CASE Send(c)
    <2>1. reg' \in [Params -> Word]
      BY <1>1, <1>2 DEF Send
    <2>2. call' = [call EXCEPT ![c].sent = TRUE] /\ call[c].phase \in {"open", "left"}
      BY <1>2 DEF Send
    <2> QED BY <1>0, <2>1, <2>2 DEF Calls
  <1>3. CASE Answer(c)
    <2>1. call[c].phase = "open" /\ reg' = reg
      BY <1>3 DEF Answer
    <2>2. PICK answer \in Answers :
            MayAnswer(call[c], answer) /\ call' = [call EXCEPT ![c].phase = answer]
      BY <1>3 DEF Answer
    <2>3. /\ answer = "refused" => ~call[c].sent
          /\ answer = "ok" /\ call[c].ask.op = "write" => call[c].sent
      BY <2>2 DEF MayAnswer
    <2> QED BY <1>0, <2>1, <2>2, <2>3 DEF Calls, Answers
  <1>4. CASE SendAndAnswer(c)
    <2>1. reg' \in [Params -> Word] /\ call[c].phase = "open"
      BY <1>1, <1>4 DEF SendAndAnswer
    <2>2. PICK answer \in {"ok", "failed"} :
            call' = [call EXCEPT ![c] = [phase |-> answer, ask |-> @.ask, sent |-> TRUE]]
      BY <1>4 DEF SendAndAnswer
    <2> QED BY <1>0, <2>1, <2>2 DEF Calls, Answers
  <1> QED BY <1>2, <1>3, <1>4

-----------------------------------------------------------------------------
(* The mailboxes. *)

\* A mailbox minds the requests that have, or had, a message in it.
LEMMA MailMinds ==
    ASSUME NEW actor, NEW q, NEW rs, NEW rs2, NEW ps, MailFits(actor, q, rs, ps),
           \A c \in Requests :
              \/ rs2[c] = rs[c]
              \/ rs[c].pc \in {"none", "asking"} \/ rs[c].plan.to # actor
              \/ rs2[c].pc = "gone" /\ rs2[c].plan = rs[c].plan
    PROVE  MailFits(actor, q, rs2, ps)
  <1>1. ASSUME NEW i \in 1 .. Len(q), q[i].from # Nothing
        PROVE  /\ rs2[q[i].from].pc \in {"waiting", "gone"}
               /\ rs2[q[i].from].plan.to = actor
               /\ q[i].command = Head(rs2[q[i].from].plan.commands)
    <2>1. q[i].from \in Requests
      <3>1. q \in Seq(Messages(actor))
        BY DEF MailFits
      <3>2. q[i] \in Messages(actor)
        BY <1>1, <3>1
      <3> QED BY <1>1, <3>2 DEF Messages
    <2>2. /\ rs[q[i].from].pc \in {"waiting", "gone"}
          /\ rs[q[i].from].plan.to = actor
          /\ q[i].command = Head(rs[q[i].from].plan.commands)
      BY <1>1 DEF MailFits
    <2> QED BY <2>1, <2>2
  <1> QED BY <1>1 DEF MailFits

\* A request puts its command into the mailbox.
LEMMA MailComes ==
    ASSUME NEW actor \in Actors, NEW q, NEW rs, NEW rs2, NEW ps, NEW c \in Requests,
           MailFits(actor, q, rs, ps), actor \in ps,
           rs[c].pc = "asking", rs2[c].pc = "waiting", rs2[c].plan = rs[c].plan,
           rs[c].plan.to = actor, Nothing \notin Requests,
           Head(rs[c].plan.commands) \in (IF actor = "dhw" THEN DhwCommands ELSE SgCommands),
           \A d \in Requests : d # c => rs2[d] = rs[d]
    PROVE  LET z == Append(q, [from |-> c, command |-> Head(rs[c].plan.commands)]) IN
           /\ MailFits(actor, z, rs2, ps)
           /\ (\A i \in 1 .. Len(q) : q[i].from # Nothing) =>
                 \A i \in 1 .. Len(z) : z[i].from # Nothing
  <1> DEFINE m == [from |-> c, command |-> Head(rs[c].plan.commands)]
             n == Len(q)
             z == Append(q, m)
  <1>1. m \in Messages(actor) /\ m.from = c /\ m.command = Head(rs[c].plan.commands)
    BY DEF Messages
  <1>2. q \in Seq(Messages(actor)) /\ n \in Nat
    BY DEF MailFits
  <1> HIDE DEF m
  <1>3. /\ z \in Seq(Messages(actor)) /\ Len(z) = n + 1 /\ z[n + 1] = m
        /\ \A i \in 1 .. n : z[i] = q[i] /\ q[i] \in Messages(actor)
    BY <1>1, <1>2
  <1> HIDE DEF z
  <1>4. \A i \in 1 .. n : q[i].from # c
    BY DEF MailFits
  <1>5. \A i \in 1 .. n : q[i].from \in Requests \cup {Nothing}
    BY <1>3 DEF Messages
  <1> HIDE DEF n
  <1>6. /\ \A i \in 1 .. n : q[i].from # Nothing =>
              /\ rs[q[i].from].pc \in {"waiting", "gone"}
              /\ rs[q[i].from].plan.to = actor
              /\ q[i].command = Head(rs[q[i].from].plan.commands)
        /\ \A i \in 1 .. n : q[i].from = Nothing => actor = "dhw" /\ q[i] = Save
        /\ \A i, j \in 1 .. n : q[i].from = q[j].from => i = j
    BY DEF MailFits, n
  <1>7. \A i \in 1 .. (n + 1) : i \in 1 .. n \/ i = n + 1
    BY <1>2
  <1>8. \A i \in 1 .. (n + 1) : z[i].from # Nothing =>
              /\ rs2[z[i].from].pc \in {"waiting", "gone"}
              /\ rs2[z[i].from].plan.to = actor
              /\ z[i].command = Head(rs2[z[i].from].plan.commands)
    <2> TAKE i \in 1 .. (n + 1)
    <2>1. CASE i = n + 1
      BY <1>1, <1>3, <2>1
    <2>2. CASE i \in 1 .. n
      <3>1. z[i] = q[i] /\ q[i].from # c /\ q[i].from \in Requests \cup {Nothing}
        BY <1>3, <1>4, <1>5, <2>2
      <3> QED BY <1>6, <2>2, <3>1
    <2> QED BY <1>7, <2>1, <2>2
  <1>9. \A i \in 1 .. (n + 1) : z[i].from = Nothing => actor = "dhw" /\ z[i] = Save
    <2> TAKE i \in 1 .. (n + 1)
    <2>1. CASE i = n + 1
      BY <1>1, <1>3, <2>1
    <2>2. CASE i \in 1 .. n
      BY <1>3, <1>6, <2>2
    <2> QED BY <1>7, <2>1, <2>2
  <1>10. \A i, j \in 1 .. (n + 1) : z[i].from = z[j].from => i = j
    <2> TAKE i, j \in 1 .. (n + 1)
    <2>1. CASE i \in 1 .. n /\ j \in 1 .. n
      BY <1>3, <1>6, <2>1
    <2>2. CASE i = n + 1 /\ j \in 1 .. n
      BY <1>1, <1>3, <1>4, <2>2
    <2>3. CASE i \in 1 .. n /\ j = n + 1
      BY <1>1, <1>3, <1>4, <2>3
    <2> QED BY <1>7, <2>1, <2>2, <2>3
  <1>11. MailFits(actor, z, rs2, ps)
    BY <1>3, <1>8, <1>9, <1>10 DEF MailFits
  <1>12. (\A i \in 1 .. n : q[i].from # Nothing) =>
            \A i \in 1 .. Len(z) : z[i].from # Nothing
    BY <1>1, <1>3, <1>7
  <1> QED BY <1>11, <1>12 DEF z, m, n

\* The order to save joins the DHW actor's mailbox, once.
LEMMA SaveComes ==
    ASSUME NEW q, NEW rs, NEW ps, MailFits("dhw", q, rs, ps), "dhw" \in ps,
           \A i \in 1 .. Len(q) : q[i].from # Nothing
    PROVE  MailFits("dhw", Append(q, Save), rs, ps)
  <1> DEFINE n == Len(q)
             z == Append(q, Save)
  <1>1. Save \in Messages("dhw") /\ Save.from = Nothing
    BY DEF Save, Messages, DhwCommands
  <1>2. q \in Seq(Messages("dhw")) /\ n \in Nat
    BY DEF MailFits
  <1>3. /\ z \in Seq(Messages("dhw")) /\ Len(z) = n + 1 /\ z[n + 1] = Save
        /\ \A i \in 1 .. n : z[i] = q[i]
    BY <1>1, <1>2
  <1> HIDE DEF z
  <1>4. /\ \A i \in 1 .. n : q[i].from # Nothing
        /\ \A i \in 1 .. n :
              /\ rs[q[i].from].pc \in {"waiting", "gone"}
              /\ rs[q[i].from].plan.to = "dhw"
              /\ q[i].command = Head(rs[q[i].from].plan.commands)
        /\ \A i, j \in 1 .. n : q[i].from = q[j].from => i = j
    BY DEF MailFits
  <1> HIDE DEF n
  <1>5. \A i \in 1 .. (n + 1) : i \in 1 .. n \/ i = n + 1
    BY <1>2
  <1>6. \A i \in 1 .. (n + 1) : z[i].from # Nothing =>
              /\ rs[z[i].from].pc \in {"waiting", "gone"}
              /\ rs[z[i].from].plan.to = "dhw"
              /\ z[i].command = Head(rs[z[i].from].plan.commands)
    BY <1>1, <1>3, <1>4, <1>5
  <1>7. \A i \in 1 .. (n + 1) : z[i].from = Nothing => z[i] = Save
    BY <1>3, <1>4, <1>5
  <1>8. \A i, j \in 1 .. (n + 1) : z[i].from = z[j].from => i = j
    BY <1>1, <1>3, <1>4, <1>5
  <1>9. z # <<>>
    <2>1. Len(<<>>) = 0
      OBVIOUS
    <2> QED BY <1>2, <1>3, <2>1
  <1>10. MailFits("dhw", z, rs, ps)
    BY <1>3, <1>6, <1>7, <1>8 DEF MailFits
  <1> QED BY <1>10 DEF z

\* An actor takes the first message; only who sent it may be answered.
LEMMA MailGoes ==
    ASSUME NEW actor, NEW q, NEW rs, NEW rs2, NEW ps, MailFits(actor, q, rs, ps),
           q # <<>>, \A c \in Requests : c # Head(q).from => rs2[c] = rs[c]
    PROVE  /\ MailFits(actor, Tail(q), rs2, ps)
           /\ (\A i \in 1 .. Len(q) : q[i].from # Nothing) =>
                 \A i \in 1 .. Len(Tail(q)) : Tail(q)[i].from # Nothing
  <1> DEFINE n == Len(q)
             z == Tail(q)
  <1>1. q \in Seq(Messages(actor))
    BY DEF MailFits
  <1>2. n \in Nat /\ n # 0 /\ Head(q) = q[1]
    BY <1>1
  <1>3. z \in Seq(Messages(actor)) /\ Len(z) = n - 1
        /\ \A i \in 1 .. (n - 1) : z[i] = q[i + 1]
    BY <1>1, <1>2
  <1> HIDE DEF z
  <1>4. /\ \A i \in 1 .. n : q[i].from # Nothing =>
              /\ rs[q[i].from].pc \in {"waiting", "gone"}
              /\ rs[q[i].from].plan.to = actor
              /\ q[i].command = Head(rs[q[i].from].plan.commands)
        /\ \A i \in 1 .. n : q[i].from = Nothing => actor = "dhw" /\ q[i] = Save
        /\ \A i, j \in 1 .. n : q[i].from = q[j].from => i = j
        /\ actor \in ps
    BY DEF MailFits
  <1>5. \A i \in 1 .. n : q[i].from \in Requests \cup {Nothing}
    <2>1. \A i \in 1 .. n : q[i] \in Messages(actor)
      BY <1>1
    <2> QED BY <2>1 DEF Messages
  <1> HIDE DEF n
  <1>6. \A i \in 1 .. (n - 1) : i + 1 \in 1 .. n /\ i + 1 # 1 /\ 1 \in 1 .. n
    BY <1>2
  <1>7. \A i \in 1 .. (n - 1) : q[i + 1].from # q[1].from
    BY <1>4, <1>6
  <1>8. \A i \in 1 .. (n - 1) : z[i].from # Nothing =>
              /\ rs2[z[i].from].pc \in {"waiting", "gone"}
              /\ rs2[z[i].from].plan.to = actor
              /\ z[i].command = Head(rs2[z[i].from].plan.commands)
    <2> TAKE i \in 1 .. (n - 1)
    <2> HAVE z[i].from # Nothing
    <2>1. z[i] = q[i + 1] /\ i + 1 \in 1 .. n
      BY <1>3, <1>6
    <2>2. z[i].from \in Requests /\ z[i].from # Head(q).from
      BY <1>2, <1>5, <1>7, <2>1
    <2>3. rs2[z[i].from] = rs[z[i].from]
      BY <2>2
    <2> QED BY <1>4, <2>1, <2>3
  <1>9. \A i \in 1 .. (n - 1) : z[i].from = Nothing => actor = "dhw" /\ z[i] = Save
    BY <1>3, <1>4, <1>6
  <1>10. \A i, j \in 1 .. (n - 1) : z[i].from = z[j].from => i = j
    <2> TAKE i, j \in 1 .. (n - 1)
    <2> HAVE z[i].from = z[j].from
    <2>1. z[i] = q[i + 1] /\ z[j] = q[j + 1] /\ i + 1 \in 1 .. n /\ j + 1 \in 1 .. n
      BY <1>3, <1>6
    <2>2. i + 1 = j + 1
      BY <1>4, <2>1
    <2> QED BY <1>2, <2>2
  <1>11. MailFits(actor, z, rs2, ps)
    BY <1>3, <1>4, <1>8, <1>9, <1>10 DEF MailFits
  <1>12. (\A i \in 1 .. n : q[i].from # Nothing) =>
            \A i \in 1 .. Len(z) : z[i].from # Nothing
    BY <1>3, <1>6
  <1> QED BY <1>11, <1>12 DEF z, n

\* An empty mailbox.
LEMMA NoMail ==
    ASSUME NEW actor, NEW rs, NEW ps
    PROVE  MailFits(actor, <<>>, rs, ps)
  BY DEF MailFits

\* The first message, and who is to be answered.
LEMMA FirstMail ==
    ASSUME NEW actor, NEW q, NEW rs, NEW ps, MailFits(actor, q, rs, ps), q # <<>>
    PROVE  /\ Head(q) \in Messages(actor) /\ actor \in ps
           /\ Head(q).from # Nothing =>
                 /\ rs[Head(q).from].pc \in {"waiting", "gone"}
                 /\ rs[Head(q).from].plan.to = actor
                 /\ Head(q).command = Head(rs[Head(q).from].plan.commands)
           /\ Head(q).from = Nothing => actor = "dhw" /\ Head(q) = Save
  <1> DEFINE n == Len(q)
  <1>1. q \in Seq(Messages(actor)) /\ actor \in ps
    BY DEF MailFits
  <1>2. n \in Nat /\ n # 0 /\ Head(q) = q[1] /\ q[1] \in Messages(actor)
    BY <1>1
  <1>3. /\ \A i \in 1 .. n : q[i].from # Nothing =>
              /\ rs[q[i].from].pc \in {"waiting", "gone"}
              /\ rs[q[i].from].plan.to = actor
              /\ q[i].command = Head(rs[q[i].from].plan.commands)
        /\ \A i \in 1 .. n : q[i].from = Nothing => actor = "dhw" /\ q[i] = Save
    BY DEF MailFits
  <1> HIDE DEF n
  <1>4. 1 \in 1 .. n
    BY <1>2
  <1> QED BY <1>1, <1>2, <1>3, <1>4

-----------------------------------------------------------------------------
(* What the actors make of a command. *)

OutcomeFits(o, command) ==
    /\ o.answer \in {200, 204, 409, 422, 500, 503} /\ o.done \in BOOLEAN
    /\ o.answer \in {409, 422, 503} => ~o.done
    /\ o.answer \in {200, 204} /\ command.do \notin {"snapshot", "save"} => o.done
    /\ o.boost \in {"none", "shower", "bath"}
    /\ o.mode \in {Nothing, "failed"} \cup Modes

\* Whatever happens to a command, its answer says whether anything was done.
LEMMA OutcomesFit ==
    ASSUME boost \in {"none", "shower", "bath"}, NEW command, NEW heard
    PROVE  /\ \A o \in BathStops(heard) \cup ShowerEnds : OutcomeFits(o, command)
           /\ command \in DhwCommands =>
                 \A o \in Outcomes(command, heard) : OutcomeFits(o, command)
  <1> DEFINE Did(a, b, mode) == Outcome(a, b, TRUE, mode)
             lost == Did(StatusOf("modbus"), "none", Nothing)
             showers == {Untouched("active"), Untouched("modbus"), Untouched("sensor"),
                         Untouched("lane"), Did(200, "none", Nothing),
                         Did(200, "shower", Nothing), lost}
             back(e) == {Did(StatusOf(e), "none", mode) :
                            mode \in {"normal", "overcapacity", "failed"}}
             rolled == back("modbus") \cup back("lane") \cup back("smartgrid")
             baths == {Untouched("active"), Untouched("outOfRange"), Untouched("notCheap"),
                       Untouched("modbus"), Did(200, "bath", "overcapacity")} \cup rolled
             stops == {Did(StatusOf("modbus"), "bath", Nothing),
                       Did(StatusOf("smartgrid"), "bath", "failed"),
                       Did(StatusOf("lane"), "bath", "normal"),
                       Did(204, "none", "normal"), Did(204, "none", Nothing)}
             comforts == {Did(204, boost, Nothing), Did(500, boost, Nothing)}
  <1>1. /\ StatusOf("active") = 409 /\ StatusOf("notCheap") = 409
        /\ StatusOf("showerRuns") = 409 /\ StatusOf("outOfRange") = 422
        /\ StatusOf("modbus") = 500 /\ StatusOf("lane") = 500
        /\ StatusOf("smartgrid") = 500 /\ StatusOf("sensor") = 503
    BY DEF StatusOf
  <1>2. {"normal", "overcapacity", "failed", Nothing} \subseteq {Nothing, "failed"} \cup Modes
    BY DEF Modes
  <1>3. ASSUME NEW b \in {"none", "shower", "bath"},
               NEW mode \in {Nothing, "failed"} \cup Modes,
               NEW a \in {200, 204, 500}
        PROVE  OutcomeFits(Did(a, b, mode), command)
    BY <1>3 DEF OutcomeFits, Outcome
  <1>4. \A e \in {"active", "notCheap", "showerRuns", "outOfRange", "modbus", "lane",
                  "smartgrid", "sensor"} : OutcomeFits(Untouched(e), command)
    BY <1>1, <1>2 DEF Untouched, Outcome, OutcomeFits
  <1>5. BathStops(heard) \cup ShowerEnds \subseteq stops
    BY DEF BathStops, ShowerEnds
  <1>6. ShowerStarts(heard) \subseteq showers
    BY DEF ShowerStarts
  <1>7. ASSUME NEW e
        PROVE  RolledBack(e) \subseteq back(e)
    <2> DEFINE other == IF e = "modbus" THEN "overcapacity" ELSE "failed"
               one(mode) == Did(StatusOf(e), "none", mode)
    <2>1. RolledBack(e) = {one(mode) : mode \in {"normal", other}}
      BY DEF RolledBack
    <2>2. other \in {"overcapacity", "failed"}
      OBVIOUS
    <2> HIDE DEF other
    <2>3. \A mode \in {"normal", "overcapacity", "failed"} : one(mode) \in back(e)
      OBVIOUS
    <2> HIDE DEF one, back
    <2> QED BY <2>1, <2>2, <2>3
  <1>8. ASSUME NEW hours
        PROVE  BathStarts(hours, heard) \subseteq baths
    <2> DEFINE began == Did(200, "bath", "overcapacity")
    <2>1. BathStarts(hours, heard) \subseteq
            {Untouched("active"), Untouched("outOfRange"), Untouched("notCheap"),
             Untouched("modbus"), began} \cup RolledBack("lane") \cup
            RolledBack("smartgrid") \cup RolledBack("modbus")
      BY DEF BathStarts
    <2> HIDE DEF back, began
    <2>2. RolledBack("lane") \cup RolledBack("smartgrid") \cup RolledBack("modbus")
            \subseteq rolled
      BY <1>7
    <2> QED BY <2>1, <2>2 DEF began
  <1>9. BoostIsCancelled(heard) \subseteq stops \cup {Untouched("showerRuns")}
    BY <1>5 DEF BoostIsCancelled
  <1>10. ComfortIsSet \subseteq comforts
    BY DEF ComfortIsSet
  <1> HIDE DEF Did
  <1>12. \A o \in showers \cup baths \cup stops \cup comforts \cup {Untouched("showerRuns")} :
            OutcomeFits(o, command)
    BY <1>1, <1>2, <1>3, <1>4
  <1> HIDE DEF showers, baths, stops, comforts, rolled, back, lost
  <1>11. ASSUME command \in DhwCommands, NEW o \in Outcomes(command, heard)
         PROVE  OutcomeFits(o, command)
    <2>1. command.do \in {"snapshot", "comfort", "shower", "cancel", "save", "bath"}
      BY <1>11 DEF DhwCommands
    <2>2. CASE command.do \in {"snapshot", "save"}
      <3>1. o \in {Outcome(200, boost, FALSE, Nothing), Outcome(204, boost, FALSE, Nothing)}
        BY <1>11, <2>2 DEF Outcomes
      <3>2. Nothing \in {Nothing, "failed"} \cup Modes
        OBVIOUS
      <3>3. CASE o = Outcome(200, boost, FALSE, Nothing)
        BY <2>2, <3>2, <3>3 DEF OutcomeFits, Outcome
      <3>4. CASE o = Outcome(204, boost, FALSE, Nothing)
        BY <2>2, <3>2, <3>4 DEF OutcomeFits, Outcome
      <3> QED BY <3>1, <3>3, <3>4
    <2>3. CASE command.do \in {"comfort", "shower", "bath", "cancel"}
      <3>1. o \in ComfortIsSet \cup ShowerStarts(heard) \cup BathStarts(command.hours, heard)
                  \cup BoostIsCancelled(heard)
        BY <1>11, <2>3 DEF Outcomes
      <3> QED BY <1>6, <1>8, <1>9, <1>10, <1>12, <3>1
    <2> QED BY <2>1, <2>2, <2>3
  <1> QED BY <1>5, <1>11, <1>12

SgTyped(s) == s \in [mode : Modes, due : BOOLEAN, alive : BOOLEAN]

\* The SmartGrid actor after it was told a mode, or had its resume dropped.
LEMMA SgStaysTyped ==
    ASSUME SgTyped(sg)
    PROVE  /\ \A mode \in {Nothing, "failed"} \cup Modes :
                 SgTyped(Told(mode)) /\ Told(mode).alive = sg.alive
           /\ \A mode \in Modes, due \in BOOLEAN :
                 LET s == [sg EXCEPT !.mode = mode, !.due = due] IN
                 SgTyped(s) /\ s.alive = sg.alive
           /\ LET s == [sg EXCEPT !.due = FALSE] IN SgTyped(s) /\ s.alive = sg.alive
           /\ LET s == [sg EXCEPT !.alive = FALSE, !.due = FALSE] IN SgTyped(s) /\ ~s.alive
  <1>1. sg = [mode |-> sg.mode, due |-> sg.due, alive |-> sg.alive]
        /\ sg.mode \in Modes /\ sg.due \in BOOLEAN /\ sg.alive \in BOOLEAN
    BY DEF SgTyped
  <1>2. \A mode \in Modes, due \in BOOLEAN :
           LET s == [sg EXCEPT !.mode = mode, !.due = due] IN
           SgTyped(s) /\ s.alive = sg.alive
    BY <1>1 DEF SgTyped
  <1>3. LET s == [sg EXCEPT !.due = FALSE] IN SgTyped(s) /\ s.alive = sg.alive
    BY <1>1 DEF SgTyped
  <1>4. LET s == [sg EXCEPT !.alive = FALSE, !.due = FALSE] IN SgTyped(s) /\ ~s.alive
    BY <1>1 DEF SgTyped
  <1>5. ASSUME NEW mode \in {Nothing, "failed"} \cup Modes
        PROVE  SgTyped(Told(mode)) /\ Told(mode).alive = sg.alive
    <2>1. \/ Told(mode) = sg
          \/ Told(mode) = [sg EXCEPT !.mode = sg.mode, !.due = FALSE]
          \/ mode \in Modes /\ Told(mode) = [sg EXCEPT !.mode = mode, !.due = FALSE]
      BY <1>5 DEF Told
    <2> QED BY <1>1, <1>2, <2>1
  <1> QED BY <1>2, <1>3, <1>4, <1>5

-----------------------------------------------------------------------------
(* The steps. *)

\* One request moves on, and no mailbox.
LEMMA OneRequest ==
    ASSUME HInv, NEW c \in Requests, NEW m, phase \notin {"starting", "refused"},
           req' = [req EXCEPT ![c] = m],
           UNCHANGED <<given, phase, parts, sg, boost, box>>,
           reg' \in [Params -> Word], call' \in Calls,
           \A d \in Requests : d # c => call'[d] = call[d],
           RequestFits(m, call'[c], parts, phase),
           \/ req[c].pc \in {"none", "asking"}
           \/ req[c].plan.to = "modbus"
           \/ m.pc = "gone" /\ m.plan = req[c].plan
    PROVE  HInv'
  <1>1. DOMAIN req' = Requests /\ req'[c] = m /\ \A d \in Requests : d # c => req'[d] = req[d]
    BY DEF HInv
  <1>2. \A d \in Requests : RequestFits(req'[d], call'[d], parts', phase')
    <2> TAKE d \in Requests
    <2>1. CASE d = c
      BY <1>1, <2>1
    <2>2. CASE d # c
      <3>1. RequestFits(req[d], call[d], parts, phase)
        BY DEF HInv
      <3> QED BY <1>1, <2>2, <3>1
    <2> QED BY <2>1, <2>2
  <1>3. \A actor \in Actors : MailFits(actor, box'[actor], req', parts')
    <2> TAKE actor \in Actors
    <2>1. MailFits(actor, box[actor], req, parts)
      BY DEF HInv
    <2>2. \A d \in Requests :
             \/ req'[d] = req[d]
             \/ req[d].pc \in {"none", "asking"} \/ req[d].plan.to # actor
             \/ req'[d].pc = "gone" /\ req'[d].plan = req[d].plan
      BY <1>1 DEF Actors
    <2>3. MailFits(actor, box[actor], req', parts)
      BY <2>1, <2>2, MailMinds
    <2> QED BY <2>3
  <1>4. PhaseInv' /\ ActorInv'
    BY DEF HInv, PhaseInv, ActorInv
  <1> QED BY <1>1, <1>2, <1>3, <1>4 DEF HInv

LEMMA AcceptKeeps ==
    ASSUME HInv, NEW c \in Requests, Accept(c)
    PROVE  HInv'
  <1>1. PICK a \in Requested[c], sampled \in {{}, Polled}, served \in {FALSE, "prices" \in parts} :
          LET h == Handler(a, sampled, served)
              r == [Unasked EXCEPT !.pc = "asking", !.asks = a, !.plan = h]
          IN  req' = [req EXCEPT
                        ![c] = IF h.to = "client" THEN Answered(r, h.status) ELSE r]
    BY DEF Accept
  <1>2. PICK h : h = Handler(a, sampled, served)
    OBVIOUS
  <1>3. PlanFits(a, h, parts)
    BY <1>2, HandlerFits
  <1> DEFINE r == [Unasked EXCEPT !.pc = "asking", !.asks = a, !.plan = h]
             m == IF h.to = "client" THEN Answered(r, h.status) ELSE r
  <1>4. req' = [req EXCEPT ![c] = m]
    BY <1>1, <1>2
  <1>5. /\ DOMAIN r = ReqFields /\ r.pc = "asking" /\ r.asks = a /\ r.plan = h
        /\ r.status = 0 /\ r.done = FALSE
    BY DEF Unasked, ReqFields
  <1>6. /\ DOMAIN m = ReqFields /\ m.asks = a /\ m.plan = h /\ m.done = FALSE
        /\ h.to # "client" => m.pc = "asking" /\ m.status = 0
        /\ h.to = "client" => m.pc = "answered" /\ m.status = h.status
    <2> HIDE DEF r
    <2> QED BY <1>5, Shapes
  <1>7. PICK z : z = m
    OBVIOUS
  <1> HIDE DEF m, r
  <1>8. req[c].pc = "none" /\ RequestFits(req[c], call[c], parts, phase)
    BY DEF Accept, HInv
  <1>9. call[c].phase = "idle" /\ ~call[c].sent
    BY <1>8 DEF RequestFits, CallFits
  <1>10. h.to = "client" => SaysRight(a, h.status, parts)
    BY <1>3 DEF PlanFits
  <1>11. ReqFits(z, parts)
    <2>1. PlanFits(z.asks, z.plan, parts)
      BY <1>3, <1>6, <1>7
    <2>2. CASE h.to = "client"
      <3>1. z.status \in {200, 400, 404, 503} /\ z.pc = "answered"
        BY <1>6, <1>7, <1>10, <2>2 DEF SaysRight
      <3>2. DOMAIN z = ReqFields /\ z.done = FALSE
        BY <1>6, <1>7
      <3>3. z.status \in Statuses /\ z.status # 0
        BY <3>1 DEF Statuses
      <3> QED BY <2>1, <3>1, <3>2, <3>3 DEF ReqFits
    <2>3. CASE h.to # "client"
      BY <1>6, <1>7, <2>1, <2>3 DEF ReqFits, Statuses
    <2> QED BY <2>2, <2>3
  <1>12. CallFits(z, call[c])
    BY <1>6, <1>7, <1>9 DEF CallFits
  <1>13. StatusFits(z, call[c], parts, phase)
    BY <1>6, <1>7, <1>10 DEF StatusFits, Reports, SaysRight
  <1>14. RequestFits(z, call'[c], parts, phase)
    BY <1>11, <1>12, <1>13 DEF RequestFits, Accept
  <1>15. phase \notin {"starting", "refused"}
    BY DEF Accept, Listening
  <1>16. UNCHANGED <<given, phase, parts, sg, boost, box>> /\ reg' \in [Params -> Word]
         /\ call' \in Calls /\ \A d \in Requests : d # c => call'[d] = call[d]
    BY DEF Accept, HInv
  <1> QED BY <1>4, <1>7, <1>8, <1>14, <1>15, <1>16, OneRequest

\* A handler turns to the Modbus actor.
LEMMA AskModbusKeeps ==
    ASSUME HInv, NEW c \in Requests, AskModbus(c)
    PROVE  HInv'
  <1>1. /\ req[c].pc = "asking" /\ req[c].plan.to = "modbus"
        /\ RequestFits(req[c], call[c], parts, phase)
        /\ DOMAIN req[c] = ReqFields /\ DOMAIN req = Requests
    BY DEF AskModbus, HInv, RequestFits, ReqFits
  <1>2. PICK a \in Asks :
          call' = [call EXCEPT ![c] = [phase |-> "open", ask |-> a, sent |-> FALSE]]
    BY DEF AskModbus, Open
  <1>3. /\ call' \in Calls /\ \A d \in Requests : d # c => call'[d] = call[d]
        /\ call'[c] = [phase |-> "open", ask |-> a, sent |-> FALSE]
    BY <1>2 DEF HInv, Calls
  <1>4. a = req[c].plan.ask
    BY <1>3 DEF AskModbus
  <1> DEFINE m == [req[c] EXCEPT !.pc = "waiting"]
  <1>5. /\ DOMAIN m = ReqFields /\ m.pc = "waiting" /\ m.asks = req[c].asks
        /\ m.plan = req[c].plan /\ m.status = req[c].status /\ m.done = req[c].done
    BY <1>1, Shapes
  <1>6. PICK z : z = m
    OBVIOUS
  <1>7. req' = [req EXCEPT ![c] = m]
    BY <1>1 DEF AskModbus
  <1> HIDE DEF m
  <1>8. ReqFits(z, parts)
    BY <1>1, <1>5, <1>6 DEF RequestFits, ReqFits
  <1>9. CallFits(z, call'[c]) /\ StatusFits(z, call'[c], parts, phase)
    BY <1>1, <1>3, <1>4, <1>5, <1>6 DEF CallFits, StatusFits, Reports
  <1>10. RequestFits(z, call'[c], parts, phase)
    BY <1>8, <1>9 DEF RequestFits
  <1>11. phase \notin {"starting", "refused"}
    BY <1>1 DEF HInv, PhaseInv
  <1>12. UNCHANGED <<given, phase, parts, sg, boost, box>> /\ reg' \in [Params -> Word]
    BY DEF AskModbus, Open, HInv
  <1> QED BY <1>1, <1>3, <1>6, <1>7, <1>10, <1>11, <1>12, OneRequest

\* A handler is answered by the Modbus actor, or loses patience.
LEMMA ModbusAnswersKeeps ==
    ASSUME HInv, NEW c \in Requests, ModbusAnswers(c)
    PROVE  HInv'
  <1>1. /\ req[c].pc = "waiting" /\ req[c].plan.to = "modbus" /\ call[c].phase \in Answers
        /\ RequestFits(req[c], call[c], parts, phase)
    BY DEF ModbusAnswers, HInv
  <1>2. PICK s \in StatusesOf(req[c].plan.ask, call[c].phase) :
          req' = [req EXCEPT ![c] = Answered(@, s)]
    BY DEF ModbusAnswers
  <1>3. PICK m : m = Answered(req[c], s)
    OBVIOUS
  <1>4. req' = [req EXCEPT ![c] = m]
    BY <1>2, <1>3
  <1>5. RequestFits(m, call[c], parts, phase)
    BY <1>1, <1>3, ModbusAnswered
  <1>6. phase \notin {"starting", "refused"}
    BY <1>1 DEF HInv, PhaseInv
  <1>7. /\ UNCHANGED <<given, phase, parts, sg, boost, box>> /\ reg' \in [Params -> Word]
        /\ call' \in Calls /\ \A d \in Requests : d # c => call'[d] = call[d]
        /\ call'[c] = call[c]
    BY DEF ModbusAnswers, HInv
  <1> QED BY <1>1, <1>4, <1>5, <1>6, <1>7, OneRequest

\* What a handler that no longer waits leaves of its call.
LEMMA CallLeft ==
    ASSUME HInv, NEW c \in Requests, Leave(c)
    PROVE  /\ reg' \in [Params -> Word] /\ call' \in Calls
           /\ \A d \in Requests : d # c => call'[d] = call[d]
           /\ call'[c].phase = "left"
  <1>1. reg' \in [Params -> Word]
    BY DEF Leave, HInv
  <1>2. call' = [call EXCEPT ![c].phase = "left"] /\ call \in Calls
    BY DEF Leave, HInv
  <1>3. call' \in Calls /\ call'[c].phase = "left" /\ \A d \in Requests : d # c => call'[d] = call[d]
    BY <1>2 DEF Calls
  <1> QED BY <1>1, <1>3

LEMMA HandlerTimesOutKeeps ==
    ASSUME HInv, NEW c \in Requests, HandlerTimesOut(c)
    PROVE  HInv'
  <1>1. /\ req[c].pc = "waiting" /\ req[c].plan.to = "modbus"
        /\ RequestFits(req[c], call[c], parts, phase)
    BY DEF HandlerTimesOut, HInv
  <1>2. /\ reg' \in [Params -> Word] /\ call' \in Calls
        /\ \A d \in Requests : d # c => call'[d] = call[d]
        /\ call'[c].phase = "left"
    BY CallLeft DEF HandlerTimesOut
  <1>3. PICK m : m = Answered(req[c], 408)
    OBVIOUS
  <1>4. PICK k : k = call'[c]
    OBVIOUS
  <1>5. req' = [req EXCEPT ![c] = m]
    BY <1>3 DEF HandlerTimesOut
  <1>6. RequestFits(m, k, parts, phase)
    BY <1>1, <1>2, <1>3, <1>4, LeftBehind
  <1>7. phase \notin {"starting", "refused"}
    BY <1>1 DEF HInv, PhaseInv
  <1>8. UNCHANGED <<given, phase, parts, sg, boost, box>>
    BY DEF HandlerTimesOut
  <1> QED BY <1>1, <1>2, <1>4, <1>5, <1>6, <1>7, <1>8, OneRequest

\* A client that hangs up: its call, if it has one, goes on without it.
LEMMA HangsUpKeeps ==
    ASSUME HInv, NEW c \in Requests, HangsUp(c)
    PROVE  HInv'
  <1>1. /\ req[c].pc \in {"asking", "waiting"}
        /\ RequestFits(req[c], call[c], parts, phase) /\ DOMAIN req[c] = ReqFields
    BY DEF HangsUp, HInv, RequestFits, ReqFits
  <1>2. /\ reg' \in [Params -> Word] /\ call' \in Calls
        /\ \A d \in Requests : d # c => call'[d] = call[d]
        /\ call'[c] = call[c] \/ call'[c].phase = "left"
    <2>1. CASE call[c].phase = "open"
      BY <2>1, CallLeft DEF HangsUp
    <2>2. CASE call[c].phase # "open"
      BY <2>2 DEF HangsUp, HInv
    <2> QED BY <2>1, <2>2
  <1>3. PICK m : m = [req[c] EXCEPT !.pc = "gone"]
    OBVIOUS
  <1>4. PICK k : k = call'[c]
    OBVIOUS
  <1>5. req' = [req EXCEPT ![c] = m]
    BY <1>3 DEF HangsUp
  <1>6. /\ k.phase \in {"idle", "refused"} => ~k.sent
        /\ k.phase = "ok" /\ k.ask.op = "write" => k.sent
    BY <1>1, <1>2, <1>4 DEF RequestFits, CallFits
  <1>7. RequestFits(m, k, parts, phase)
    BY <1>1, <1>3, <1>6, LeftBehind
  <1>8. m.pc = "gone" /\ m.plan = req[c].plan
    BY <1>1, <1>3, Shapes
  <1>9. phase \notin {"starting", "refused"}
    BY <1>1 DEF HInv, PhaseInv
  <1>10. UNCHANGED <<given, phase, parts, sg, boost, box>>
    BY DEF HangsUp
  <1> QED BY <1>2, <1>4, <1>5, <1>7, <1>8, <1>9, <1>10, OneRequest

\* The Modbus actor works on a call: the request stays as it is.
LEMMA ModbusWorksKeeps ==
    ASSUME HInv, NEW c \in Requests, ModbusWorks(c)
    PROVE  HInv'
  <1>1. /\ reg' \in [Params -> Word] /\ call' \in Calls
        /\ \A d \in Requests : d # c => call'[d] = call[d]
        /\ call[c].phase \in {"open", "left"}
        /\ call'[c].ask = call[c].ask
        /\ call'[c].phase # "idle"
        /\ call'[c].phase = "left" => call[c].phase = "left"
        /\ call[c].sent => call'[c].sent
        /\ call'[c].phase = "refused" => ~call'[c].sent
        /\ call'[c].phase = "ok" /\ call'[c].ask.op = "write" => call'[c].sent
    BY WorkDone DEF HInv, ModbusWorks
  <1>2. RequestFits(req[c], call[c], parts, phase)
    BY DEF HInv
  <1>3. PICK k : k = call'[c]
    OBVIOUS
  <1>4. k.sent \in BOOLEAN
    BY <1>1, <1>3 DEF Calls
  <1>5. RequestFits(req[c], k, parts, phase)
    BY <1>1, <1>2, <1>3, <1>4, CallGoesOn
  <1>6. UNCHANGED <<given, phase, parts, sg, boost, box, req>>
    BY DEF ModbusWorks
  <1>7. \A d \in Requests : RequestFits(req'[d], call'[d], parts', phase')
    <2> TAKE d \in Requests
    <2>1. RequestFits(req[d], call[d], parts, phase)
      BY DEF HInv
    <2> QED BY <1>1, <1>3, <1>5, <1>6, <2>1
  <1>8. PhaseInv' /\ ActorInv'
    BY <1>6 DEF HInv, PhaseInv, ActorInv
  <1> QED BY <1>1, <1>6, <1>7, <1>8 DEF HInv

\* A handler turns to an actor, which is there or has gone.
LEMMA AskActorKeeps ==
    ASSUME HInv, NEW c \in Requests, AskActor(c)
    PROVE  HInv'
  <1> DEFINE r == req[c]
  <1>1. PICK actor \in Actors : actor = r.plan.to
    BY DEF AskActor, Actors
  <1>2. /\ r.pc = "asking" /\ RequestFits(r, call[c], parts, phase)
        /\ DOMAIN r = ReqFields /\ DOMAIN req = Requests /\ DOMAIN box = Actors
    BY DEF AskActor, HInv, RequestFits, ReqFits
  <1>3. call[c].phase = "idle" /\ PlanFits(r.asks, r.plan, parts)
    BY <1>2 DEF RequestFits, CallFits, ReqFits
  <1>4. phase \notin {"starting", "refused"}
    BY <1>2 DEF HInv, PhaseInv
  <1>5. /\ UNCHANGED <<given, phase, parts, sg, boost>> /\ reg' \in [Params -> Word]
        /\ call' = call /\ call \in Calls
    BY DEF AskActor, HInv
  <1>6. CASE actor = "smartgrid" /\ ~sg.alive
    <2>1. req' = [req EXCEPT ![c] = Answered(@, 503)] /\ UNCHANGED box
      BY <1>1, <1>6 DEF AskActor
    <2>2. PICK m : m = Answered(r, 503)
      OBVIOUS
    <2>3. req' = [req EXCEPT ![c] = m]
      BY <2>1, <2>2
    <2>4. /\ DOMAIN m = ReqFields /\ m.pc = "answered" /\ m.asks = r.asks
          /\ m.plan = r.plan /\ m.status = 503 /\ m.done = r.done
      BY <1>2, <2>2, Shapes
    <2>5. ~r.done /\ m.done \in BOOLEAN /\ ~m.done
      BY <1>2, <2>4 DEF RequestFits, ReqFits
    <2>6. phase # "serving"
      BY <1>1, <1>3, <1>6 DEF PlanFits, AsksSmartGrid, HInv, PhaseInv
    <2>7. RequestFits(m, call[c], parts, phase)
      BY <1>1, <1>2, <2>4, <2>5, <2>6, ActorAnswers
    <2> QED BY <1>2, <1>4, <1>5, <2>1, <2>3, <2>7, OneRequest
  <1>7. CASE ~(actor = "smartgrid" /\ ~sg.alive)
    <2> DEFINE e == [from |-> c, command |-> Head(r.plan.commands)]
    <2>1. /\ req' = [req EXCEPT ![c].pc = "waiting"]
          /\ box' = [box EXCEPT ![actor] = Append(@, e)]
      BY <1>1, <1>7 DEF AskActor
    <2>2. PICK m : m = [r EXCEPT !.pc = "waiting"]
      OBVIOUS
    <2>3. /\ DOMAIN m = ReqFields /\ m.pc = "waiting" /\ m.asks = r.asks
          /\ m.plan = r.plan /\ m.status = r.status /\ m.done = r.done
      BY <1>2, <2>2, Shapes
    <2>4. /\ DOMAIN req' = Requests /\ req'[c] = m
          /\ \A d \in Requests : d # c => req'[d] = req[d]
      BY <1>2, <2>1, <2>2
    <2>5. RequestFits(m, call[c], parts, phase)
      <3>1. r.plan.to # "modbus"
        BY <1>1 DEF Actors
      <3>2. ReqFits(m, parts)
        BY <1>2, <2>3 DEF RequestFits, ReqFits
      <3>3. CallFits(m, call[c]) /\ StatusFits(m, call[c], parts, phase)
        BY <1>2, <1>3, <2>3, <3>1 DEF RequestFits, CallFits, StatusFits, Reports
      <3> QED BY <3>2, <3>3 DEF RequestFits
    <2>6. \A d \in Requests : RequestFits(req'[d], call'[d], parts', phase')
      <3> TAKE d \in Requests
      <3>1. RequestFits(req[d], call[d], parts, phase)
        BY DEF HInv
      <3> QED BY <1>5, <2>4, <2>5, <3>1
    <2>7. /\ actor \in parts
          /\ Head(r.plan.commands) \in (IF actor = "dhw" THEN DhwCommands ELSE SgCommands)
      <3>1. CASE actor = "dhw"
        <4>1. r.plan.commands \in Seq(DhwCommands) /\ r.plan.commands # <<>> /\ "dhw" \in parts
          BY <1>1, <1>3, <3>1 DEF PlanFits, AsksDhw
        <4> QED BY <3>1, <4>1
      <3>2. CASE actor = "smartgrid"
        <4>1. /\ r.plan.commands \in Seq(SgCommands) /\ r.plan.commands # <<>>
              /\ "smartgrid" \in parts
          BY <1>1, <1>3, <3>2 DEF PlanFits, AsksSmartGrid
        <4> QED BY <3>2, <4>1
      <3> QED BY <3>1, <3>2 DEF Actors
    <2>8. MailFits(actor, box[actor], req, parts) /\ Nothing \notin Requests
      BY HttpAssumption DEF HInv
    <2>9. /\ MailFits(actor, Append(box[actor], e), req', parts)
          /\ (\A i \in 1 .. Len(box[actor]) : box[actor][i].from # Nothing) =>
                \A i \in 1 .. Len(Append(box[actor], e)) :
                   Append(box[actor], e)[i].from # Nothing
      BY <1>1, <1>2, <2>3, <2>4, <2>7, <2>8, MailComes
    <2> HIDE DEF e
    <2>10. /\ DOMAIN box' = Actors /\ box'[actor] = Append(box[actor], e)
           /\ \A other \in Actors : other # actor => box'[other] = box[other]
      BY <1>2, <2>1
    <2>11. ASSUME NEW other \in Actors, other # actor
           PROVE  MailFits(other, box[other], req', parts)
      <3>1. MailFits(other, box[other], req, parts)
        BY DEF HInv
      <3>2. \A d \in Requests :
               \/ req'[d] = req[d]
               \/ req[d].pc \in {"none", "asking"} \/ req[d].plan.to # other
               \/ req'[d].pc = "gone" /\ req'[d].plan = req[d].plan
        BY <1>2, <2>4
      <3> QED BY <3>1, <3>2, MailMinds
    <2>12. \A x \in Actors : MailFits(x, box'[x], req', parts')
      BY <1>5, <2>9, <2>10, <2>11
    <2>13. phase \in {"starting", "refused", "serving"} =>
              \A i \in 1 .. Len(box'.dhw) : box'.dhw[i].from # Nothing
      <3>1. phase \in {"starting", "refused", "serving"} =>
              \A i \in 1 .. Len(box.dhw) : box.dhw[i].from # Nothing
        BY DEF HInv, PhaseInv
      <3>2. CASE actor = "dhw"
        BY <2>9, <2>10, <3>1, <3>2
      <3>3. CASE actor # "dhw"
        BY <2>10, <3>1, <3>3 DEF Actors
      <3> QED BY <3>2, <3>3
    <2>14. PhaseInv' /\ ActorInv'
      BY <1>4, <1>5, <2>13 DEF HInv, PhaseInv, ActorInv
    <2> QED BY <1>5, <2>4, <2>6, <2>10, <2>12, <2>14 DEF HInv
  <1> QED BY <1>6, <1>7

\* An actor takes the first message and answers whoever still waits for it.
LEMMA Serves ==
    ASSUME HInv, NEW actor \in Actors, box[actor] # <<>>, NEW f, f = Head(box[actor]).from,
           phase \notin {"starting", "refused"}, NEW m,
           box' = [box EXCEPT ![actor] = Tail(@)],
           req' = IF f # Nothing /\ req[f].pc = "waiting" THEN [req EXCEPT ![f] = m] ELSE req,
           f \in Requests /\ req[f].pc = "waiting" => RequestFits(m, call[f], parts, phase),
           UNCHANGED <<reg, call, given, phase, parts>>,
           SgTyped(sg'), sg'.alive = sg.alive, boost' \in {"none", "shower", "bath"}
    PROVE  HInv'
  <1>1. /\ DOMAIN req = Requests /\ DOMAIN box = Actors
        /\ MailFits(actor, box[actor], req, parts)
    BY DEF HInv
  <1>2. Head(box[actor]) \in Messages(actor) /\ (f # Nothing => req[f].plan.to = actor)
    BY <1>1, FirstMail
  <1>3. f # Nothing => f \in Requests
    BY <1>2 DEF Messages
  <1>4. /\ DOMAIN req' = Requests
        /\ \A d \in Requests : d # f => req'[d] = req[d]
        /\ f \in Requests /\ req[f].pc = "waiting" /\ f # Nothing => req'[f] = m
        /\ f \in Requests /\ ~(req[f].pc = "waiting" /\ f # Nothing) => req'[f] = req[f]
    BY <1>1, <1>3
  <1>5. \A d \in Requests : RequestFits(req'[d], call'[d], parts', phase')
    <2> TAKE d \in Requests
    <2>1. RequestFits(req[d], call[d], parts, phase)
      BY DEF HInv
    <2>2. req'[d] = req[d] \/ (req'[d] = m /\ d = f /\ req[f].pc = "waiting")
      BY <1>4
    <2> QED BY <2>1, <2>2
  <1>6. /\ MailFits(actor, Tail(box[actor]), req', parts)
        /\ (\A i \in 1 .. Len(box[actor]) : box[actor][i].from # Nothing) =>
              \A i \in 1 .. Len(Tail(box[actor])) : Tail(box[actor])[i].from # Nothing
    BY <1>1, <1>4, MailGoes
  <1>7. /\ DOMAIN box' = Actors /\ box'[actor] = Tail(box[actor])
        /\ \A other \in Actors : other # actor => box'[other] = box[other]
    BY <1>1
  <1>8. ASSUME NEW other \in Actors, other # actor
        PROVE  MailFits(other, box[other], req', parts)
    <2>1. MailFits(other, box[other], req, parts)
      BY DEF HInv
    <2>2. \A d \in Requests :
             \/ req'[d] = req[d]
             \/ req[d].pc \in {"none", "asking"} \/ req[d].plan.to # other
             \/ req'[d].pc = "gone" /\ req'[d].plan = req[d].plan
      BY <1>2, <1>4, <1>8
    <2> QED BY <2>1, <2>2, MailMinds
  <1>9. \A x \in Actors : MailFits(x, box'[x], req', parts')
    BY <1>6, <1>7, <1>8
  <1>10. phase \in {"starting", "refused", "serving"} =>
            \A i \in 1 .. Len(box'.dhw) : box'.dhw[i].from # Nothing
    <2>1. phase \in {"starting", "refused", "serving"} =>
            \A i \in 1 .. Len(box.dhw) : box.dhw[i].from # Nothing
      BY DEF HInv, PhaseInv
    <2>2. CASE actor = "dhw"
      BY <1>6, <1>7, <2>1, <2>2
    <2>3. CASE actor # "dhw"
      BY <1>7, <2>1, <2>3 DEF Actors
    <2> QED BY <2>2, <2>3
  <1>11. PhaseInv' /\ ActorInv'
    BY <1>10 DEF HInv, PhaseInv, ActorInv, SgTyped
  <1>12. reg' \in [Params -> Word] /\ call' \in Calls
    BY DEF HInv
  <1> QED BY <1>4, <1>5, <1>7, <1>9, <1>11, <1>12 DEF HInv

\* A reading that has come back: the last answers the request, any other
\* leaves it to ask the next.
LEMMA ReadingComes ==
    ASSUME NEW r, NEW k, NEW ps, NEW ph, NEW answer, RequestFits(r, k, ps, ph),
           r.pc = "waiting", r.plan.to = "smartgrid",
           ~SgChanges(Head(r.plan.commands))
    PROVE  RequestFits(Gets(r, answer), k, ps, ph)
  <1> DEFINE h == r.plan
             cs == h.commands
             n == Len(cs)
  <1>1. /\ DOMAIN r = ReqFields /\ ~r.done /\ r.done \in BOOLEAN /\ r.status = 0
        /\ PlanFits(r.asks, h, ps) /\ k.phase = "idle" /\ ~k.sent
    BY DEF RequestFits, ReqFits, CallFits
  <1>2. AsksSmartGrid(r.asks, h, ps)
    BY <1>1 DEF PlanFits
  <1>3. cs \in Seq(SgCommands) /\ cs # <<>> /\ DOMAIN h = {"to", "commands"}
        /\ \A i \in 1 .. n : SgChanges(cs[i]) <=> r.asks.route \in Changes
    BY <1>2 DEF AsksSmartGrid
  <1>4. n \in Nat /\ n # 0 /\ Head(cs) = cs[1]
    BY <1>3
  <1>5. CASE n = 1
    <2>1. PICK v : v = [r EXCEPT !.view = answer]
      OBVIOUS
    <2>2. PICK m : m = Answered(v, 200)
      OBVIOUS
    <2>3. Gets(r, answer) = m
      BY <1>5, <2>1, <2>2 DEF Gets
    <2>4. /\ DOMAIN v = ReqFields /\ v.asks = r.asks /\ v.plan = h /\ v.done = r.done
      BY <1>1, <2>1, Shapes
    <2>5. /\ DOMAIN m = ReqFields /\ m.pc = "answered" /\ m.asks = r.asks
          /\ m.plan = h /\ m.status = 200 /\ m.done = r.done
      BY <2>2, <2>4, Shapes
    <2>6. r.asks.route \notin Changes
      BY <1>3, <1>4, <1>5
    <2>7. RequestFits(m, k, ps, ph)
      BY <1>1, <2>5, <2>6, ActorAnswers DEF Actors
    <2> QED BY <2>3, <2>7
  <1>6. CASE n # 1
    <2>1. PICK m : m = [r EXCEPT !.pc = "asking", !.view = answer, !.plan.commands = Tail(@)]
      OBVIOUS
    <2>2. Gets(r, answer) = m
      BY <1>6, <2>1 DEF Gets
    <2>3. PICK rest : rest = Tail(cs)
      OBVIOUS
    <2>4. rest \in Seq(SgCommands) /\ Len(rest) = n - 1
          /\ \A i \in 1 .. (n - 1) : rest[i] = cs[i + 1]
      BY <1>3, <1>4, <2>3
    <2>5. PICK g : g = [h EXCEPT !.commands = rest]
      OBVIOUS
    <2>6. DOMAIN g = {"to", "commands"} /\ g.to = "smartgrid" /\ g.commands = rest
      BY <1>3, <2>5
    <2>7. /\ DOMAIN m = ReqFields /\ m.pc = "asking" /\ m.asks = r.asks
          /\ m.plan = g /\ m.status = r.status /\ m.done = r.done
      BY <1>1, <2>1, <2>3, <2>5 DEF ReqFields
    <2> HIDE DEF n
    <2>8. \A i \in 1 .. (n - 1) : i + 1 \in 1 .. n
      BY <1>4
    <2>9. \A i \in 1 .. Len(rest) : SgChanges(rest[i]) <=> r.asks.route \in Changes
      BY <1>3, <2>4, <2>8
    <2>10. rest # <<>>
      <3>1. Len(<<>>) = 0
        OBVIOUS
      <3> QED BY <1>4, <1>6, <2>4, <3>1
    <2>11. PlanFits(r.asks, g, ps)
      BY <1>2, <2>4, <2>6, <2>9, <2>10 DEF PlanFits, AsksSmartGrid
    <2>12. ReqFits(m, ps)
      BY <1>1, <2>6, <2>7, <2>11 DEF ReqFits, Statuses
    <2>13. CallFits(m, k) /\ StatusFits(m, k, ps, ph)
      BY <1>1, <2>6, <2>7 DEF CallFits, StatusFits, Reports
    <2> QED BY <2>2, <2>12, <2>13 DEF RequestFits
  <1> QED BY <1>5, <1>6

\* A change the SmartGrid actor was asked for: made, or tried.
LEMMA ChangeComes ==
    ASSUME NEW r, NEW k, NEW ps, NEW ph, NEW status \in {200, 204, 500},
           RequestFits(r, k, ps, ph), r.pc = "waiting", r.plan.to = "smartgrid"
    PROVE  \A m : m = [Answered(r, status) EXCEPT !.done = TRUE] =>
                     RequestFits(m, k, ps, ph)
  <1>1. DOMAIN r = ReqFields /\ r.plan.to \in Actors /\ r.pc \in {"asking", "waiting"}
    BY DEF RequestFits, ReqFits, Actors
  <1>2. ASSUME NEW m, DOMAIN m = ReqFields, m.pc = "answered", m.asks = r.asks,
               m.plan = r.plan, m.status = status, m.done \in BOOLEAN, m.done = TRUE
        PROVE  RequestFits(m, k, ps, ph)
    BY <1>1, <1>2, ActorAnswers
  <1>3. ASSUME NEW m, m = [Answered(r, status) EXCEPT !.done = TRUE]
        PROVE  RequestFits(m, k, ps, ph)
    <2>1. /\ DOMAIN m = ReqFields /\ m.pc = "answered" /\ m.asks = r.asks
          /\ m.plan = r.plan /\ m.status = status
      BY <1>1, <1>3 DEF Answered, ReqFields
    <2>2. m.done = TRUE
      BY <1>1, <1>3 DEF Answered, ReqFields
    <2>3. m.done \in BOOLEAN
      BY <2>2
    <2> QED BY <1>2, <2>1, <2>2, <2>3
  <1> QED BY <1>3

LEMMA SgServesKeeps ==
    ASSUME HInv, SgServes
    PROVE  HInv'
  <1> DEFINE m == Head(box.smartgrid)
  <1>1. PICK f : f = m.from
    OBVIOUS
  <1>2. /\ MailFits("smartgrid", box["smartgrid"], req, parts) /\ box["smartgrid"] # <<>>
        /\ "smartgrid" \in Actors
    BY DEF SgServes, HInv, Actors
  <1>3. /\ m \in Messages("smartgrid") /\ f # Nothing
        /\ req[f].plan.to = "smartgrid" /\ m.command = Head(req[f].plan.commands)
    BY <1>1, <1>2, FirstMail
  <1>4. f \in Requests /\ m.command \in SgCommands
    BY <1>1, <1>3 DEF Messages
  <1>5. RequestFits(req[f], call[f], parts, phase) /\ SgTyped(sg)
    BY <1>4 DEF HInv, ActorInv, SgTyped
  <1>6. /\ phase \notin {"starting", "refused"}
        /\ box' = [box EXCEPT !["smartgrid"] = Tail(@)]
        /\ UNCHANGED <<reg, call, given, phase, parts>>
        /\ boost' \in {"none", "shower", "bath"}
    BY DEF SgServes, HInv, ActorInv
  <1>7. \/ m.command.do = "set" /\ SgSets(m)
        \/ m.command.do = "cancel" /\ SgCancels(m)
        \/ m.command.do \notin {"set", "cancel"} /\ SgTells(m)
    BY DEF SgServes
  <1>8. ASSUME NEW x, Reply(f, x), SgTyped(sg'), sg'.alive = sg.alive,
               req[f].pc = "waiting" => RequestFits(x, call[f], parts, phase)
        PROVE  HInv'
    <2>1. req' = IF f # Nothing /\ req[f].pc = "waiting" THEN [req EXCEPT ![f] = x] ELSE req
      BY <1>3, <1>8 DEF Reply, Waits
    <2> QED BY <1>1, <1>2, <1>4, <1>6, <1>8, <2>1, Serves
  <1> HIDE DEF m
  <1>9. CASE m.command.do = "set" /\ SgSets(m)
    <2>1. m.command.mode \in Modes
      BY <1>4, <1>9 DEF SgCommands
    <2>2. CASE \E due \in {FALSE, Due(m.command) /\ Conf["smartgrid.auto_resume_enabled"]} :
                 /\ sg' = [sg EXCEPT !.mode = m.command.mode, !.due = due]
                 /\ Reply(m.from, [Answered(req[m.from], 200) EXCEPT !.done = TRUE])
      <3>1. PICK due \in {FALSE, Due(m.command) /\ Conf["smartgrid.auto_resume_enabled"]} :
                 /\ sg' = [sg EXCEPT !.mode = m.command.mode, !.due = due]
                 /\ Reply(m.from, [Answered(req[m.from], 200) EXCEPT !.done = TRUE])
        BY <2>2
      <3>2. due \in BOOLEAN
        BY <3>1
      <3>3. SgTyped(sg') /\ sg'.alive = sg.alive
        BY <1>5, <2>1, <3>1, <3>2, SgStaysTyped
      <3>4. PICK x : x = [Answered(req[f], 200) EXCEPT !.done = TRUE]
        OBVIOUS
      <3>5. Reply(f, x)
        BY <1>1, <3>1, <3>4
      <3>6. req[f].pc = "waiting" => RequestFits(x, call[f], parts, phase)
        BY <1>3, <1>5, <3>4, ChangeComes
      <3> QED BY <1>8, <3>3, <3>5, <3>6
    <2>3. CASE /\ sg' = [sg EXCEPT !.due = FALSE]
               /\ Reply(m.from, [Answered(req[m.from], 500) EXCEPT !.done = TRUE])
      <3>1. SgTyped(sg') /\ sg'.alive = sg.alive
        BY <1>5, <2>3, SgStaysTyped
      <3>2. PICK x : x = [Answered(req[f], 500) EXCEPT !.done = TRUE]
        OBVIOUS
      <3>3. Reply(f, x)
        BY <1>1, <2>3, <3>2
      <3>4. req[f].pc = "waiting" => RequestFits(x, call[f], parts, phase)
        BY <1>3, <1>5, <3>2, ChangeComes
      <3> QED BY <1>8, <3>1, <3>3, <3>4
    <2> QED BY <1>9, <2>2, <2>3 DEF SgSets
  <1>10. CASE m.command.do = "cancel" /\ SgCancels(m)
    <2>1. /\ sg' = [sg EXCEPT !.due = FALSE]
          /\ Reply(m.from, [Answered(req[m.from], 204) EXCEPT !.done = TRUE])
      BY <1>10 DEF SgCancels
    <2>2. SgTyped(sg') /\ sg'.alive = sg.alive
      BY <1>5, <2>1, SgStaysTyped
    <2>3. PICK x : x = [Answered(req[f], 204) EXCEPT !.done = TRUE]
      OBVIOUS
    <2>4. Reply(f, x)
      BY <1>1, <2>1, <2>3
    <2>5. req[f].pc = "waiting" => RequestFits(x, call[f], parts, phase)
      BY <1>3, <1>5, <2>3, ChangeComes
    <2> QED BY <1>8, <2>2, <2>4, <2>5
  <1>11. CASE m.command.do \notin {"set", "cancel"} /\ SgTells(m)
    <2> DEFINE seen == req[m.from].view
               told == CASE m.command.do = "mode"    -> Append(seen, sg.mode)
                         [] m.command.do = "due"     -> Append(seen, sg.due)
                         [] m.command.do = "changed" -> seen
    <2>1. Reply(m.from, Gets(req[m.from], told)) /\ sg' = sg
      BY <1>11 DEF SgTells
    <2>2. PICK answer : answer = told
      OBVIOUS
    <2> HIDE DEF told
    <2>3. PICK x : x = Gets(req[f], answer)
      OBVIOUS
    <2>4. Reply(f, x)
      BY <1>1, <2>1, <2>2, <2>3
    <2>5. ~SgChanges(Head(req[f].plan.commands))
      BY <1>3, <1>11 DEF SgChanges
    <2>6. req[f].pc = "waiting" => RequestFits(x, call[f], parts, phase)
      BY <1>3, <1>5, <2>3, <2>5, ReadingComes
    <2>7. SgTyped(sg') /\ sg'.alive = sg.alive
      BY <1>5, <2>1
    <2> QED BY <1>8, <2>4, <2>6, <2>7
  <1> QED BY <1>7, <1>9, <1>10, <1>11

LEMMA DhwServesKeeps ==
    ASSUME HInv, DhwServes
    PROVE  HInv'
  <1> DEFINE m == Head(box.dhw)
  <1>1. PICK f : f = m.from
    OBVIOUS
  <1>2. /\ MailFits("dhw", box["dhw"], req, parts) /\ box["dhw"] # <<>> /\ "dhw" \in Actors
    BY DEF DhwServes, HInv, Actors
  <1>3. /\ m \in Messages("dhw")
        /\ f # Nothing => /\ req[f].plan.to = "dhw"
                          /\ m.command = Head(req[f].plan.commands)
    BY <1>1, <1>2, FirstMail
  <1>4. m.command \in DhwCommands /\ (f # Nothing => f \in Requests)
    BY <1>1, <1>3 DEF Messages
  <1>5. SgTyped(sg) /\ boost \in {"none", "shower", "bath"} /\ Nothing \notin Requests
    BY HttpAssumption DEF HInv, ActorInv, SgTyped
  <1>6. /\ phase \notin {"starting", "refused"}
        /\ box' = [box EXCEPT !["dhw"] = Tail(@)]
        /\ UNCHANGED <<reg, call, given, phase, parts>>
    BY DEF DhwServes
  <1>0. PICK heard \in LaneIsHeard : \E o \in Outcomes(m.command, heard) :
          /\ boost' = o.boost
          /\ sg' = Told(o.mode)
          /\ IF m.from = Nothing THEN UNCHANGED req
             ELSE Reply(m.from, [Answered(req[m.from], o.answer) EXCEPT !.done = o.done])
    BY DEF DhwServes
  <1>7. PICK o \in Outcomes(m.command, heard) :
          /\ boost' = o.boost
          /\ sg' = Told(o.mode)
          /\ IF m.from = Nothing THEN UNCHANGED req
             ELSE Reply(m.from, [Answered(req[m.from], o.answer) EXCEPT !.done = o.done])
    BY <1>0
  <1> HIDE DEF m
  <1>8. OutcomeFits(o, m.command)
    BY <1>4, <1>5, <1>7, OutcomesFit
  <1>9. /\ SgTyped(sg') /\ sg'.alive = sg.alive /\ boost' \in {"none", "shower", "bath"}
    <2>1. o.mode \in {Nothing, "failed"} \cup Modes
      BY <1>8 DEF OutcomeFits
    <2>2. SgTyped(Told(o.mode)) /\ Told(o.mode).alive = sg.alive
      BY <1>5, <2>1, SgStaysTyped
    <2>3. o.boost \in {"none", "shower", "bath"}
      BY <1>8 DEF OutcomeFits
    <2> QED BY <1>7, <2>2, <2>3
  <1>10. PICK x : x = [Answered(req[f], o.answer) EXCEPT !.done = o.done]
    OBVIOUS
  <1>11. req' = IF f # Nothing /\ req[f].pc = "waiting" THEN [req EXCEPT ![f] = x] ELSE req
    BY <1>1, <1>7, <1>10 DEF Reply, Waits
  <1>12. ASSUME f \in Requests, req[f].pc = "waiting"
         PROVE  RequestFits(x, call[f], parts, phase)
    <2>1. RequestFits(req[f], call[f], parts, phase) /\ f # Nothing
      BY <1>5, <1>12 DEF HInv
    <2>2. DOMAIN req[f] = ReqFields /\ PlanFits(req[f].asks, req[f].plan, parts)
      BY <1>12, <2>1 DEF RequestFits, ReqFits
    <2>3. /\ DOMAIN x = ReqFields /\ x.pc = "answered" /\ x.asks = req[f].asks
          /\ x.plan = req[f].plan /\ x.status = o.answer /\ x.done = o.done
      BY <1>10, <2>2, Shapes
    <2>4. req[f].plan.to = "dhw" /\ AsksDhw(req[f].asks, req[f].plan, parts)
      BY <1>3, <2>1, <2>2 DEF PlanFits
    <2>5. req[f].asks.route \in Changes => m.command.do \notin {"snapshot", "save"}
      BY <1>3, <2>1, <2>4 DEF AsksDhw
    <2>6. /\ x.done \in BOOLEAN /\ x.status \in {200, 204, 409, 422, 500, 503}
          /\ x.status \in {409, 422, 503} => ~x.done
          /\ x.status \in {200, 204} /\ req[f].asks.route \in Changes => x.done
      BY <1>8, <2>3, <2>5 DEF OutcomeFits
    <2>7. req[f].asks.route \notin SmartGridRoutes
      BY <2>4 DEF AsksDhw, DhwRoutes, SmartGridRoutes
    <2> QED BY <1>12, <2>1, <2>3, <2>4, <2>6, <2>7, ActorAnswers DEF Actors
  <1> QED BY <1>1, <1>2, <1>6, <1>9, <1>11, <1>12, Serves DEF m

\* The steps that leave requests, calls and mailboxes alone.
LEMMA BoostEndsKeeps ==
    ASSUME HInv, BoostEnds
    PROVE  HInv'
  <1>0. PICK heard \in LaneIsHeard :
          \E o \in IF boost = "bath" THEN BathStops(heard) ELSE ShowerEnds :
             boost' = o.boost /\ sg' = Told(o.mode)
    BY DEF BoostEnds
  <1>1. PICK o \in BathStops(heard) \cup ShowerEnds : boost' = o.boost /\ sg' = Told(o.mode)
    BY <1>0
  <1>2. boost \in {"none", "shower", "bath"} /\ SgTyped(sg)
    BY DEF HInv, ActorInv, SgTyped
  <1>3. OutcomeFits(o, Nothing)
    BY <1>1, <1>2, OutcomesFit
  <1>4. o.mode \in {Nothing, "failed"} \cup Modes /\ o.boost \in {"none", "shower", "bath"}
    BY <1>3 DEF OutcomeFits
  <1>5. SgTyped(Told(o.mode)) /\ Told(o.mode).alive = sg.alive
    BY <1>2, <1>4, SgStaysTyped
  <1>6. SgTyped(sg') /\ sg'.alive = sg.alive /\ boost' \in {"none", "shower", "bath"}
    BY <1>1, <1>4, <1>5
  <1>7. UNCHANGED <<reg, call, given, phase, parts, box, req>>
    BY DEF BoostEnds
  <1> QED BY <1>6, <1>7 DEF HInv, PhaseInv, ActorInv, SgTyped

LEMMA ResumeFiresKeeps ==
    ASSUME HInv, ResumeFires
    PROVE  HInv'
  <1>1. SgTyped(sg) /\ "normal" \in Modes /\ FALSE \in BOOLEAN
    BY DEF HInv, ActorInv, SgTyped, Modes
  <1>2. sg' = [sg EXCEPT !.mode = "normal", !.due = FALSE]
    BY DEF ResumeFires
  <1>3. SgTyped(sg') /\ sg'.alive = sg.alive
    BY <1>1, <1>2, SgStaysTyped
  <1>4. UNCHANGED <<reg, call, given, phase, parts, boost, box, req>>
    BY DEF ResumeFires
  <1> QED BY <1>3, <1>4 DEF HInv, PhaseInv, ActorInv, SgTyped

\* The SmartGrid actor ends; who waits in its mailbox is told so.
LEMMA SgEndsKeeps ==
    ASSUME HInv, SgEnds
    PROVE  HInv'
  <1>1. /\ phase \notin {"starting", "refused", "serving"} \/ phase = "refused"
        /\ phase # "starting" /\ phase # "serving" /\ sg.alive
        /\ UNCHANGED <<reg, call, given, phase, parts, boost>>
        /\ sg' = [sg EXCEPT !.alive = FALSE, !.due = FALSE]
        /\ box' = [box EXCEPT !["smartgrid"] = <<>>]
        /\ req' = [c \in Requests |->
                      IF c \in Senders(box.smartgrid) /\ Waits(c)
                      THEN Answered(req[c], 503) ELSE req[c]]
    BY DEF SgEnds, Gone
  <1>2. phase \notin {"starting", "refused"}
    BY <1>1 DEF HInv, PhaseInv
  <1>3. SgTyped(sg') /\ ~sg'.alive
    <2>1. SgTyped(sg)
      BY DEF HInv, ActorInv, SgTyped
    <2> QED BY <1>1, <2>1, SgStaysTyped
  <1>4. MailFits("smartgrid", box["smartgrid"], req, parts) /\ Nothing \notin Requests
    BY HttpAssumption DEF HInv, Actors
  <1>5. \A c \in Requests : c \in Senders(box.smartgrid) => req[c].plan.to = "smartgrid"
    <2> TAKE c \in Requests
    <2> HAVE c \in Senders(box.smartgrid)
    <2> DEFINE q == box["smartgrid"]
    <2>1. q \in Seq(Messages("smartgrid"))
      BY <1>4 DEF MailFits
    <2>2. PICK i \in 1 .. Len(q) : q[i].from = c
      BY <2>1 DEF Senders
    <2> QED BY <1>4, <2>2 DEF MailFits
  <1>6. ASSUME NEW c \in Requests
        PROVE  /\ RequestFits(req'[c], call'[c], parts', phase')
               /\ req'[c] = req[c] \/ req[c].plan.to = "smartgrid"
    <2>1. RequestFits(req[c], call[c], parts, phase)
      BY <1>6 DEF HInv
    <2>2. CASE c \in Senders(box.smartgrid) /\ Waits(c)
      <3>1. PICK m : m = Answered(req[c], 503)
        OBVIOUS
      <3>2. req'[c] = m
        BY <1>1, <2>2, <3>1
      <3>3. /\ DOMAIN req[c] = ReqFields /\ req[c].pc = "waiting" /\ ~req[c].done
            /\ req[c].done \in BOOLEAN /\ req[c].plan.to = "smartgrid"
        BY <1>5, <2>1, <2>2 DEF RequestFits, ReqFits, Waits
      <3>4. /\ DOMAIN m = ReqFields /\ m.pc = "answered" /\ m.asks = req[c].asks
            /\ m.plan = req[c].plan /\ m.status = 503 /\ m.done = req[c].done
        BY <3>1, <3>3, Shapes
      <3>5. RequestFits(m, call[c], parts, phase)
        BY <1>1, <2>1, <3>3, <3>4, ActorAnswers DEF Actors
      <3> QED BY <1>1, <3>2, <3>3, <3>5
    <2>3. CASE ~(c \in Senders(box.smartgrid) /\ Waits(c))
      <3>1. req'[c] = req[c]
        BY <1>1, <2>3
      <3> QED BY <1>1, <2>1, <3>1
    <2> QED BY <2>2, <2>3
  <1>7. DOMAIN box = Actors
    BY DEF HInv
  <1>8. DOMAIN box' = Actors /\ box'["smartgrid"] = <<>> /\ box'["dhw"] = box["dhw"]
    BY <1>1, <1>7 DEF Actors
  <1>9. MailFits("smartgrid", <<>>, req', parts)
    BY NoMail
  <1>10. MailFits("dhw", box["dhw"], req', parts)
    <2>1. MailFits("dhw", box["dhw"], req, parts)
      BY DEF HInv, Actors
    <2>2. \A c \in Requests :
             \/ req'[c] = req[c]
             \/ req[c].pc \in {"none", "asking"} \/ req[c].plan.to # "dhw"
             \/ req'[c].pc = "gone" /\ req'[c].plan = req[c].plan
      BY <1>6
    <2> QED BY <2>1, <2>2, MailMinds
  <1>11. \A actor \in Actors : MailFits(actor, box'[actor], req', parts')
    BY <1>1, <1>8, <1>9, <1>10 DEF Actors
  <1>12. phase' \notin {"starting", "refused", "serving"} /\ phase' \in Phases
    BY <1>1, <1>2 DEF HInv, PhaseInv
  <1>13. PhaseInv' /\ ActorInv'
    BY <1>1, <1>3, <1>12 DEF HInv, PhaseInv, ActorInv, SgTyped
  <1>14. reg' \in [Params -> Word] /\ call' \in Calls /\ DOMAIN req' = Requests
    BY <1>1 DEF HInv
  <1> QED BY <1>6, <1>8, <1>11, <1>13, <1>14 DEF HInv

\* The process goes on to a phase in which it does not serve any more.
LEMMA PhasesKeep ==
    ASSUME HInv, Signal \/ StopsListening \/ Exits
    PROVE  HInv'
  <1>1. /\ phase \in {"serving", "stopping", "draining"}
        /\ phase' \in {"stopping", "draining", "stopped"}
        /\ UNCHANGED <<reg, call, given, parts, sg, boost, req>>
        /\ \/ box' = box
           \/ phase = "serving" /\ "dhw" \in parts
              /\ box' = [box EXCEPT !["dhw"] = Append(@, Save)]
    BY DEF Signal, StopsListening, Exits
  <1>2. \A c \in Requests : RequestFits(req'[c], call'[c], parts', phase')
    <2> TAKE c \in Requests
    <2>1. RequestFits(req[c], call[c], parts, phase)
      BY DEF HInv
    <2>2. PICK ph2 : ph2 = phase'
      OBVIOUS
    <2>3. RequestFits(req[c], call[c], parts, ph2)
      BY <1>1, <2>1, <2>2, PhaseGoesOn
    <2> QED BY <1>1, <2>2, <2>3
  <1>3. DOMAIN box = Actors /\ \A actor \in Actors : MailFits(actor, box[actor], req, parts)
    BY DEF HInv
  <1>4. DOMAIN box' = Actors /\ \A actor \in Actors : MailFits(actor, box'[actor], req', parts')
    <2>1. CASE box' = box
      BY <1>1, <1>3, <2>1
    <2>2. CASE /\ phase = "serving" /\ "dhw" \in parts
               /\ box' = [box EXCEPT !["dhw"] = Append(@, Save)]
      <3>1. \A i \in 1 .. Len(box["dhw"]) : box["dhw"][i].from # Nothing
        BY <2>2 DEF HInv, PhaseInv
      <3>2. MailFits("dhw", box["dhw"], req, parts)
        BY <1>3 DEF Actors
      <3>3. MailFits("dhw", Append(box["dhw"], Save), req, parts)
        BY <2>2, <3>1, <3>2, SaveComes
      <3>4. /\ DOMAIN box' = Actors /\ box'["dhw"] = Append(box["dhw"], Save)
            /\ box'["smartgrid"] = box["smartgrid"]
        BY <1>3, <2>2 DEF Actors
      <3> QED BY <1>1, <1>3, <3>3, <3>4 DEF Actors
    <2> QED BY <1>1, <2>1, <2>2
  <1>5. PhaseInv' /\ ActorInv'
    BY <1>1 DEF HInv, PhaseInv, ActorInv, Phases
  <1> QED BY <1>1, <1>2, <1>4, <1>5 DEF HInv

\* Everything that is configured and works is started, or nothing is.
LEMMA StartsKeeps ==
    ASSUME HInv, Starts
    PROVE  HInv'
  <1>1. /\ phase = "starting" /\ UNCHANGED <<reg, call, given, boost, box, req>>
        /\ \/ phase' = "refused" /\ UNCHANGED <<parts, sg>>
           \/ /\ phase' = "serving" /\ parts' = Started
              /\ sg' = [mode |-> InitialMode, due |-> FALSE, alive |-> SmartGridStarts]
    BY DEF Starts
  <1>2. parts = {} /\ \A c \in Requests : req[c].pc = "none"
    BY <1>1 DEF HInv, PhaseInv
  <1>3. \A c \in Requests : RequestFits(req'[c], call'[c], parts', phase')
    <2> TAKE c \in Requests
    <2>1. RequestFits(req[c], call[c], parts, phase) /\ req[c].pc = "none"
      BY <1>2 DEF HInv
    <2>2. ASSUME NEW ps, NEW ph
          PROVE  RequestFits(req[c], call[c], ps, ph)
      BY <2>1 DEF RequestFits, ReqFits, CallFits, StatusFits, Reports
    <2>3. PICK ps : ps = parts'
      OBVIOUS
    <2>4. PICK ph : ph = phase'
      OBVIOUS
    <2> QED BY <1>1, <2>2, <2>3, <2>4
  <1>4. \A actor \in Actors : box[actor] = <<>>
    BY <1>2 DEF HInv, MailFits
  <1>5. \A actor \in Actors : MailFits(actor, box'[actor], req', parts')
    BY <1>1, <1>4, NoMail
  <1>6. Len(box.dhw) = 0
    BY <1>4 DEF Actors
  <1>7. "smartgrid" \in Started <=> SmartGridStarts
    BY DEF Started
  <1>8. InitialMode \in Modes
    BY DEF InitialMode, Modes
  <1>9. SmartGridStarts \in BOOLEAN
    BY DEF SmartGridStarts
  <1>10. PhaseInv'
    BY <1>1, <1>2, <1>6, <1>7 DEF HInv, PhaseInv, Phases
  <1>11. ActorInv'
    <2>1. sg' \in [mode : Modes, due : BOOLEAN, alive : BOOLEAN]
      <3>1. CASE UNCHANGED sg
        BY <3>1 DEF HInv, ActorInv
      <3>2. CASE sg' = [mode |-> InitialMode, due |-> FALSE, alive |-> SmartGridStarts]
        <4>1. PICK alive \in BOOLEAN : alive = SmartGridStarts
          BY <1>9
        <4>2. sg' = [mode |-> InitialMode, due |-> FALSE, alive |-> alive]
          BY <3>2, <4>1
        <4> QED BY <1>8, <4>2
      <3> QED BY <1>1, <3>1, <3>2
    <2> QED BY <1>1, <2>1 DEF HInv, ActorInv
  <1> QED BY <1>1, <1>3, <1>5, <1>10, <1>11 DEF HInv

-----------------------------------------------------------------------------
(* The theorems. *)

LEMMA InitHolds == Init => HInv
  <1> SUFFICES ASSUME Init PROVE HInv
    OBVIOUS
  <1> DEFINE a == CHOOSE x \in Asks : TRUE
  <1>1. a \in Asks
    BY HttpAssumption
  <1>2. call = [c \in Requests |-> [phase |-> "idle", ask |-> a, sent |-> FALSE]]
    BY DEF Init
  <1> HIDE DEF a
  <1>3. call \in Calls
    BY <1>1, <1>2 DEF Calls
  <1>4. reg \in [Params -> Word]
    BY RegistersAssumption DEF Init, Word
  <1>5. DOMAIN req = Requests /\ \A c \in Requests : req[c] = Unasked
    BY DEF Init
  <1>6. \A c \in Requests : RequestFits(req[c], call[c], parts, phase)
    BY <1>2, <1>5, UnaskedFits
  <1>7. DOMAIN box = Actors /\ \A actor \in Actors : box[actor] = <<>>
    BY DEF Init, Actors
  <1>8. \A actor \in Actors : MailFits(actor, box[actor], req, parts)
    BY <1>7, NoMail
  <1>9. ActorInv
    BY DEF Init, ActorInv, Modes
  <1>10. \A c \in Requests : req[c].pc = "none"
    BY <1>5 DEF Unasked
  <1>11. Len(box.dhw) = 0
    BY <1>7 DEF Actors
  <1>12. PhaseInv
    BY <1>10, <1>11 DEF Init, PhaseInv, Phases
  <1> QED BY <1>3, <1>4, <1>5, <1>6, <1>7, <1>8, <1>9, <1>12 DEF HInv

LEMMA StepHolds == HInv /\ [Next]_vars => HInv'
  <1> SUFFICES ASSUME HInv, [Next]_vars PROVE HInv'
    OBVIOUS
  <1>1. CASE Starts
    BY <1>1, StartsKeeps
  <1>2. CASE SgServes
    BY <1>2, SgServesKeeps
  <1>3. CASE SgEnds
    BY <1>3, SgEndsKeeps
  <1>4. CASE ResumeFires
    BY <1>4, ResumeFiresKeeps
  <1>5. CASE DhwServes
    BY <1>5, DhwServesKeeps
  <1>6. CASE BoostEnds
    BY <1>6, BoostEndsKeeps
  <1>7. CASE Signal \/ StopsListening \/ Exits
    BY <1>7, PhasesKeep
  <1>8. ASSUME NEW c \in Requests, Accept(c) \/ Handling(c) \/ ModbusWorks(c) \/ HangsUp(c)
        PROVE  HInv'
    BY <1>8, AcceptKeeps, AskModbusKeeps, AskActorKeeps, ModbusAnswersKeeps,
       HandlerTimesOutKeeps, ModbusWorksKeeps, HangsUpKeeps DEF Handling
  <1>9. CASE UNCHANGED vars
    BY <1>9 DEF vars, HInv, PhaseInv, ActorInv
  <1> QED BY <1>1, <1>2, <1>3, <1>4, <1>5, <1>6, <1>7, <1>8, <1>9 DEF Next

LEMMA HttpInductive == Spec => []HInv
  <1> QED BY InitHolds, StepHolds, PTL DEF Spec

\* Every variable has its type, and no request has two messages in a mailbox.
LEMMA HInvTypes == HInv => TypeOK
  <1> SUFFICES ASSUME HInv PROVE TypeOK
    OBVIOUS
  <1>1. ASSUME NEW c \in Requests
        PROVE  /\ call[c].phase \in {"idle", "open", "left"} \cup Answers
               /\ call[c].ask \in Asks /\ call[c].sent \in BOOLEAN
               /\ req[c].pc \in {"none", "asking", "waiting", "answered", "gone"}
               /\ req[c].status \in Statuses /\ req[c].done \in BOOLEAN
               /\ (req[c].pc = "answered") = (req[c].status # 0)
    <2>1. call \in Calls /\ RequestFits(req[c], call[c], parts, phase)
      BY <1>1 DEF HInv
    <2>2. ReqFits(req[c], parts)
      BY <2>1 DEF RequestFits
    <2>3. /\ call[c].phase \in {"idle", "open", "left"} \cup Answers
          /\ call[c].ask \in Asks /\ call[c].sent \in BOOLEAN
      BY <1>1, <2>1 DEF Calls
    <2> QED BY <2>2, <2>3 DEF ReqFits
  <1>2. ASSUME NEW actor \in {"smartgrid", "dhw"}
        PROVE  /\ actor \notin parts => box[actor] = <<>>
               /\ \A i, j \in DOMAIN box[actor] :
                     box[actor][i].from = box[actor][j].from => i = j
    <2> DEFINE q == box[actor]
    <2>1. MailFits(actor, q, req, parts)
      BY <1>2 DEF HInv, Actors
    <2>2. /\ q \in Seq(Messages(actor)) /\ (q # <<>> => actor \in parts)
          /\ \A i, j \in 1 .. Len(q) : q[i].from = q[j].from => i = j
      BY <2>1 DEF MailFits
    <2>3. DOMAIN q = 1 .. Len(q)
      BY <2>2
    <2> QED BY <2>2, <2>3
  <1>3. /\ phase \in Phases
        /\ phase \in {"starting", "refused"} => parts = {} /\ ~sg.alive
    BY DEF HInv, PhaseInv
  <1>4. sg.mode \in Modes /\ sg.due \in BOOLEAN /\ sg.alive \in BOOLEAN
        /\ boost \in {"none", "shower", "bath"}
    BY DEF HInv, ActorInv
  <1>5. reg \in [Params -> Word]
    BY DEF HInv
  <1> QED BY <1>1, <1>2, <1>3, <1>4, <1>5 DEF TypeOK, Phases

\* The types of the server's variables; what a process that refused to start
\* has started is nothing, and no request has two messages in a mailbox.
THEOREM TypeCorrect == Spec => []TypeOK
  <1> QED BY HttpInductive, HInvTypes, PTL

LEMMA HInvStatus == HInv => StatusIsTrue
  <1> SUFFICES ASSUME HInv PROVE StatusIsTrue
    OBVIOUS
  <1>1. ASSUME NEW c \in Requests
        PROVE  /\ StatusFits(req[c], call[c], parts, phase)
               /\ CallFits(req[c], call[c])
               /\ \A statuses : Has(c, statuses) <=> Reports(req[c], statuses)
    BY <1>1 DEF HInv, RequestFits, Has, Reports
  <1>2. RefusedLeavesNoTrace
    <2> SUFFICES ASSUME NEW c \in Requests
                 PROVE  /\ Has(c, {400, 404, 409, 422}) => ~req[c].done /\ ~SentToHeater(c)
                        /\ Has(c, {503}) /\ req[c].plan.to # "modbus" => ~req[c].done
      BY DEF RefusedLeavesNoTrace
    <2>1. Has(c, {400, 404, 409, 422}) => ~req[c].done
      BY <1>1 DEF StatusFits
    <2>2. Has(c, {400, 404, 409, 422}) => ~SentToHeater(c)
      BY <1>1 DEF CallFits, SentToHeater
    <2>3. Has(c, {503}) /\ req[c].plan.to # "modbus" => ~req[c].done
      BY <1>1 DEF StatusFits
    <2> QED BY <2>1, <2>2, <2>3
  <1>3. AcknowledgedIsDone
    BY <1>1 DEF AcknowledgedIsDone, StatusFits, SentToHeater
  <1>4. MissingIsMissing
    BY <1>1 DEF MissingIsMissing, StatusFits
  <1> QED BY <1>2, <1>3, <1>4 DEF StatusIsTrue

\* What a status says about the request is so: a refusal has changed nothing, a
\* success has, and a part that is called missing was not started or has ended.
THEOREM StatusCorrect == Spec => []StatusIsTrue
  <1> QED BY HttpInductive, HInvStatus, PTL
=============================================================================
