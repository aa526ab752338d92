------------------------------ MODULE DhwBoost ------------------------------
(***************************************************************************)
(* The hot-water boosts of dhw/: the DhwActor (actor.rs), its Shower and   *)
(* Bath watchers (watcher.rs), the immersion gate (immersion.rs) and the   *)
(* persisted boost (state.rs).                                             *)
(*                                                                         *)
(* A boost is a sequence of writes to four places that share no            *)
(* transaction: heater registers behind the Modbus actor, the SmartGrid    *)
(* mode, the pump override lane and a JSON file.  The DhwActor runs one    *)
(* handler at a time, but a handler awaits each write, and the Bath        *)
(* watcher writes 61591 on its own between those awaits.  The Modbus actor *)
(* serves one request at a time in the order they were sent (bus).         *)
(*                                                                         *)
(* A handler is the list of the steps it has left.  A failed write may or  *)
(* may not have reached the heater: the client gives up on a request that  *)
(* the Modbus actor is still carrying out.  Comfort level, snapshots, and  *)
(* requests refused before their first step change nothing here.           *)
(***************************************************************************)
EXTENDS Naturals, Sequences

CONSTANTS
    PersistPath,     \* config: dhw.persist_path is set
    MaxIoFaults,     \* bound: Modbus or SmartGrid calls that report an error
    MaxSaveFaults,   \* bound: failed accesses to the persisted file
    MaxCrashes,      \* bound: restarts of the process
    EventCap         \* mpsc capacity of the watcher's side channel (8)

ASSUME DhwAssumption ==
    /\ PersistPath \in BOOLEAN
    /\ MaxIoFaults \in Nat /\ MaxSaveFaults \in Nat /\ MaxCrashes \in Nat
    /\ EventCap \in Nat \ {0}

VARIABLES
    heater,    \* 61503 timer, 61591 immersion kW, 61636 immersion engage temp
    userTemp,  \* the engage temp the user set, never changed by the user here
    sg,        \* the SmartGrid mode, as far as boosts set it
    override,  \* the boost lane of the pump: "off", "none", or "closed": no
               \* receiver, because homey.poll_interval_secs is 0
    file,      \* the boost in the persisted file
    state,     \* DhwActor.state
    h,         \* the handler the actor is in
    shower,    \* the Shower watcher
    bath,      \* the Bath watcher
    events,    \* bath_event_rx
    bus,       \* requests sent to the Modbus actor and not yet answered
    limits     \* what is left of the bounds, and what this run has seen

vars == <<heater, userTemp, sg, override, file, state, h, shower, bath, events,
          bus, limits>>

Temps   == {"user", "boost"}   \* "boost": cfg.immersion_engage_temp_c
Reasons == {"TimerExpired", "RoomTooCold", "PriceLeftCheap", "Manual"}
Kinds   == {"none", "recover", "showerRead", "shower", "bathRead", "bathApply",
            "rollback", "cancel", "bathDone"}

Steps == [reg : {"timer", "kw"}, val : {"on", "off"}]
         \cup [reg : {"engage"}, val : Temps]
         \cup [reg : {"read"}, val : {"none"}]
         \cup [reg : {"sg"}, val : {"Normal", "Overcapacity"}]
         \cup [reg : {"override"}, val : {"off", "none"}]

Step(reg, val) == [reg |-> reg, val |-> val]

\* Steps that go through the Modbus actor.
BusRegs == {"timer", "kw", "engage", "read"}

Boosts == [preset : {"none", "Shower", "Bath"}, prior : Temps \cup {"none"},
           engaged : BOOLEAN]

NoBoost     == [preset |-> "none", prior |-> "none", engaged |-> FALSE]
ShowerBoost == [NoBoost EXCEPT !.preset = "Shower"]
BathBoost(prior, engaged) ==
    [preset |-> "Bath", prior |-> prior, engaged |-> engaged]

Idle == [kind |-> "none", steps |-> <<>>, waiting |-> FALSE, prior |-> "none",
         low |-> FALSE]

NoWatcher == [pc |-> "off", engaged |-> FALSE, expired |-> FALSE,
              reason |-> "Manual"]

Registers == [timer : {"on", "off"}, kw : {"on", "off"}, engage : Temps]

Handlers == [kind : Kinds, steps : Seq(Steps), waiting : BOOLEAN,
             prior : Temps \cup {"none"}, low : BOOLEAN]

BathWatchers == [pc : {"off", "wait", "queued", "wrote", "done"},
                 engaged : BOOLEAN, expired : BOOLEAN, reason : Reasons]

Requests == [who : {"actor", "watcher", "nobody"}, step : Steps]

\* torn: a crash has hit a Bath start that was not persisted yet.  skipped: a
\* step of a rollback has failed.  orderly: no client cancels, and events are
\* handled within the 60 s of a watcher's tick.
Limits == [io : 0..MaxIoFaults, saves : 0..MaxSaveFaults, crashes : 0..MaxCrashes,
           torn : BOOLEAN, skipped : BOOLEAN, orderly : BOOLEAN]

TypeOK ==
    /\ heater \in Registers
    /\ userTemp \in Temps
    /\ sg \in {"Normal", "Overcapacity"}
    /\ override \in {"off", "none", "closed"}
    /\ file \in Boosts
    /\ state \in Boosts
    /\ h \in Handlers
    /\ shower \in {"off", "sleeping", "done"}
    /\ bath \in BathWatchers
    /\ events \in Seq(BOOLEAN)
    /\ bus \in Seq(Requests)
    /\ limits \in Limits

Init ==
    /\ userTemp \in Temps
    /\ heater = [timer |-> "off", kw |-> "off", engage |-> userTemp]
    /\ sg = "Normal"
    /\ override \in {"none", "closed"}
    /\ file = NoBoost
    /\ state = NoBoost
    /\ h = Idle
    /\ shower = "off"
    /\ bath = NoWatcher
    /\ events = <<>>
    /\ bus = <<>>
    /\ \E orderly \in BOOLEAN :
         limits = [io |-> MaxIoFaults, saves |-> MaxSaveFaults,
                   crashes |-> MaxCrashes, torn |-> FALSE, skipped |-> FALSE,
                   orderly |-> orderly]

-----------------------------------------------------------------------------
(* The step lists of the handlers. *)

Optional(cond, step) == IF cond THEN <<step>> ELSE <<>>

ShowerSteps == <<Step("override", "off"), Step("timer", "on")>>

\* apply_bath_side_effects.  low: the spot price captured before the first
\* await is under the gate's on-threshold.
ApplySteps(prior, low) ==
    <<Step("override", "off"), Step("sg", "Overcapacity")>>
    \o Optional(prior # "boost", Step("engage", "boost"))
    \o <<Step("timer", "on")>>
    \o Optional(low, Step("kw", "on"))

\* Slips: recovery forgets 61636, or restores it for a Shower too.
RecoveryForgetsTemp(boost) ==
    <<Step("timer", "off"), Step("kw", "off"), Step("sg", "Normal"),
      Step("override", "none")>>
RecoveryUnguarded(boost) ==
    <<Step("engage", boost.prior), Step("sg", "Normal"), Step("override", "none")>>

\* rollback_partial_bath
RollbackSteps(prior) ==
    <<Step("timer", "off"), Step("kw", "off"), Step("engage", prior),
      Step("sg", "Normal"), Step("override", "none")>>

\* run_recovery
RecoverySteps(boost) ==
    <<Step("timer", "off"), Step("kw", "off")>>
    \o Optional(boost.prior # "none", Step("engage", boost.prior))
    \o <<Step("sg", "Normal"), Step("override", "none")>>

\* stop_boost
StopSteps(boost, reason) ==
    Optional(reason # "TimerExpired", Step("timer", "off"))
    \o Optional(boost.engaged, Step("kw", "off"))
    \o Optional(boost.prior # "none", Step("engage", boost.prior))
    \o <<Step("sg", "Normal"), Step("override", "none")>>

Starts(kind, steps) == [Idle EXCEPT !.kind = kind, !.steps = steps]

-----------------------------------------------------------------------------
(* The persisted file.  A failed save is logged and leaves the old record. *)

SaveFails ==
    /\ limits.saves > 0
    /\ limits' = [limits EXCEPT !.saves = @ - 1]

Save(boost) ==
    \/ file' = (IF PersistPath THEN boost ELSE file) /\ UNCHANGED limits
    \/ PersistPath /\ SaveFails /\ UNCHANGED file

-----------------------------------------------------------------------------
(* Commands, accepted only between handlers. *)

AtRest == h.kind = "none"

StartShower ==
    /\ AtRest /\ state.preset = "none"
    /\ h' = Starts("showerRead", <<Step("read", "none")>>)
    /\ UNCHANGED <<heater, userTemp, sg, override, file, state, shower, bath,
                   events, bus, limits>>

\* The range and price gates passed; low is what the price said then.
StartBath(low) ==
    /\ AtRest /\ state.preset = "none"
    /\ h' = [Starts("bathRead", <<Step("read", "none")>>) EXCEPT !.low = low]
    /\ UNCHANGED <<heater, userTemp, sg, override, file, state, shower, bath,
                   events, bus, limits>>

\* cancel_manual: the stop sequence runs while the watcher is still alive.
Cancel ==
    /\ ~limits.orderly
    /\ AtRest /\ state.preset = "Bath"
    /\ h' = Starts("cancel", StopSteps(state, "Manual"))
    /\ UNCHANGED <<heater, userTemp, sg, override, file, state, shower, bath,
                   events, bus, limits>>

ShutdownSave ==
    /\ AtRest /\ state.preset # "none" /\ PersistPath
    /\ Save(state)
    /\ UNCHANGED <<heater, userTemp, sg, override, state, h, shower, bath, events, bus>>

-----------------------------------------------------------------------------
(* One step of the current handler. *)

\* What the handler does when a step succeeded.  A Shower start ends here if
\* the tank is warm already or has no sample.
AfterSuccess ==
    CASE h.kind = "showerRead" -> {Idle, Starts("shower", ShowerSteps)}
      [] h.kind = "bathRead" ->
           {[Starts("bathApply", ApplySteps(heater.engage, h.low))
               EXCEPT !.prior = heater.engage, !.low = h.low]}
      [] OTHER -> {[h EXCEPT !.steps = Tail(@), !.waiting = FALSE]}

\* A failed step rolls a Bath start back, is skipped by a rollback, and ends
\* every other handler: recovery keeps the file, a stop keeps the state.
AfterError ==
    CASE h.kind = "bathApply" ->
           [Starts("rollback", RollbackSteps(h.prior)) EXCEPT !.prior = h.prior]
      [] h.kind = "rollback" -> [h EXCEPT !.steps = Tail(@), !.waiting = FALSE]
      [] OTHER -> Idle

NextStepIn(regs) ==
    /\ h.steps # <<>> /\ ~h.waiting
    /\ Head(h.steps).reg \in regs

IoFails ==
    /\ limits.io > 0
    /\ limits' = [limits EXCEPT !.io = @ - 1]

\* A call of the handler fails.  A rollback goes on without the step.
StepFails ==
    /\ limits.io > 0
    /\ limits' = [limits EXCEPT !.io = @ - 1, !.skipped = @ \/ h.kind = "rollback"]

SendRequest ==
    /\ NextStepIn(BusRegs)
    /\ bus' = Append(bus, [who |-> "actor", step |-> Head(h.steps)])
    /\ h' = [h EXCEPT !.waiting = TRUE]
    /\ UNCHANGED <<heater, userTemp, sg, override, file, state, shower, bath,
                   events, limits>>

SetSmartGrid ==
    /\ NextStepIn({"sg"})
    /\ \/ sg' = Head(h.steps).val /\ h' \in AfterSuccess /\ UNCHANGED limits
       \/ StepFails /\ h' = AfterError /\ UNCHANGED sg
    /\ UNCHANGED <<heater, userTemp, override, file, state, shower, bath, events, bus>>

Released == IF override = "closed" THEN "closed" ELSE "none"

\* A watch channel without receivers refuses the value; recovery and rollback
\* do not look at the result.
SetOverride ==
    /\ NextStepIn({"override"})
    /\ IF override # "closed"
       THEN override' = Head(h.steps).val /\ h' \in AfterSuccess
       ELSE /\ UNCHANGED override
            /\ IF h.kind = "recover" THEN h' \in AfterSuccess ELSE h' = AfterError
    /\ UNCHANGED <<heater, userTemp, sg, file, state, shower, bath, events, bus, limits>>

-----------------------------------------------------------------------------
(* The Modbus actor serves the oldest request. *)

Served(who) == bus # <<>> /\ Head(bus).who = who /\ bus' = Tail(bus)

Land ==
    LET step == Head(bus).step
        Value(reg, old) == IF step.reg = reg THEN step.val ELSE old
    IN  heater' = [timer  |-> Value("timer", heater.timer),
                   kw     |-> Value("kw", heater.kw),
                   engage |-> Value("engage", heater.engage)]

\* The reply goes to the handler that waits for it.
ServeActor ==
    /\ Served("actor") /\ h.waiting
    /\ \/ Land /\ h' \in AfterSuccess /\ UNCHANGED limits
       \/ StepFails /\ (Land \/ UNCHANGED heater) /\ h' = AfterError
    /\ UNCHANGED <<userTemp, sg, override, file, state, shower, bath, events>>

\* A failed write makes the watcher revert its gate and try at the next tick.
ServeWatcher ==
    /\ Served("watcher")
    /\ \/ Land /\ bath' = [bath EXCEPT !.pc = "wrote"] /\ UNCHANGED limits
       \/ /\ IoFails /\ (Land \/ UNCHANGED heater)
          /\ bath' = [bath EXCEPT !.pc = "wait", !.engaged = ~@]
    /\ UNCHANGED <<userTemp, sg, override, file, state, h, shower, events>>

\* The request stays on the bus, but nobody waits for its answer any more.
Disown(who) ==
    bus' = [i \in DOMAIN bus |->
              IF bus[i].who = who THEN [bus[i] EXCEPT !.who = "nobody"] ELSE bus[i]]

\* The request_timeout of the client runs out first.
ActorGivesUp ==
    /\ h.waiting
    /\ StepFails /\ h' = AfterError
    /\ Disown("actor")
    /\ UNCHANGED <<heater, userTemp, sg, override, file, state, shower, bath, events>>

WatcherGivesUp ==
    /\ bath.pc = "queued"
    /\ IoFails /\ bath' = [bath EXCEPT !.pc = "wait", !.engaged = ~@]
    /\ Disown("watcher")
    /\ UNCHANGED <<heater, userTemp, sg, override, file, state, h, shower, events>>

\* The client is gone: a request in progress is finished, else skipped.
ServeNobody ==
    /\ Served("nobody")
    /\ Land \/ UNCHANGED heater
    /\ UNCHANGED <<userTemp, sg, override, file, state, h, shower, bath, events, limits>>

\* The heater's own countdown of 61503.
HeaterTimerElapses ==
    /\ heater.timer = "on"
    /\ heater' = [heater EXCEPT !.timer = "off"]
    /\ UNCHANGED <<userTemp, sg, override, file, state, h, shower, bath, events,
                   bus, limits>>

-----------------------------------------------------------------------------
(* The ends of the handlers. *)

Ends(kind) == h.kind = kind /\ h.steps = <<>> /\ h' = Idle

\* Slip: recovery leaves the record it has worked off.
RecoveryKeepsFile ==
    /\ Ends("recover")
    /\ UNCHANGED <<heater, userTemp, sg, override, file, state, shower, bath,
                   events, bus, limits>>

\* A failed save only makes run_recovery report an error: the file stays.
FinishRecovery ==
    /\ Ends("recover")
    /\ Save(NoBoost)
    /\ UNCHANGED <<heater, userTemp, sg, override, state, shower, bath, events, bus>>

FinishShowerStart ==
    /\ Ends("shower")
    /\ state' = ShowerBoost
    /\ Save(state')
    /\ shower' = "sleeping"
    /\ UNCHANGED <<heater, userTemp, sg, override, bath, events, bus>>

\* The gate that evaluated at the start seeds the watcher's own gate.
FinishBathStart ==
    /\ Ends("bathApply")
    /\ state' = BathBoost(h.prior, h.low)
    /\ Save(state')
    /\ bath' = [NoWatcher EXCEPT !.pc = "wait", !.engaged = h.low]
    /\ UNCHANGED <<heater, userTemp, sg, override, shower, events, bus>>

FinishRollback ==
    /\ Ends("rollback")
    /\ UNCHANGED <<heater, userTemp, sg, override, file, state, shower, bath,
                   events, bus, limits>>

\* Slip: the abort handle is dropped without being used.
WatcherLeftRunning == UNCHANGED <<bath, bus, events>>

AbortBathWatcher ==
    /\ bath' = NoWatcher
    /\ Disown("watcher")
    /\ events' = <<>>

\* Only now is the watcher aborted, and its unread events are dropped.
FinishCancel ==
    /\ Ends("cancel")
    /\ AbortBathWatcher
    /\ state' = NoBoost
    /\ Save(state')
    /\ UNCHANGED <<heater, userTemp, sg, override, shower>>

\* Slip: the stop sequence is over but the boost stays in memory.
BathDoneKeepsState ==
    /\ Ends("bathDone")
    /\ UNCHANGED <<heater, userTemp, sg, override, file, state, shower, bath,
                   events, bus, limits>>

FinishBathDone ==
    /\ Ends("bathDone")
    /\ state' = NoBoost
    /\ Save(state')
    /\ UNCHANGED <<heater, userTemp, sg, override, shower, bath, events, bus>>

-----------------------------------------------------------------------------
(* The watchers and what the actor makes of their news. *)

ShowerWatcherFires ==
    /\ shower = "sleeping"
    /\ shower' = "done"
    /\ override' = Released
    /\ UNCHANGED <<heater, userTemp, sg, file, state, h, bath, events, bus, limits>>

OnShowerDone ==
    /\ AtRest /\ shower = "done"
    /\ shower' = "off"
    /\ state' = NoBoost
    /\ Save(state')
    /\ UNCHANGED <<heater, userTemp, sg, override, h, bath, events, bus>>

\* The watcher's own duration runs out after the heater's timer did.
BathExpires ==
    /\ bath.pc # "off" /\ ~bath.expired
    /\ heater.timer = "off"
    /\ bath' = [bath EXCEPT !.expired = TRUE]
    /\ UNCHANGED <<heater, userTemp, sg, override, file, state, h, shower, events,
                   bus, limits>>

Ticks == bath.pc = "wait" /\ (limits.orderly => events = <<>>)

BathTriggers(reason) ==
    /\ Ticks
    /\ bath.expired <=> reason = "TimerExpired"
    /\ bath' = [bath EXCEPT !.pc = "done", !.reason = reason]
    /\ UNCHANGED <<heater, userTemp, sg, override, file, state, h, shower, events,
                   bus, limits>>

\* The gate crosses: it flips first and is reverted if the write fails.
GateCrosses ==
    /\ Ticks /\ ~bath.expired
    /\ bath' = [bath EXCEPT !.pc = "queued", !.engaged = ~@]
    /\ bus' = Append(bus, [who |-> "watcher",
                           step |-> Step("kw", IF bath'.engaged THEN "on" ELSE "off")])
    /\ UNCHANGED <<heater, userTemp, sg, override, file, state, h, shower, events, limits>>

WatcherReports ==
    /\ bath.pc = "wrote"
    /\ Len(events) < EventCap
    /\ events' = Append(events, bath.engaged)
    /\ bath' = [bath EXCEPT !.pc = "wait"]
    /\ UNCHANGED <<heater, userTemp, sg, override, file, state, h, shower, bus, limits>>

\* Slip: the immersion flag is mirrored in memory only.
EventNotSaved ==
    /\ AtRest /\ events # <<>>
    /\ events' = Tail(events)
    /\ state' = [state EXCEPT !.engaged = Head(events)]
    /\ UNCHANGED <<heater, userTemp, sg, override, file, h, shower, bath, bus, limits>>

OnBathEvent ==
    /\ AtRest /\ events # <<>>
    /\ events' = Tail(events)
    /\ state' = [state EXCEPT !.engaged = Head(events)]
    /\ Save(state')
    /\ UNCHANGED <<heater, userTemp, sg, override, h, shower, bath, bus>>

\* The select may take the stop before events that are still queued: they go.
OnBathDone ==
    /\ AtRest /\ bath.pc = "done"
    /\ bath' = NoWatcher
    /\ events' = <<>>
    /\ h' = Starts("bathDone", StopSteps(state, bath.reason))
    /\ UNCHANGED <<heater, userTemp, sg, override, file, state, shower, bus, limits>>

-----------------------------------------------------------------------------
(* The process dies and comes back. *)

\* The request in progress may still reach the heater.  The SmartGrid actor
\* starts in Normal and the override channel is created empty.
Crash ==
    /\ limits.crashes > 0
    /\ heater' = heater \/ (bus # <<>> /\ Land)
    /\ sg' = "Normal"
    /\ override' = Released
    /\ state' = NoBoost
    /\ shower' = "off"
    /\ bath' = NoWatcher
    /\ events' = <<>>
    /\ bus' = <<>>
    /\ \E unreadable \in {0, 1} :   \* the file cannot be read: no recovery
         /\ unreadable <= limits.saves
         /\ h' = IF file.preset = "none" \/ unreadable = 1 THEN Idle
                 ELSE Starts("recover", RecoverySteps(file))
         /\ limits' = [io      |-> limits.io,
                       saves   |-> limits.saves - unreadable,
                       crashes |-> limits.crashes - 1,
                       torn    |-> limits.torn \/ h.kind \in {"bathApply", "rollback"},
                       skipped |-> limits.skipped,
                       orderly |-> limits.orderly]
    /\ UNCHANGED <<userTemp, file>>

-----------------------------------------------------------------------------
Commands == StartShower \/ (\E low \in BOOLEAN : StartBath(low)) \/ Cancel
            \/ ShutdownSave

HandlerSteps ==
    \/ SendRequest \/ SetSmartGrid \/ SetOverride
    \/ FinishRecovery \/ FinishShowerStart \/ FinishBathStart
    \/ FinishRollback \/ FinishCancel \/ FinishBathDone

Serve == ServeActor \/ ServeWatcher \/ ServeNobody

News == OnShowerDone \/ OnBathEvent \/ OnBathDone

Tick == GateCrosses \/ \E reason \in Reasons \ {"Manual"} : BathTriggers(reason)

Next ==
    \/ Commands \/ HandlerSteps \/ Serve \/ News
    \/ ActorGivesUp \/ WatcherGivesUp
    \/ ShowerWatcherFires \/ BathExpires \/ Tick \/ WatcherReports
    \/ HeaterTimerElapses
    \/ Crash

\* Tasks run, the bus answers, sleeps and timers end; clients and faults do
\* not have to happen.
Fairness ==
    /\ WF_vars(HandlerSteps) /\ WF_vars(Serve)
    /\ WF_vars(OnShowerDone) /\ WF_vars(OnBathEvent) /\ WF_vars(OnBathDone)
    /\ WF_vars(ShowerWatcherFires) /\ WF_vars(HeaterTimerElapses)
    /\ WF_vars(BathExpires) /\ WF_vars(WatcherReports)
    /\ WF_vars(BathTriggers("TimerExpired"))

Spec == Init /\ [][Next]_vars /\ Fairness

-----------------------------------------------------------------------------
(* Properties *)

(***************************************************************************)
(* The file always holds the boost in memory, immersion flag included, so  *)
(* a crash at any moment of a boost leaves recovery the right record (the  *)
(* saves in handle_start_bath, StartShower and on_bath_event).             *)
(***************************************************************************)
NoSaveFailed == limits.saves = MaxSaveFaults

FileMirrorsState ==
    PersistPath /\ NoSaveFailed /\ state.preset # "none" => file = state

(***************************************************************************)
(* The user's immersion engage temp is never lost: while 61636 holds       *)
(* another value, the user's is written down in the handler that is        *)
(* starting or rolling back a Bath, in the running boost, or in the file   *)
(* that recovery reads.  Excused are a rollback whose own call fails (it   *)
(* goes on to the next step), a crash inside the start, and a crash in a   *)
(* run in which a save or a call fails (see LeftRecordIsKept).             *)
(***************************************************************************)
NoCrash    == limits.crashes = MaxCrashes
NoIoFailed == limits.io = MaxIoFaults

OnRecord ==
    \/ NoCrash /\ ~limits.skipped
    \/ PersistPath /\ ~limits.torn /\ NoSaveFailed /\ NoIoFailed

UserTempIsKnown ==
    OnRecord /\ heater.engage # userTemp =>
        \/ h.kind \in {"bathApply", "rollback"} /\ h.prior = userTemp
        \/ state.prior = userTemp
        \/ file.prior = userTemp

(***************************************************************************)
(* A boost holds what it took, and nobody else does.  A watcher task lives *)
(* exactly as long as the boost that spawned it: none is left to write     *)
(* 61591 or to release the lane for a boost that is over, and the two      *)
(* presets never run together.  Between handlers a Bath has the pump lane  *)
(* and Overcapacity, even after a stop sequence that failed half way.      *)
(***************************************************************************)
BoostHoldsItsOwn ==
    /\ bath.pc # "off" => state.preset = "Bath"
    /\ shower # "off" <=> state.preset = "Shower"
    /\ events # <<>> => bath.pc # "off"
    /\ state.preset = "Bath" /\ AtRest => override = "off" /\ sg = "Overcapacity"

(***************************************************************************)
(* With no boost and nothing left to recover the heater is as the user had *)
(* it: 61636 restored, SmartGrid Normal, the pump lane released (the stop  *)
(* sequence, the rollback and recovery, over all orders of commands, ticks *)
(* and crashes).  A Shower start whose timer write fails keeps the lane.   *)
(* With the Homey poller off (poll_interval_secs = 0) the lane has no      *)
(* receiver and no boost starts: the heater is untouched at every moment,  *)
(* because the lane is asked for first.                                    *)
(***************************************************************************)
NothingPending == AtRest /\ state.preset = "none" /\ file.preset = "none"

Untouched == [timer |-> "off", kw |-> "off", engage |-> userTemp]

IdleHeaterIsRestored ==
    /\ OnRecord /\ NothingPending =>
        /\ heater.engage = userTemp
        /\ sg = "Normal"
        /\ NoIoFailed => override # "off"
    /\ override = "closed" => state.preset = "none" /\ heater = Untouched /\ sg = "Normal"

(***************************************************************************)
(* dhw/actor.rs:377: 61591 = 0 is skipped when the immersion flag is down, *)
(* because then "the gate never wrote a non-zero value".  So when a stop   *)
(* is over and nothing is on the way the immersion heater is off.          *)
(***************************************************************************)
IdleImmersionIsOff == NothingPending /\ bus = <<>> => heater.kw = "off"

(***************************************************************************)
(* It does hold in an orderly run, where the flag that the stop reads is   *)
(* the last one the gate wrote, crashes included, when no write fails.     *)
(***************************************************************************)
OrderlyStopEndsImmersion ==
    limits.orderly /\ OnRecord /\ NoIoFailed => IdleImmersionIsOff

(***************************************************************************)
(* So the user gets the heater back, or it is written down what to give.   *)
(***************************************************************************)
HeaterIsGivenBack ==
    UserTempIsKnown /\ IdleHeaterIsRestored /\ OrderlyStopEndsImmersion

(***************************************************************************)
(* The DHW design (specs/2026-05-14-dhw-controls-design.md:166): 61636 is  *)
(* restored in every case, "we always undo".  So no step replaces a record *)
(* that holds the user's temp while 61636 still holds another one.         *)
(***************************************************************************)
LeftRecordIsKept ==
    [][file.prior = userTemp /\ heater'.engage # userTemp
         => file'.prior = userTemp]_vars

(***************************************************************************)
(* Every Bath ends by itself, whatever the price, the gate, the cancels    *)
(* and the crashes do, unless a call fails: on_bath_watcher_done returns   *)
(* with the boost active and the watcher gone when its stop fails.         *)
(***************************************************************************)
BathEnds == state.preset = "Bath" ~> state.preset = "none" \/ ~NoIoFailed

(***************************************************************************)
(* A record left by a dead process is worked off: recovery brings the      *)
(* actor to rest with an empty file, unless a call or a save fails.        *)
(***************************************************************************)
LeftBoostIsRecovered ==
    (file.preset # "none" /\ state.preset = "none")
        ~> NothingPending \/ ~NoIoFailed \/ ~NoSaveFailed
=============================================================================
