------------------------------ MODULE SmartGrid ------------------------------
(***************************************************************************)
(* The SmartGrid actor (smartgrid/actor.rs) and its GpioController         *)
(* (smartgrid/gpio.rs): one task that owns the K24/K25 lines, takes        *)
(* commands from a mailbox one at a time, and schedules the flip back to   *)
(* Normal on a timer task of its own.  A timer whose sleep is over posts   *)
(* ResumeFire to the same mailbox, behind whatever waits there already.    *)
(*                                                                         *)
(* The read-only commands (ReadMode, ModeChangedAt, ScheduledResumeAt)     *)
(* change nothing and are left out, and so is the timestamp of the last    *)
(* change, which only the dashboard reads.  A wall-clock instant is a      *)
(* member of Instants; how long a sleep lasts is not modelled.             *)
(***************************************************************************)
EXTENDS HomeyPump, Sequences, FiniteSets

CONSTANTS
    Instants,           \* instants a resume may be scheduled for
    NoInstant,          \* no resume (Rust's None)
    AskedModes,         \* bound: modes the clients ask for
    InitialModes,       \* Normal, or Blocking when CTC_POWERSAVE is set
    AutoResumeEnabled,  \* config: smartgrid.auto_resume_enabled
    HomeyEnabled,       \* config: homey.enabled
    MailboxCap,         \* mpsc capacity (32 in the source)
    MaxGeneration,      \* bound: SetMode commands in a run of the process
    MaxGpioFaults,      \* bound: line writes the kernel refuses
    MaxRestarts         \* bound: restarts of the process

Modes == {"Normal", "Blocking", "LowPrice", "Overcapacity"}

ASSUME SmartGridAssumption ==
    /\ NoInstant \notin Instants
    /\ AskedModes \subseteq Modes
    /\ InitialModes \subseteq Modes /\ InitialModes # {}
    /\ AutoResumeEnabled \in BOOLEAN /\ HomeyEnabled \in BOOLEAN
    /\ MailboxCap \in Nat \ {0}
    /\ MaxGeneration \in Nat /\ MaxGpioFaults \in Nat /\ MaxRestarts \in Nat

VARIABLES
    mode,        \* gpio.current_mode, the mode the K24/K25 lines show
    generation,  \* gpio.mode_generation
    slot,        \* scheduled_resume, slot.at = NoInstant for None
    timers,      \* timer tasks that have not posted yet
    mailbox,     \* the commands waiting for the actor
    alive,       \* the actor task is running
    last,        \* history: what the last processed SetMode was promised
    limits       \* what is left of the bounds on faults and restarts

sgVars == <<mode, generation, slot, timers, mailbox, alive, last, limits>>
vars   == <<sgVars, homeyVars>>

Moments == Instants \cup {NoInstant}
Resume  == [at : Instants, gen : Nat]
NoSlot  == [at |-> NoInstant, gen |-> 0]

Commands ==
    [cmd : {"SetMode"}, mode : Modes, schedule : BOOLEAN, at : Moments]
    \cup [cmd : {"CancelScheduledResume"}]
    \cup [cmd : {"ResumeFire"}, at : Instants, gen : Nat]

\* mode: in force when the last SetMode was answered; at: the resume it was
\* promised; held: the mode in force when a later cancel was acknowledged;
\* failed: its resume met a GPIO error.
NoPromise(m) == [mode |-> m, at |-> NoInstant, held |-> "none", failed |-> FALSE]

TypeOK ==
    /\ mode \in Modes
    /\ generation \in Nat
    /\ slot \in [at : Moments, gen : Nat]
    /\ timers \subseteq Resume
    /\ mailbox \in Seq(Commands)
    /\ alive \in BOOLEAN
    /\ last \in [mode : Modes, at : Moments, held : Modes \cup {"none"},
                 failed : BOOLEAN]
    /\ limits \in [gpio : 0..MaxGpioFaults, restarts : 0..MaxRestarts]

PumpOnFor(m) == IF m = "Blocking" THEN "off" ELSE "on"

PushPump(m) ==
    IF HomeyEnabled THEN PushPumpToHomey(PumpOnFor(m)) ELSE UNCHANGED homeyVars

Init ==
    /\ mode \in InitialModes
    /\ generation = 0
    /\ slot = NoSlot
    /\ timers = {}
    /\ mailbox = <<>>
    /\ alive = TRUE
    /\ last = NoPromise(mode)
    /\ limits = [gpio |-> MaxGpioFaults, restarts |-> MaxRestarts]
    /\ HomeyInit(PumpOnFor(mode), HomeyEnabled)

-----------------------------------------------------------------------------
(* Clients: the HTTP routes and the DHW actor. *)

Room == alive /\ Len(mailbox) < MailboxCap

PendingSets == {i \in 1..Len(mailbox) : mailbox[i].cmd = "SetMode"}

RequestMode(m, schedule, at) ==
    /\ Room
    /\ generation + Cardinality(PendingSets) < MaxGeneration
    /\ mailbox' = Append(mailbox, [cmd |-> "SetMode", mode |-> m,
                                   schedule |-> schedule, at |-> at])
    /\ UNCHANGED <<mode, generation, slot, timers, alive, last, limits, homeyVars>>

RequestCancel ==
    /\ Room
    /\ mailbox' = Append(mailbox, [cmd |-> "CancelScheduledResume"])
    /\ UNCHANGED <<mode, generation, slot, timers, alive, last, limits, homeyVars>>

-----------------------------------------------------------------------------
(* The timer task: the sleep ends, the fire waits for room in the mailbox. *)

TimerPosts(t) ==
    /\ t \in timers
    /\ Room
    /\ timers' = timers \ {t}
    /\ mailbox' = Append(mailbox, [cmd |-> "ResumeFire", at |-> t.at, gen |-> t.gen])
    /\ UNCHANGED <<mode, generation, slot, alive, last, limits, homeyVars>>

-----------------------------------------------------------------------------
(* The actor: one command at a time. *)

Takes(cmd) == alive /\ mailbox # <<>> /\ Head(mailbox).cmd = cmd

GpioFails ==
    /\ limits.gpio > 0
    /\ limits' = [limits EXCEPT !.gpio = @ - 1]

\* An aborted timer that has not posted never will.
AbortSchedule == timers \ {slot}

\* resolve_fires_at: a picked instant wins over the computed one, which may be
\* any instant or none at all, as the prices have it.
ResumeChoices(c) ==
    IF c.mode = "Normal" \/ ~c.schedule \/ ~AutoResumeEnabled THEN {NoInstant}
    ELSE IF c.at # NoInstant THEN {c.at}
    ELSE Moments

\* Slip: no resume target still schedules.
SchedulesAnyway(at) == TRUE

IsScheduled(at) == at # NoInstant
NextGeneration  == generation + 1

\* do_set_mode: the generation moves first, then the old schedule goes, and
\* only then is the line written; if the write fails the schedule stays gone.
HandleSetMode ==
    /\ Takes("SetMode")
    /\ mailbox' = Tail(mailbox)
    /\ generation' = NextGeneration
    /\ UNCHANGED alive
    /\ \/ /\ GpioFails
          /\ slot' = NoSlot
          /\ timers' = AbortSchedule
          /\ last' = NoPromise(mode)
          /\ UNCHANGED <<mode, homeyVars>>
       \/ \E at \in ResumeChoices(Head(mailbox)) :
          /\ mode' = Head(mailbox).mode
          /\ PushPump(mode')
          /\ IF IsScheduled(at)
             THEN /\ slot' = [at |-> at, gen |-> generation']
                  /\ timers' = AbortSchedule \cup {slot'}
             ELSE slot' = NoSlot /\ timers' = AbortSchedule
          /\ last' = [NoPromise(mode') EXCEPT !.at = at]
          /\ UNCHANGED limits

HandleCancel ==
    /\ Takes("CancelScheduledResume")
    /\ mailbox' = Tail(mailbox)
    /\ slot' = NoSlot
    /\ timers' = AbortSchedule
    /\ last' = [last EXCEPT !.held = mode]
    /\ UNCHANGED <<mode, generation, alive, limits, homeyVars>>

\* Slips: stale fires are taken; every fire is dropped; the slot is not cleared.
NeverSuperseded(c)  == FALSE
AlwaysSuperseded(c) == TRUE
SlotKept(c)         == slot

\* set_mode_if_not_superseded: a fire of an older generation is dropped.
Superseded(c) == c.gen # generation

SlotAfterFire(c) == IF slot.at = c.at THEN NoSlot ELSE slot

HandleStaleFire ==
    /\ Takes("ResumeFire")
    /\ Superseded(Head(mailbox))
    /\ mailbox' = Tail(mailbox)
    /\ UNCHANGED <<mode, generation, slot, timers, alive, last, limits, homeyVars>>

HandleResumeFire ==
    /\ Takes("ResumeFire")
    /\ ~Superseded(Head(mailbox))
    /\ mailbox' = Tail(mailbox)
    /\ \/ /\ mode' = "Normal"
          /\ slot' = SlotAfterFire(Head(mailbox))
          /\ PushPump("Normal")
          /\ UNCHANGED <<last, limits>>
       \/ /\ GpioFails   \* logged, not retried, and the slot keeps its instant
          /\ last' = [last EXCEPT !.failed = TRUE]
          /\ UNCHANGED <<mode, slot, homeyVars>>
    /\ UNCHANGED <<generation, timers, alive>>

\* The token is cancelled: the loop breaks, waiting commands are dropped.
Shutdown ==
    /\ alive
    /\ alive' = FALSE
    /\ mailbox' = <<>>
    /\ slot' = NoSlot
    /\ timers' = AbortSchedule
    /\ UNCHANGED <<mode, generation, last, limits, homeyVars>>

\* spawn in a new process, after a shutdown or a crash.
Restart ==
    /\ limits.restarts > 0
    /\ limits' = [limits EXCEPT !.restarts = @ - 1]
    /\ mode' \in InitialModes
    /\ generation' = 0
    /\ slot' = NoSlot
    /\ timers' = {}
    /\ mailbox' = <<>>
    /\ alive' = TRUE
    /\ last' = NoPromise(mode')
    /\ HomeyRestart(PumpOnFor(mode'), HomeyEnabled)

\* The poller stops with the actor: the same token ends its loop.
Poll == HomeyEnabled /\ alive /\ PollerTick /\ UNCHANGED sgVars

\* A boost of the DHW actor takes the override lane or gives it back.
Boost ==
    /\ HomeyEnabled /\ alive
    /\ \E v \in {"off", "none"} : DhwOverrides(v)
    /\ UNCHANGED sgVars

Actor == HandleSetMode \/ HandleCancel \/ HandleStaleFire \/ HandleResumeFire

Next ==
    \/ \E m \in AskedModes, schedule \in BOOLEAN, at \in Moments :
          RequestMode(m, schedule, at)
    \/ RequestCancel
    \/ \E t \in timers : TimerPosts(t)
    \/ Actor
    \/ Shutdown
    \/ Restart
    \/ Poll
    \/ Boost
    \/ HomeyEnabled /\ HomeyStep /\ UNCHANGED sgVars

\* The actor serves its mailbox and a sleep ends; clients and faults are free.
Fairness ==
    /\ WF_vars(Actor)
    /\ WF_vars(\E t \in timers : TimerPosts(t))

Spec == Init /\ [][Next]_vars /\ Fairness

\* With Homey in play the poller's interval keeps ticking and calls end.
PumpSpec == Spec /\ WF_vars(Poll) /\ HomeyFairness

-----------------------------------------------------------------------------
(* Properties *)

Fires == {i \in 1..Len(mailbox) : mailbox[i].cmd = "ResumeFire"}

Carries(r, i) == mailbox[i].at = r.at /\ mailbox[i].gen = r.gen

(***************************************************************************)
(* The schedule the dashboard shows (ScheduledResumeAt) is never an empty  *)
(* promise: it belongs to the mode in force, and its fire is still on the  *)
(* way, as a sleeping timer or as a queued message, unless that fire met a *)
(* GPIO error (on_resume_fire only logs it).                               *)
(***************************************************************************)
ShownResumeIsComing ==
    slot.at # NoInstant =>
        /\ mode = last.mode /\ last.at = slot.at
        /\ \/ slot \in timers
           \/ \E i \in Fires : Carries(slot, i)
           \/ last.failed

(***************************************************************************)
(* A mode the last SetMode put in force stays until the next one, except   *)
(* for the flip to Normal that very SetMode was promised: no timer of an   *)
(* earlier schedule, sleeping, posted or queued behind the SetMode, undoes *)
(* it (the generation check and the abort in do_set_mode).                 *)
(***************************************************************************)
UserModeStands ==
    mode = last.mode \/ (mode = "Normal" /\ last.at # NoInstant)

(***************************************************************************)
(* routes/smartgrid.rs: "Cancel any pending auto-resume without changing   *)
(* the current SmartGrid mode".  Once a cancel is acknowledged, the mode   *)
(* it found stays until the next SetMode.                                  *)
(***************************************************************************)
CancelledResumeStands == last.held # "none" => mode = last.held

(***************************************************************************)
(* A resume that was promised comes, unless a SetMode supersedes it, a     *)
(* cancel drops it, its write meets a GPIO error or the process stops.     *)
(***************************************************************************)
ResumePromised == slot.at # NoInstant

PromisedResumeComes ==
    ResumePromised ~> (mode = "Normal" \/ ~ResumePromised \/ last.failed)

(***************************************************************************)
(* Once modes, overrides, the user and Homey are quiet, the plug follows   *)
(* the boost lane or else the SmartGrid mode, whatever pushes and          *)
(* reconciling PUTs crossed on the way, and the cache tells the truth.     *)
(***************************************************************************)
PumpWanted == IF override = "none" THEN PumpOnFor(mode) ELSE override

PlugSettles ==
    <>[](alive => pump = PumpWanted /\ cache = [actual |-> pump, stale |-> FALSE])
=============================================================================
