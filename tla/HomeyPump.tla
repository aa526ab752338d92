------------------------------ MODULE HomeyPump ------------------------------
(***************************************************************************)
(* The Homey circulation pump (homey/, and the push half of                *)
(* smartgrid/actor.rs).  Three parties write the plug over HTTP: the eager *)
(* push the SmartGrid actor spawns after each mode write, the              *)
(* reconciliation poller, and the user in the Homey app.  A request and    *)
(* its reply travel separately, so requests land, and replies return, in   *)
(* any order; a client that times out (5 s) does not know whether its      *)
(* request landed or will land later.                                      *)
(*                                                                         *)
(* The module has no specification of its own: SmartGrid composes it.      *)
(***************************************************************************)
EXTENDS Naturals

CONSTANTS
    PushSlots,      \* bound: fire-and-forget pushes that may be in flight at once
    MaxHttpFaults,  \* bound: HTTP calls to Homey that fail or time out
    MaxToggles,     \* bound: times the user flips the plug in the Homey app
    MaxOverrides    \* bound: times the DHW actor rewrites the boost lane

ASSUME HomeyBoundsAssumption ==
    MaxHttpFaults \in Nat /\ MaxToggles \in Nat /\ MaxOverrides \in Nat

VARIABLES
    desired,    \* watch channel: the pump state the SmartGrid mode asks for
    override,   \* watch channel: the boost lane, "none" when no boost masks SG
    pump,       \* the plug itself
    cache,      \* HomeyPumpCache: what the dashboard shows, and its stale flag
    push,       \* the spawned push tasks, one record for each slot
    poller,     \* the reconciliation loop: where its tick is, and what it read
    late,       \* targets of PUTs the client gave up on that may still land
    budget      \* what is left of the three bounds

homeyVars == <<desired, override, pump, cache, push, poller, late, budget>>

OnOff == {"on", "off"}

IdlePush   == [pc |-> "idle", target |-> "on"]
IdlePoller == [pc |-> "idle", target |-> "on", seen |-> "on"]

-----------------------------------------------------------------------------
(* The target rule shared by the eager push and the poller. *)

\* Slip: the lane is ignored.
LaneIgnored(boost, sg) == sg

ResolvePumpTarget(boost, sg) == IF boost = "none" THEN sg ELSE boost

Target == ResolvePumpTarget(override, desired)

WriteFresh(v) == cache' = [actual |-> v, stale |-> FALSE]
MarkStale     == cache' = [cache EXCEPT !.stale = TRUE]

SpendFault ==
    /\ budget.faults > 0
    /\ budget' = [budget EXCEPT !.faults = @ - 1]

-----------------------------------------------------------------------------
(* The eager push of the SmartGrid actor. *)

\* Publish the intent at once and spawn a task that PUTs the resolved target.
PushPumpToHomey(on) ==
    /\ desired' = on
    /\ \E s \in PushSlots :
          /\ push[s].pc = "idle"
          /\ push' = [push EXCEPT ![s] =
                         [pc |-> "put", target |-> ResolvePumpTarget(override, on)]]
    /\ UNCHANGED <<override, pump, cache, poller, late, budget>>

HomeyAppliesPush(s) ==
    /\ push[s].pc = "put"
    /\ pump' = push[s].target
    /\ push' = [push EXCEPT ![s].pc = "acked"]
    /\ UNCHANGED <<desired, override, cache, poller, late, budget>>

PushSucceeds(s) ==
    /\ push[s].pc = "acked"
    /\ push' = [push EXCEPT ![s] = IdlePush]
    /\ WriteFresh(push[s].target)
    /\ UNCHANGED <<desired, override, pump, poller, late, budget>>

\* Refused, timed out with the request still travelling, or the reply was lost.
PushFails(s) ==
    /\ push[s].pc \in {"put", "acked"}
    /\ SpendFault
    /\ push' = [push EXCEPT ![s] = IdlePush]
    /\ late' \in IF push[s].pc = "put" THEN {late, late \cup {push[s].target}}
                                       ELSE {late}
    /\ MarkStale
    /\ UNCHANGED <<desired, override, pump, poller>>

-----------------------------------------------------------------------------
(* The reconciliation poller.  Its loop wakes on the interval or on a      *)
(* change of either watch channel; here a tick may start whenever the loop *)
(* waits, which covers the three arms.                                     *)

PollerTick ==
    /\ poller.pc = "idle"
    /\ poller' = [IdlePoller EXCEPT !.pc = "get", !.target = Target]
    /\ UNCHANGED <<desired, override, pump, cache, push, late, budget>>

HomeyAnswersGet ==
    /\ poller.pc = "get"
    /\ poller' = [poller EXCEPT !.pc = "got", !.seen = pump]
    /\ UNCHANGED <<desired, override, pump, cache, push, late, budget>>

PollerReads ==
    /\ poller.pc = "got"
    /\ WriteFresh(poller.seen)
    /\ poller' = IF poller.seen # poller.target
                 THEN [poller EXCEPT !.pc = "put"]
                 ELSE IdlePoller
    /\ UNCHANGED <<desired, override, pump, push, late, budget>>

HomeyAppliesReconcile ==
    /\ poller.pc = "put"
    /\ pump' = poller.target
    /\ poller' = [poller EXCEPT !.pc = "acked"]
    /\ UNCHANGED <<desired, override, cache, push, late, budget>>

PollerReconciled ==
    /\ poller.pc = "acked"
    /\ WriteFresh(poller.target)
    /\ poller' = IdlePoller
    /\ UNCHANGED <<desired, override, pump, push, late, budget>>

\* A failed GET marks the cache stale; a failed PUT is only logged.
PollerFails ==
    /\ poller.pc # "idle"
    /\ SpendFault
    /\ IF poller.pc \in {"get", "got"} THEN MarkStale ELSE UNCHANGED cache
    /\ late' \in IF poller.pc = "put" THEN {late, late \cup {poller.target}}
                                      ELSE {late}
    /\ poller' = IdlePoller
    /\ UNCHANGED <<desired, override, pump, push>>

-----------------------------------------------------------------------------
(* The environment of the integration. *)

LateRequestLands(v) ==
    /\ v \in late
    /\ pump' = v
    /\ late' = late \ {v}
    /\ UNCHANGED <<desired, override, cache, push, poller, budget>>

UserToggles ==
    /\ budget.toggles > 0
    /\ budget' = [budget EXCEPT !.toggles = @ - 1]
    /\ pump' = IF pump = "on" THEN "off" ELSE "on"
    /\ UNCHANGED <<desired, override, cache, push, poller, late>>

\* The DHW actor forces the pump off for a boost, or hands it back to SG.
DhwOverrides(v) ==
    /\ budget.overrides > 0
    /\ budget' = [budget EXCEPT !.overrides = @ - 1]
    /\ override' = v
    /\ UNCHANGED <<desired, pump, cache, push, poller, late>>

\* Main creates both channels empty and the actor's spawn pushes the first mode.
HomeyInit(on, enabled) ==
    /\ desired = on
    /\ override = "none"
    /\ pump \in OnOff
    /\ cache = [actual |-> "none", stale |-> FALSE]
    /\ push \in [PushSlots -> {IdlePush, [pc |-> "put", target |-> on]}]
    /\ \E first \in PushSlots : \A s \in PushSlots :
          push[s].pc = "put" <=> (enabled /\ s = first)
    /\ poller = IdlePoller
    /\ late = {}
    /\ budget = [faults |-> MaxHttpFaults, toggles |-> MaxToggles,
                 overrides |-> MaxOverrides]

\* The process dies: its channels and tasks go, its unanswered PUTs may land.
HomeyRestart(on, enabled) ==
    /\ desired' = on
    /\ override' = "none"
    /\ cache' = [actual |-> "none", stale |-> FALSE]
    /\ push' \in [PushSlots -> {IdlePush, [pc |-> "put", target |-> on]}]
    /\ \E first \in PushSlots : \A s \in PushSlots :
          push'[s].pc = "put" <=> (enabled /\ s = first)
    /\ poller' = IdlePoller
    /\ late' \in {late \cup v : v \in SUBSET (
                    {push[s].target : s \in {r \in PushSlots : push[r].pc = "put"}}
                    \cup {poller.target : p \in {"put"} \cap {poller.pc}})}
    /\ UNCHANGED <<pump, budget>>

\* What happens whether or not the process is shutting down: requests on the
\* way land and are answered, and a tick that has started is finished.
HomeyStep ==
    \/ \E s \in PushSlots : HomeyAppliesPush(s) \/ PushSucceeds(s) \/ PushFails(s)
    \/ HomeyAnswersGet \/ PollerReads
    \/ HomeyAppliesReconcile \/ PollerReconciled \/ PollerFails
    \/ \E v \in OnOff : LateRequestLands(v)
    \/ UserToggles

\* An HTTP call always ends, at the latest when the client times out.
HomeyFairness ==
    /\ \A s \in PushSlots :
          WF_homeyVars(HomeyAppliesPush(s) \/ PushSucceeds(s) \/ PushFails(s))
    /\ WF_homeyVars(HomeyAnswersGet \/ PollerReads
                      \/ HomeyAppliesReconcile \/ PollerReconciled \/ PollerFails)
=============================================================================
