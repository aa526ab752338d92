--------------------------- MODULE DhwBoostProofs ---------------------------
(***************************************************************************)
(* Theorems about DhwBoost for every setting of its constants.             *)
(*                                                                         *)
(* The type invariant, which says of every handler that its steps are      *)
(* writes the heater knows; that the persisted file mirrors the boost in   *)
(* memory; that a boost holds its own; and that the heater is given back.  *)
(* The last two rest on an inductive invariant built in layers, each step  *)
(* lemma using the layers before it:                                       *)
(*   ShapeInv   a handler's list is the end of the list it began with,     *)
(*              and which handlers and watchers go with which boost;       *)
(*   BusInv     who has a request on the bus, and which;                   *)
(*   LaneInv    the pump lane and the SmartGrid mode, by the steps left;   *)
(*   ClosedInv  a lane without receiver: nothing is touched;               *)
(*   RecordInv  while nothing fails, no boost means an empty file;         *)
(*   TempInv    where the user's engage temp is, by the steps left;        *)
(*   KwInv      the immersion heater and the flags that follow it.         *)
(***************************************************************************)
EXTENDS DhwBoost, SequenceTheorems, TLAPS

USE DhwAssumption

\* Taking the head of a sequence leaves a sequence.
LEMMA HeadTail ==
    ASSUME NEW S, NEW s \in Seq(S), s # <<>>
    PROVE  Head(s) \in S /\ Tail(s) \in Seq(S)
  OBVIOUS

\* A step kept or left out is a short list of steps.
LEMMA OptionalTyped ==
    ASSUME NEW cond \in BOOLEAN, NEW step \in Steps
    PROVE  Optional(cond, step) \in Seq(Steps)
  BY DEF Optional

\* The steps the handlers are made of.
LEMMA StepKinds ==
    /\ \A v \in {"on", "off"} : Step("timer", v) \in Steps /\ Step("kw", v) \in Steps
    /\ \A t \in Temps : Step("engage", t) \in Steps
    /\ Step("read", "none") \in Steps
    /\ \A m \in {"Normal", "Overcapacity"} : Step("sg", m) \in Steps
    /\ \A v \in {"off", "none"} : Step("override", v) \in Steps
  BY DEF Step, Steps

\* Lists of steps may be strung together.
LEMMA ConcatTyped ==
    ASSUME NEW S, NEW s \in Seq(S), NEW t \in Seq(S)
    PROVE  s \o t \in Seq(S)
  OBVIOUS

LEMMA ShowerTyped == ShowerSteps \in Seq(Steps)
  BY StepKinds DEF ShowerSteps

LEMMA ApplyTyped ==
    ASSUME NEW prior \in Temps, NEW low \in BOOLEAN
    PROVE  ApplySteps(prior, low) \in Seq(Steps)
<1> DEFINE a == <<Step("override", "off"), Step("sg", "Overcapacity")>>
           b == Optional(prior # "boost", Step("engage", "boost"))
           c == <<Step("timer", "on")>>
           d == Optional(low, Step("kw", "on"))
<1>1. a \in Seq(Steps) /\ c \in Seq(Steps)
  BY StepKinds
<1>2. b \in Seq(Steps) /\ d \in Seq(Steps)
  BY StepKinds, OptionalTyped DEF Temps
<1>3. ApplySteps(prior, low) = a \o b \o c \o d
  BY DEF ApplySteps
<1> HIDE DEF a, b, c, d
<1> QED
  BY <1>1, <1>2, <1>3, ConcatTyped

LEMMA RollbackTyped ==
    ASSUME NEW prior \in Temps PROVE RollbackSteps(prior) \in Seq(Steps)
<1>1. /\ Step("timer", "off") \in Steps /\ Step("kw", "off") \in Steps
      /\ Step("engage", prior) \in Steps /\ Step("sg", "Normal") \in Steps
      /\ Step("override", "none") \in Steps
  BY StepKinds
<1> QED
  BY <1>1 DEF RollbackSteps

\* What recovery and the stop sequence share: the restore and the two releases.
LEMMA RestoreTyped ==
    ASSUME NEW boost \in Boosts
    PROVE  /\ Optional(boost.prior # "none", Step("engage", boost.prior)) \in Seq(Steps)
           /\ <<Step("sg", "Normal"), Step("override", "none")>> \in Seq(Steps)
<1>1. <<Step("sg", "Normal"), Step("override", "none")>> \in Seq(Steps)
  BY StepKinds
<1>2. CASE boost.prior = "none"
  BY <1>1, <1>2 DEF Optional
<1>3. CASE boost.prior # "none"
  <2>1. Step("engage", boost.prior) \in Steps
    BY <1>3, StepKinds DEF Boosts
  <2>2. Optional(boost.prior # "none", Step("engage", boost.prior))
          = <<Step("engage", boost.prior)>>
    BY <1>3 DEF Optional
  <2>3. <<Step("engage", boost.prior)>> \in Seq(Steps)
    BY <2>1
  <2> QED
    BY <1>1, <2>2, <2>3
<1> QED
  BY <1>2, <1>3

LEMMA RecoveryTyped ==
    ASSUME NEW boost \in Boosts PROVE RecoverySteps(boost) \in Seq(Steps)
<1> DEFINE a == <<Step("timer", "off"), Step("kw", "off")>>
           b == Optional(boost.prior # "none", Step("engage", boost.prior))
           c == <<Step("sg", "Normal"), Step("override", "none")>>
<1>1. a \in Seq(Steps) /\ b \in Seq(Steps) /\ c \in Seq(Steps)
  BY StepKinds, RestoreTyped
<1>2. RecoverySteps(boost) = a \o b \o c
  BY DEF RecoverySteps
<1> HIDE DEF a, b, c
<1> QED
  BY <1>1, <1>2, ConcatTyped

LEMMA StopTyped ==
    ASSUME NEW boost \in Boosts, NEW reason \in Reasons
    PROVE  StopSteps(boost, reason) \in Seq(Steps)
<1> DEFINE a == Optional(reason # "TimerExpired", Step("timer", "off"))
           b == Optional(boost.engaged, Step("kw", "off"))
           c == Optional(boost.prior # "none", Step("engage", boost.prior))
           d == <<Step("sg", "Normal"), Step("override", "none")>>
<1>1. boost.engaged \in BOOLEAN
  BY DEF Boosts
<1>2. /\ a \in Seq(Steps) /\ b \in Seq(Steps)
      /\ c \in Seq(Steps) /\ d \in Seq(Steps)
  BY <1>1, StepKinds, OptionalTyped, RestoreTyped
<1>3. StopSteps(boost, reason) = a \o b \o c \o d
  BY DEF StopSteps
<1> HIDE DEF a, b, c, d
<1> QED
  BY <1>2, <1>3, ConcatTyped

\* A handler starts with its steps and nothing else.
LEMMA StartsTyped ==
    ASSUME NEW kind \in Kinds, NEW steps \in Seq(Steps)
    PROVE  /\ Starts(kind, steps) \in Handlers
           /\ Starts(kind, steps).kind = kind /\ Starts(kind, steps).steps = steps
           /\ ~Starts(kind, steps).waiting
  BY DEF Starts, Idle, Handlers

LEMMA ShowerStarts ==
    /\ Starts("shower", ShowerSteps) \in Handlers
    /\ Starts("shower", ShowerSteps).kind = "shower"
    /\ ~Starts("shower", ShowerSteps).waiting
<1>1. "shower" \in Kinds
  BY DEF Kinds
<1> QED
  BY <1>1, StartsTyped, ShowerTyped

LEMMA IdleTyped ==
    /\ Idle \in Handlers /\ Idle.kind = "none" /\ ~Idle.waiting
    /\ NoWatcher \in BathWatchers /\ NoBoost \in Boosts
  BY DEF Idle, Handlers, Kinds, NoWatcher, BathWatchers, NoBoost, Boosts, Reasons

-----------------------------------------------------------------------------
\* After a step that worked the handler is typed again.
LEMMA SuccessTyped ==
    ASSUME TypeOK, h.steps # <<>>, NEW x \in AfterSuccess
    PROVE  x \in Handlers
<1>1. h \in Handlers /\ heater.engage \in Temps /\ Tail(h.steps) \in Seq(Steps)
  BY HeadTail DEF TypeOK, Handlers, Registers
<1>2. CASE h.kind = "showerRead"
  <2>1. x = Idle \/ x = Starts("shower", ShowerSteps)
    BY <1>2 DEF AfterSuccess
  <2> QED
    BY <2>1, IdleTyped, ShowerStarts
<1>3. CASE h.kind = "bathRead"
  <2> DEFINE a == Starts("bathApply", ApplySteps(heater.engage, h.low))
  <2>1. a \in Handlers
    <3>1. "bathApply" \in Kinds /\ h.low \in BOOLEAN
      BY <1>1 DEF Kinds, Handlers
    <3> QED
      BY <1>1, <3>1, StartsTyped, ApplyTyped
  <2>2. x = [a EXCEPT !.prior = heater.engage, !.low = h.low]
    BY <1>3 DEF AfterSuccess
  <2> HIDE DEF a
  <2> QED
    BY <1>1, <2>1, <2>2 DEF Handlers
<1>4. CASE h.kind \notin {"showerRead", "bathRead"}
  <2>1. x = [h EXCEPT !.steps = Tail(@), !.waiting = FALSE]
    BY <1>4 DEF AfterSuccess
  <2> QED
    BY <1>1, <2>1 DEF Handlers
<1> QED
  BY <1>2, <1>3, <1>4

\* And after a step that failed; a rollback needs the temp that was read.
LEMMA ErrorTyped ==
    ASSUME TypeOK, h.steps # <<>>, h.kind = "bathApply" => h.prior \in Temps
    PROVE  AfterError \in Handlers
<1>1. h \in Handlers /\ Tail(h.steps) \in Seq(Steps)
  BY HeadTail DEF TypeOK, Handlers
<1>2. CASE h.kind = "bathApply"
  <2> DEFINE a == Starts("rollback", RollbackSteps(h.prior))
  <2>1. a \in Handlers
    BY <1>2, StartsTyped, RollbackTyped DEF Kinds
  <2>2. AfterError = [a EXCEPT !.prior = h.prior]
    BY <1>2 DEF AfterError
  <2> HIDE DEF a
  <2> QED
    BY <1>1, <2>1, <2>2 DEF Handlers
<1>3. CASE h.kind = "rollback"
  <2>1. AfterError = [h EXCEPT !.steps = Tail(@), !.waiting = FALSE]
    BY <1>3 DEF AfterError
  <2> QED
    BY <1>1, <2>1 DEF Handlers
<1>4. CASE h.kind \notin {"bathApply", "rollback"}
  BY <1>4, IdleTyped DEF AfterError
<1> QED
  BY <1>2, <1>3, <1>4

\* The value of a step fits its register.
LEMMA StepValues ==
    ASSUME NEW step \in Steps
    PROVE  /\ step.reg \in {"timer", "kw"} => step.val \in {"on", "off"}
           /\ step.reg = "engage" => step.val \in Temps
           /\ step.reg = "sg" => step.val \in {"Normal", "Overcapacity"}
           /\ step.reg = "override" => step.val \in {"off", "none"}
  BY DEF Steps

\* A step that lands leaves the registers typed.
LEMMA LandTyped ==
    ASSUME TypeOK, bus # <<>>, Land \/ UNCHANGED heater
    PROVE  heater' \in Registers
<1>1. Head(bus).step \in Steps
  <2>1. bus \in Seq(Requests)
    BY DEF TypeOK
  <2>2. Head(bus) \in Requests
    BY <2>1, HeadTail
  <2> QED
    BY <2>2 DEF Requests
<1>2. heater \in Registers
  BY DEF TypeOK
<1> QED
  BY <1>1, <1>2, StepValues DEF Land, Registers

\* Disowned requests are requests.
LEMMA DisownTyped ==
    ASSUME bus \in Seq(Requests), NEW who, Disown(who) PROVE bus' \in Seq(Requests)
<1> DEFINE r(i) == IF bus[i].who = who THEN [bus[i] EXCEPT !.who = "nobody"] ELSE bus[i]
<1>1. bus' = [i \in DOMAIN bus |-> r(i)] /\ DOMAIN bus = 1..Len(bus) /\ Len(bus) \in Nat
  BY DEF Disown
<1>2. ASSUME NEW i \in 1..Len(bus) PROVE r(i) \in Requests
  <2>1. bus[i] \in Requests
    OBVIOUS
  <2>2. [bus[i] EXCEPT !.who = "nobody"] \in Requests
    BY <2>1 DEF Requests
  <2> QED
    BY <2>1, <2>2
<1> HIDE DEF r
<1>3. [i \in 1..Len(bus) |-> r(i)] \in [1..Len(bus) -> Requests]
  BY <1>2
<1> QED
  BY <1>1, <1>3, SeqDef

\* The bounds stay in their ranges.
LEMMA LimitsTyped ==
    ASSUME limits \in Limits
    PROVE  /\ IoFails => limits' \in Limits
           /\ StepFails => limits' \in Limits
           /\ SaveFails => limits' \in Limits
<1> DEFINE skips == limits.skipped \/ h.kind = "rollback"
           spent == [limits EXCEPT !.io = @ - 1]
<1>1. limits.io > 0 => spent \in Limits
  BY DEF Limits
<1>2. SaveFails => limits' \in Limits
  BY DEF Limits, SaveFails
<1>3. StepFails => limits' = [spent EXCEPT !.skipped = skips]
  BY DEF StepFails
<1>4. skips \in BOOLEAN
  OBVIOUS
<1> HIDE DEF skips, spent
<1>5. spent \in Limits => [spent EXCEPT !.skipped = skips] \in Limits
  BY <1>4 DEF Limits
<1> QED
  BY <1>1, <1>2, <1>3, <1>5 DEF IoFails, StepFails, spent

LEMMA SaveTyped ==
    ASSUME limits \in Limits, file \in Boosts, NEW boost \in Boosts, Save(boost)
    PROVE  limits' \in Limits /\ file' \in Boosts
  BY LimitsTyped DEF Save

\* A handler that may have to roll back knows the temp it read, and one that
\* waits for a reply has a step in hand.
PriorRead ==
    /\ h.kind \in {"bathApply", "rollback"} => h.prior \in Temps
    /\ h.waiting => h.steps # <<>>

DhwInv == TypeOK /\ PriorRead

LEMMA InitTyped == Init => DhwInv
<1> SUFFICES ASSUME Init PROVE DhwInv
  OBVIOUS
<1>1. /\ h \in Handlers /\ bath \in BathWatchers /\ file \in Boosts /\ state \in Boosts
      /\ h.kind = "none" /\ ~h.waiting
  BY IdleTyped DEF Init
<1>2. heater \in Registers /\ limits \in Limits /\ userTemp \in Temps
  BY DEF Init, Registers, Limits
<1>3. /\ sg \in {"Normal", "Overcapacity"} /\ override \in {"off", "none", "closed"}
      /\ shower \in {"off", "sleeping", "done"}
      /\ events \in Seq(BOOLEAN) /\ bus \in Seq(Requests)
  BY DEF Init
<1> QED
  BY <1>1, <1>2, <1>3 DEF DhwInv, TypeOK, PriorRead

\* A handler that moves on, or gives up, is typed and keeps its temp.
LEMMA MovesOn ==
    ASSUME TypeOK, PriorRead, h.steps # <<>>, h' \in AfterSuccess \/ h' = AfterError
    PROVE  h' \in Handlers /\ PriorRead'
<1>1. h' \in Handlers
  BY SuccessTyped, ErrorTyped DEF PriorRead
<1>2. h \in Handlers /\ heater.engage \in Temps
  BY DEF TypeOK, Registers
<1>3. CASE h' \in AfterSuccess
  <2>1. CASE h.kind = "showerRead"
    <3>1. h' = Idle \/ h' = Starts("shower", ShowerSteps)
      BY <1>3, <2>1 DEF AfterSuccess
    <3>2. h'.kind \in {"none", "shower"} /\ ~h'.waiting
      BY <3>1, IdleTyped, ShowerStarts
    <3> QED
      BY <1>1, <3>2 DEF PriorRead
  <2>2. CASE h.kind = "bathRead"
    <3> DEFINE a == Starts("bathApply", ApplySteps(heater.engage, h.low))
    <3>1. a \in Handlers /\ ~a.waiting
      BY <1>2, <2>2, StartsTyped, ApplyTyped DEF Kinds, Handlers
    <3>2. h' = [a EXCEPT !.prior = heater.engage, !.low = h.low]
      BY <1>3, <2>2 DEF AfterSuccess
    <3> HIDE DEF a
    <3> QED
      BY <1>1, <1>2, <3>1, <3>2 DEF PriorRead, Handlers
  <2>3. CASE h.kind \notin {"showerRead", "bathRead"}
    <3>1. h' = [h EXCEPT !.steps = Tail(@), !.waiting = FALSE]
      BY <1>3, <2>3 DEF AfterSuccess
    <3> QED
      BY <1>1, <1>2, <3>1 DEF PriorRead, Handlers
  <2> QED
    BY <2>1, <2>2, <2>3
<1>4. CASE h' = AfterError
  <2>1. CASE h.kind = "bathApply"
    <3> DEFINE a == Starts("rollback", RollbackSteps(h.prior))
    <3>1. a \in Handlers /\ ~a.waiting
      BY <2>1, StartsTyped, RollbackTyped DEF PriorRead, Kinds
    <3>2. h' = [a EXCEPT !.prior = h.prior]
      BY <1>4, <2>1 DEF AfterError
    <3> HIDE DEF a
    <3> QED
      BY <1>1, <2>1, <3>1, <3>2 DEF PriorRead, Handlers
  <2>2. CASE h.kind = "rollback"
    <3>1. h' = [h EXCEPT !.steps = Tail(@), !.waiting = FALSE]
      BY <1>4, <2>2 DEF AfterError
    <3> QED
      BY <1>1, <1>2, <3>1 DEF PriorRead, Handlers
  <2>3. CASE h.kind \notin {"bathApply", "rollback"}
    <3>1. h' = Idle
      BY <1>4, <2>3 DEF AfterError
    <3>2. h'.kind = "none" /\ ~h'.waiting
      BY <3>1 DEF Idle
    <3> QED
      BY <1>1, <3>2 DEF PriorRead
  <2> QED
    BY <2>1, <2>2, <2>3
<1> QED
  BY <1>1, <1>3, <1>4

\* A handler that ends leaves the actor at rest.
LEMMA EndsTyped ==
    ASSUME NEW kind, Ends(kind) PROVE h' \in Handlers /\ PriorRead'
  BY IdleTyped DEF Ends, PriorRead

\* Every step keeps the types, and a rollback its temp.
LEMMA StepTyped == DhwInv /\ [Next]_vars => DhwInv'
<1> SUFFICES ASSUME DhwInv, [Next]_vars PROVE DhwInv'
  OBVIOUS
<1> USE DEF DhwInv, TypeOK
<1>1. CASE StartShower
  <2>1. h' \in Handlers /\ h'.kind = "showerRead" /\ ~h'.waiting
    <3>1. <<Step("read", "none")>> \in Seq(Steps) /\ "showerRead" \in Kinds
      BY StepKinds DEF Kinds
    <3> QED
      BY <1>1, <3>1, StartsTyped DEF StartShower
  <2> QED
    BY <1>1, <2>1 DEF StartShower, PriorRead
<1>2. ASSUME NEW low \in BOOLEAN, StartBath(low) PROVE DhwInv'
  <2>1. h' \in Handlers /\ h'.kind = "bathRead" /\ ~h'.waiting
    <3> DEFINE a == Starts("bathRead", <<Step("read", "none")>>)
    <3>1. <<Step("read", "none")>> \in Seq(Steps) /\ "bathRead" \in Kinds
      BY StepKinds DEF Kinds
    <3>2. a \in Handlers /\ a.kind = "bathRead" /\ ~a.waiting
      BY <3>1, StartsTyped
    <3>3. h' = [a EXCEPT !.low = low]
      BY <1>2 DEF StartBath
    <3> HIDE DEF a
    <3> QED
      BY <3>2, <3>3 DEF Handlers
  <2> QED
    BY <1>2, <2>1 DEF StartBath, PriorRead
<1>3. CASE Cancel
  <2>1. h' \in Handlers /\ h'.kind = "cancel" /\ ~h'.waiting
    <3>1. "cancel" \in Kinds /\ "Manual" \in Reasons
      BY DEF Kinds, Reasons
    <3> QED
      BY <1>3, <3>1, StartsTyped, StopTyped DEF Cancel
  <2> QED
    BY <1>3, <2>1 DEF Cancel, PriorRead
<1>4. CASE ShutdownSave
  BY <1>4, SaveTyped DEF ShutdownSave, PriorRead
<1>5. CASE SendRequest
  <2>1. Head(h.steps) \in Steps
    BY <1>5, HeadTail DEF SendRequest, NextStepIn, Handlers
  <2>2. bus' \in Seq(Requests)
    BY <1>5, <2>1 DEF SendRequest, Requests
  <2>3. /\ h' \in Handlers /\ h'.kind = h.kind /\ h'.prior = h.prior
        /\ h'.steps # <<>>
    BY <1>5 DEF SendRequest, Handlers, NextStepIn
  <2> QED
    BY <1>5, <2>2, <2>3 DEF SendRequest, PriorRead
<1>6. CASE SetSmartGrid
  <2>1. Head(h.steps) \in Steps /\ h.steps # <<>>
    BY <1>6, HeadTail DEF SetSmartGrid, NextStepIn, Handlers
  <2>2. sg' \in {"Normal", "Overcapacity"} /\ limits' \in Limits
    BY <1>6, <2>1, StepValues, LimitsTyped DEF SetSmartGrid, NextStepIn
  <2>3. h' \in AfterSuccess \/ h' = AfterError
    BY <1>6 DEF SetSmartGrid
  <2> QED
    BY <1>6, <2>1, <2>2, <2>3, MovesOn DEF SetSmartGrid
<1>7. CASE SetOverride
  <2>1. Head(h.steps) \in Steps /\ h.steps # <<>>
    BY <1>7, HeadTail DEF SetOverride, NextStepIn, Handlers
  <2>2. override' \in {"off", "none", "closed"}
    BY <1>7, <2>1, StepValues DEF SetOverride, NextStepIn
  <2>3. h' \in AfterSuccess \/ h' = AfterError
    BY <1>7 DEF SetOverride
  <2> QED
    BY <1>7, <2>1, <2>2, <2>3, MovesOn DEF SetOverride
<1>8. CASE ServeActor
  <2>1. bus' \in Seq(Requests) /\ heater' \in Registers
    BY <1>8, HeadTail, LandTyped DEF ServeActor, Served
  <2>2. limits' \in Limits
    BY <1>8, LimitsTyped DEF ServeActor
  <2>3. h' \in AfterSuccess \/ h' = AfterError
    BY <1>8 DEF ServeActor
  <2>4. h.steps # <<>>
    BY <1>8 DEF ServeActor, PriorRead
  <2> QED
    BY <1>8, <2>1, <2>2, <2>3, <2>4, MovesOn DEF ServeActor
<1>9. CASE ServeWatcher
  <2>1. bus' \in Seq(Requests) /\ heater' \in Registers
    BY <1>9, HeadTail, LandTyped DEF ServeWatcher, Served
  <2>2. limits' \in Limits
    BY <1>9, LimitsTyped DEF ServeWatcher
  <2>3. bath' \in BathWatchers
    BY <1>9 DEF ServeWatcher, BathWatchers
  <2> QED
    BY <1>9, <2>1, <2>2, <2>3 DEF ServeWatcher, PriorRead
<1>10. CASE ServeNobody
  <2>1. bus' \in Seq(Requests) /\ heater' \in Registers
    BY <1>10, HeadTail, LandTyped DEF ServeNobody, Served
  <2> QED
    BY <1>10, <2>1 DEF ServeNobody, PriorRead
<1>11. CASE HeaterTimerElapses
  <2>1. heater' \in Registers
    BY <1>11 DEF HeaterTimerElapses, Registers
  <2> QED
    BY <1>11, <2>1 DEF HeaterTimerElapses, PriorRead
<1>12. CASE FinishRecovery
  BY <1>12, SaveTyped, EndsTyped, IdleTyped DEF FinishRecovery
<1>13. CASE FinishShowerStart
  <2>1. state' \in Boosts
    BY <1>13 DEF FinishShowerStart, ShowerBoost, NoBoost, Boosts
  <2> QED
    BY <1>13, <2>1, SaveTyped, EndsTyped DEF FinishShowerStart
<1>14. CASE FinishBathStart
  <2>1. state' \in Boosts
    BY <1>14 DEF FinishBathStart, BathBoost, Boosts, Handlers
  <2>2. bath' \in BathWatchers
    BY <1>14, IdleTyped DEF FinishBathStart, BathWatchers, Handlers
  <2> QED
    BY <1>14, <2>1, <2>2, SaveTyped, EndsTyped DEF FinishBathStart
<1>15. CASE FinishRollback
  BY <1>15, EndsTyped DEF FinishRollback
<1>16. CASE FinishCancel
  <2>1. bus' \in Seq(Requests)
    BY <1>16, DisownTyped DEF FinishCancel, AbortBathWatcher
  <2>2. bath' \in BathWatchers /\ events' \in Seq(BOOLEAN)
    BY <1>16, IdleTyped DEF FinishCancel, AbortBathWatcher
  <2> QED
    BY <1>16, <2>1, <2>2, SaveTyped, EndsTyped, IdleTyped DEF FinishCancel
<1>17. CASE FinishBathDone
  BY <1>17, SaveTyped, EndsTyped, IdleTyped DEF FinishBathDone
<1>18. CASE ShowerWatcherFires
  BY <1>18 DEF ShowerWatcherFires, PriorRead, Released
<1>19. CASE OnShowerDone
  BY <1>19, SaveTyped, IdleTyped DEF OnShowerDone, PriorRead
<1>20. CASE BathExpires
  <2>1. bath' \in BathWatchers
    BY <1>20 DEF BathExpires, BathWatchers
  <2> QED
    BY <1>20, <2>1 DEF BathExpires, PriorRead
<1>21. ASSUME NEW reason \in Reasons, BathTriggers(reason) PROVE DhwInv'
  <2>1. bath' \in BathWatchers
    BY <1>21 DEF BathTriggers, BathWatchers
  <2> QED
    BY <1>21, <2>1 DEF BathTriggers, PriorRead
<1>22. CASE GateCrosses
  <2>1. bath' \in BathWatchers
    BY <1>22 DEF GateCrosses, BathWatchers
  <2>2. Step("kw", IF bath'.engaged THEN "on" ELSE "off") \in Steps
    BY StepKinds
  <2>3. bus' \in Seq(Requests)
    BY <1>22, <2>2 DEF GateCrosses, Requests
  <2> QED
    BY <1>22, <2>1, <2>3 DEF GateCrosses, PriorRead
<1>23. CASE WatcherReports
  <2>1. bath' \in BathWatchers /\ bath.engaged \in BOOLEAN
    BY <1>23 DEF WatcherReports, BathWatchers
  <2>2. events' \in Seq(BOOLEAN)
    BY <1>23, <2>1 DEF WatcherReports
  <2> QED
    BY <1>23, <2>1, <2>2 DEF WatcherReports, PriorRead
<1>24. CASE OnBathEvent
  <2>1. events' \in Seq(BOOLEAN) /\ Head(events) \in BOOLEAN
    BY <1>24, HeadTail DEF OnBathEvent
  <2>2. state' \in Boosts
    BY <1>24, <2>1 DEF OnBathEvent, Boosts
  <2> QED
    BY <1>24, <2>1, <2>2, SaveTyped DEF OnBathEvent, PriorRead
<1>25. CASE OnBathDone
  <2>1. bath.reason \in Reasons /\ "bathDone" \in Kinds
    BY DEF BathWatchers, Kinds
  <2>2. h' \in Handlers /\ h'.kind = "bathDone" /\ ~h'.waiting
    BY <1>25, <2>1, StartsTyped, StopTyped DEF OnBathDone
  <2>3. bath' \in BathWatchers /\ events' \in Seq(BOOLEAN)
    BY <1>25, IdleTyped DEF OnBathDone
  <2> QED
    BY <1>25, <2>2, <2>3 DEF OnBathDone, PriorRead
<1>26. CASE Crash
  <2>1. heater' \in Registers
    BY <1>26, LandTyped DEF Crash
  <2>2. h' \in Handlers /\ h'.kind \in {"none", "recover"} /\ ~h'.waiting
    <3>1. "recover" \in Kinds
      BY DEF Kinds
    <3>2. Starts("recover", RecoverySteps(file)) \in Handlers
          /\ Starts("recover", RecoverySteps(file)).kind = "recover"
          /\ ~Starts("recover", RecoverySteps(file)).waiting
      BY <3>1, StartsTyped, RecoveryTyped
    <3>3. Idle \in Handlers /\ Idle.kind = "none" /\ ~Idle.waiting
      BY IdleTyped
    <3> QED
      BY <1>26, <3>2, <3>3 DEF Crash
  <2>3. limits' \in Limits
    <3>1. /\ limits.crashes \in 0..MaxCrashes /\ limits.saves \in 0..MaxSaveFaults
          /\ limits.crashes > 0
      BY <1>26 DEF Crash, Limits
    <3>2. limits.crashes - 1 \in 0..MaxCrashes
      BY <3>1
    <3>3. PICK unreadable \in {0, 1} :
            /\ unreadable <= limits.saves
            /\ limits' = [io      |-> limits.io,
                          saves   |-> limits.saves - unreadable,
                          crashes |-> limits.crashes - 1,
                          torn    |-> limits.torn \/ h.kind \in {"bathApply", "rollback"},
                          skipped |-> limits.skipped,
                          orderly |-> limits.orderly]
      BY <1>26 DEF Crash
    <3>4. limits.saves - unreadable \in 0..MaxSaveFaults
      BY <3>1, <3>3
    <3>5. /\ limits.io \in 0..MaxIoFaults
          /\ (limits.torn \/ h.kind \in {"bathApply", "rollback"}) \in BOOLEAN
          /\ limits.skipped \in BOOLEAN /\ limits.orderly \in BOOLEAN
      BY DEF Limits
    <3> QED
      BY <3>2, <3>3, <3>4, <3>5 DEF Limits
  <2>4. bath' \in BathWatchers /\ state' \in Boosts
    BY <1>26, IdleTyped DEF Crash
  <2>5. events' \in Seq(BOOLEAN) /\ bus' \in Seq(Requests)
    BY <1>26 DEF Crash
  <2> QED
    BY <1>26, <2>1, <2>2, <2>3, <2>4, <2>5 DEF Crash, PriorRead, Released
<1>27. CASE ActorGivesUp
  <2>1. bus' \in Seq(Requests)
    BY <1>27, DisownTyped DEF ActorGivesUp
  <2>2. limits' \in Limits
    BY <1>27, LimitsTyped DEF ActorGivesUp
  <2>3. h' = AfterError /\ h.steps # <<>>
    BY <1>27 DEF ActorGivesUp, PriorRead
  <2> QED
    BY <1>27, <2>1, <2>2, <2>3, MovesOn DEF ActorGivesUp
<1>28. CASE WatcherGivesUp
  <2>1. bus' \in Seq(Requests)
    BY <1>28, DisownTyped DEF WatcherGivesUp
  <2>2. limits' \in Limits
    BY <1>28, LimitsTyped DEF WatcherGivesUp
  <2>3. bath' \in BathWatchers
    BY <1>28 DEF WatcherGivesUp, BathWatchers
  <2> QED
    BY <1>28, <2>1, <2>2, <2>3 DEF WatcherGivesUp, PriorRead
<1>29. CASE UNCHANGED vars
  BY <1>29 DEF vars, PriorRead
<1> QED
  BY <1>1, <1>2, <1>3, <1>4, <1>5, <1>6, <1>7, <1>8, <1>9, <1>10, <1>11, <1>12,
     <1>13, <1>14, <1>15, <1>16, <1>17, <1>18, <1>19, <1>20, <1>21, <1>22, <1>23,
     <1>24, <1>25, <1>26, <1>27, <1>28, <1>29
  DEF Next, Commands, HandlerSteps, Serve, News, Tick

(***************************************************************************)
(* Types: every handler's list holds only steps the heater, the SmartGrid  *)
(* actor and the lane understand, a rollback included.                     *)
(***************************************************************************)
THEOREM TypeCorrect == Spec => []TypeOK
<1>1. DhwInv => TypeOK
  BY DEF DhwInv
<1> QED
  BY <1>1, InitTyped, StepTyped, PTL DEF Spec

-----------------------------------------------------------------------------
(* The file mirrors the state. *)

\* Recovery works before any boost runs: the actor takes no command meanwhile.
RecoverAlone == h.kind = "recover" => state.preset = "none"

FileInv == FileMirrorsState /\ RecoverAlone

\* A step that leaves boost, file and handler kind alone.
LEMMA NothingSaved ==
    ASSUME FileInv, UNCHANGED <<file, state>>,
           NoSaveFailed' => NoSaveFailed,
           h'.kind = "recover" => h.kind = "recover"
    PROVE  FileInv'
  BY DEF FileInv, FileMirrorsState, RecoverAlone

\* When no save has failed the last one wrote what it was given.
LEMMA SavedIsWritten ==
    ASSUME limits \in Limits, NEW boost, Save(boost), NoSaveFailed', PersistPath
    PROVE  file' = boost /\ NoSaveFailed
<1>1. limits.saves \in Nat /\ limits.saves <= MaxSaveFaults
  BY DEF Limits
<1>2. ~SaveFails
  <2> SUFFICES ASSUME SaveFails PROVE FALSE
    OBVIOUS
  <2>1. limits' = [limits EXCEPT !.saves = @ - 1]
    BY DEF SaveFails
  <2>2. limits'.saves = limits.saves - 1
    BY <2>1 DEF Limits
  <2>3. limits'.saves = MaxSaveFaults
    BY DEF NoSaveFailed
  <2> QED
    BY <1>1, <2>2, <2>3
<1> QED
  BY <1>2 DEF Save, NoSaveFailed

\* A step that sets the boost and saves what it set.
LEMMA BothSaved ==
    ASSUME limits \in Limits, Save(state'), h'.kind # "recover"
    PROVE  FileInv'
  BY SavedIsWritten DEF FileInv, FileMirrorsState, RecoverAlone

\* A failed call of the heater is no failed save.
LEMMA IoKeepsSaves ==
    ASSUME limits \in Limits, IoFails \/ StepFails \/ UNCHANGED limits
    PROVE  NoSaveFailed' => NoSaveFailed
  BY DEF Limits, IoFails, StepFails, NoSaveFailed

\* No handler turns into a recovery.
LEMMA NeverIntoRecovery ==
    ASSUME TypeOK, PriorRead, h.steps # <<>>, h' \in AfterSuccess \/ h' = AfterError
    PROVE  h'.kind = "recover" => h.kind = "recover"
<1>1. h \in Handlers /\ heater.engage \in Temps
  BY DEF TypeOK, Registers
<1>2. CASE h' = [h EXCEPT !.steps = Tail(@), !.waiting = FALSE]
  BY <1>1, <1>2 DEF Handlers
<1>3. CASE h' = Idle \/ h' = Starts("shower", ShowerSteps)
  BY <1>3, IdleTyped, ShowerStarts
<1>4. CASE h.kind = "bathRead" /\ h' \in AfterSuccess
  <2> DEFINE a == Starts("bathApply", ApplySteps(heater.engage, h.low))
  <2>1. a \in Handlers /\ a.kind = "bathApply"
    BY <1>1, <1>4, StartsTyped, ApplyTyped DEF Kinds, Handlers
  <2>2. h' = [a EXCEPT !.prior = heater.engage, !.low = h.low]
    BY <1>4 DEF AfterSuccess
  <2> HIDE DEF a
  <2> QED
    BY <2>1, <2>2 DEF Handlers
<1>5. CASE h.kind = "bathApply" /\ h' = AfterError
  <2> DEFINE a == Starts("rollback", RollbackSteps(h.prior))
  <2>1. a \in Handlers /\ a.kind = "rollback"
    BY <1>5, StartsTyped, RollbackTyped DEF PriorRead, Kinds
  <2>2. h' = [a EXCEPT !.prior = h.prior]
    BY <1>5 DEF AfterError
  <2> HIDE DEF a
  <2> QED
    BY <2>1, <2>2 DEF Handlers
<1>6. h' \in AfterSuccess =>
        \/ h' = Idle \/ h' = Starts("shower", ShowerSteps)
        \/ h' = [h EXCEPT !.steps = Tail(@), !.waiting = FALSE]
        \/ h.kind = "bathRead"
  BY DEF AfterSuccess
<1>7. h' = AfterError =>
        \/ h' = Idle
        \/ h' = [h EXCEPT !.steps = Tail(@), !.waiting = FALSE]
        \/ h.kind = "bathApply"
  BY DEF AfterError
<1> QED
  BY <1>2, <1>3, <1>4, <1>5, <1>6, <1>7

LEMMA FileStep == DhwInv /\ FileInv /\ [Next]_vars => FileInv'
<1> SUFFICES ASSUME DhwInv, FileInv, [Next]_vars PROVE FileInv'
  OBVIOUS
<1>0. /\ TypeOK /\ PriorRead /\ limits \in Limits /\ state \in Boosts
      /\ h \in Handlers
  BY DEF DhwInv, TypeOK
<1>1. CASE StartShower
  <2>1. <<Step("read", "none")>> \in Seq(Steps) /\ "showerRead" \in Kinds
    BY StepKinds DEF Kinds
  <2>2. h'.kind = "showerRead"
    BY <1>1, <2>1, StartsTyped DEF StartShower
  <2> QED
    BY <1>1, <2>2, NothingSaved DEF StartShower, NoSaveFailed
<1>2. ASSUME NEW low \in BOOLEAN, StartBath(low) PROVE FileInv'
  <2> DEFINE a == Starts("bathRead", <<Step("read", "none")>>)
  <2>1. <<Step("read", "none")>> \in Seq(Steps) /\ "bathRead" \in Kinds
    BY StepKinds DEF Kinds
  <2>2. a \in Handlers /\ a.kind = "bathRead"
    BY <2>1, StartsTyped
  <2>3. h' = [a EXCEPT !.low = low]
    BY <1>2 DEF StartBath
  <2> HIDE DEF a
  <2>4. h'.kind = "bathRead"
    BY <2>2, <2>3 DEF Handlers
  <2> QED
    BY <1>2, <2>4, NothingSaved DEF StartBath, NoSaveFailed
<1>3. CASE Cancel
  <2>1. "cancel" \in Kinds /\ "Manual" \in Reasons
    BY DEF Kinds, Reasons
  <2>2. h'.kind = "cancel"
    BY <1>0, <1>3, <2>1, StartsTyped, StopTyped DEF Cancel
  <2> QED
    BY <1>3, <2>2, NothingSaved DEF Cancel, NoSaveFailed
<1>4. CASE ShutdownSave
  BY <1>0, <1>4, BothSaved DEF ShutdownSave, AtRest
<1>5. CASE SendRequest
  <2>1. h'.kind = h.kind
    BY <1>0, <1>5 DEF SendRequest, Handlers
  <2> QED
    BY <1>5, <2>1, NothingSaved DEF SendRequest, NoSaveFailed
<1>6. CASE SetSmartGrid
  <2>1. h.steps # <<>> /\ (h' \in AfterSuccess \/ h' = AfterError)
    BY <1>6 DEF SetSmartGrid, NextStepIn
  <2>2. StepFails \/ UNCHANGED limits
    BY <1>6 DEF SetSmartGrid
  <2> QED
    BY <1>0, <1>6, <2>1, <2>2, NothingSaved, NeverIntoRecovery, IoKeepsSaves
    DEF SetSmartGrid
<1>7. CASE SetOverride
  <2>1. h.steps # <<>> /\ (h' \in AfterSuccess \/ h' = AfterError)
    BY <1>7 DEF SetOverride, NextStepIn
  <2> QED
    BY <1>0, <1>7, <2>1, NothingSaved, NeverIntoRecovery DEF SetOverride, NoSaveFailed
<1>8. CASE ServeActor
  <2>1. h.steps # <<>> /\ (h' \in AfterSuccess \/ h' = AfterError)
    BY <1>0, <1>8 DEF ServeActor, PriorRead
  <2>2. StepFails \/ UNCHANGED limits
    BY <1>8 DEF ServeActor
  <2> QED
    BY <1>0, <1>8, <2>1, <2>2, NothingSaved, NeverIntoRecovery, IoKeepsSaves
    DEF ServeActor
<1>9. CASE ServeWatcher
  <2>1. IoFails \/ UNCHANGED limits
    BY <1>9 DEF ServeWatcher
  <2> QED
    BY <1>0, <1>9, <2>1, NothingSaved, IoKeepsSaves DEF ServeWatcher
<1>10. CASE ServeNobody \/ HeaterTimerElapses
  BY <1>10, NothingSaved DEF ServeNobody, HeaterTimerElapses, NoSaveFailed
<1>11. CASE FinishRecovery
  <2>1. state.preset = "none" /\ state' = state /\ h' = Idle
    BY <1>11 DEF FinishRecovery, Ends, FileInv, RecoverAlone
  <2> QED
    BY <2>1 DEF FileInv, FileMirrorsState, RecoverAlone
<1>12. CASE FinishShowerStart
  BY <1>0, <1>12, BothSaved, IdleTyped DEF FinishShowerStart, Ends
<1>13. CASE FinishBathStart
  BY <1>0, <1>13, BothSaved, IdleTyped DEF FinishBathStart, Ends
<1>14. CASE FinishRollback
  BY <1>14, NothingSaved, IdleTyped DEF FinishRollback, Ends, NoSaveFailed
<1>15. CASE FinishCancel
  BY <1>0, <1>15, BothSaved, IdleTyped DEF FinishCancel, Ends
<1>16. CASE FinishBathDone
  BY <1>0, <1>16, BothSaved, IdleTyped DEF FinishBathDone, Ends
<1>17. CASE ShowerWatcherFires \/ BathExpires
  BY <1>17, NothingSaved DEF ShowerWatcherFires, BathExpires, NoSaveFailed
<1>18. CASE OnShowerDone
  BY <1>0, <1>18, BothSaved DEF OnShowerDone, AtRest
<1>19. ASSUME NEW reason \in Reasons, BathTriggers(reason) PROVE FileInv'
  BY <1>19, NothingSaved DEF BathTriggers, NoSaveFailed
<1>20. CASE GateCrosses \/ WatcherReports
  BY <1>20, NothingSaved DEF GateCrosses, WatcherReports, NoSaveFailed
<1>21. CASE OnBathEvent
  BY <1>0, <1>21, BothSaved DEF OnBathEvent, AtRest
<1>22. CASE OnBathDone
  <2>1. bath.reason \in Reasons /\ "bathDone" \in Kinds
    BY <1>0 DEF TypeOK, BathWatchers, Kinds
  <2>2. h'.kind = "bathDone"
    BY <1>0, <1>22, <2>1, StartsTyped, StopTyped DEF OnBathDone
  <2> QED
    BY <1>22, <2>2, NothingSaved DEF OnBathDone, NoSaveFailed
<1>23. CASE Crash
  <2>1. state'.preset = "none"
    BY <1>23 DEF Crash, NoBoost
  <2> QED
    BY <2>1 DEF FileInv, FileMirrorsState, RecoverAlone
<1>24. CASE ActorGivesUp
  <2>1. h.steps # <<>> /\ h' = AfterError
    BY <1>0, <1>24 DEF ActorGivesUp, PriorRead
  <2>2. StepFails
    BY <1>24 DEF ActorGivesUp
  <2> QED
    BY <1>0, <1>24, <2>1, <2>2, NothingSaved, NeverIntoRecovery, IoKeepsSaves
    DEF ActorGivesUp
<1>25. CASE WatcherGivesUp
  BY <1>0, <1>25, NothingSaved, IoKeepsSaves DEF WatcherGivesUp
<1>26. CASE UNCHANGED vars
  BY <1>26, NothingSaved DEF vars, NoSaveFailed
<1> QED
  BY <1>1, <1>2, <1>3, <1>4, <1>5, <1>6, <1>7, <1>8, <1>9, <1>10, <1>11, <1>12,
     <1>13, <1>14, <1>15, <1>16, <1>17, <1>18, <1>19, <1>20, <1>21, <1>22, <1>23,
     <1>24, <1>25, <1>26
  DEF Next, Commands, HandlerSteps, Serve, News, Tick

(***************************************************************************)
(* Whatever the order of commands, ticks, faults and crashes, the file     *)
(* holds the running boost as long as no save has failed.                  *)
(***************************************************************************)
THEOREM FileMirrorsCorrect == Spec => []FileMirrorsState
<1>1. Init => FileInv
  BY DEF Init, Idle, NoBoost, FileInv, FileMirrorsState, RecoverAlone
<1>2. FileInv => FileMirrorsState
  BY DEF FileInv
<1> QED
  BY <1>1, <1>2, InitTyped, StepTyped, FileStep, PTL DEF Spec

-----------------------------------------------------------------------------
(* Where a handler is.  A handler works its list off from the front, so    *)
(* what is left is the list's own end, and it is counted from there.       *)

FromEnd(s, i) == s[Len(s) + 1 - i]

IsRest(s, list) ==
    Len(s) <= Len(list) /\ \A i \in 1..Len(s) : FromEnd(s, i) = FromEnd(list, i)

\* What working off the first step leaves.
LEMMA WorkedOff ==
    ASSUME NEW S, NEW s \in Seq(S), s # <<>>
    PROVE  /\ Len(s) \in Nat /\ Len(s) >= 1 /\ Tail(s) \in Seq(S)
           /\ Len(Tail(s)) = Len(s) - 1
           /\ Head(s) = FromEnd(s, Len(s))
           /\ \A i \in 1..(Len(s) - 1) : FromEnd(Tail(s), i) = FromEnd(s, i)
<1>1. /\ Len(s) \in Nat /\ Len(s) >= 1 /\ Tail(s) \in Seq(S)
      /\ Len(Tail(s)) = Len(s) - 1 /\ Head(s) = s[1]
      /\ \A i \in 1..(Len(s) - 1) : Tail(s)[i] = s[i + 1]
  OBVIOUS
<1>2. Head(s) = FromEnd(s, Len(s))
  BY <1>1 DEF FromEnd
<1>3. ASSUME NEW i \in 1..(Len(s) - 1) PROVE FromEnd(Tail(s), i) = FromEnd(s, i)
  <2>1. Len(s) - i \in 1..(Len(s) - 1)
    BY <1>1
  <2>2. Tail(s)[Len(s) - i] = s[Len(s) - i + 1]
    BY <1>1, <2>1
  <2> QED
    BY <1>1, <2>2 DEF FromEnd
<1> QED
  BY <1>1, <1>2, <1>3

LEMMA RestOfRest ==
    ASSUME NEW S, NEW s \in Seq(S), s # <<>>, NEW list \in Seq(S), IsRest(s, list)
    PROVE  IsRest(Tail(s), list)
<1>1. Len(s) \in Nat /\ Len(Tail(s)) = Len(s) - 1 /\ Len(list) \in Nat
  BY WorkedOff
<1>2. \A i \in 1..(Len(s) - 1) : FromEnd(Tail(s), i) = FromEnd(list, i)
  BY <1>1, WorkedOff DEF IsRest
<1> QED
  BY <1>1, <1>2 DEF IsRest

LEMMA RestOfAll ==
    ASSUME NEW S, NEW list \in Seq(S)
    PROVE  IsRest(list, list) /\ IsRest(<<>>, list)
  BY DEF IsRest

\* The end of two lists strung together.
LEMMA EndOfConcat ==
    ASSUME NEW S, NEW s \in Seq(S), NEW t \in Seq(S)
    PROVE  /\ s \o t \in Seq(S) /\ Len(s \o t) = Len(s) + Len(t)
           /\ \A i \in 1..Len(t) : FromEnd(s \o t, i) = FromEnd(t, i)
           /\ \A i \in 1..Len(s) : FromEnd(s \o t, Len(t) + i) = FromEnd(s, i)
<1>1. /\ s \o t \in Seq(S) /\ Len(s \o t) = Len(s) + Len(t)
      /\ Len(s) \in Nat /\ Len(t) \in Nat
      /\ \A k \in 1..(Len(s) + Len(t)) :
           (s \o t)[k] = IF k <= Len(s) THEN s[k] ELSE t[k - Len(s)]
  OBVIOUS
<1>2. ASSUME NEW i \in 1..Len(t) PROVE FromEnd(s \o t, i) = FromEnd(t, i)
  <2> DEFINE k == Len(s) + Len(t) + 1 - i
  <2>1. k \in 1..(Len(s) + Len(t)) /\ ~(k <= Len(s)) /\ k - Len(s) = Len(t) + 1 - i
    BY <1>1
  <2> QED
    BY <1>1, <2>1 DEF FromEnd
<1>3. ASSUME NEW i \in 1..Len(s) PROVE FromEnd(s \o t, Len(t) + i) = FromEnd(s, i)
  <2> DEFINE k == Len(s) + 1 - i
  <2>1. /\ k \in 1..(Len(s) + Len(t)) /\ k <= Len(s)
        /\ Len(s) + Len(t) + 1 - (Len(t) + i) = k
    BY <1>1
  <2> QED
    BY <1>1, <2>1 DEF FromEnd
<1> QED
  BY <1>1, <1>2, <1>3

LEMMA EndOfThree ==
    ASSUME NEW S, NEW a \in Seq(S), NEW b \in Seq(S), NEW c \in Seq(S)
    PROVE  LET list == (a \o b) \o c
           IN  /\ list \in Seq(S) /\ Len(list) = Len(a) + Len(b) + Len(c)
               /\ \A i \in 1..Len(c) : FromEnd(list, i) = FromEnd(c, i)
               /\ \A i \in 1..Len(b) : FromEnd(list, Len(c) + i) = FromEnd(b, i)
               /\ \A i \in 1..Len(a) : FromEnd(list, Len(c) + Len(b) + i) = FromEnd(a, i)
<1> DEFINE ab   == a \o b
           list == ab \o c
<1>1. /\ ab \in Seq(S) /\ Len(ab) = Len(a) + Len(b)
      /\ \A i \in 1..Len(b) : FromEnd(ab, i) = FromEnd(b, i)
      /\ \A i \in 1..Len(a) : FromEnd(ab, Len(b) + i) = FromEnd(a, i)
  BY EndOfConcat
<1> HIDE DEF ab
<1>2. /\ list \in Seq(S) /\ Len(list) = Len(ab) + Len(c)
      /\ \A i \in 1..Len(c) : FromEnd(list, i) = FromEnd(c, i)
      /\ \A i \in 1..Len(ab) : FromEnd(list, Len(c) + i) = FromEnd(ab, i)
  <2>1. ab \in Seq(S)
    BY <1>1
  <2> QED
    BY <2>1, EndOfConcat
<1> HIDE DEF list
<1>3. Len(a) \in Nat /\ Len(b) \in Nat /\ Len(c) \in Nat
  OBVIOUS
<1>4. ASSUME NEW i \in 1..Len(b) PROVE FromEnd(list, Len(c) + i) = FromEnd(b, i)
  <2>1. i \in 1..Len(ab)
    BY <1>1, <1>3
  <2> QED
    BY <1>1, <1>2, <2>1
<1>5. ASSUME NEW i \in 1..Len(a) PROVE FromEnd(list, Len(c) + Len(b) + i) = FromEnd(a, i)
  <2>1. Len(b) + i \in 1..Len(ab) /\ Len(c) + (Len(b) + i) = Len(c) + Len(b) + i
    BY <1>1, <1>3
  <2> QED
    BY <1>1, <1>2, <2>1
<1> QED
  BY <1>1, <1>2, <1>3, <1>4, <1>5 DEF list, ab

LEMMA EndOfFour ==
    ASSUME NEW S, NEW a \in Seq(S), NEW b \in Seq(S), NEW c \in Seq(S), NEW d \in Seq(S)
    PROVE  LET list == ((a \o b) \o c) \o d
           IN  /\ list \in Seq(S) /\ Len(list) = Len(a) + Len(b) + Len(c) + Len(d)
               /\ \A i \in 1..Len(d) : FromEnd(list, i) = FromEnd(d, i)
               /\ \A i \in 1..Len(c) : FromEnd(list, Len(d) + i) = FromEnd(c, i)
               /\ \A i \in 1..Len(b) : FromEnd(list, Len(d) + Len(c) + i) = FromEnd(b, i)
               /\ \A i \in 1..Len(a) :
                    FromEnd(list, Len(d) + Len(c) + Len(b) + i) = FromEnd(a, i)
<1> DEFINE ab   == a \o b
           list == (ab \o c) \o d
<1>1. /\ ab \in Seq(S) /\ Len(ab) = Len(a) + Len(b)
      /\ \A i \in 1..Len(b) : FromEnd(ab, i) = FromEnd(b, i)
      /\ \A i \in 1..Len(a) : FromEnd(ab, Len(b) + i) = FromEnd(a, i)
  BY EndOfConcat
<1> HIDE DEF ab
<1>2. /\ list \in Seq(S) /\ Len(list) = Len(ab) + Len(c) + Len(d)
      /\ \A i \in 1..Len(d) : FromEnd(list, i) = FromEnd(d, i)
      /\ \A i \in 1..Len(c) : FromEnd(list, Len(d) + i) = FromEnd(c, i)
      /\ \A i \in 1..Len(ab) : FromEnd(list, Len(d) + Len(c) + i) = FromEnd(ab, i)
  <2>1. ab \in Seq(S)
    BY <1>1
  <2> QED
    BY <2>1, EndOfThree
<1> HIDE DEF list
<1>3. Len(a) \in Nat /\ Len(b) \in Nat /\ Len(c) \in Nat /\ Len(d) \in Nat
  OBVIOUS
<1>4. ASSUME NEW i \in 1..Len(b) PROVE FromEnd(list, Len(d) + Len(c) + i) = FromEnd(b, i)
  <2>1. i \in 1..Len(ab)
    BY <1>1, <1>3
  <2> QED
    BY <1>1, <1>2, <2>1
<1>5. ASSUME NEW i \in 1..Len(a)
      PROVE  FromEnd(list, Len(d) + Len(c) + Len(b) + i) = FromEnd(a, i)
  <2>1. /\ Len(b) + i \in 1..Len(ab)
        /\ Len(d) + Len(c) + (Len(b) + i) = Len(d) + Len(c) + Len(b) + i
    BY <1>1, <1>3
  <2> QED
    BY <1>1, <1>2, <2>1
<1> QED
  BY <1>1, <1>2, <1>3, <1>4, <1>5 DEF list, ab

\* The shortest lists.
LEMMA EndOfShort ==
    ASSUME NEW a, NEW b
    PROVE  /\ Len(<<a>>) = 1 /\ FromEnd(<<a>>, 1) = a
           /\ Len(<<a, b>>) = 2 /\ FromEnd(<<a, b>>, 1) = b /\ FromEnd(<<a, b>>, 2) = a
  BY DEF FromEnd

LEMMA EndOfOptional ==
    ASSUME NEW cond \in BOOLEAN, NEW step
    PROVE  /\ cond => Len(Optional(cond, step)) = 1
                      /\ FromEnd(Optional(cond, step), 1) = step
           /\ ~cond => Len(Optional(cond, step)) = 0
  BY EndOfShort DEF Optional

-----------------------------------------------------------------------------
(* What the lists of the handlers hold, counted from their ends. *)

LEMMA ShowerEnd ==
    /\ ShowerSteps \in Seq(Steps) /\ Len(ShowerSteps) = 2
    /\ FromEnd(ShowerSteps, 1) = Step("timer", "on")
    /\ FromEnd(ShowerSteps, 2) = Step("override", "off")
  BY ShowerTyped, EndOfShort DEF ShowerSteps

LEMMA RollbackEnd ==
    ASSUME NEW prior \in Temps
    PROVE  /\ RollbackSteps(prior) \in Seq(Steps) /\ Len(RollbackSteps(prior)) = 5
           /\ FromEnd(RollbackSteps(prior), 1) = Step("override", "none")
           /\ FromEnd(RollbackSteps(prior), 2) = Step("sg", "Normal")
           /\ FromEnd(RollbackSteps(prior), 3) = Step("engage", prior)
           /\ FromEnd(RollbackSteps(prior), 4) = Step("kw", "off")
           /\ FromEnd(RollbackSteps(prior), 5) = Step("timer", "off")
  BY RollbackTyped DEF RollbackSteps, FromEnd

\* apply_bath_side_effects asks for the lane first and for the mode second.
LEMMA ApplyEnd ==
    ASSUME NEW prior \in Temps, NEW low \in BOOLEAN
    PROVE  LET list == ApplySteps(prior, low)
           IN  /\ list \in Seq(Steps) /\ Len(list) \in 3..5
               /\ FromEnd(list, Len(list)) = Step("override", "off")
               /\ FromEnd(list, Len(list) - 1) = Step("sg", "Overcapacity")
               /\ low => FromEnd(list, 1) = Step("kw", "on")
               /\ \A i \in 1..(Len(list) - 2) :
                    \/ FromEnd(list, i) \in {Step("engage", "boost"), Step("timer", "on")}
                    \/ low /\ i = 1 /\ FromEnd(list, i) = Step("kw", "on")
<1> DEFINE a == <<Step("override", "off"), Step("sg", "Overcapacity")>>
           b == Optional(prior # "boost", Step("engage", "boost"))
           c == <<Step("timer", "on")>>
           d == Optional(low, Step("kw", "on"))
           list == ApplySteps(prior, low)
<1>1. /\ a \in Seq(Steps) /\ b \in Seq(Steps) /\ c \in Seq(Steps) /\ d \in Seq(Steps)
  <2>1. a \in Seq(Steps) /\ c \in Seq(Steps)
    BY StepKinds
  <2>2. b \in Seq(Steps) /\ d \in Seq(Steps)
    BY StepKinds, OptionalTyped DEF Temps
  <2> QED
    BY <2>1, <2>2
<1>2. list = ((a \o b) \o c) \o d
  BY DEF ApplySteps
<1>3. /\ Len(a) = 2 /\ FromEnd(a, 1) = Step("sg", "Overcapacity")
      /\ FromEnd(a, 2) = Step("override", "off")
      /\ Len(c) = 1 /\ FromEnd(c, 1) = Step("timer", "on")
  BY EndOfShort
<1>4. Len(b) = 0 \/ (Len(b) = 1 /\ FromEnd(b, 1) = Step("engage", "boost"))
  <2>1. (prior # "boost") \in BOOLEAN
    OBVIOUS
  <2> QED
    BY <2>1, EndOfOptional
<1>5. \/ low /\ Len(d) = 1 /\ FromEnd(d, 1) = Step("kw", "on")
      \/ ~low /\ Len(d) = 0
  BY EndOfOptional
<1> HIDE DEF a, b, c, d, list
<1>6. /\ list \in Seq(Steps) /\ Len(list) = Len(a) + Len(b) + Len(c) + Len(d)
      /\ \A i \in 1..Len(d) : FromEnd(list, i) = FromEnd(d, i)
      /\ \A i \in 1..Len(c) : FromEnd(list, Len(d) + i) = FromEnd(c, i)
      /\ \A i \in 1..Len(b) : FromEnd(list, Len(d) + Len(c) + i) = FromEnd(b, i)
      /\ \A i \in 1..Len(a) : FromEnd(list, Len(d) + Len(c) + Len(b) + i) = FromEnd(a, i)
  BY <1>1, <1>2, EndOfFour
<1>7. /\ FromEnd(list, Len(d) + 1) = Step("timer", "on")
      /\ FromEnd(list, Len(d) + 1 + Len(b) + 1) = Step("sg", "Overcapacity")
      /\ FromEnd(list, Len(d) + 1 + Len(b) + 2) = Step("override", "off")
  <2>1. 1 \in 1..Len(a) /\ 2 \in 1..Len(a) /\ 1 \in 1..Len(c)
    BY <1>3
  <2> QED
    BY <1>3, <1>6, <2>1
<1>8. Len(b) = 1 => FromEnd(list, Len(d) + 2) = Step("engage", "boost")
  <2> SUFFICES ASSUME Len(b) = 1 PROVE FromEnd(list, Len(d) + 2) = Step("engage", "boost")
    OBVIOUS
  <2>1. 1 \in 1..Len(b) /\ Len(d) + Len(c) + 1 = Len(d) + 2 /\ Len(b) # 0
    BY <1>1, <1>3
  <2> QED
    BY <1>4, <1>6, <2>1
<1>9. low => Len(d) = 1 /\ FromEnd(list, 1) = Step("kw", "on")
  <2> SUFFICES ASSUME low PROVE Len(d) = 1 /\ FromEnd(list, 1) = Step("kw", "on")
    OBVIOUS
  <2>1. Len(d) = 1 /\ FromEnd(d, 1) = Step("kw", "on")
    BY <1>5
  <2>2. 1 \in 1..Len(d)
    BY <2>1
  <2> QED
    BY <1>6, <2>1, <2>2
<1>10. PICK nb \in Nat, nd \in Nat : /\ nb = Len(b) /\ nd = Len(d)
                                     /\ nb <= 1 /\ nd <= 1 /\ Len(list) = 3 + nb + nd
  <2>1. PICK nb \in Nat, nd \in Nat : nb = Len(b) /\ nd = Len(d)
    BY <1>1
  <2>2. nb <= 1 /\ nd <= 1
    BY <1>4, <1>5, <2>1
  <2>3. Len(list) = 3 + nb + nd
    BY <1>3, <1>6, <2>1
  <2> QED
    BY <2>1, <2>2, <2>3
<1>11. /\ Len(list) \in 3..5
       /\ FromEnd(list, Len(list)) = Step("override", "off")
       /\ FromEnd(list, Len(list) - 1) = Step("sg", "Overcapacity")
  <2>1. 3 + nb + nd = nd + 1 + nb + 2 /\ (3 + nb + nd) - 1 = nd + 1 + nb + 1
    BY <1>10
  <2>2. 3 + nb + nd \in 3..5
    BY <1>10
  <2>3. /\ FromEnd(list, nd + 1 + nb + 1) = Step("sg", "Overcapacity")
        /\ FromEnd(list, nd + 1 + nb + 2) = Step("override", "off")
    BY <1>7, <1>10
  <2> QED
    BY <1>10, <2>1, <2>2, <2>3
<1>12. ASSUME NEW i \in 1..(Len(list) - 2)
       PROVE  \/ FromEnd(list, i) \in {Step("engage", "boost"), Step("timer", "on")}
              \/ low /\ i = 1 /\ FromEnd(list, i) = Step("kw", "on")
  <2>1. i \in Nat /\ 1 <= i /\ i <= 1 + nb + nd
    BY <1>10
  <2>2. (nd = 1 /\ i = 1) \/ i = nd + 1 \/ (nb = 1 /\ i = nd + 2)
    BY <1>10, <2>1
  <2>3. nd = 1 => low
    BY <1>5, <1>10
  <2>4. FromEnd(list, nd + 1) = Step("timer", "on")
    BY <1>7, <1>10
  <2>5. nb = 1 => FromEnd(list, nd + 2) = Step("engage", "boost")
    BY <1>8, <1>10
  <2> QED
    BY <1>9, <2>2, <2>3, <2>4, <2>5
<1> QED
  BY <1>6, <1>9, <1>11, <1>12 DEF list

\* The stop sequence restores 61636 before it gives up the mode and the lane.
LEMMA StopEnd ==
    ASSUME NEW boost \in Boosts, boost.prior \in Temps, NEW reason \in Reasons
    PROVE  LET list == StopSteps(boost, reason)
           IN  /\ list \in Seq(Steps) /\ Len(list) \in 3..5
               /\ FromEnd(list, 1) = Step("override", "none")
               /\ FromEnd(list, 2) = Step("sg", "Normal")
               /\ FromEnd(list, 3) = Step("engage", boost.prior)
               /\ \A i \in 4..Len(list) :
                    FromEnd(list, i) \in {Step("timer", "off"), Step("kw", "off")}
               /\ boost.engaged =>
                    Len(list) >= 4 /\ FromEnd(list, 4) = Step("kw", "off")
<1> DEFINE a == Optional(reason # "TimerExpired", Step("timer", "off"))
           b == Optional(boost.engaged, Step("kw", "off"))
           c == Optional(boost.prior # "none", Step("engage", boost.prior))
           d == <<Step("sg", "Normal"), Step("override", "none")>>
           list == StopSteps(boost, reason)
<1>0. boost.engaged \in BOOLEAN /\ (boost.prior # "none") = TRUE
  BY DEF Boosts, Temps
<1>1. /\ a \in Seq(Steps) /\ b \in Seq(Steps)
      /\ c \in Seq(Steps) /\ d \in Seq(Steps)
  BY <1>0, StepKinds, OptionalTyped, RestoreTyped
<1>2. list = ((a \o b) \o c) \o d
  BY DEF StopSteps
<1>3. /\ Len(d) = 2 /\ FromEnd(d, 1) = Step("override", "none")
      /\ FromEnd(d, 2) = Step("sg", "Normal")
  BY EndOfShort
<1>4. Len(c) = 1 /\ FromEnd(c, 1) = Step("engage", boost.prior)
  BY <1>0, EndOfOptional
<1>5. \/ boost.engaged /\ Len(b) = 1 /\ FromEnd(b, 1) = Step("kw", "off")
      \/ ~boost.engaged /\ Len(b) = 0
  BY <1>0, EndOfOptional
<1>6. Len(a) = 0 \/ (Len(a) = 1 /\ FromEnd(a, 1) = Step("timer", "off"))
  <2>1. (reason # "TimerExpired") \in BOOLEAN
    OBVIOUS
  <2> QED
    BY <2>1, EndOfOptional
<1> HIDE DEF a, b, c, d, list
<1>7. /\ list \in Seq(Steps) /\ Len(list) = Len(a) + Len(b) + Len(c) + Len(d)
      /\ \A i \in 1..Len(d) : FromEnd(list, i) = FromEnd(d, i)
      /\ \A i \in 1..Len(c) : FromEnd(list, Len(d) + i) = FromEnd(c, i)
      /\ \A i \in 1..Len(b) : FromEnd(list, Len(d) + Len(c) + i) = FromEnd(b, i)
      /\ \A i \in 1..Len(a) : FromEnd(list, Len(d) + Len(c) + Len(b) + i) = FromEnd(a, i)
  BY <1>1, <1>2, EndOfFour
<1>8. PICK na \in Nat, nb \in Nat : /\ na = Len(a) /\ nb = Len(b)
                                    /\ na <= 1 /\ nb <= 1 /\ Len(list) = 3 + na + nb
  <2>1. PICK na \in Nat, nb \in Nat : na = Len(a) /\ nb = Len(b)
    BY <1>1
  <2>2. na <= 1 /\ nb <= 1
    <3>1. na <= 1
      BY <1>6, <2>1
    <3>2. Len(b) = 0 \/ Len(b) = 1
      BY <1>5
    <3> QED
      BY <2>1, <3>1, <3>2
  <2>3. Len(list) = 3 + na + nb
    BY <1>3, <1>4, <1>7, <2>1
  <2> QED
    BY <2>1, <2>2, <2>3
<1>9. /\ FromEnd(list, 1) = Step("override", "none")
      /\ FromEnd(list, 2) = Step("sg", "Normal")
      /\ FromEnd(list, 3) = Step("engage", boost.prior)
  <2>1. 1 \in 1..Len(d) /\ 2 \in 1..Len(d) /\ 1 \in 1..Len(c)
    BY <1>3, <1>4
  <2>2. FromEnd(list, 2 + 1) = FromEnd(c, 1)
    BY <1>3, <1>7, <2>1
  <2> QED
    BY <1>3, <1>4, <1>7, <2>1, <2>2
<1>10. nb = 1 => FromEnd(list, 4) = Step("kw", "off")
  <2> SUFFICES ASSUME nb = 1 PROVE FromEnd(list, 4) = Step("kw", "off")
    OBVIOUS
  <2>1. 1 \in 1..Len(b) /\ FromEnd(b, 1) = Step("kw", "off")
    BY <1>5, <1>8
  <2>2. FromEnd(list, 2 + 1 + 1) = FromEnd(b, 1)
    BY <1>3, <1>4, <1>7, <2>1
  <2> QED
    BY <2>1, <2>2
<1>11. na = 1 => FromEnd(list, nb + 4) = Step("timer", "off")
  <2> SUFFICES ASSUME na = 1 PROVE FromEnd(list, nb + 4) = Step("timer", "off")
    OBVIOUS
  <2>1. 1 \in 1..Len(a) /\ FromEnd(a, 1) = Step("timer", "off")
    <3>1. Len(a) = 1
      BY <1>8
    <3> QED
      BY <1>6, <3>1
  <2>2. FromEnd(list, 2 + 1 + nb + 1) = FromEnd(a, 1)
    <3>1. FromEnd(list, Len(d) + Len(c) + Len(b) + 1) = FromEnd(a, 1)
      BY <1>7, <2>1
    <3> QED
      BY <1>3, <1>4, <1>8, <3>1
  <2>3. 2 + 1 + nb + 1 = nb + 4
    OBVIOUS
  <2> QED
    BY <2>1, <2>2, <2>3
<1>12. ASSUME NEW i \in 4..Len(list)
       PROVE  FromEnd(list, i) \in {Step("timer", "off"), Step("kw", "off")}
  <2>1. i \in Nat /\ 4 <= i /\ i <= 3 + na + nb
    BY <1>8
  <2>2. (nb = 1 /\ i = 4) \/ (na = 1 /\ i = nb + 4)
    BY <1>8, <2>1
  <2> QED
    BY <1>10, <1>11, <2>2
<1>13. boost.engaged => nb = 1
  BY <1>5, <1>8
<1>14. Len(list) \in 3..5 /\ (nb = 1 => Len(list) >= 4)
  BY <1>8
<1> QED
  BY <1>7, <1>9, <1>10, <1>12, <1>13, <1>14 DEF list

\* Recovery restores what the record says and always ends the immersion heater.
LEMMA RecoveryEnd ==
    ASSUME NEW boost \in Boosts
    PROVE  LET list == RecoverySteps(boost)
           IN  /\ list \in Seq(Steps) /\ Len(list) \in 4..5
               /\ FromEnd(list, 1) = Step("override", "none")
               /\ FromEnd(list, 2) = Step("sg", "Normal")
               /\ boost.prior # "none" =>
                    Len(list) = 5 /\ FromEnd(list, 3) = Step("engage", boost.prior)
               /\ \A i \in 3..Len(list) :
                    \/ FromEnd(list, i) \in {Step("timer", "off"), Step("kw", "off")}
                    \/ /\ boost.prior # "none" /\ i = 3
                       /\ FromEnd(list, i) = Step("engage", boost.prior)
               /\ FromEnd(list, Len(list) - 1) = Step("kw", "off")
               /\ boost.prior = "none" => Len(list) = 4
<1> DEFINE a == <<Step("timer", "off"), Step("kw", "off")>>
           b == Optional(boost.prior # "none", Step("engage", boost.prior))
           c == <<Step("sg", "Normal"), Step("override", "none")>>
           list == RecoverySteps(boost)
<1>1. a \in Seq(Steps) /\ b \in Seq(Steps) /\ c \in Seq(Steps)
  BY StepKinds, RestoreTyped
<1>2. list = (a \o b) \o c
  BY DEF RecoverySteps
<1>3. /\ Len(a) = 2 /\ FromEnd(a, 1) = Step("kw", "off")
      /\ FromEnd(a, 2) = Step("timer", "off")
      /\ Len(c) = 2 /\ FromEnd(c, 1) = Step("override", "none")
      /\ FromEnd(c, 2) = Step("sg", "Normal")
  BY EndOfShort
<1>4. /\ boost.prior # "none" => Len(b) = 1 /\ FromEnd(b, 1) = Step("engage", boost.prior)
      /\ boost.prior = "none" => Len(b) = 0
  <2>1. (boost.prior # "none") \in BOOLEAN
    OBVIOUS
  <2> QED
    BY <2>1, EndOfOptional
<1> HIDE DEF a, b, c, list
<1>5. /\ list \in Seq(Steps) /\ Len(list) = Len(a) + Len(b) + Len(c)
      /\ \A i \in 1..Len(c) : FromEnd(list, i) = FromEnd(c, i)
      /\ \A i \in 1..Len(b) : FromEnd(list, Len(c) + i) = FromEnd(b, i)
      /\ \A i \in 1..Len(a) : FromEnd(list, Len(c) + Len(b) + i) = FromEnd(a, i)
  BY <1>1, <1>2, EndOfThree
<1>6. PICK nb \in Nat : /\ nb = Len(b) /\ nb <= 1 /\ Len(list) = 4 + nb
                        /\ (nb = 1 <=> boost.prior # "none")
  <2>1. PICK nb \in Nat : nb = Len(b)
    BY <1>1
  <2>2. nb <= 1 /\ (nb = 1 <=> boost.prior # "none")
    BY <1>4, <2>1
  <2>3. Len(list) = 4 + nb
    BY <1>3, <1>5, <2>1
  <2> QED
    BY <2>1, <2>2, <2>3
<1>7. /\ FromEnd(list, 1) = Step("override", "none")
      /\ FromEnd(list, 2) = Step("sg", "Normal")
  <2>1. 1 \in 1..Len(c) /\ 2 \in 1..Len(c)
    BY <1>3
  <2> QED
    BY <1>3, <1>5, <2>1
<1>8. /\ FromEnd(list, nb + 3) = Step("kw", "off")
      /\ FromEnd(list, nb + 4) = Step("timer", "off")
  <2>1. 1 \in 1..Len(a) /\ 2 \in 1..Len(a)
    BY <1>3
  <2>2. /\ FromEnd(list, 2 + nb + 1) = FromEnd(a, 1)
        /\ FromEnd(list, 2 + nb + 2) = FromEnd(a, 2)
    BY <1>3, <1>5, <1>6, <2>1
  <2>3. 2 + nb + 1 = nb + 3 /\ 2 + nb + 2 = nb + 4
    OBVIOUS
  <2> QED
    BY <1>3, <2>2, <2>3
<1>9. nb = 1 => FromEnd(list, 3) = Step("engage", boost.prior)
  <2> SUFFICES ASSUME nb = 1 PROVE FromEnd(list, 3) = Step("engage", boost.prior)
    OBVIOUS
  <2>1. FromEnd(b, 1) = Step("engage", boost.prior)
    BY <1>4, <1>6
  <2>2. 1 \in 1..Len(b)
    BY <1>6
  <2>3. FromEnd(list, 2 + 1) = FromEnd(b, 1)
    BY <1>3, <1>5, <2>2
  <2> QED
    BY <2>1, <2>3
<1>10. ASSUME NEW i \in 3..Len(list)
       PROVE  \/ FromEnd(list, i) \in {Step("timer", "off"), Step("kw", "off")}
              \/ /\ boost.prior # "none" /\ i = 3
                 /\ FromEnd(list, i) = Step("engage", boost.prior)
  <2>1. i \in Nat /\ 3 <= i /\ i <= 4 + nb
    BY <1>6
  <2>2. i = nb + 3 \/ i = nb + 4 \/ (nb = 1 /\ i = 3)
    BY <1>6, <2>1
  <2> QED
    BY <1>6, <1>8, <1>9, <2>2
<1>11. /\ Len(list) \in 4..5 /\ Len(list) - 1 = nb + 3
       /\ boost.prior # "none" => Len(list) = 5
       /\ boost.prior = "none" => Len(list) = 4
  BY <1>6
<1> QED
  BY <1>5, <1>6, <1>7, <1>8, <1>9, <1>10, <1>11 DEF list

-----------------------------------------------------------------------------
(* The handler and its list. *)

HandlerShape ==
    /\ h.kind = "none" => h.steps = <<>> /\ ~h.waiting
    /\ h.kind \in {"showerRead", "bathRead"} => h.steps = <<Step("read", "none")>>
    /\ h.kind = "shower" => IsRest(h.steps, ShowerSteps)
    /\ h.kind = "bathApply" => IsRest(h.steps, ApplySteps(h.prior, h.low))
    /\ h.kind = "rollback" => IsRest(h.steps, RollbackSteps(h.prior))
    /\ h.kind = "recover" => IsRest(h.steps, RecoverySteps(file)) /\ file.preset # "none"
    /\ h.kind \in {"cancel", "bathDone"} =>
         \E reason \in Reasons : IsRest(h.steps, StopSteps(state, reason))

\* Which handler runs in which boost, and which watcher.
Presets ==
    /\ h.kind \notin {"none", "cancel", "bathDone"} => state.preset = "none"
    /\ h.kind \in {"cancel", "bathDone"} => state.preset = "Bath"
    /\ bath.pc # "off" => state.preset = "Bath" /\ h.kind \in {"none", "cancel"}
    /\ shower # "off" <=> state.preset = "Shower"
    /\ events # <<>> => bath.pc # "off"
    /\ limits.orderly => h.kind # "cancel"
    /\ h.kind = "recover" => limits.crashes < MaxCrashes
    /\ state.preset = "none" => state = NoBoost
    /\ state.preset = "Shower" => state = ShowerBoost
    /\ state.preset = "Bath" => state.prior \in Temps

ShapeInv == HandlerShape /\ Presets

\* The step a handler is at follows from how many it has left.
Left == Len(h.steps)

LEMMA ShowerAt ==
    ASSUME DhwInv, HandlerShape, h.steps # <<>>, h.kind = "shower"
    PROVE  \/ Left = 2 /\ Head(h.steps) = Step("override", "off")
           \/ Left = 1 /\ Head(h.steps) = Step("timer", "on")
<1>1. h.steps \in Seq(Steps) /\ IsRest(h.steps, ShowerSteps)
  BY DEF DhwInv, TypeOK, Handlers, HandlerShape
<1>2. Left \in Nat /\ Left >= 1 /\ Head(h.steps) = FromEnd(h.steps, Left)
  BY <1>1, WorkedOff DEF Left
<1>3. Left <= 2 /\ FromEnd(h.steps, Left) = FromEnd(ShowerSteps, Left)
  BY <1>1, <1>2, ShowerEnd DEF IsRest, Left
<1>4. Left = 1 \/ Left = 2
  BY <1>2, <1>3
<1> QED
  BY <1>2, <1>3, <1>4, ShowerEnd

LEMMA ApplyAt ==
    ASSUME DhwInv, HandlerShape, h.steps # <<>>, h.kind = "bathApply",
           NEW all \in Nat, all = Len(ApplySteps(h.prior, h.low))
    PROVE  /\ 1 <= Left /\ Left <= all /\ 3 <= all
           /\ \/ Left = all /\ Head(h.steps) = Step("override", "off")
              \/ Left = all - 1 /\ Head(h.steps) = Step("sg", "Overcapacity")
              \/ /\ Left <= all - 2 /\ ~(h.low /\ Left = 1)
                 /\ Head(h.steps) \in {Step("engage", "boost"), Step("timer", "on")}
              \/ /\ Left <= all - 2 /\ h.low /\ Left = 1
                 /\ Head(h.steps) = Step("kw", "on")
<1>1. /\ h.steps \in Seq(Steps) /\ IsRest(h.steps, ApplySteps(h.prior, h.low))
      /\ h.prior \in Temps /\ h.low \in BOOLEAN
  BY DEF DhwInv, TypeOK, PriorRead, Handlers, HandlerShape
<1> DEFINE list == ApplySteps(h.prior, h.low)
<1>2. Left \in Nat /\ Left >= 1 /\ Head(h.steps) = FromEnd(h.steps, Left)
  BY <1>1, WorkedOff DEF Left
<1>3. Left <= all /\ FromEnd(h.steps, Left) = FromEnd(list, Left)
  BY <1>1, <1>2 DEF IsRest, Left
<1>4. /\ 3 <= all
      /\ FromEnd(list, all) = Step("override", "off")
      /\ FromEnd(list, all - 1) = Step("sg", "Overcapacity")
      /\ h.low => FromEnd(list, 1) = Step("kw", "on")
      /\ \A i \in 1..(all - 2) :
           \/ FromEnd(list, i) \in {Step("engage", "boost"), Step("timer", "on")}
           \/ h.low /\ i = 1 /\ FromEnd(list, i) = Step("kw", "on")
  <2>1. /\ Len(list) \in 3..5
        /\ FromEnd(list, Len(list)) = Step("override", "off")
        /\ FromEnd(list, Len(list) - 1) = Step("sg", "Overcapacity")
        /\ h.low => FromEnd(list, 1) = Step("kw", "on")
        /\ \A i \in 1..(Len(list) - 2) :
             \/ FromEnd(list, i) \in {Step("engage", "boost"), Step("timer", "on")}
             \/ h.low /\ i = 1 /\ FromEnd(list, i) = Step("kw", "on")
    BY <1>1, ApplyEnd
  <2>2. all \in 3..5 /\ all = Len(list)
    BY <2>1
  <2> HIDE DEF list
  <2>3. 3 <= all
    BY <2>2
  <2> QED
    BY <2>1, <2>2, <2>3
<1> HIDE DEF list
<1>5. Left = all \/ Left = all - 1 \/ Left \in 1..(all - 2)
  BY <1>2, <1>3
<1>6. CASE Left = all \/ Left = all - 1
  BY <1>2, <1>3, <1>4, <1>6
<1>7. CASE Left \in 1..(all - 2)
  <2>1. Left <= all - 2
    BY <1>7
  <2>2. CASE h.low /\ Left = 1
    BY <1>2, <1>3, <1>4, <2>1, <2>2
  <2>3. CASE ~(h.low /\ Left = 1)
    <3>1. FromEnd(list, Left) \in {Step("engage", "boost"), Step("timer", "on")}
      BY <1>4, <1>7, <2>3
    <3> QED
      BY <1>2, <1>3, <1>4, <2>1, <2>3, <3>1
  <2> QED
    BY <2>2, <2>3
<1> QED
  BY <1>5, <1>6, <1>7

LEMMA RollbackAt ==
    ASSUME DhwInv, HandlerShape, h.steps # <<>>, h.kind = "rollback"
    PROVE  \/ Left = 5 /\ Head(h.steps) = Step("timer", "off")
           \/ Left = 4 /\ Head(h.steps) = Step("kw", "off")
           \/ Left = 3 /\ Head(h.steps) = Step("engage", h.prior)
           \/ Left = 2 /\ Head(h.steps) = Step("sg", "Normal")
           \/ Left = 1 /\ Head(h.steps) = Step("override", "none")
<1>1. /\ h.steps \in Seq(Steps) /\ IsRest(h.steps, RollbackSteps(h.prior))
      /\ h.prior \in Temps
  BY DEF DhwInv, TypeOK, PriorRead, Handlers, HandlerShape
<1>2. Left \in Nat /\ Left >= 1 /\ Head(h.steps) = FromEnd(h.steps, Left)
  BY <1>1, WorkedOff DEF Left
<1>3. Left <= 5 /\ FromEnd(h.steps, Left) = FromEnd(RollbackSteps(h.prior), Left)
  <2>1. /\ Left <= Len(RollbackSteps(h.prior))
        /\ FromEnd(h.steps, Left) = FromEnd(RollbackSteps(h.prior), Left)
    BY <1>1, <1>2 DEF IsRest, Left
  <2>2. Len(RollbackSteps(h.prior)) = 5
    BY <1>1, RollbackEnd
  <2> QED
    BY <1>2, <2>1, <2>2
<1>4. Left = 1 \/ Left = 2 \/ Left = 3 \/ Left = 4 \/ Left = 5
  <2>1. Left <= 5
    BY <1>3
  <2> QED
    BY <1>2, <2>1
<1>5. /\ FromEnd(RollbackSteps(h.prior), 1) = Step("override", "none")
      /\ FromEnd(RollbackSteps(h.prior), 2) = Step("sg", "Normal")
      /\ FromEnd(RollbackSteps(h.prior), 3) = Step("engage", h.prior)
      /\ FromEnd(RollbackSteps(h.prior), 4) = Step("kw", "off")
      /\ FromEnd(RollbackSteps(h.prior), 5) = Step("timer", "off")
  BY <1>1, RollbackEnd
<1> QED
  BY <1>2, <1>3, <1>4, <1>5

LEMMA RecoveryAt ==
    ASSUME DhwInv, HandlerShape, h.steps # <<>>, h.kind = "recover"
    PROVE  \/ Left = 1 /\ Head(h.steps) = Step("override", "none")
           \/ Left = 2 /\ Head(h.steps) = Step("sg", "Normal")
           \/ /\ Left = 3 /\ file.prior # "none"
              /\ Head(h.steps) = Step("engage", file.prior)
           \/ /\ Left >= 3 /\ (file.prior # "none" => Left >= 4)
              /\ Head(h.steps) \in {Step("timer", "off"), Step("kw", "off")}
<1>1. /\ h.steps \in Seq(Steps) /\ IsRest(h.steps, RecoverySteps(file))
      /\ file \in Boosts
  BY DEF DhwInv, TypeOK, Handlers, HandlerShape
<1> DEFINE list == RecoverySteps(file)
<1>2. Left \in Nat /\ Left >= 1 /\ Head(h.steps) = FromEnd(h.steps, Left)
  BY <1>1, WorkedOff DEF Left
<1>3. /\ FromEnd(list, 1) = Step("override", "none")
      /\ FromEnd(list, 2) = Step("sg", "Normal")
      /\ file.prior # "none" => FromEnd(list, 3) = Step("engage", file.prior)
      /\ \A i \in 3..Len(list) :
           \/ FromEnd(list, i) \in {Step("timer", "off"), Step("kw", "off")}
           \/ /\ file.prior # "none" /\ i = 3
              /\ FromEnd(list, i) = Step("engage", file.prior)
      /\ Len(list) \in Nat
  BY <1>1, RecoveryEnd
<1> HIDE DEF list
<1>4. Left <= Len(list) /\ FromEnd(h.steps, Left) = FromEnd(list, Left)
  BY <1>1, <1>2 DEF IsRest, Left, list
<1>5. CASE Left <= 2
  <2>1. Left = 1 \/ Left = 2
    BY <1>2, <1>5
  <2> QED
    BY <1>2, <1>3, <1>4, <2>1
<1>6. CASE ~(Left <= 2)
  <2>1. Left \in 3..Len(list)
    BY <1>2, <1>3, <1>4, <1>6
  <2>2. CASE file.prior # "none" /\ Left = 3
    BY <1>2, <1>3, <1>4, <2>2
  <2>3. CASE ~(file.prior # "none" /\ Left = 3)
    <3>1. FromEnd(list, Left) \in {Step("timer", "off"), Step("kw", "off")}
      BY <1>3, <2>1, <2>3
    <3>2. Left >= 3 /\ (file.prior # "none" => Left >= 4)
      BY <1>2, <2>1, <2>3
    <3> QED
      BY <1>2, <1>4, <3>1, <3>2
  <2> QED
    BY <2>2, <2>3
<1> QED
  BY <1>5, <1>6

LEMMA StopAt ==
    ASSUME DhwInv, ShapeInv, h.steps # <<>>, h.kind \in {"cancel", "bathDone"}
    PROVE  \/ Left = 1 /\ Head(h.steps) = Step("override", "none")
           \/ Left = 2 /\ Head(h.steps) = Step("sg", "Normal")
           \/ Left = 3 /\ Head(h.steps) = Step("engage", state.prior)
           \/ /\ Left >= 4
              /\ Head(h.steps) \in {Step("timer", "off"), Step("kw", "off")}
<1>1. PICK reason \in Reasons : IsRest(h.steps, StopSteps(state, reason))
  BY DEF ShapeInv, HandlerShape
<1>2. h.steps \in Seq(Steps) /\ state \in Boosts /\ state.prior \in Temps
  BY DEF DhwInv, TypeOK, Handlers, ShapeInv, Presets
<1> DEFINE list == StopSteps(state, reason)
<1>3. Left \in Nat /\ Left >= 1 /\ Head(h.steps) = FromEnd(h.steps, Left)
  BY <1>2, WorkedOff DEF Left
<1>4. /\ FromEnd(list, 1) = Step("override", "none")
      /\ FromEnd(list, 2) = Step("sg", "Normal")
      /\ FromEnd(list, 3) = Step("engage", state.prior)
      /\ \A i \in 4..Len(list) :
           FromEnd(list, i) \in {Step("timer", "off"), Step("kw", "off")}
      /\ Len(list) \in Nat
  BY <1>2, StopEnd
<1> HIDE DEF list
<1>5. Left <= Len(list) /\ FromEnd(h.steps, Left) = FromEnd(list, Left)
  BY <1>1, <1>3 DEF IsRest, Left, list
<1>6. Left = 1 \/ Left = 2 \/ Left = 3 \/ Left \in 4..Len(list)
  BY <1>3, <1>4, <1>5
<1>7. CASE Left \in {1, 2, 3}
  BY <1>3, <1>4, <1>5, <1>7
<1>8. CASE Left \in 4..Len(list)
  <2>1. Left >= 4
    BY <1>8
  <2> QED
    BY <1>3, <1>4, <1>5, <1>8, <2>1
<1> QED
  BY <1>6, <1>7, <1>8

\* What the handler becomes when a step worked and when it failed.
Advances ==
    /\ h'.kind = h.kind /\ h'.prior = h.prior /\ h'.low = h.low /\ ~h'.waiting
    /\ h'.steps = Tail(h.steps)

Starting(kind, steps) == h'.kind = kind /\ h'.steps = steps /\ ~h'.waiting

LEMMA Succeeds ==
    ASSUME DhwInv, h.steps # <<>>, h' \in AfterSuccess
    PROVE  \/ h.kind = "showerRead" /\ (h' = Idle \/ Starting("shower", ShowerSteps))
           \/ /\ h.kind = "bathRead" /\ h'.prior = heater.engage /\ h'.low = h.low
              /\ Starting("bathApply", ApplySteps(h'.prior, h'.low))
           \/ h.kind \notin {"showerRead", "bathRead"} /\ Advances
<1>1. h \in Handlers /\ heater.engage \in Temps
  BY DEF DhwInv, TypeOK, Registers
<1>2. CASE h.kind = "showerRead"
  <2>1. h' = Idle \/ h' = Starts("shower", ShowerSteps)
    BY <1>2 DEF AfterSuccess
  <2>2. "shower" \in Kinds
    BY DEF Kinds
  <2> QED
    BY <1>2, <2>1, <2>2, StartsTyped, ShowerTyped DEF Starting
<1>3. CASE h.kind = "bathRead"
  <2> DEFINE a == Starts("bathApply", ApplySteps(heater.engage, h.low))
  <2>1. /\ a \in Handlers /\ ~a.waiting /\ a.kind = "bathApply"
        /\ a.steps = ApplySteps(heater.engage, h.low)
    BY <1>1, <1>3, StartsTyped, ApplyTyped DEF Kinds, Handlers
  <2>2. h' = [a EXCEPT !.prior = heater.engage, !.low = h.low]
    BY <1>3 DEF AfterSuccess
  <2> HIDE DEF a
  <2>3. /\ h'.kind = a.kind /\ h'.steps = a.steps /\ h'.waiting = a.waiting
        /\ h'.prior = heater.engage /\ h'.low = h.low
    BY <2>1, <2>2 DEF Handlers
  <2> QED
    BY <1>3, <2>1, <2>3 DEF Starting
<1>4. CASE h.kind \notin {"showerRead", "bathRead"}
  <2>1. h' = [h EXCEPT !.steps = Tail(@), !.waiting = FALSE]
    BY <1>4 DEF AfterSuccess
  <2> QED
    BY <1>1, <1>4, <2>1 DEF Advances, Handlers
<1> QED
  BY <1>2, <1>3, <1>4

LEMMA Fails ==
    ASSUME DhwInv, h.steps # <<>>, h' = AfterError
    PROVE  \/ /\ h.kind = "bathApply" /\ h'.prior = h.prior
              /\ Starting("rollback", RollbackSteps(h'.prior))
           \/ h.kind = "rollback" /\ Advances
           \/ h.kind \notin {"bathApply", "rollback"} /\ h' = Idle
<1>1. h \in Handlers /\ (h.kind = "bathApply" => h.prior \in Temps)
  BY DEF DhwInv, TypeOK, PriorRead
<1>2. CASE h.kind = "bathApply"
  <2> DEFINE a == Starts("rollback", RollbackSteps(h.prior))
  <2>1. /\ a \in Handlers /\ ~a.waiting /\ a.kind = "rollback"
        /\ a.steps = RollbackSteps(h.prior)
    BY <1>1, <1>2, StartsTyped, RollbackTyped DEF Kinds
  <2>2. h' = [a EXCEPT !.prior = h.prior]
    BY <1>2 DEF AfterError
  <2> HIDE DEF a
  <2>3. /\ h'.kind = a.kind /\ h'.steps = a.steps /\ h'.waiting = a.waiting
        /\ h'.prior = h.prior
    BY <2>1, <2>2 DEF Handlers
  <2> QED
    BY <1>2, <2>1, <2>3 DEF Starting
<1>3. CASE h.kind = "rollback"
  <2>1. h' = [h EXCEPT !.steps = Tail(@), !.waiting = FALSE]
    BY <1>3 DEF AfterError
  <2> QED
    BY <1>1, <1>3, <2>1 DEF Advances, Handlers
<1>4. CASE h.kind \notin {"bathApply", "rollback"}
  BY <1>4 DEF AfterError
<1> QED
  BY <1>2, <1>3, <1>4

LEMMA IdleIs ==
    Idle.kind = "none" /\ Idle.steps = <<>> /\ ~Idle.waiting /\ Idle.prior = "none"
  BY DEF Idle

\* How a step uses up the bounds.
LEMMA Spent ==
    ASSUME limits \in Limits, IoFails \/ StepFails \/ SaveFails \/ UNCHANGED limits
    PROVE  /\ limits'.crashes = limits.crashes /\ limits'.torn = limits.torn
           /\ limits'.orderly = limits.orderly
           /\ NoIoFailed' => NoIoFailed
           /\ NoSaveFailed' => NoSaveFailed
           /\ IoFails \/ StepFails => ~NoIoFailed'
           /\ SaveFails => ~NoSaveFailed'
           /\ limits.skipped => limits'.skipped
           /\ limits'.skipped => limits.skipped \/ (StepFails /\ h.kind = "rollback")
<1> DEFINE skips == limits.skipped \/ h.kind = "rollback"
           Same  == /\ limits'.crashes = limits.crashes /\ limits'.torn = limits.torn
                    /\ limits'.orderly = limits.orderly
<1>1. /\ limits.io \in 0..MaxIoFaults /\ limits.saves \in 0..MaxSaveFaults
      /\ limits.skipped \in BOOLEAN
  BY DEF Limits
<1>2. IoFails => /\ Same /\ limits'.saves = limits.saves
                 /\ limits'.io = limits.io - 1 /\ limits'.skipped = limits.skipped
  BY DEF Limits, IoFails
<1>3. StepFails => /\ Same /\ limits'.saves = limits.saves
                   /\ limits'.io = limits.io - 1 /\ limits'.skipped = skips
  <2>1. StepFails => limits' = [limits EXCEPT !.io = @ - 1, !.skipped = skips]
    BY DEF StepFails
  <2> HIDE DEF skips
  <2> QED
    BY <2>1 DEF Limits
<1>4. SaveFails => /\ Same /\ limits'.saves = limits.saves - 1
                   /\ limits'.io = limits.io /\ limits'.skipped = limits.skipped
  BY DEF Limits, SaveFails
<1> HIDE DEF skips, Same
<1>5. UNCHANGED limits => ~IoFails /\ ~StepFails /\ ~SaveFails
  BY <1>1, <1>2, <1>3, <1>4
<1>6. SaveFails => ~IoFails /\ ~StepFails
  BY <1>1, <1>2, <1>3, <1>4
<1>7. IoFails \/ StepFails =>
        Same /\ ~NoIoFailed' /\ (NoSaveFailed' => NoSaveFailed)
  BY <1>1, <1>2, <1>3 DEF NoIoFailed, NoSaveFailed
<1>8. SaveFails => Same /\ ~NoSaveFailed' /\ (NoIoFailed' => NoIoFailed)
  BY <1>1, <1>4 DEF NoIoFailed, NoSaveFailed
<1>9. UNCHANGED limits =>
        Same /\ (NoIoFailed' => NoIoFailed) /\ (NoSaveFailed' => NoSaveFailed)
  BY DEF NoIoFailed, NoSaveFailed, Same
<1>10. /\ limits.skipped => limits'.skipped
       /\ limits'.skipped => limits.skipped \/ (StepFails /\ h.kind = "rollback")
  BY <1>2, <1>3, <1>4 DEF skips
<1> QED
  BY <1>5, <1>6, <1>7, <1>8, <1>9, <1>10 DEF Same

LEMMA EachSpends ==
    ASSUME [Next]_vars
    PROVE  Crash \/ IoFails \/ StepFails \/ SaveFails \/ UNCHANGED limits
<1>1. ASSUME NEW boost, Save(boost) PROVE SaveFails \/ UNCHANGED limits
  BY <1>1 DEF Save
<1>2. CASE Commands
  BY <1>1, <1>2 DEF Commands, StartShower, StartBath, Cancel, ShutdownSave
<1>3. CASE HandlerSteps
  BY <1>1, <1>3
  DEF HandlerSteps, SendRequest, SetSmartGrid, SetOverride, FinishRecovery,
      FinishShowerStart, FinishBathStart, FinishRollback, FinishCancel, FinishBathDone
<1>4. CASE Serve
  BY <1>4 DEF Serve, ServeActor, ServeWatcher, ServeNobody
<1>5. CASE News
  BY <1>1, <1>5 DEF News, OnShowerDone, OnBathEvent, OnBathDone
<1>6. CASE Tick \/ ShowerWatcherFires \/ BathExpires \/ WatcherReports \/ HeaterTimerElapses
  BY <1>6
  DEF Tick, GateCrosses, BathTriggers, ShowerWatcherFires, BathExpires, WatcherReports,
      HeaterTimerElapses
<1>7. CASE ActorGivesUp \/ WatcherGivesUp
  BY <1>7 DEF ActorGivesUp, WatcherGivesUp
<1> QED
  BY <1>2, <1>3, <1>4, <1>5, <1>6, <1>7 DEF Next, vars

-----------------------------------------------------------------------------
(* Every step keeps the shape. *)

LEMMA ShapeStarts ==
    ASSUME NEW S, NEW list \in Seq(S), NEW kind, Starting(kind, list)
    PROVE  IsRest(h'.steps, list)
  BY RestOfAll DEF Starting

\* A handler that moves on stays on its list.
LEMMA ShapeMoves ==
    ASSUME DhwInv, ShapeInv, h.steps # <<>>, h' \in AfterSuccess \/ h' = AfterError,
           UNCHANGED <<file, state>>
    PROVE  HandlerShape'
<1>1. /\ h \in Handlers /\ heater.engage \in Temps /\ file \in Boosts /\ state \in Boosts
      /\ h.steps \in Seq(Steps) /\ h.low \in BOOLEAN
      /\ h.kind \in {"bathApply", "rollback"} => h.prior \in Temps
  BY DEF DhwInv, TypeOK, Registers, Handlers, PriorRead
<1>2. CASE h' = Idle
  BY <1>2, IdleIs DEF HandlerShape
<1>3. CASE Starting("shower", ShowerSteps)
  BY <1>3, ShowerTyped, ShapeStarts DEF HandlerShape, Starting
<1>4. CASE h'.prior \in Temps /\ h'.low \in BOOLEAN
           /\ Starting("bathApply", ApplySteps(h'.prior, h'.low))
  <2>1. ApplySteps(h'.prior, h'.low) \in Seq(Steps)
    BY <1>4, ApplyTyped
  <2>2. IsRest(h'.steps, ApplySteps(h'.prior, h'.low))
    BY <1>4, <2>1, ShapeStarts
  <2> QED
    BY <1>4, <2>2 DEF HandlerShape, Starting
<1>5. CASE h'.prior \in Temps /\ Starting("rollback", RollbackSteps(h'.prior))
  <2>1. RollbackSteps(h'.prior) \in Seq(Steps)
    BY <1>5, RollbackTyped
  <2>2. IsRest(h'.steps, RollbackSteps(h'.prior))
    BY <1>5, <2>1, ShapeStarts
  <2> QED
    BY <1>5, <2>2 DEF HandlerShape, Starting
<1>6. CASE Advances /\ h.kind \notin {"showerRead", "bathRead"}
  <2>1. /\ h'.kind = h.kind /\ h'.prior = h.prior /\ h'.low = h.low
        /\ h'.steps = Tail(h.steps) /\ h.kind # "none"
    BY <1>6 DEF Advances, ShapeInv, HandlerShape
  <2>2. ASSUME NEW list \in Seq(Steps), IsRest(h.steps, list) PROVE IsRest(h'.steps, list)
    BY <1>1, <2>1, <2>2, RestOfRest
  <2>3. CASE h.kind = "shower"
    BY <2>1, <2>2, <2>3, ShowerTyped DEF HandlerShape, ShapeInv
  <2>4. CASE h.kind = "bathApply"
    BY <1>1, <2>1, <2>2, <2>4, ApplyTyped DEF HandlerShape, ShapeInv
  <2>5. CASE h.kind = "rollback"
    BY <1>1, <2>1, <2>2, <2>5, RollbackTyped DEF HandlerShape, ShapeInv
  <2>6. CASE h.kind = "recover"
    BY <1>1, <2>1, <2>2, <2>6, RecoveryTyped DEF HandlerShape, ShapeInv
  <2>7. CASE h.kind \in {"cancel", "bathDone"}
    <3>1. PICK reason \in Reasons : IsRest(h.steps, StopSteps(state, reason))
      BY <2>7 DEF HandlerShape, ShapeInv
    <3>2. IsRest(h'.steps, StopSteps(state', reason))
      BY <1>1, <2>2, <3>1, StopTyped
    <3> QED
      BY <2>1, <2>7, <3>2 DEF HandlerShape
  <2>8. h.kind \in Kinds
    BY <1>1 DEF Handlers
  <2> QED
    BY <1>6, <2>1, <2>3, <2>4, <2>5, <2>6, <2>7, <2>8 DEF Kinds
<1>7. CASE h' \in AfterSuccess
  BY <1>1, <1>2, <1>3, <1>4, <1>6, <1>7, Succeeds
<1>8. CASE h' = AfterError
  BY <1>1, <1>2, <1>5, <1>6, <1>8, Fails
<1> QED
  BY <1>7, <1>8

LEMMA PresetsMove ==
    ASSUME DhwInv, ShapeInv, h.steps # <<>>, h' \in AfterSuccess \/ h' = AfterError,
           UNCHANGED <<state, bath, shower, events>>,
           limits'.crashes = limits.crashes, limits'.orderly = limits.orderly
    PROVE  Presets'
<1>1. h.kind # "none"
  BY DEF ShapeInv, HandlerShape
<1>2. \/ h'.kind = "none" \/ h'.kind = h.kind
      \/ /\ h.kind \in {"showerRead", "bathRead", "bathApply"}
         /\ h'.kind \in {"shower", "bathApply", "rollback"}
  BY Succeeds, Fails, IdleIs DEF Starting, Advances
<1> QED
  BY <1>1, <1>2 DEF ShapeInv, Presets

\* Nothing the shape speaks of changes but the file, between handlers.
LEMMA ShapeSame ==
    ASSUME ShapeInv, UNCHANGED <<h, state>>, file' = file \/ h.kind # "recover"
    PROVE  HandlerShape'
  BY DEF ShapeInv, HandlerShape

LEMMA ShapeIdle == ASSUME h' = Idle PROVE HandlerShape'
  BY IdleIs DEF HandlerShape

LEMMA StartsIs ==
    ASSUME NEW kind \in Kinds, NEW steps \in Seq(Steps), h' = Starts(kind, steps)
    PROVE  Starting(kind, steps)
  BY StartsTyped DEF Starting

(* The requests on the bus.  At most one is the handler's and at most one  *)
(* the watcher's, and what follows the handler's are immersion writes.     *)

GateWrite == Step("kw", IF bath.engaged THEN "on" ELSE "off")

BusInv ==
    /\ h.waiting => Head(h.steps).reg \in BusRegs
    /\ \A i \in 1..Len(bus) :
         bus[i].who = "actor" => h.waiting /\ bus[i].step = Head(h.steps)
    /\ \A i \in 1..Len(bus) :
         bus[i].who = "watcher" => bath.pc = "queued" /\ bus[i].step = GateWrite
    /\ \A i, j \in 1..Len(bus) :
         i < j /\ bus[i].who # "nobody" => bus[j].who # bus[i].who
    /\ \A i, j \in 1..Len(bus) :
         i < j /\ bus[i].who = "actor" => bus[j].step.reg = "kw"

\* The oldest request, and the others once it is gone.
LEMMA Oldest ==
    ASSUME bus \in Seq(Requests), bus # <<>>
    PROVE  /\ Len(bus) \in Nat /\ 1 \in 1..Len(bus) /\ Head(bus) = bus[1]
           /\ Len(Tail(bus)) = Len(bus) - 1
           /\ \A i \in 1..(Len(bus) - 1) :
                i + 1 \in 1..Len(bus) /\ Tail(bus)[i] = bus[i + 1]
  OBVIOUS

LEMMA BusSame ==
    ASSUME BusInv, UNCHANGED bus,
           \/ h'.waiting = h.waiting /\ h'.steps = h.steps
           \/ ~h.waiting /\ ~h'.waiting,
           bath.pc = "queued" => bath'.pc = "queued" /\ bath'.engaged = bath.engaged
    PROVE  BusInv'
  BY DEF BusInv, GateWrite

\* The one who is served may go on; for the others nothing has changed.
LEMMA BusTail ==
    ASSUME bus \in Seq(Requests), bus # <<>>, BusInv, bus' = Tail(bus),
           \/ h'.waiting = h.waiting /\ h'.steps = h.steps
           \/ Head(bus).who = "actor" /\ ~h'.waiting,
           \/ UNCHANGED bath
           \/ Head(bus).who = "watcher"
    PROVE  BusInv'
<1>1. /\ Len(bus) \in Nat /\ 1 \in 1..Len(bus) /\ Head(bus) = bus[1]
      /\ Len(bus') = Len(bus) - 1
      /\ \A i \in 1..(Len(bus) - 1) : i + 1 \in 1..Len(bus) /\ bus'[i] = bus[i + 1]
  BY Oldest
<1>2. ASSUME NEW i \in 1..Len(bus')
      PROVE  /\ i \in Nat /\ 1 < i + 1
             /\ i + 1 \in 1..Len(bus) /\ bus'[i] = bus[i + 1]
  BY <1>1
<1>3. ASSUME NEW i \in 1..Len(bus'), bus'[i].who = "actor"
      PROVE  h'.waiting /\ bus'[i].step = Head(h'.steps)
  <2>1. bus[i + 1].who = "actor" /\ Head(bus).who # "actor"
    BY <1>1, <1>2, <1>3 DEF BusInv
  <2> QED
    BY <1>2, <2>1 DEF BusInv
<1>4. ASSUME NEW i \in 1..Len(bus'), bus'[i].who = "watcher"
      PROVE  bath'.pc = "queued" /\ bus'[i].step = GateWrite'
  <2>1. bus[i + 1].who = "watcher" /\ Head(bus).who # "watcher"
    BY <1>1, <1>2, <1>4 DEF BusInv
  <2> QED
    BY <1>2, <2>1 DEF BusInv, GateWrite
<1>5. ASSUME NEW i \in 1..Len(bus'), NEW j \in 1..Len(bus'), i < j
      PROVE  /\ bus'[i].who # "nobody" => bus'[j].who # bus'[i].who
             /\ bus'[i].who = "actor" => bus'[j].step.reg = "kw"
  <2>1. i + 1 < j + 1
    BY <1>2, <1>5
  <2> QED
    BY <1>2, <2>1 DEF BusInv
<1>6. h'.waiting => Head(h'.steps).reg \in BusRegs
  BY DEF BusInv
<1> QED
  BY <1>3, <1>4, <1>5, <1>6 DEF BusInv

LEMMA BusDisown ==
    ASSUME bus \in Seq(Requests), BusInv, NEW who \in {"actor", "watcher"}, Disown(who),
           \/ h'.waiting = h.waiting /\ h'.steps = h.steps
           \/ who = "actor" /\ ~h'.waiting
           \/ ~h.waiting /\ ~h'.waiting,
           UNCHANGED bath \/ who = "watcher"
    PROVE  BusInv'
<1>1. Len(bus') = Len(bus)
  BY DEF Disown
<1>2. ASSUME NEW i \in 1..Len(bus)
      PROVE  /\ bus[i].who = who => bus'[i].who = "nobody"
             /\ bus[i].who # who => bus'[i].who = bus[i].who
             /\ bus'[i].step = bus[i].step
  <2>1. bus[i] \in Requests
    OBVIOUS
  <2>2. bus'[i] = IF bus[i].who = who THEN [bus[i] EXCEPT !.who = "nobody"] ELSE bus[i]
    <3>1. i \in DOMAIN bus
      OBVIOUS
    <3> QED
      BY <3>1 DEF Disown
  <2> QED
    BY <2>1, <2>2 DEF Requests
<1>3. /\ \A i \in 1..Len(bus') :
           bus'[i].who = "actor" => h'.waiting /\ bus'[i].step = Head(h'.steps)
      /\ \A i \in 1..Len(bus') :
           bus'[i].who = "watcher" => bath'.pc = "queued" /\ bus'[i].step = GateWrite'
  BY <1>1, <1>2 DEF BusInv, GateWrite
<1>4. /\ \A i, j \in 1..Len(bus') :
           i < j /\ bus'[i].who # "nobody" => bus'[j].who # bus'[i].who
      /\ \A i, j \in 1..Len(bus') :
           i < j /\ bus'[i].who = "actor" => bus'[j].step.reg = "kw"
  BY <1>1, <1>2 DEF BusInv
<1>5. h'.waiting => Head(h'.steps).reg \in BusRegs
  BY DEF BusInv
<1> QED
  BY <1>3, <1>4, <1>5 DEF BusInv

LEMMA Newest ==
    ASSUME bus \in Seq(Requests), NEW r, bus' = Append(bus, r)
    PROVE  /\ Len(bus) \in Nat /\ Len(bus') = Len(bus) + 1 /\ bus'[Len(bus) + 1] = r
           /\ \A i \in 1..Len(bus') :
                /\ i \in Nat
                /\ i \in 1..Len(bus) \/ i = Len(bus) + 1
                /\ i \in 1..Len(bus) => i < Len(bus) + 1 /\ bus'[i] = bus[i]
  OBVIOUS

LEMMA BusStep == DhwInv /\ ShapeInv /\ BusInv /\ [Next]_vars => BusInv'
<1> SUFFICES ASSUME DhwInv, ShapeInv, BusInv, [Next]_vars PROVE BusInv'
  OBVIOUS
<1>0. /\ bus \in Seq(Requests) /\ h \in Handlers /\ bath \in BathWatchers
      /\ h.steps = <<>> => ~h.waiting
      /\ h.kind = "none" => ~h.waiting /\ h.steps = <<>>
  BY DEF DhwInv, TypeOK, ShapeInv, HandlerShape, PriorRead
<1>r. <<Step("read", "none")>> \in Seq(Steps) /\ {"showerRead", "bathRead"} \subseteq Kinds
  BY StepKinds DEF Kinds
<1>1. CASE StartShower
  <2>1. ~h'.waiting
    BY <1>1, <1>r, StartsIs DEF StartShower, Starting
  <2> QED
    BY <1>0, <1>1, <2>1, BusSame DEF StartShower, AtRest
<1>2. ASSUME NEW low \in BOOLEAN, StartBath(low) PROVE BusInv'
  <2> DEFINE a == Starts("bathRead", <<Step("read", "none")>>)
  <2>1. a \in Handlers /\ ~a.waiting
    BY <1>r, StartsTyped
  <2>2. h' = [a EXCEPT !.low = low]
    BY <1>2 DEF StartBath
  <2> HIDE DEF a
  <2>3. ~h'.waiting
    BY <2>1, <2>2 DEF Handlers
  <2> QED
    BY <1>0, <1>2, <2>3, BusSame DEF StartBath, AtRest
<1>3. CASE Cancel
  <2>1. "cancel" \in Kinds /\ StopSteps(state, "Manual") \in Seq(Steps)
    BY StopTyped DEF Kinds, Reasons, DhwInv, TypeOK
  <2>2. ~h'.waiting
    BY <1>3, <2>1, StartsIs DEF Cancel, Starting
  <2> QED
    BY <1>0, <1>3, <2>2, BusSame DEF Cancel, AtRest
<1>4. CASE ShutdownSave \/ HeaterTimerElapses \/ ShowerWatcherFires \/ OnShowerDone
           \/ OnBathEvent \/ UNCHANGED vars
  BY <1>4, BusSame
  DEF ShutdownSave, HeaterTimerElapses, ShowerWatcherFires, OnShowerDone, OnBathEvent, vars
<1>5. CASE SendRequest
  <2> DEFINE r == [who |-> "actor", step |-> Head(h.steps)]
  <2>1. /\ Len(bus) \in Nat /\ Len(bus') = Len(bus) + 1 /\ bus'[Len(bus) + 1] = r
        /\ \A i \in 1..Len(bus') :
             /\ i \in Nat
             /\ i \in 1..Len(bus) \/ i = Len(bus) + 1
             /\ i \in 1..Len(bus) => i < Len(bus) + 1 /\ bus'[i] = bus[i]
    BY <1>0, <1>5, Newest DEF SendRequest
  <2>2. /\ ~h.waiting /\ Head(h.steps).reg \in BusRegs /\ h'.waiting
        /\ h'.steps = h.steps /\ UNCHANGED bath
    BY <1>0, <1>5 DEF SendRequest, NextStepIn, Handlers
  <2>3. r.who = "actor" /\ r.step = Head(h.steps)
    OBVIOUS
  <2> HIDE DEF r
  <2>4. \A i \in 1..Len(bus) : bus[i].who # "actor"
    BY <2>2 DEF BusInv
  <2>5. /\ \A i \in 1..Len(bus') :
             bus'[i].who = "actor" => h'.waiting /\ bus'[i].step = Head(h'.steps)
        /\ \A i \in 1..Len(bus') :
             bus'[i].who = "watcher" => bath'.pc = "queued" /\ bus'[i].step = GateWrite'
    BY <2>1, <2>2, <2>3 DEF BusInv, GateWrite
  <2>6. ASSUME NEW i \in 1..Len(bus'), NEW j \in 1..Len(bus'), i < j
        PROVE  /\ bus'[i].who # "nobody" => bus'[j].who # bus'[i].who
               /\ bus'[i].who = "actor" => bus'[j].step.reg = "kw"
    <3>1. i \in 1..Len(bus) /\ bus'[i] = bus[i]
      BY <2>1, <2>6
    <3>2. CASE j \in 1..Len(bus)
      BY <2>1, <2>6, <3>1, <3>2 DEF BusInv
    <3>3. CASE j = Len(bus) + 1
      BY <2>1, <2>3, <2>4, <3>1, <3>3
    <3> QED
      BY <2>1, <3>2, <3>3
  <2> QED
    BY <2>2, <2>5, <2>6 DEF BusInv
<1>6. CASE SetSmartGrid \/ SetOverride
  <2>1. /\ h.steps # <<>> /\ (h' \in AfterSuccess \/ h' = AfterError)
        /\ UNCHANGED <<bus, bath>> /\ ~h.waiting
    BY <1>6 DEF SetSmartGrid, SetOverride, NextStepIn
  <2>2. ~h'.waiting
    BY <2>1, Succeeds, Fails, IdleIs DEF Starting, Advances
  <2> QED
    BY <2>1, <2>2, BusSame
<1>7. CASE ServeActor
  <2>1. /\ bus # <<>> /\ bus' = Tail(bus) /\ Head(bus).who = "actor" /\ h.steps # <<>>
        /\ h' \in AfterSuccess \/ h' = AfterError
        /\ UNCHANGED bath
    BY <1>0, <1>7 DEF ServeActor, Served
  <2>2. ~h'.waiting
    BY <2>1, Succeeds, Fails, IdleIs DEF Starting, Advances
  <2> QED
    BY <1>0, <2>1, <2>2, BusTail
<1>8. CASE ServeWatcher \/ ServeNobody
  BY <1>0, <1>8, BusTail DEF ServeWatcher, ServeNobody, Served
<1>9. CASE ActorGivesUp
  <2>1. h.steps # <<>> /\ h' = AfterError /\ Disown("actor") /\ UNCHANGED bath
    BY <1>0, <1>9 DEF ActorGivesUp
  <2>2. ~h'.waiting
    BY <2>1, Fails, IdleIs DEF Advances, Starting
  <2> QED
    BY <1>0, <2>1, <2>2, BusDisown
<1>10. CASE WatcherGivesUp
  BY <1>0, <1>10, BusDisown DEF WatcherGivesUp
<1>11. CASE FinishRecovery \/ FinishShowerStart \/ FinishRollback \/ FinishBathDone
  <2>1. h.steps = <<>> /\ h' = Idle /\ UNCHANGED <<bus, bath>>
    BY <1>11 DEF FinishRecovery, FinishShowerStart, FinishRollback, FinishBathDone, Ends
  <2> QED
    BY <1>0, <2>1, IdleIs, BusSame
<1>12. CASE FinishBathStart
  <2>1. h.steps = <<>> /\ h' = Idle /\ UNCHANGED bus /\ h.kind = "bathApply"
    BY <1>12 DEF FinishBathStart, Ends
  <2>2. bath.pc = "off"
    BY <2>1 DEF ShapeInv, Presets
  <2> QED
    BY <1>0, <2>1, <2>2, IdleIs, BusSame
<1>13. CASE FinishCancel
  <2>1. h.steps = <<>> /\ h' = Idle /\ Disown("watcher")
    BY <1>13 DEF FinishCancel, Ends, AbortBathWatcher
  <2> QED
    BY <1>0, <2>1, IdleIs, BusDisown
<1>14. CASE BathExpires
  BY <1>0, <1>14, BusSame DEF BathExpires, BathWatchers
<1>15. ASSUME NEW reason \in Reasons, BathTriggers(reason) PROVE BusInv'
  BY <1>15, BusSame DEF BathTriggers, Ticks
<1>16. CASE GateCrosses
  <2> DEFINE r == [who |-> "watcher",
                   step |-> Step("kw", IF bath'.engaged THEN "on" ELSE "off")]
  <2>1. /\ Len(bus) \in Nat /\ Len(bus') = Len(bus) + 1 /\ bus'[Len(bus) + 1] = r
        /\ \A i \in 1..Len(bus') :
             /\ i \in Nat
             /\ i \in 1..Len(bus) \/ i = Len(bus) + 1
             /\ i \in 1..Len(bus) => i < Len(bus) + 1 /\ bus'[i] = bus[i]
    BY <1>0, <1>16, Newest DEF GateCrosses
  <2>2. bath.pc = "wait" /\ bath'.pc = "queued" /\ UNCHANGED h
    BY <1>0, <1>16 DEF GateCrosses, Ticks, BathWatchers
  <2>3. r.who = "watcher" /\ r.step = GateWrite' /\ r.step.reg = "kw"
    BY DEF GateWrite, Step
  <2> HIDE DEF r
  <2>4. \A i \in 1..Len(bus) : bus[i].who # "watcher"
    BY <2>2 DEF BusInv
  <2>5. /\ \A i \in 1..Len(bus') :
             bus'[i].who = "actor" => h'.waiting /\ bus'[i].step = Head(h'.steps)
        /\ \A i \in 1..Len(bus') :
             bus'[i].who = "watcher" => bath'.pc = "queued" /\ bus'[i].step = GateWrite'
    BY <2>1, <2>2, <2>3, <2>4 DEF BusInv
  <2>6. ASSUME NEW i \in 1..Len(bus'), NEW j \in 1..Len(bus'), i < j
        PROVE  /\ bus'[i].who # "nobody" => bus'[j].who # bus'[i].who
               /\ bus'[i].who = "actor" => bus'[j].step.reg = "kw"
    <3>1. i \in 1..Len(bus) /\ bus'[i] = bus[i]
      BY <2>1, <2>6
    <3>2. CASE j \in 1..Len(bus)
      BY <2>1, <2>6, <3>1, <3>2 DEF BusInv
    <3>3. CASE j = Len(bus) + 1
      BY <2>1, <2>3, <2>4, <3>1, <3>3
    <3> QED
      BY <2>1, <3>2, <3>3
  <2>7. h'.waiting => Head(h'.steps).reg \in BusRegs
    BY <2>2 DEF BusInv
  <2> QED
    BY <2>5, <2>6, <2>7 DEF BusInv
<1>17. CASE WatcherReports
  BY <1>17, BusSame DEF WatcherReports
<1>18. CASE OnBathDone
  <2>1. /\ "bathDone" \in Kinds /\ bath.reason \in Reasons
        /\ StopSteps(state, bath.reason) \in Seq(Steps)
    BY <1>0, StopTyped DEF Kinds, BathWatchers, DhwInv, TypeOK
  <2>2. ~h'.waiting
    BY <1>18, <2>1, StartsIs DEF OnBathDone, Starting
  <2> QED
    BY <1>0, <1>18, <2>2, BusSame DEF OnBathDone, AtRest
<1>19. CASE Crash
  <2>1. bus' = <<>>
    BY <1>19 DEF Crash
  <2>2. h' = Idle \/ h' = Starts("recover", RecoverySteps(file))
    BY <1>19 DEF Crash
  <2>3. RecoverySteps(file) \in Seq(Steps) /\ "recover" \in Kinds
    BY RecoveryTyped DEF DhwInv, TypeOK, Kinds
  <2>4. ~h'.waiting
    BY <2>2, <2>3, IdleIs, StartsIs DEF Starting
  <2> QED
    BY <2>1, <2>4 DEF BusInv
<1> QED
  BY <1>1, <1>2, <1>3, <1>4, <1>5, <1>6, <1>7, <1>8, <1>9, <1>10, <1>11, <1>12,
     <1>13, <1>14, <1>15, <1>16, <1>17, <1>18, <1>19
  DEF Next, Commands, HandlerSteps, Serve, News, Tick

LEMMA ShapeStep == DhwInv /\ ShapeInv /\ BusInv /\ [Next]_vars => ShapeInv'
<1> SUFFICES ASSUME DhwInv, ShapeInv, BusInv, [Next]_vars PROVE ShapeInv'
  OBVIOUS
<1>0. /\ TypeOK /\ PriorRead /\ limits \in Limits /\ state \in Boosts /\ file \in Boosts
      /\ h \in Handlers /\ HandlerShape /\ Presets /\ bath \in BathWatchers
      /\ bus \in Seq(Requests)
  BY DEF DhwInv, TypeOK, ShapeInv
<1>s. /\ IoFails \/ StepFails \/ SaveFails \/ UNCHANGED limits =>
           limits'.crashes = limits.crashes /\ limits'.orderly = limits.orderly
      /\ \A boost : Save(boost) => SaveFails \/ UNCHANGED limits
  BY <1>0, Spent DEF Save
<1>1. CASE StartShower
  <2>1. <<Step("read", "none")>> \in Seq(Steps) /\ "showerRead" \in Kinds
    BY StepKinds DEF Kinds
  <2>2. Starting("showerRead", <<Step("read", "none")>>)
    BY <1>1, <2>1, StartsIs DEF StartShower
  <2> QED
    BY <1>0, <1>1, <2>2 DEF StartShower, AtRest, ShapeInv, HandlerShape, Presets, Starting
<1>2. ASSUME NEW low \in BOOLEAN, StartBath(low) PROVE ShapeInv'
  <2> DEFINE a == Starts("bathRead", <<Step("read", "none")>>)
  <2>1. <<Step("read", "none")>> \in Seq(Steps) /\ "bathRead" \in Kinds
    BY StepKinds DEF Kinds
  <2>2. a \in Handlers /\ a.kind = "bathRead" /\ a.steps = <<Step("read", "none")>>
    BY <2>1, StartsTyped
  <2>3. h' = [a EXCEPT !.low = low]
    BY <1>2 DEF StartBath
  <2> HIDE DEF a
  <2>4. h'.kind = "bathRead" /\ h'.steps = <<Step("read", "none")>>
    BY <2>2, <2>3 DEF Handlers
  <2> QED
    BY <1>0, <1>2, <2>4 DEF StartBath, AtRest, ShapeInv, HandlerShape, Presets
<1>3. CASE Cancel
  <2>1. "cancel" \in Kinds /\ "Manual" \in Reasons
    BY DEF Kinds, Reasons
  <2>2. StopSteps(state, "Manual") \in Seq(Steps)
    BY <1>0, <2>1, StopTyped
  <2>3. Starting("cancel", StopSteps(state, "Manual"))
    BY <1>3, <2>1, <2>2, StartsIs DEF Cancel
  <2>4. IsRest(h'.steps, StopSteps(state', "Manual"))
    BY <1>3, <2>2, <2>3, ShapeStarts DEF Cancel
  <2>5. HandlerShape'
    BY <2>1, <2>3, <2>4 DEF HandlerShape, Starting
  <2> QED
    BY <1>0, <1>3, <2>3, <2>5 DEF Cancel, AtRest, ShapeInv, Presets, Starting
<1>4. CASE ShutdownSave
  <2>1. HandlerShape'
    BY <1>4, ShapeSame DEF ShutdownSave, AtRest
  <2> QED
    BY <1>0, <1>4, <1>s, <2>1 DEF ShutdownSave, AtRest, ShapeInv, Presets
<1>5. CASE SendRequest
  <2>1. /\ h'.kind = h.kind /\ h'.steps = h.steps /\ h'.prior = h.prior
        /\ h'.low = h.low /\ h.steps # <<>>
    BY <1>0, <1>5 DEF SendRequest, NextStepIn, Handlers
  <2>2. HandlerShape'
    BY <1>0, <1>5, <2>1 DEF SendRequest, HandlerShape
  <2> QED
    BY <1>0, <1>5, <2>1, <2>2 DEF SendRequest, ShapeInv, Presets
<1>6. CASE SetSmartGrid \/ SetOverride \/ ServeActor \/ ActorGivesUp
  <2>1. /\ h.steps # <<>> /\ (h' \in AfterSuccess \/ h' = AfterError)
        /\ UNCHANGED <<file, state, bath, shower, events>>
        /\ StepFails \/ UNCHANGED limits
    BY <1>0, <1>6
    DEF SetSmartGrid, SetOverride, ServeActor, ActorGivesUp, NextStepIn, PriorRead
  <2>2. HandlerShape'
    BY <2>1, ShapeMoves
  <2>3. limits'.crashes = limits.crashes /\ limits'.orderly = limits.orderly
    BY <1>s, <2>1
  <2> QED
    BY <2>1, <2>2, <2>3, PresetsMove DEF ShapeInv
<1>7. CASE ServeWatcher \/ WatcherGivesUp
  <2>1. bath.pc = "queued"
    <3>1. CASE ServeWatcher
      BY <1>0, <3>1, Oldest DEF ServeWatcher, Served, BusInv
    <3> QED
      BY <1>7, <3>1 DEF WatcherGivesUp
  <2>2. /\ UNCHANGED <<file, state, h, shower, events>>
        /\ IoFails \/ UNCHANGED limits
    BY <1>7 DEF ServeWatcher, WatcherGivesUp
  <2>3. limits'.crashes = limits.crashes /\ limits'.orderly = limits.orderly
    BY <1>s, <2>2
  <2>4. HandlerShape'
    BY <2>2, ShapeSame
  <2>5. bath'.pc # "off"
    BY <1>0, <1>7 DEF ServeWatcher, WatcherGivesUp, BathWatchers
  <2> QED
    BY <1>0, <2>1, <2>2, <2>3, <2>4, <2>5 DEF ShapeInv, Presets
<1>8. CASE ServeNobody \/ HeaterTimerElapses \/ UNCHANGED vars
  <2>1. UNCHANGED <<file, state, h, shower, bath, events, limits>>
    BY <1>8 DEF ServeNobody, HeaterTimerElapses, vars
  <2>2. HandlerShape'
    BY <2>1, ShapeSame
  <2> QED
    BY <1>0, <2>1, <2>2 DEF ShapeInv, Presets
<1>9. CASE FinishRecovery \/ FinishRollback
  <2>1. /\ h' = Idle /\ UNCHANGED <<state, shower, bath, events>>
        /\ h.kind \in {"recover", "rollback"}
        /\ SaveFails \/ UNCHANGED limits
    BY <1>9, <1>s DEF FinishRecovery, FinishRollback, Ends
  <2>2. limits'.crashes = limits.crashes /\ limits'.orderly = limits.orderly
    BY <1>s, <2>1
  <2> QED
    BY <1>0, <2>1, <2>2, ShapeIdle, IdleIs DEF ShapeInv, Presets
<1>10. CASE FinishShowerStart
  <2>1. /\ h' = Idle /\ state' = ShowerBoost /\ shower' = "sleeping"
        /\ UNCHANGED <<bath, events>> /\ h.kind = "shower"
    BY <1>10 DEF FinishShowerStart, Ends
  <2>2. ShowerBoost.preset = "Shower"
    BY DEF ShowerBoost, NoBoost
  <2> QED
    BY <1>0, <2>1, <2>2, ShapeIdle, IdleIs DEF ShapeInv, Presets
<1>11. CASE FinishBathStart
  <2>1. /\ h' = Idle /\ state' = BathBoost(h.prior, h.low) /\ h.prior \in Temps
        /\ UNCHANGED <<shower, events>> /\ h.kind = "bathApply"
        /\ bath' = [NoWatcher EXCEPT !.pc = "wait", !.engaged = h.low]
    BY <1>0, <1>11 DEF FinishBathStart, Ends, PriorRead
  <2>2. /\ BathBoost(h.prior, h.low).preset = "Bath"
        /\ BathBoost(h.prior, h.low).prior = h.prior
    BY DEF BathBoost
  <2>3. bath.pc = "off" /\ shower = "off" /\ events = <<>>
    BY <1>0, <2>1 DEF Presets
  <2> QED
    BY <1>0, <2>1, <2>2, <2>3, ShapeIdle, IdleIs DEF ShapeInv, Presets
<1>12. CASE FinishCancel \/ FinishBathDone
  <2>1. /\ h' = Idle /\ state' = NoBoost /\ UNCHANGED shower
        /\ h.kind \in {"cancel", "bathDone"}
    BY <1>12 DEF FinishCancel, FinishBathDone, Ends
  <2>2. bath'.pc = "off" /\ events' = <<>>
    BY <1>0, <1>12
    DEF FinishCancel, FinishBathDone, Ends, AbortBathWatcher, NoWatcher, Presets
  <2>3. NoBoost.preset = "none"
    BY DEF NoBoost
  <2> QED
    BY <1>0, <2>1, <2>2, <2>3, ShapeIdle, IdleIs DEF ShapeInv, Presets
<1>13. CASE ShowerWatcherFires
  <2>1. HandlerShape'
    BY <1>13, ShapeSame DEF ShowerWatcherFires
  <2> QED
    BY <1>0, <1>13, <2>1 DEF ShowerWatcherFires, ShapeInv, Presets
<1>14. CASE OnShowerDone
  <2>1. /\ UNCHANGED <<h, bath, events>> /\ state' = NoBoost /\ shower' = "off"
        /\ h.kind = "none" /\ state.preset = "Shower"
    BY <1>0, <1>14 DEF OnShowerDone, AtRest, Presets
  <2>2. NoBoost.preset = "none"
    BY DEF NoBoost
  <2>3. HandlerShape'
    BY <1>0, <2>1 DEF HandlerShape
  <2> QED
    BY <1>0, <2>1, <2>2, <2>3 DEF ShapeInv, Presets
<1>15. CASE BathExpires
  <2>1. HandlerShape' /\ bath'.pc = bath.pc
    BY <1>0, <1>15, ShapeSame DEF BathExpires, BathWatchers
  <2> QED
    BY <1>0, <1>15, <2>1 DEF BathExpires, ShapeInv, Presets
<1>16. ASSUME NEW reason \in Reasons, BathTriggers(reason) PROVE ShapeInv'
  <2>1. HandlerShape' /\ bath'.pc = "done"
    BY <1>0, <1>16, ShapeSame DEF BathTriggers, BathWatchers
  <2> QED
    BY <1>0, <1>16, <2>1 DEF BathTriggers, Ticks, ShapeInv, Presets
<1>17. CASE GateCrosses
  <2>1. HandlerShape' /\ bath'.pc = "queued"
    BY <1>0, <1>17, ShapeSame DEF GateCrosses, BathWatchers
  <2> QED
    BY <1>0, <1>17, <2>1 DEF GateCrosses, Ticks, ShapeInv, Presets
<1>18. CASE WatcherReports
  <2>1. HandlerShape' /\ bath'.pc = "wait"
    BY <1>0, <1>18, ShapeSame DEF WatcherReports, BathWatchers
  <2> QED
    BY <1>0, <1>18, <2>1 DEF WatcherReports, ShapeInv, Presets
<1>19. CASE OnBathEvent
  <2>1. /\ state'.preset = state.preset /\ state'.prior = state.prior
        /\ state.preset = "Bath" /\ h.kind = "none" /\ UNCHANGED <<h, bath, shower>>
        /\ events # <<>>
    BY <1>0, <1>19 DEF OnBathEvent, AtRest, Presets, Boosts
  <2>2. limits'.crashes = limits.crashes /\ limits'.orderly = limits.orderly
    BY <1>19, <1>s DEF OnBathEvent
  <2>3. HandlerShape'
    BY <1>0, <2>1 DEF HandlerShape
  <2> QED
    BY <1>0, <2>1, <2>2, <2>3 DEF ShapeInv, Presets
<1>20. CASE OnBathDone
  <2>1. /\ "bathDone" \in Kinds /\ bath.reason \in Reasons
        /\ StopSteps(state, bath.reason) \in Seq(Steps)
    BY <1>0, StopTyped DEF Kinds, BathWatchers
  <2>2. Starting("bathDone", StopSteps(state, bath.reason))
    BY <1>20, <2>1, StartsIs DEF OnBathDone
  <2>3. IsRest(h'.steps, StopSteps(state', bath.reason))
    BY <1>20, <2>1, <2>2, ShapeStarts DEF OnBathDone
  <2>4. HandlerShape'
    BY <2>1, <2>2, <2>3 DEF HandlerShape, Starting
  <2>5. state.preset = "Bath" /\ bath'.pc = "off" /\ events' = <<>>
    BY <1>0, <1>20 DEF OnBathDone, Presets, NoWatcher
  <2> QED
    BY <1>0, <1>20, <2>2, <2>4, <2>5 DEF OnBathDone, ShapeInv, Presets, Starting
<1>21. CASE Crash
  <2>1. /\ state' = NoBoost /\ bath' = NoWatcher /\ shower' = "off" /\ events' = <<>>
        /\ UNCHANGED file
        /\ \/ h' = Idle
           \/ h' = Starts("recover", RecoverySteps(file)) /\ file.preset # "none"
        /\ limits.crashes > 0 /\ limits'.crashes = limits.crashes - 1
    BY <1>21 DEF Crash
  <2>2. NoBoost.preset = "none" /\ NoWatcher.pc = "off"
    BY DEF NoBoost, NoWatcher
  <2>3. RecoverySteps(file) \in Seq(Steps) /\ "recover" \in Kinds
    BY <1>0, RecoveryTyped DEF Kinds
  <2>4. limits'.crashes < MaxCrashes
    BY <1>0, <2>1 DEF Limits
  <2>5. CASE h' = Idle
    BY <2>1, <2>2, <2>5, ShapeIdle, IdleIs DEF ShapeInv, Presets
  <2>6. CASE h' = Starts("recover", RecoverySteps(file)) /\ file.preset # "none"
    <3>1. Starting("recover", RecoverySteps(file))
      BY <2>3, <2>6, StartsIs
    <3>2. IsRest(h'.steps, RecoverySteps(file'))
      BY <2>1, <2>3, <3>1, ShapeStarts
    <3>3. HandlerShape'
      BY <2>1, <2>6, <3>1, <3>2 DEF HandlerShape, Starting
    <3> QED
      BY <2>1, <2>2, <2>4, <3>1, <3>3 DEF ShapeInv, Presets, Starting
  <2> QED
    BY <2>1, <2>5, <2>6
<1> QED
  BY <1>1, <1>2, <1>3, <1>4, <1>5, <1>6, <1>7, <1>8, <1>9, <1>10, <1>11, <1>12,
     <1>13, <1>14, <1>15, <1>16, <1>17, <1>18, <1>19, <1>20, <1>21
  DEF Next, Commands, HandlerSteps, Serve, News, Tick

-----------------------------------------------------------------------------
(* Where each kind of step stands in its handler, and where a handler is   *)
(* after a step.                                                           *)

ApplyAll == Len(ApplySteps(h.prior, h.low))

Undoes == {"rollback", "recover", "cancel", "bathDone"}

LEMMA LeftIs ==
    ASSUME DhwInv
    PROVE  Left \in Nat /\ (Left = 0 <=> h.steps = <<>>)
<1>1. h.steps \in Seq(Steps)
  BY DEF DhwInv, TypeOK, Handlers
<1> QED
  BY <1>1 DEF Left

LEMMA AllIs ==
    ASSUME DhwInv, h.kind = "bathApply"
    PROVE  ApplyAll \in Nat /\ ApplyAll >= 3
<1>1. h.prior \in Temps /\ h.low \in BOOLEAN
  BY DEF DhwInv, TypeOK, PriorRead, Handlers
<1>2. Len(ApplySteps(h.prior, h.low)) \in 3..5
  BY <1>1, ApplyEnd
<1>3. ApplyAll \in 3..5
  BY <1>2 DEF ApplyAll
<1> QED
  BY <1>3

\* The step ahead, by what it is written to.
LEMMA StepAt ==
    ASSUME DhwInv, ShapeInv, h.steps # <<>>
    PROVE  /\ Left \in Nat /\ Left >= 1
           /\ \/ h.kind \in {"showerRead", "bathRead"} /\ Head(h.steps) = Step("read", "none")
              \/ h.kind = "shower" /\ Left = 2 /\ Head(h.steps) = Step("override", "off")
              \/ h.kind = "shower" /\ Left = 1 /\ Head(h.steps) = Step("timer", "on")
              \/ /\ h.kind = "bathApply" /\ Left = ApplyAll
                 /\ Head(h.steps) = Step("override", "off")
              \/ /\ h.kind = "bathApply" /\ Left = ApplyAll - 1
                 /\ Head(h.steps) = Step("sg", "Overcapacity")
              \/ /\ h.kind = "bathApply" /\ Left <= ApplyAll - 2 /\ ~(h.low /\ Left = 1)
                 /\ Head(h.steps) \in {Step("engage", "boost"), Step("timer", "on")}
              \/ /\ h.kind = "bathApply" /\ Left <= ApplyAll - 2 /\ h.low /\ Left = 1
                 /\ Head(h.steps) = Step("kw", "on")
              \/ h.kind \in Undoes /\ Left = 1 /\ Head(h.steps) = Step("override", "none")
              \/ h.kind \in Undoes /\ Left = 2 /\ Head(h.steps) = Step("sg", "Normal")
              \/ /\ h.kind \in Undoes /\ Left >= 3
                 /\ Head(h.steps) \in {Step("timer", "off"), Step("kw", "off")}
                 /\ h.kind # "recover" \/ file.prior # "none" => Left >= 4
              \/ h.kind = "rollback" /\ Left = 3 /\ Head(h.steps) = Step("engage", h.prior)
              \/ /\ h.kind = "recover" /\ Left = 3 /\ file.prior # "none"
                 /\ Head(h.steps) = Step("engage", file.prior)
              \/ /\ h.kind \in {"cancel", "bathDone"} /\ Left = 3
                 /\ Head(h.steps) = Step("engage", state.prior)
<1>1. Left \in Nat /\ Left >= 1
  <2>1. Left \in Nat /\ Left # 0
    BY LeftIs
  <2> QED
    BY <2>1
<1>2. h.kind \in Kinds /\ h.kind # "none" /\ HandlerShape
  BY DEF DhwInv, TypeOK, Handlers, ShapeInv, HandlerShape
<1>3. CASE h.kind \in {"showerRead", "bathRead"}
  BY <1>1, <1>2, <1>3 DEF HandlerShape
<1>4. CASE h.kind = "shower"
  BY <1>1, <1>2, <1>4, ShowerAt
<1>5. CASE h.kind = "bathApply"
  <2>1. ApplyAll \in Nat /\ ApplyAll = Len(ApplySteps(h.prior, h.low))
    BY <1>5, AllIs DEF ApplyAll
  <2> QED
    BY <1>1, <1>2, <1>5, <2>1, ApplyAt
<1>6. CASE h.kind = "rollback"
  BY <1>1, <1>2, <1>6, RollbackAt DEF Undoes
<1>7. CASE h.kind = "recover"
  BY <1>1, <1>2, <1>7, RecoveryAt DEF Undoes
<1>8. CASE h.kind \in {"cancel", "bathDone"}
  BY <1>1, <1>8, StopAt DEF Undoes
<1> QED
  BY <1>2, <1>3, <1>4, <1>5, <1>6, <1>7, <1>8 DEF Kinds

\* Where a handler is after a step that worked.
LEMMA Worked ==
    ASSUME DhwInv, h.steps # <<>>, h' \in AfterSuccess
    PROVE  \/ h.kind = "showerRead" /\ h' = Idle
           \/ /\ h.kind = "showerRead" /\ h'.kind = "shower" /\ ~h'.waiting
              /\ h'.steps = ShowerSteps
           \/ /\ h.kind = "bathRead" /\ h'.kind = "bathApply" /\ ~h'.waiting
              /\ h'.prior = heater.engage /\ h'.low = h.low
              /\ h'.steps = ApplySteps(h'.prior, h'.low)
              /\ Left' = ApplyAll'
           \/ /\ h.kind \notin {"showerRead", "bathRead"} /\ ~h'.waiting
              /\ h'.kind = h.kind /\ h'.prior = h.prior /\ h'.low = h.low
              /\ h'.steps = Tail(h.steps)
              /\ Left' = Left - 1 /\ ApplyAll' = ApplyAll
<1>1. h.steps \in Seq(Steps)
  BY DEF DhwInv, TypeOK, Handlers
<1>2. Len(Tail(h.steps)) = Len(h.steps) - 1
  BY <1>1, WorkedOff
<1>3. h'.steps = Tail(h.steps) => Left' = Left - 1
  BY <1>2 DEF Left
<1>4. h'.prior = h.prior /\ h'.low = h.low => ApplyAll' = ApplyAll
  BY DEF ApplyAll
<1>5. h'.steps = ApplySteps(h'.prior, h'.low) => Left' = ApplyAll'
  BY DEF ApplyAll, Left
<1> QED
  BY <1>3, <1>4, <1>5, Succeeds DEF Starting, Advances

\* Where it is after a step that failed.
LEMMA Failed ==
    ASSUME DhwInv, h.steps # <<>>, h' = AfterError
    PROVE  \/ /\ h.kind = "bathApply" /\ h'.kind = "rollback" /\ ~h'.waiting
              /\ h'.prior = h.prior /\ Left' = 5
           \/ /\ h.kind = "rollback" /\ h'.kind = "rollback" /\ ~h'.waiting
              /\ h'.prior = h.prior /\ Left' = Left - 1
           \/ h.kind \notin {"bathApply", "rollback"} /\ h' = Idle
<1>1. h.steps \in Seq(Steps) /\ (h.kind = "bathApply" => h.prior \in Temps)
  BY DEF DhwInv, TypeOK, PriorRead, Handlers
<1>2. Len(Tail(h.steps)) = Len(h.steps) - 1
  BY <1>1, WorkedOff
<1>3. h'.steps = Tail(h.steps) => Left' = Left - 1
  BY <1>2 DEF Left
<1>4. ASSUME h.kind = "bathApply", h'.prior = h.prior, h'.steps = RollbackSteps(h'.prior)
      PROVE  Left' = 5
  <2>1. Len(RollbackSteps(h'.prior)) = 5
    BY <1>1, <1>4, RollbackEnd
  <2> QED
    BY <1>4, <2>1 DEF Left
<1> QED
  BY <1>3, <1>4, Fails DEF Starting, Advances

-----------------------------------------------------------------------------
(* The pump lane and the SmartGrid mode belong to the boost that runs.     *)

SkipInv == limits.skipped => ~NoIoFailed

BathLane == state.preset = "Bath" /\ h.kind = "none" => override = "off" /\ sg = "Overcapacity"

StopLane == h.kind \in {"cancel", "bathDone"} =>
    /\ override = (IF Left = 0 THEN "none" ELSE "off")
    /\ sg = (IF Left >= 2 THEN "Overcapacity" ELSE "Normal")

ApplyLane == h.kind = "bathApply" =>
    /\ Left < ApplyAll => override = "off"
    /\ Left < ApplyAll - 1 => sg = "Overcapacity"

SgElse ==
    \/ limits.skipped \/ sg = "Normal" \/ state.preset = "Bath"
    \/ h.kind = "bathApply" \/ (h.kind = "rollback" /\ Left >= 2)

LaneElse == NoIoFailed /\ override = "off" =>
    state.preset = "Bath" \/ shower = "sleeping" \/ h.kind \in {"shower", "bathApply"}

LaneInv == SkipInv /\ BathLane /\ StopLane /\ ApplyLane /\ SgElse /\ LaneElse

\* A step of no handler, which leaves the lane and the mode alone.
LEMMA LaneSame ==
    ASSUME DhwInv, LaneInv, UNCHANGED <<override, sg, h>>, state'.preset = state.preset,
           shower' = shower, limits'.skipped = limits.skipped, NoIoFailed' => NoIoFailed
    PROVE  LaneInv'
<1>1. Left' = Left /\ ApplyAll' = ApplyAll
  BY DEF Left, ApplyAll
<1> QED
  BY <1>1 DEF LaneInv, SkipInv, BathLane, StopLane, ApplyLane, SgElse, LaneElse

\* A handler that begins changes neither.
LEMMA LaneBegins ==
    ASSUME DhwInv, ShapeInv, LaneInv, UNCHANGED <<override, sg, state, shower, limits>>,
           h.kind = "none",
           \/ h'.kind \in {"showerRead", "bathRead"} /\ state.preset = "none"
           \/ h'.kind \in {"cancel", "bathDone"} /\ state.preset = "Bath" /\ Left' >= 2 /\ Left' \in Nat
    PROVE  LaneInv'
<1>1. Left' >= 2 /\ Left' \in Nat => Left' # 0
  OBVIOUS
<1> QED
  BY <1>1
  DEF LaneInv, SkipInv, BathLane, StopLane, ApplyLane, SgElse, LaneElse, NoIoFailed

LEMMA StopIsLong ==
    ASSUME DhwInv, ShapeInv, state.preset = "Bath", NEW reason \in Reasons,
           NEW kind \in Kinds, h' = Starts(kind, StopSteps(state, reason))
    PROVE  /\ h'.kind = kind /\ ~h'.waiting /\ Left' >= 3 /\ Left' \in Nat
           /\ h'.steps = StopSteps(state, reason)
           /\ state.engaged => Left' >= 4
<1>1. state \in Boosts /\ state.prior \in Temps
  BY DEF DhwInv, TypeOK, ShapeInv, Presets
<1>2. StopSteps(state, reason) \in Seq(Steps)
  BY <1>1, StopTyped
<1>3. Starting(kind, StopSteps(state, reason))
  BY <1>2, StartsIs
<1>4. /\ Len(StopSteps(state, reason)) \in Nat /\ Len(StopSteps(state, reason)) >= 3
      /\ state.engaged => Len(StopSteps(state, reason)) >= 4
  BY <1>1, StopEnd
<1> QED
  BY <1>3, <1>4 DEF Starting, Left

\* What a step is written to.
LEMMA StepFields ==
    ASSUME NEW reg, NEW val
    PROVE  Step(reg, val).reg = reg /\ Step(reg, val).val = val
  BY DEF Step

\* The steps of the handlers that undo a boost end in Normal and the lane.
LEMMA UndoesAt ==
    ASSUME DhwInv, ShapeInv, h.steps # <<>>, h.kind \in Undoes
    PROVE  \/ Left = 1 /\ Head(h.steps).reg = "override" /\ Head(h.steps).val = "none"
           \/ Left = 2 /\ Head(h.steps).reg = "sg" /\ Head(h.steps).val = "Normal"
           \/ Left >= 3 /\ Head(h.steps).reg \in {"timer", "kw", "engage"}
<1>1. \/ Left = 1 /\ Head(h.steps) = Step("override", "none")
      \/ Left = 2 /\ Head(h.steps) = Step("sg", "Normal")
      \/ Left >= 3 /\ Head(h.steps) \in {Step("timer", "off"), Step("kw", "off")}
      \/ /\ Left = 3
         /\ \E temp \in {h.prior, file.prior, state.prior} :
              Head(h.steps) = Step("engage", temp)
  BY StepAt DEF Undoes
<1>2. Left = 3 => Left >= 3
  OBVIOUS
<1> QED
  BY <1>1, <1>2, StepFields

LEMMA LaneWorked ==
    ASSUME DhwInv, DhwInv', ShapeInv, LaneInv, h.steps # <<>>, h' \in AfterSuccess,
           UNCHANGED <<state, shower, limits>>,
           \/ Head(h.steps).reg \in BusRegs /\ UNCHANGED <<sg, override>>
           \/ Head(h.steps).reg = "sg" /\ sg' = Head(h.steps).val /\ UNCHANGED override
           \/ /\ Head(h.steps).reg = "override" /\ UNCHANGED sg
              /\ \/ override' = Head(h.steps).val
                 \/ h.kind = "recover" /\ override = "closed" /\ UNCHANGED override
    PROVE  LaneInv'
<1>0. /\ Left \in Nat /\ Left >= 1 /\ h.kind # "none"
      /\ NoIoFailed' = NoIoFailed
      /\ h.kind = "bathApply" => ApplyAll \in Nat /\ ApplyAll >= 3
  BY LeftIs, StepAt, AllIs DEF ShapeInv, HandlerShape, NoIoFailed
<1>1. h.kind \in {"cancel", "bathDone"} => state.preset = "Bath"
  BY DEF ShapeInv, Presets
<1>2. h.kind \notin {"cancel", "bathDone"} => state.preset = "none" /\ shower = "off"
  BY <1>0 DEF ShapeInv, Presets
<1>3. CASE h.kind = "showerRead"
  <2>1. Head(h.steps).reg \in BusRegs
    BY <1>3, StepAt, StepFields DEF BusRegs, Undoes
  <2>2. UNCHANGED <<sg, override>> /\ h'.kind \in {"none", "shower"}
    BY <1>3, <2>1, Worked, IdleIs DEF BusRegs
  <2> QED
    BY <1>0, <1>2, <1>3, <2>2
    DEF LaneInv, SkipInv, BathLane, StopLane, ApplyLane, SgElse, LaneElse
<1>4. CASE h.kind = "bathRead"
  <2>1. Head(h.steps).reg \in BusRegs
    BY <1>4, StepAt, StepFields DEF BusRegs, Undoes
  <2>2. UNCHANGED <<sg, override>> /\ h'.kind = "bathApply" /\ Left' = ApplyAll'
    BY <1>4, <2>1, Worked, IdleIs DEF BusRegs
  <2>3. h'.prior \in Temps /\ h'.low \in BOOLEAN
    BY <2>2 DEF DhwInv, TypeOK, PriorRead, Handlers
  <2>4. ApplyAll' \in Nat /\ ApplyAll' >= 3
    <3>1. Len(ApplySteps(h'.prior, h'.low)) \in 3..5
      BY <2>3, ApplyEnd
    <3>2. ApplyAll' \in 3..5
      BY <3>1 DEF ApplyAll
    <3> QED
      BY <3>2
  <2>5. ApplyLane'
    BY <2>2, <2>4 DEF ApplyLane
  <2> QED
    BY <1>0, <1>2, <1>4, <2>2, <2>5
    DEF LaneInv, SkipInv, BathLane, StopLane, SgElse, LaneElse
<1>5. CASE h.kind \notin {"showerRead", "bathRead"}
  <2>1. h'.kind = h.kind /\ Left' = Left - 1 /\ ApplyAll' = ApplyAll
    BY <1>5, Worked
  <2>2. CASE h.kind = "shower"
    <3>1. UNCHANGED sg
      BY <2>2, StepAt, StepFields DEF BusRegs, Undoes
    <3> QED
      BY <1>0, <1>2, <2>1, <2>2, <3>1
      DEF LaneInv, SkipInv, BathLane, StopLane, ApplyLane, SgElse, LaneElse
  <2>3. CASE h.kind = "bathApply"
    <3>1. \/ Left = ApplyAll /\ override' = "off"
          \/ Left = ApplyAll - 1 /\ sg' = "Overcapacity" /\ UNCHANGED override
          \/ Left <= ApplyAll - 2 /\ UNCHANGED <<sg, override>>
      BY <2>3, StepAt, StepFields DEF BusRegs, Undoes
    <3> QED
      BY <1>0, <1>2, <2>1, <2>3, <3>1
      DEF LaneInv, SkipInv, BathLane, StopLane, ApplyLane, SgElse, LaneElse
  <2>4. CASE h.kind \in Undoes
    <3>1. \/ /\ Left = 1 /\ UNCHANGED sg
             /\ override' = "none" \/ (override' = "closed" /\ h.kind = "recover")
          \/ Left = 2 /\ sg' = "Normal" /\ UNCHANGED override
          \/ Left >= 3 /\ UNCHANGED <<sg, override>>
      <4>1. \/ Left = 1 /\ Head(h.steps).reg = "override" /\ Head(h.steps).val = "none"
            \/ Left = 2 /\ Head(h.steps).reg = "sg" /\ Head(h.steps).val = "Normal"
            \/ Left >= 3 /\ Head(h.steps).reg \in {"timer", "kw", "engage"}
        BY <2>4, UndoesAt
      <4> QED
        BY <4>1 DEF BusRegs
    <3> QED
      BY <1>0, <1>1, <1>2, <2>1, <2>4, <3>1
      DEF LaneInv, SkipInv, BathLane, StopLane, ApplyLane, SgElse, LaneElse, Undoes
  <2> QED
    BY <1>0, <1>5, <2>2, <2>3, <2>4 DEF DhwInv, TypeOK, Handlers, Kinds, Undoes
<1> QED
  BY <1>3, <1>4, <1>5

LEMMA LaneFailed ==
    ASSUME DhwInv, ShapeInv, LaneInv, h.steps # <<>>, h' = AfterError,
           UNCHANGED <<state, shower, sg, override>>,
           \/ StepFails /\ Head(h.steps).reg # "override"
           \/ /\ UNCHANGED limits /\ override = "closed" /\ h.kind # "recover"
              /\ Head(h.steps).reg = "override"
    PROVE  LaneInv'
<1>0. /\ Left \in Nat /\ Left >= 1 /\ h.kind # "none" /\ limits \in Limits
      /\ h.kind = "bathApply" => ApplyAll \in Nat /\ ApplyAll >= 3
  BY LeftIs, StepAt, AllIs DEF ShapeInv, HandlerShape, DhwInv, TypeOK
<1>1. h.kind \in {"cancel", "bathDone"} => state.preset = "Bath"
  BY DEF ShapeInv, Presets
<1>2. h.kind \notin {"cancel", "bathDone"} => state.preset = "none" /\ shower = "off"
  BY <1>0 DEF ShapeInv, Presets
<1>3. /\ StepFails => ~NoIoFailed' /\ (limits.skipped => limits'.skipped)
      /\ UNCHANGED limits => NoIoFailed' = NoIoFailed
  BY <1>0, Spent DEF NoIoFailed
<1>4. StepFails /\ h.kind = "rollback" => limits'.skipped
  BY <1>0 DEF StepFails, Limits
<1>5. limits'.skipped => ~NoIoFailed'
  BY <1>0, <1>3 DEF LaneInv, SkipInv
<1>6. NoIoFailed' => override # "off"
  BY <1>3
<1>7. CASE h.kind = "bathApply"
  BY <1>0, <1>2, <1>3, <1>5, <1>6, <1>7, Failed
  DEF LaneInv, SkipInv, BathLane, StopLane, ApplyLane, SgElse, LaneElse
<1>8. CASE h.kind = "rollback"
  <2>1. h'.kind = "rollback" /\ Left' = Left - 1
    BY <1>8, Failed
  <2>2. limits'.skipped \/ (Left = 1 /\ UNCHANGED limits)
    <3>1. h.kind \in Undoes
      BY <1>8 DEF Undoes
    <3>2. Head(h.steps).reg = "override" => Left = 1
      BY <3>1, UndoesAt
    <3> QED
      BY <1>4, <1>8, <3>2
  <2> QED
    BY <1>0, <1>2, <1>5, <1>6, <1>8, <2>1, <2>2
    DEF LaneInv, SkipInv, BathLane, StopLane, ApplyLane, SgElse, LaneElse
<1>9. CASE h.kind \in {"cancel", "bathDone"}
  <2>1. h' = Idle /\ h'.kind = "none"
    BY <1>9, Failed, IdleIs
  <2>2. override = "off"
    BY <1>0, <1>9 DEF LaneInv, StopLane
  <2>3. Left >= 2
    BY <1>0, <1>9, <2>2, UndoesAt DEF Undoes
  <2> QED
    BY <1>1, <1>3, <1>5, <1>9, <2>1, <2>2, <2>3
    DEF LaneInv, SkipInv, BathLane, StopLane, ApplyLane, SgElse, LaneElse
<1>10. CASE h.kind \notin {"bathApply", "rollback", "cancel", "bathDone"}
  <2>1. h' = Idle /\ h'.kind = "none"
    BY <1>10, Failed, IdleIs
  <2> QED
    BY <1>2, <1>3, <1>5, <1>6, <1>10, <2>1
    DEF LaneInv, SkipInv, BathLane, StopLane, ApplyLane, SgElse, LaneElse
<1> QED
  BY <1>7, <1>8, <1>9, <1>10

LEMMA LaneStep ==
    DhwInv /\ DhwInv' /\ ShapeInv /\ BusInv /\ LaneInv /\ [Next]_vars => LaneInv'
<1> SUFFICES ASSUME DhwInv, DhwInv', ShapeInv, BusInv, LaneInv, [Next]_vars PROVE LaneInv'
  OBVIOUS
<1>0. /\ limits \in Limits /\ Presets /\ h \in Handlers
      /\ Left \in Nat /\ (Left = 0 <=> h.steps = <<>>)
  BY LeftIs DEF DhwInv, TypeOK, ShapeInv
<1>s. /\ UNCHANGED limits => limits'.skipped = limits.skipped /\ NoIoFailed' = NoIoFailed
      /\ SaveFails => limits'.skipped = limits.skipped
      /\ IoFails => limits'.skipped = limits.skipped
      /\ SaveFails \/ IoFails => (NoIoFailed' => NoIoFailed)
  BY <1>0, Spent DEF NoIoFailed, IoFails, SaveFails, Limits
<1>v. ASSUME NEW boost, Save(boost)
      PROVE  limits'.skipped = limits.skipped /\ (NoIoFailed' => NoIoFailed)
  BY <1>s, <1>v DEF Save
<1>1. CASE StartShower
  <2>1. <<Step("read", "none")>> \in Seq(Steps) /\ "showerRead" \in Kinds
    BY StepKinds DEF Kinds
  <2>2. h'.kind = "showerRead"
    BY <1>1, <2>1, StartsIs DEF StartShower, Starting
  <2> QED
    BY <1>1, <2>2, LaneBegins DEF StartShower, AtRest
<1>2. ASSUME NEW low \in BOOLEAN, StartBath(low) PROVE LaneInv'
  <2> DEFINE a == Starts("bathRead", <<Step("read", "none")>>)
  <2>1. <<Step("read", "none")>> \in Seq(Steps) /\ "bathRead" \in Kinds
    BY StepKinds DEF Kinds
  <2>2. a \in Handlers /\ a.kind = "bathRead"
    BY <2>1, StartsTyped
  <2>3. h' = [a EXCEPT !.low = low]
    BY <1>2 DEF StartBath
  <2> HIDE DEF a
  <2>4. h'.kind = "bathRead"
    BY <2>2, <2>3 DEF Handlers
  <2> QED
    BY <1>2, <2>4, LaneBegins DEF StartBath, AtRest
<1>3. CASE Cancel
  <2>1. "cancel" \in Kinds /\ "Manual" \in Reasons
    BY DEF Kinds, Reasons
  <2>2. h'.kind = "cancel" /\ Left' >= 3 /\ Left' \in Nat
    BY <1>3, <2>1, StopIsLong DEF Cancel
  <2>3. Left' >= 2
    BY <2>2
  <2> QED
    BY <1>3, <2>2, <2>3, LaneBegins DEF Cancel, AtRest
<1>4. CASE OnBathDone
  <2>1. "bathDone" \in Kinds /\ bath.reason \in Reasons
    BY DEF Kinds, DhwInv, TypeOK, BathWatchers
  <2>2. state.preset = "Bath"
    BY <1>0, <1>4 DEF OnBathDone, Presets
  <2>3. h'.kind = "bathDone" /\ Left' >= 3 /\ Left' \in Nat
    BY <1>4, <2>1, <2>2, StopIsLong DEF OnBathDone
  <2>4. Left' >= 2
    BY <2>3
  <2> QED
    BY <1>4, <2>2, <2>3, <2>4, LaneBegins DEF OnBathDone, AtRest
<1>5. CASE SetSmartGrid
  BY <1>5, LaneWorked, LaneFailed DEF SetSmartGrid, NextStepIn
<1>6. CASE SetOverride
  <2>1. h.steps # <<>> /\ Head(h.steps).reg = "override"
        /\ UNCHANGED <<sg, state, shower, limits>>
    BY <1>6 DEF SetOverride, NextStepIn
  <2>2. CASE override # "closed"
    BY <1>6, <2>1, <2>2, LaneWorked DEF SetOverride
  <2>3. CASE override = "closed" /\ h.kind = "recover"
    BY <1>6, <2>1, <2>3, LaneWorked DEF SetOverride
  <2>4. CASE override = "closed" /\ h.kind # "recover"
    BY <1>6, <2>1, <2>4, LaneFailed DEF SetOverride
  <2> QED
    BY <2>2, <2>3, <2>4
<1>7. CASE ServeActor \/ ActorGivesUp
  <2>1. /\ h.steps # <<>> /\ Head(h.steps).reg \in BusRegs
        /\ UNCHANGED <<sg, override, state, shower>>
        /\ \/ h' \in AfterSuccess /\ UNCHANGED limits
           \/ h' = AfterError /\ StepFails
    BY <1>7 DEF ServeActor, ActorGivesUp, DhwInv, PriorRead, BusInv
  <2>2. Head(h.steps).reg # "override"
    BY <2>1 DEF BusRegs
  <2> QED
    BY <2>1, <2>2, LaneWorked, LaneFailed
<1>8. CASE SendRequest
  <2>1. h'.kind = h.kind /\ h'.steps = h.steps /\ h'.prior = h.prior /\ h'.low = h.low
    BY <1>0, <1>8 DEF SendRequest, Handlers
  <2>2. Left' = Left /\ ApplyAll' = ApplyAll
    BY <2>1 DEF Left, ApplyAll
  <2> QED
    BY <1>8, <1>s, <2>1, <2>2
    DEF SendRequest, LaneInv, SkipInv, BathLane, StopLane, ApplyLane, SgElse, LaneElse
<1>9. CASE ShutdownSave
  BY <1>9, <1>v, LaneSame DEF ShutdownSave
<1>10. CASE ServeWatcher \/ WatcherGivesUp
  BY <1>10, <1>s, LaneSame DEF ServeWatcher, WatcherGivesUp
<1>11. CASE \/ ServeNobody \/ HeaterTimerElapses \/ BathExpires \/ Tick
            \/ WatcherReports \/ UNCHANGED vars
  <2>1. UNCHANGED <<override, sg, h, state, shower, limits>>
    BY <1>11
    DEF ServeNobody, HeaterTimerElapses, BathExpires, Tick, BathTriggers, GateCrosses,
        WatcherReports, vars
  <2> QED
    BY <1>s, <2>1, LaneSame
<1>12. CASE OnBathEvent
  <2>1. state'.preset = state.preset
    BY <1>12 DEF OnBathEvent, DhwInv, TypeOK, Boosts
  <2> QED
    BY <1>12, <1>v, <2>1, LaneSame DEF OnBathEvent
<1>13. CASE FinishRecovery \/ FinishRollback
  <2>1. /\ h.steps = <<>> /\ h'.kind = "none" /\ UNCHANGED <<sg, override, state, shower>>
        /\ h.kind \in {"recover", "rollback"}
        /\ limits'.skipped = limits.skipped /\ (NoIoFailed' => NoIoFailed)
    BY <1>13, <1>s, <1>v, IdleIs DEF FinishRecovery, FinishRollback, Ends
  <2>2. state.preset = "none" /\ ~(Left >= 2)
    BY <1>0, <2>1 DEF Presets
  <2> QED
    BY <2>1, <2>2
    DEF LaneInv, SkipInv, BathLane, StopLane, ApplyLane, SgElse, LaneElse
<1>14. CASE FinishShowerStart
  <2>1. /\ h'.kind = "none" /\ UNCHANGED <<sg, override>> /\ h.kind = "shower"
        /\ state'.preset = "Shower" /\ shower' = "sleeping"
        /\ limits'.skipped = limits.skipped /\ (NoIoFailed' => NoIoFailed)
    BY <1>14, <1>v, IdleIs DEF FinishShowerStart, Ends, ShowerBoost, NoBoost
  <2>2. state.preset = "none"
    BY <1>0, <2>1 DEF Presets
  <2> QED
    BY <2>1, <2>2
    DEF LaneInv, SkipInv, BathLane, StopLane, ApplyLane, SgElse, LaneElse
<1>15. CASE FinishBathStart
  <2>1. /\ h'.kind = "none" /\ UNCHANGED <<sg, override>> /\ h.kind = "bathApply"
        /\ state'.preset = "Bath" /\ h.steps = <<>>
        /\ limits'.skipped = limits.skipped /\ (NoIoFailed' => NoIoFailed)
    BY <1>15, <1>v, IdleIs DEF FinishBathStart, Ends, BathBoost
  <2>2. ApplyAll \in Nat /\ ApplyAll >= 3
    BY <2>1, AllIs
  <2>3. Left < ApplyAll /\ Left < ApplyAll - 1
    BY <1>0, <2>1, <2>2
  <2> QED
    BY <2>1, <2>3
    DEF LaneInv, SkipInv, BathLane, StopLane, ApplyLane, SgElse, LaneElse
<1>16. CASE FinishCancel \/ FinishBathDone
  <2>1. /\ h'.kind = "none" /\ UNCHANGED <<sg, override>>
        /\ h.kind \in {"cancel", "bathDone"} /\ state'.preset = "none" /\ h.steps = <<>>
        /\ limits'.skipped = limits.skipped /\ (NoIoFailed' => NoIoFailed)
    BY <1>16, <1>v, IdleIs DEF FinishCancel, FinishBathDone, Ends, NoBoost
  <2>2. Left = 0 /\ ~(Left >= 2)
    BY <1>0, <2>1
  <2> QED
    BY <2>1, <2>2
    DEF LaneInv, SkipInv, BathLane, StopLane, ApplyLane, SgElse, LaneElse
<1>17. CASE ShowerWatcherFires
  <2>1. /\ override' \in {"none", "closed"} /\ UNCHANGED <<h, sg, state, limits>>
        /\ shower' = "done" /\ state.preset = "Shower"
    BY <1>0, <1>17 DEF ShowerWatcherFires, Released, Presets
  <2>2. h.kind = "none"
    BY <1>0, <2>1 DEF Presets
  <2> QED
    BY <1>s, <2>1, <2>2
    DEF LaneInv, SkipInv, BathLane, StopLane, ApplyLane, SgElse, LaneElse
<1>18. CASE OnShowerDone
  <2>1. /\ UNCHANGED <<h, sg, override>> /\ h.kind = "none" /\ state.preset = "Shower"
        /\ state'.preset = "none" /\ shower = "done"
        /\ limits'.skipped = limits.skipped /\ (NoIoFailed' => NoIoFailed)
    BY <1>0, <1>18, <1>v DEF OnShowerDone, AtRest, NoBoost, Presets
  <2> QED
    BY <2>1 DEF LaneInv, SkipInv, BathLane, StopLane, ApplyLane, SgElse, LaneElse
<1>19. CASE Crash
  <2>1. /\ sg' = "Normal" /\ override' # "off" /\ state'.preset = "none"
        /\ limits'.skipped = limits.skipped /\ limits'.io = limits.io
    BY <1>19 DEF Crash, Released, NoBoost
  <2>2. h' = Idle \/ h' = Starts("recover", RecoverySteps(file))
    BY <1>19 DEF Crash
  <2>3. RecoverySteps(file) \in Seq(Steps) /\ "recover" \in Kinds
    BY RecoveryTyped DEF DhwInv, TypeOK, Kinds
  <2>4. h'.kind \in {"none", "recover"}
    BY <2>2, <2>3, IdleIs, StartsIs DEF Starting
  <2> QED
    BY <2>1, <2>4
    DEF LaneInv, SkipInv, BathLane, StopLane, ApplyLane, SgElse, LaneElse, NoIoFailed
<1> QED
  BY <1>1, <1>2, <1>3, <1>4, <1>5, <1>6, <1>7, <1>8, <1>9, <1>10, <1>11, <1>12,
     <1>13, <1>14, <1>15, <1>16, <1>17, <1>18, <1>19
  DEF Next, Commands, HandlerSteps, Serve, News

-----------------------------------------------------------------------------
(* A boost holds its own.                                                  *)

BoostInv == DhwInv /\ ShapeInv /\ BusInv /\ LaneInv

LEMMA BoostStep == BoostInv /\ [Next]_vars => BoostInv'
  BY StepTyped, ShapeStep, BusStep, LaneStep DEF BoostInv

LEMMA BoostInit == Init => BoostInv
<1> SUFFICES ASSUME Init PROVE BoostInv
  OBVIOUS
<1>1. DhwInv
  BY InitTyped
<1>2. /\ h.kind = "none" /\ h.steps = <<>> /\ ~h.waiting /\ state = NoBoost
      /\ bus = <<>> /\ events = <<>> /\ shower = "off" /\ bath.pc = "off"
      /\ sg = "Normal" /\ override # "off" /\ ~limits.skipped
  BY IdleIs DEF Init, NoWatcher
<1>3. state.preset = "none"
  BY <1>2 DEF NoBoost
<1>4. ShapeInv
  BY <1>2, <1>3 DEF ShapeInv, HandlerShape, Presets
<1>5. BusInv
  BY <1>2 DEF BusInv
<1>6. LaneInv
  BY <1>2, <1>3 DEF LaneInv, SkipInv, BathLane, StopLane, ApplyLane, SgElse, LaneElse
<1> QED
  BY <1>1, <1>4, <1>5, <1>6 DEF BoostInv

(***************************************************************************)
(* No watcher outlives its boost and the presets never run together; and   *)
(* between handlers a Bath has the pump lane and Overcapacity, even after  *)
(* a stop that failed half way (AbortBathWatcher, the lane and the mode in *)
(* dhw/actor.rs), for all bounds and with or without a persisted file.     *)
(***************************************************************************)
THEOREM BoostHoldsItsOwnCorrect == Spec => []BoostHoldsItsOwn
<1>1. BoostInv => BoostHoldsItsOwn
  BY DEF BoostInv, ShapeInv, Presets, LaneInv, BathLane, BoostHoldsItsOwn, AtRest
<1> QED
  BY <1>1, BoostInit, BoostStep, PTL DEF Spec

-----------------------------------------------------------------------------
(* A lane without a receiver is asked for first, so nothing is touched.    *)

Harmless == {Step("read", "none"), Step("timer", "off"), Step("kw", "off"),
             Step("engage", userTemp)}

ClosedInv == override = "closed" =>
    /\ state.preset = "none" /\ file = NoBoost /\ heater = Untouched /\ sg = "Normal"
    /\ h.kind \notin {"recover", "cancel", "bathDone"}
    /\ h.kind = "shower" => Left = 2
    /\ h.kind = "bathApply" => Left = ApplyAll
    /\ h.kind \in {"bathApply", "rollback"} => h.prior = userTemp
    /\ \A i \in 1..Len(bus) : bus[i].step \in Harmless

LEMMA ClosedSame ==
    ASSUME ClosedInv, UNCHANGED <<userTemp, file, heater, sg, h, bus>>,
           state'.preset = state.preset, override' = "closed" => override = "closed"
    PROVE  ClosedInv'
<1>1. Left' = Left /\ ApplyAll' = ApplyAll /\ Harmless' = Harmless /\ Untouched' = Untouched
  BY DEF Left, ApplyAll, Harmless, Untouched
<1> QED
  BY <1>1 DEF ClosedInv

\* What lands is in one of the registers, or nowhere.
LEMMA Lands ==
    ASSUME DhwInv, bus # <<>>, Land
    PROVE  LET step == Head(bus).step
           IN  /\ step = bus[1].step /\ 1 \in 1..Len(bus)
               /\ heater'.timer = (IF step.reg = "timer" THEN step.val ELSE heater.timer)
               /\ heater'.kw = (IF step.reg = "kw" THEN step.val ELSE heater.kw)
               /\ heater'.engage = (IF step.reg = "engage" THEN step.val ELSE heater.engage)
<1>1. bus \in Seq(Requests)
  BY DEF DhwInv, TypeOK
<1>2. Head(bus) = bus[1] /\ 1 \in 1..Len(bus)
  BY <1>1, Oldest
<1> QED
  BY <1>2 DEF Land

LEMMA HarmlessLands ==
    ASSUME DhwInv, DhwInv', bus # <<>>, Land, Head(bus).step \in Harmless,
           heater = Untouched, UNCHANGED userTemp
    PROVE  heater' = Untouched'
<1>1. /\ heater'.timer = "off" /\ heater'.kw = "off" /\ heater'.engage = userTemp
  BY Lands, StepFields DEF Harmless, Untouched
<1>2. heater' \in Registers
  BY DEF DhwInv, TypeOK
<1> QED
  BY <1>1, <1>2 DEF Registers, Untouched

\* Serving one request leaves the others as they were.
LEMMA Rest ==
    ASSUME DhwInv, bus # <<>>, bus' = Tail(bus)
    PROVE  \A i \in 1..Len(bus') : i + 1 \in 1..Len(bus) /\ bus'[i] = bus[i + 1]
<1>1. bus \in Seq(Requests)
  BY DEF DhwInv, TypeOK
<1>2. /\ Len(Tail(bus)) = Len(bus) - 1
      /\ \A i \in 1..(Len(bus) - 1) : i + 1 \in 1..Len(bus) /\ Tail(bus)[i] = bus[i + 1]
  BY <1>1, Oldest
<1> QED
  BY <1>2

\* Disowned requests are still the same steps.
LEMMA SameSteps ==
    ASSUME DhwInv, NEW who \in {"actor", "watcher"}, Disown(who)
    PROVE  /\ Len(bus') = Len(bus)
           /\ \A i \in 1..Len(bus') : i \in 1..Len(bus) /\ bus'[i].step = bus[i].step
<1>1. Len(bus') = Len(bus)
  BY DEF Disown, DhwInv, TypeOK
<1>2. ASSUME NEW i \in 1..Len(bus) PROVE bus'[i].step = bus[i].step
  <2>1. bus[i] \in Requests
    BY DEF DhwInv, TypeOK
  <2>2. bus'[i] = IF bus[i].who = who THEN [bus[i] EXCEPT !.who = "nobody"] ELSE bus[i]
    <3>1. i \in DOMAIN bus
      BY DEF DhwInv, TypeOK
    <3> QED
      BY <3>1 DEF Disown
  <2> QED
    BY <2>1, <2>2 DEF Requests
<1> QED
  BY <1>1, <1>2

\* The steps on the bus come from the bus, or are the one that is sent.
LEMMA OneMore ==
    ASSUME DhwInv, NEW r, bus' = Append(bus, r)
    PROVE  \A i \in 1..Len(bus') :
             \/ i \in 1..Len(bus) /\ bus'[i] = bus[i]
             \/ bus'[i] = r
<1>1. bus \in Seq(Requests)
  BY DEF DhwInv, TypeOK
<1> QED
  BY <1>1, Newest

\* The handler of a boost that cannot start: it reads, asks for the lane and
\* undoes what it has not done.
LEMMA ClosedMoves ==
    ASSUME DhwInv, DhwInv', ShapeInv, ClosedInv, override = "closed", h.steps # <<>>,
           \/ h' \in AfterSuccess /\ Head(h.steps).reg # "override"
           \/ h' = AfterError,
           UNCHANGED userTemp
    PROVE  /\ h'.kind \notin {"recover", "cancel", "bathDone"}
           /\ h'.kind = "shower" => Left' = 2
           /\ h'.kind = "bathApply" => Left' = ApplyAll'
           /\ h'.kind \in {"bathApply", "rollback"} => h'.prior = userTemp
<1>1. /\ h.kind \notin {"recover", "cancel", "bathDone"}
      /\ h.kind = "shower" => Left = 2
      /\ h.kind = "bathApply" => Left = ApplyAll
      /\ h.kind \in {"bathApply", "rollback"} => h.prior = userTemp
      /\ heater.engage = userTemp
  BY DEF ClosedInv, Untouched
<1>2. CASE h' = AfterError
  BY <1>1, <1>2, Failed, IdleIs
<1>3. CASE h' \in AfterSuccess /\ Head(h.steps).reg # "override"
  <2>1. h.kind \notin {"shower", "bathApply"}
    <3>1. Left = 2 => Left # 1
      OBVIOUS
    <3>2. h.kind = "bathApply" => ApplyAll # ApplyAll - 1 /\ ~(ApplyAll <= ApplyAll - 2)
      BY AllIs
    <3> QED
      BY <1>1, <1>3, <3>1, <3>2, StepAt, StepFields DEF Undoes
  <2>2. h'.kind = "shower" => Left' = 2
    <3>1. ShowerSteps \in Seq(Steps) /\ Len(ShowerSteps) = 2
      BY ShowerEnd, ShowerTyped
    <3> QED
      BY <1>3, <2>1, <3>1, Worked, IdleIs DEF Left
  <2> QED
    BY <1>1, <1>3, <2>1, <2>2, Worked, IdleIs
<1> QED
  BY <1>2, <1>3

\* What it asks of the heater is harmless.
LEMMA ClosedAsks ==
    ASSUME DhwInv, ShapeInv, ClosedInv, override = "closed", h.steps # <<>>,
           Head(h.steps).reg \in BusRegs
    PROVE  Head(h.steps) \in Harmless
<1>1. /\ h.kind \notin {"recover", "cancel", "bathDone"}
      /\ h.kind = "shower" => Left = 2
      /\ h.kind = "bathApply" => Left = ApplyAll
      /\ h.kind = "rollback" => h.prior = userTemp
  BY DEF ClosedInv
<1>2. Head(h.steps).reg # "override" /\ Head(h.steps).reg # "sg"
  BY DEF BusRegs
<1>3. h.kind \notin {"shower", "bathApply"}
  <2>1. Left = 2 => Left # 1
    OBVIOUS
  <2>2. h.kind = "bathApply" => ApplyAll # ApplyAll - 1 /\ ~(ApplyAll <= ApplyAll - 2)
    BY AllIs
  <2> QED
    BY <1>1, <1>2, <2>1, <2>2, StepAt, StepFields DEF Undoes
<1> QED
  BY <1>1, <1>2, <1>3, StepAt, StepFields DEF Harmless, Undoes

LEMMA ClosedStep ==
    DhwInv /\ DhwInv' /\ ShapeInv /\ BusInv /\ ClosedInv /\ [Next]_vars => ClosedInv'
<1> SUFFICES ASSUME DhwInv, DhwInv', ShapeInv, BusInv, ClosedInv, [Next]_vars,
                    override' = "closed"
             PROVE  ClosedInv'
  BY DEF ClosedInv
<1>1. override = "closed"
  <2>1. ASSUME override # "closed" PROVE Released # "closed"
    BY <2>1 DEF Released
  <2>2. ASSUME NextStepIn({"override"}) PROVE Head(h.steps).val # "closed"
    <3>1. Head(h.steps).val \in {"off", "none"}
      BY <2>2, StepAt, StepFields DEF NextStepIn, Undoes
    <3> QED
      BY <3>1
  <2>3. CASE SetOverride
    BY <2>2, <2>3 DEF SetOverride
  <2>4. CASE ShowerWatcherFires \/ Crash
    BY <2>1, <2>4 DEF ShowerWatcherFires, Crash
  <2>5. CASE Commands \/ Serve \/ News \/ Tick \/ UNCHANGED vars
    BY <2>5
    DEF Commands, StartShower, StartBath, Cancel, ShutdownSave, Serve, ServeActor,
        ServeWatcher, ServeNobody, News, OnShowerDone, OnBathEvent, OnBathDone, Tick,
        GateCrosses, BathTriggers, vars
  <2>6. CASE ActorGivesUp \/ WatcherGivesUp \/ BathExpires \/ WatcherReports \/ HeaterTimerElapses
    BY <2>6
    DEF ActorGivesUp, WatcherGivesUp, BathExpires, WatcherReports, HeaterTimerElapses
  <2>7. CASE HandlerSteps /\ ~SetOverride
    BY <2>7
    DEF HandlerSteps, SendRequest, SetSmartGrid, FinishRecovery, FinishShowerStart,
        FinishBathStart, FinishRollback, FinishCancel, FinishBathDone
  <2> QED
    BY <2>3, <2>4, <2>5, <2>6, <2>7 DEF Next
<1>2. /\ state.preset = "none" /\ file = NoBoost /\ heater = Untouched /\ sg = "Normal"
      /\ h.kind \notin {"recover", "cancel", "bathDone"}
      /\ h.kind = "shower" => Left = 2
      /\ h.kind = "bathApply" => Left = ApplyAll
      /\ h.kind \in {"bathApply", "rollback"} => h.prior = userTemp
      /\ \A i \in 1..Len(bus) : bus[i].step \in Harmless
  BY <1>1 DEF ClosedInv
<1>3. /\ bath.pc = "off" /\ shower = "off" /\ events = <<>> /\ h \in Handlers
      /\ \A i \in 1..Len(bus) : bus[i].who # "watcher"
  BY <1>2 DEF ShapeInv, Presets, DhwInv, TypeOK, BusInv
<1>4. /\ Left \in Nat /\ (Left = 0 <=> h.steps = <<>>)
      /\ h.kind = "bathApply" => ApplyAll \in Nat /\ ApplyAll >= 3
      /\ h.kind = "none" => h.steps = <<>>
  BY LeftIs, AllIs DEF ShapeInv, HandlerShape
<1>5. UNCHANGED userTemp => Harmless' = Harmless /\ Untouched' = Untouched
  BY DEF Harmless, Untouched
<1>6. CASE StartShower \/ \E low \in BOOLEAN : StartBath(low)
  <2>1. h'.kind \in {"showerRead", "bathRead"}
    <3>1. <<Step("read", "none")>> \in Seq(Steps) /\ {"showerRead", "bathRead"} \subseteq Kinds
      BY StepKinds DEF Kinds
    <3>2. CASE StartShower
      BY <3>1, <3>2, StartsIs DEF StartShower, Starting
    <3>3. ASSUME NEW low \in BOOLEAN, StartBath(low) PROVE h'.kind = "bathRead"
      <4> DEFINE a == Starts("bathRead", <<Step("read", "none")>>)
      <4>1. a \in Handlers /\ a.kind = "bathRead"
        BY <3>1, StartsTyped
      <4>2. h' = [a EXCEPT !.low = low]
        BY <3>3 DEF StartBath
      <4> HIDE DEF a
      <4> QED
        BY <4>1, <4>2 DEF Handlers
    <3> QED
      BY <1>6, <3>2, <3>3
  <2>2. UNCHANGED <<userTemp, state, file, heater, sg, bus>>
    BY <1>6 DEF StartShower, StartBath
  <2> QED
    BY <1>2, <1>5, <2>1, <2>2 DEF ClosedInv
<1>7. CASE SendRequest
  <2>1. /\ h'.kind = h.kind /\ h'.steps = h.steps /\ h'.prior = h.prior /\ h'.low = h.low
        /\ h.steps # <<>> /\ Head(h.steps).reg \in BusRegs
        /\ bus' = Append(bus, [who |-> "actor", step |-> Head(h.steps)])
        /\ UNCHANGED <<userTemp, state, file, heater, sg>>
    BY <1>3, <1>7 DEF SendRequest, Handlers, NextStepIn
  <2>2. Left' = Left /\ ApplyAll' = ApplyAll
    BY <2>1 DEF Left, ApplyAll
  <2>3. Head(h.steps) \in Harmless
    BY <1>1, <2>1, ClosedAsks
  <2>4. ASSUME NEW i \in 1..Len(bus') PROVE bus'[i].step \in Harmless'
    <3>1. CASE i \in 1..Len(bus) /\ bus'[i] = bus[i]
      BY <1>2, <1>5, <2>1, <3>1
    <3>2. CASE bus'[i] = [who |-> "actor", step |-> Head(h.steps)]
      BY <1>5, <2>1, <2>3, <3>2
    <3> QED
      BY <2>1, <3>1, <3>2, OneMore
  <2> QED
    BY <1>2, <1>5, <2>1, <2>2, <2>4 DEF ClosedInv
<1>8. CASE SetSmartGrid \/ SetOverride \/ ServeActor \/ ActorGivesUp
  <2>1. /\ h.steps # <<>> /\ UNCHANGED <<userTemp, state, file>>
        /\ \/ h' \in AfterSuccess /\ Head(h.steps).reg # "override"
           \/ h' = AfterError
    <3>1. CASE SetSmartGrid \/ SetOverride
      BY <1>1, <1>2, <3>1 DEF SetSmartGrid, SetOverride, NextStepIn
    <3>2. CASE ServeActor \/ ActorGivesUp
      <4>1. h.steps # <<>> /\ Head(h.steps).reg \in BusRegs
        BY <3>2 DEF ServeActor, ActorGivesUp, DhwInv, PriorRead, BusInv
      <4>2. Head(h.steps).reg # "override"
        BY <4>1 DEF BusRegs
      <4> QED
        BY <3>2, <4>1, <4>2 DEF ServeActor, ActorGivesUp
    <3> QED
      BY <1>8, <3>1, <3>2
  <2>2. /\ h'.kind \notin {"recover", "cancel", "bathDone"}
        /\ h'.kind = "shower" => Left' = 2
        /\ h'.kind = "bathApply" => Left' = ApplyAll'
        /\ h'.kind \in {"bathApply", "rollback"} => h'.prior = userTemp
    BY <1>1, <2>1, ClosedMoves
  <2>3. sg' = "Normal"
    <3>1. CASE SetSmartGrid
      <4>1. Head(h.steps).reg = "sg"
        BY <3>1 DEF SetSmartGrid, NextStepIn
      <4>2. h.kind # "bathApply"
        <5>1. h.kind = "bathApply" => ApplyAll # ApplyAll - 1 /\ ~(ApplyAll <= ApplyAll - 2)
          BY <1>4
        <5> QED
          BY <1>2, <2>1, <4>1, <5>1, StepAt, StepFields DEF Undoes
      <4>3. Head(h.steps).val = "Normal"
        BY <2>1, <4>1, <4>2, StepAt, StepFields DEF Undoes
      <4> QED
        BY <1>2, <3>1, <4>3 DEF SetSmartGrid
    <3> QED
      BY <1>2, <1>8, <3>1 DEF SetOverride, ServeActor, ActorGivesUp
  <2>4. heater' = Untouched'
    <3>1. CASE ServeActor
      <4>1. bus # <<>> /\ (Land \/ UNCHANGED heater)
        BY <3>1 DEF ServeActor, Served
      <4>2. CASE Land
        <5>1. Head(bus).step \in Harmless
          BY <1>2, <4>1, <4>2, Lands
        <5> QED
          BY <1>2, <2>1, <4>1, <4>2, <5>1, HarmlessLands
      <4> QED
        BY <1>2, <1>5, <2>1, <4>1, <4>2
    <3> QED
      BY <1>2, <1>5, <1>8, <2>1, <3>1 DEF SetSmartGrid, SetOverride, ActorGivesUp
  <2>5. ASSUME NEW i \in 1..Len(bus') PROVE bus'[i].step \in Harmless'
    <3>1. CASE ServeActor
      <4>1. bus # <<>> /\ bus' = Tail(bus)
        BY <3>1 DEF ServeActor, Served
      <4> QED
        BY <1>2, <1>5, <2>1, <4>1, Rest
    <3>2. CASE ActorGivesUp
      <4>1. i \in 1..Len(bus) /\ bus'[i].step = bus[i].step
        BY <3>2, SameSteps DEF ActorGivesUp
      <4> QED
        BY <1>2, <1>5, <2>1, <4>1
    <3> QED
      BY <1>2, <1>5, <1>8, <2>1, <3>1, <3>2 DEF SetSmartGrid, SetOverride
  <2> QED
    BY <1>2, <2>1, <2>2, <2>3, <2>4, <2>5 DEF ClosedInv
<1>9. CASE ServeNobody
  <2>1. /\ UNCHANGED <<userTemp, state, file, sg, h>>
        /\ bus # <<>> /\ bus' = Tail(bus) /\ (Land \/ UNCHANGED heater)
    BY <1>9 DEF ServeNobody, Served
  <2>2. Left' = Left /\ ApplyAll' = ApplyAll
    BY <2>1 DEF Left, ApplyAll
  <2>3. heater' = Untouched'
    <3>1. CASE Land
      <4>1. Head(bus).step \in Harmless
        BY <1>2, <2>1, <3>1, Lands
      <4> QED
        BY <1>2, <2>1, <3>1, <4>1, HarmlessLands
    <3> QED
      BY <1>2, <1>5, <2>1, <3>1
  <2>4. ASSUME NEW i \in 1..Len(bus') PROVE bus'[i].step \in Harmless'
    BY <1>2, <1>5, <2>1, <2>4, Rest
  <2> QED
    BY <1>2, <2>1, <2>2, <2>3, <2>4 DEF ClosedInv
<1>10. CASE UNCHANGED vars
  BY <1>10, ClosedSame DEF vars
<1>11. CASE FinishRollback
  <2>1. h'.kind = "none" /\ UNCHANGED <<userTemp, state, file, heater, sg, bus>>
    BY <1>11, IdleIs DEF FinishRollback, Ends
  <2> QED
    BY <1>2, <1>5, <2>1 DEF ClosedInv
<1>12. CASE Crash
  <2>1. /\ sg' = "Normal" /\ state'.preset = "none" /\ UNCHANGED <<userTemp, file>>
        /\ bus' = <<>> /\ (heater' = heater \/ (bus # <<>> /\ Land))
    BY <1>12 DEF Crash, NoBoost
  <2>2. h'.kind = "none"
    <3>1. file.preset = "none"
      BY <1>2 DEF NoBoost
    <3> QED
      BY <1>12, <3>1, IdleIs DEF Crash
  <2>3. heater' = Untouched'
    <3>1. CASE bus # <<>> /\ Land
      <4>1. Head(bus).step \in Harmless
        BY <1>2, <3>1, Lands
      <4> QED
        BY <1>2, <2>1, <3>1, <4>1, HarmlessLands
    <3> QED
      BY <1>2, <1>5, <2>1, <3>1
  <2>4. \A i \in 1..Len(bus') : bus'[i].step \in Harmless'
    <3>1. 1..Len(bus') = {}
      BY <2>1
    <3> QED
      BY <3>1
  <2> QED
    BY <1>2, <2>1, <2>2, <2>3, <2>4 DEF ClosedInv
<1>13. ~FinishShowerStart /\ ~FinishBathStart
  BY <1>2, <1>4 DEF FinishShowerStart, FinishBathStart, Ends
<1>14. ~FinishRecovery /\ ~FinishCancel /\ ~FinishBathDone /\ ~Cancel /\ ~ShutdownSave
  BY <1>2 DEF FinishRecovery, FinishCancel, FinishBathDone, Ends, Cancel, ShutdownSave
<1>15. ~News /\ ~WatcherGivesUp /\ ~ShowerWatcherFires /\ ~BathExpires /\ ~Tick /\ ~WatcherReports
  BY <1>3
  DEF News, OnShowerDone, OnBathEvent, OnBathDone, WatcherGivesUp, ShowerWatcherFires,
      BathExpires, Tick, GateCrosses, BathTriggers, Ticks, WatcherReports
<1>16. ~ServeWatcher
  <2>1. bus # <<>> => Head(bus) = bus[1] /\ 1 \in 1..Len(bus)
    BY Oldest DEF DhwInv, TypeOK
  <2> QED
    BY <1>3, <2>1 DEF ServeWatcher, Served
<1>17. ~HeaterTimerElapses
  BY <1>2 DEF HeaterTimerElapses, Untouched
<1> QED
  BY <1>6, <1>7, <1>8, <1>9, <1>10, <1>11, <1>12, <1>13, <1>14, <1>15, <1>16, <1>17
  DEF Next, Commands, HandlerSteps, Serve

-----------------------------------------------------------------------------
(* While nothing has failed, no boost means an empty file.                 *)

RecordInv == PersistPath /\ NoSaveFailed /\ NoIoFailed =>
    (state.preset = "none" /\ h.kind # "recover" => file = NoBoost)

\* A step that takes back no failure and saves nothing.
LEMMA RecordSame ==
    ASSUME RecordInv, UNCHANGED <<file, state>>,
           NoSaveFailed' => NoSaveFailed, NoIoFailed' => NoIoFailed,
           h.kind = "recover" => h'.kind = "recover"
    PROVE  RecordInv'
  BY DEF RecordInv

\* A save of the boost in memory, which starts no recovery.
LEMMA RecordSaved ==
    ASSUME limits \in Limits, Save(state'), state'.preset = "none" => state' = NoBoost
    PROVE  RecordInv'
  BY SavedIsWritten DEF RecordInv

LEMMA RecordStep ==
    DhwInv /\ DhwInv' /\ FileInv /\ ShapeInv /\ RecordInv /\ [Next]_vars => RecordInv'
<1> SUFFICES ASSUME DhwInv, DhwInv', FileInv, ShapeInv, RecordInv, [Next]_vars
             PROVE  RecordInv'
  OBVIOUS
<1>0. /\ limits \in Limits /\ Presets /\ HandlerShape /\ state \in Boosts /\ h \in Handlers
      /\ h.kind = "none" => h.steps = <<>>
  BY DEF DhwInv, TypeOK, ShapeInv, HandlerShape
<1>s. IoFails \/ StepFails \/ SaveFails \/ UNCHANGED limits =>
        /\ NoSaveFailed' => NoSaveFailed
        /\ NoIoFailed' => NoIoFailed
        /\ StepFails => ~NoIoFailed'
  BY <1>0, Spent
<1>1. CASE \/ StartShower \/ \E low \in BOOLEAN : StartBath(low)
           \/ Cancel \/ OnBathDone \/ FinishRollback
  <2>1. h.kind # "recover" /\ UNCHANGED <<file, state, limits>>
    BY <1>1 DEF StartShower, StartBath, Cancel, OnBathDone, FinishRollback, AtRest, Ends
  <2> QED
    BY <1>s, <2>1, RecordSame
<1>2. CASE SendRequest
  <2>1. h'.kind = h.kind /\ UNCHANGED <<file, state, limits>>
    BY <1>0, <1>2 DEF SendRequest, Handlers
  <2> QED
    BY <1>s, <2>1, RecordSame
<1>3. CASE SetSmartGrid \/ SetOverride \/ ServeActor \/ ActorGivesUp
  <2>1. /\ h.steps # <<>> /\ UNCHANGED <<file, state>>
        /\ \/ h' \in AfterSuccess /\ UNCHANGED limits
           \/ h' = AfterError /\ StepFails
           \/ h' = AfterError /\ h.kind # "recover" /\ UNCHANGED limits
    BY <1>3
    DEF SetSmartGrid, SetOverride, ServeActor, ActorGivesUp, NextStepIn, DhwInv, PriorRead
  <2>2. CASE h' \in AfterSuccess /\ UNCHANGED limits
    <3>1. h.kind = "recover" => h'.kind = "recover"
      BY <2>1, <2>2, Worked
    <3> QED
      BY <1>s, <2>1, <2>2, <3>1, RecordSame
  <2>3. CASE StepFails
    BY <1>s, <2>3 DEF RecordInv
  <2>4. CASE h.kind # "recover" /\ UNCHANGED limits
    BY <1>s, <2>1, <2>4, RecordSame
  <2> QED
    BY <2>1, <2>2, <2>3, <2>4
<1>4. CASE \/ Serve /\ ~ServeActor
           \/ WatcherGivesUp \/ ShowerWatcherFires \/ BathExpires \/ Tick
           \/ WatcherReports \/ HeaterTimerElapses \/ UNCHANGED vars
  <2>1. UNCHANGED <<file, state, h>> /\ (IoFails \/ UNCHANGED limits)
    BY <1>4
    DEF Serve, ServeWatcher, ServeNobody, WatcherGivesUp, ShowerWatcherFires, BathExpires,
        Tick, GateCrosses, BathTriggers, WatcherReports, HeaterTimerElapses, vars
  <2> QED
    BY <1>s, <2>1, RecordSame
<1>5. CASE FinishRecovery
  <2>1. Save(NoBoost)
    BY <1>5 DEF FinishRecovery
  <2> QED
    BY <1>0, <2>1, SavedIsWritten DEF RecordInv
<1>6. CASE FinishShowerStart \/ FinishBathStart \/ FinishCancel \/ FinishBathDone \/ OnShowerDone
  <2>1. Save(state') /\ (state'.preset = "none" => state' = NoBoost)
    BY <1>6
    DEF FinishShowerStart, FinishBathStart, FinishCancel, FinishBathDone, OnShowerDone,
        ShowerBoost, NoBoost, BathBoost
  <2> QED
    BY <1>0, <2>1, RecordSaved
<1>7. CASE ShutdownSave \/ OnBathEvent
  <2>1. state'.preset = state.preset /\ Save(state') /\ state.preset # "none"
    BY <1>0, <1>7 DEF ShutdownSave, OnBathEvent, Boosts, Presets
  <2> QED
    BY <1>0, <2>1, RecordSaved
<1>8. CASE Crash
  <2> SUFFICES ASSUME PersistPath, NoSaveFailed', NoIoFailed', h'.kind # "recover"
               PROVE  file' = NoBoost
    BY DEF RecordInv
  <2>1. PICK unreadable \in {0, 1} :
          /\ unreadable <= limits.saves
          /\ h' = IF file.preset = "none" \/ unreadable = 1 THEN Idle
                  ELSE Starts("recover", RecoverySteps(file))
          /\ limits'.saves = limits.saves - unreadable /\ limits'.io = limits.io
    BY <1>8 DEF Crash
  <2>2. unreadable = 0 /\ NoSaveFailed /\ NoIoFailed
    BY <1>0, <2>1 DEF NoSaveFailed, NoIoFailed, Limits
  <2>3. file.preset = "none"
    <3>1. RecoverySteps(file) \in Seq(Steps) /\ "recover" \in Kinds
      BY RecoveryTyped DEF DhwInv, TypeOK, Kinds
    <3>2. h' = Starts("recover", RecoverySteps(file)) => h'.kind = "recover"
      BY <3>1, StartsIs DEF Starting
    <3> QED
      BY <2>1, <2>2, <3>2
  <2>4. state.preset = "none"
    BY <2>2, <2>3 DEF FileInv, FileMirrorsState
  <2>5. h.kind # "recover"
    BY <1>0, <2>3 DEF HandlerShape
  <2> QED
    BY <1>8, <2>2, <2>4, <2>5 DEF RecordInv, Crash
<1> QED
  BY <1>1, <1>2, <1>3, <1>4, <1>5, <1>6, <1>7, <1>8
  DEF Next, Commands, HandlerSteps, Serve, News

-----------------------------------------------------------------------------
(* The user's engage temp.  It is clean when 61636 holds it and no request *)
(* on the bus would change that; where it is not, it is written down.      *)

EngageReq == \A i \in 1..Len(bus) :
    bus[i].step.reg = "engage" => bus[i].step.val = userTemp

Clean == heater.engage = userTemp /\ EngageReq

TempInv == OnRecord =>
    /\ state.preset # "Bath" /\ h.kind \notin {"recover", "bathApply", "rollback"} => Clean
    /\ h.kind \in {"bathApply", "rollback"} => h.prior = userTemp
    /\ h.kind = "rollback" => Clean \/ Left >= 3
    /\ state.preset = "Bath" => state.prior = userTemp
    /\ h.kind \in {"cancel", "bathDone"} => Clean \/ Left >= 3
    /\ h.kind = "recover" =>
         /\ file.prior \in {"none", userTemp}
         /\ Clean \/ (file.prior = userTemp /\ Left >= 3)

\* The requests on the bus are ones that were there.
NoNewRequest ==
    \A i \in 1..Len(bus') : \E j \in 1..Len(bus) : bus'[i].step = bus[j].step

LEMMA CleanKept ==
    ASSUME DhwInv, Clean, UNCHANGED userTemp, NoNewRequest,
           heater'.engage = heater.engage \/ (bus # <<>> /\ Land)
    PROVE  Clean'
<1>1. EngageReq'
  BY DEF Clean, EngageReq, NoNewRequest
<1>2. heater'.engage = userTemp
  <2>1. CASE bus # <<>> /\ Land
    <3>1. 1 \in 1..Len(bus) /\ Head(bus).step = bus[1].step
      BY <2>1, Lands
    <3>2. Head(bus).step.reg = "engage" => Head(bus).step.val = userTemp
      BY <3>1 DEF Clean, EngageReq
    <3> QED
      BY <2>1, <3>2, Lands DEF Clean
  <2> QED
    BY <2>1 DEF Clean
<1> QED
  BY <1>1, <1>2 DEF Clean

LEMMA NoneNew ==
    ASSUME DhwInv,
           \/ UNCHANGED bus \/ bus' = <<>> \/ (bus # <<>> /\ bus' = Tail(bus))
           \/ Disown("actor") \/ Disown("watcher")
    PROVE  NoNewRequest
<1>1. CASE UNCHANGED bus
  BY <1>1 DEF NoNewRequest
<1>2. CASE bus' = <<>>
  <2>1. 1..Len(bus') = {}
    BY <1>2
  <2> QED
    BY <2>1 DEF NoNewRequest
<1>3. CASE bus # <<>> /\ bus' = Tail(bus)
  BY <1>3, Rest DEF NoNewRequest
<1>4. CASE Disown("actor") \/ Disown("watcher")
  <2>1. \A i \in 1..Len(bus') : i \in 1..Len(bus) /\ bus'[i].step = bus[i].step
    BY <1>4, SameSteps
  <2> QED
    BY <2>1 DEF NoNewRequest
<1> QED
  BY <1>1, <1>2, <1>3, <1>4

\* While the process lives, what excuses a loss stays.
LEMMA RecordLasts ==
    ASSUME limits \in Limits, IoFails \/ StepFails \/ SaveFails \/ UNCHANGED limits
    PROVE  /\ OnRecord' => OnRecord
           /\ StepFails /\ OnRecord' => NoCrash /\ h.kind # "rollback"
<1>1. /\ limits'.crashes = limits.crashes /\ limits'.torn = limits.torn
      /\ NoIoFailed' => NoIoFailed
      /\ NoSaveFailed' => NoSaveFailed
      /\ StepFails => ~NoIoFailed'
      /\ limits.skipped => limits'.skipped
  BY Spent
<1>2. StepFails /\ h.kind = "rollback" => limits'.skipped
  BY DEF StepFails, Limits
<1>3. NoCrash' <=> NoCrash
  BY <1>1 DEF NoCrash
<1>4. OnRecord' <=> \/ NoCrash' /\ ~limits'.skipped
                    \/ PersistPath /\ ~limits'.torn /\ NoSaveFailed' /\ NoIoFailed'
  BY DEF OnRecord
<1> QED
  BY <1>1, <1>2, <1>3, <1>4 DEF OnRecord

\* A step after which the handler is where it was.
LEMMA TempSame ==
    ASSUME TempInv, OnRecord' => OnRecord, UNCHANGED userTemp,
           Clean => Clean' \/ h.kind = "bathApply",
           h'.kind = h.kind, h'.prior = h.prior, h'.steps = h.steps,
           state.preset = "Bath" => h.kind # "bathApply",
           state'.preset = state.preset, state'.prior = state.prior,
           file'.prior = file.prior \/ h.kind # "recover"
    PROVE  TempInv'
<1>1. Left' = Left
  BY DEF Left
<1> QED
  BY <1>1 DEF TempInv

LEMMA TempWorked ==
    ASSUME DhwInv, ShapeInv, TempInv, h.steps # <<>>, h' \in AfterSuccess,
           UNCHANGED <<userTemp, state, file, limits>>, Clean => Clean',
           Head(h.steps).reg = "engage" /\ Head(h.steps).val = userTemp => Clean'
    PROVE  TempInv'
<1> SUFFICES ASSUME OnRecord' PROVE TempInv'
  BY DEF TempInv
<1>0. /\ OnRecord /\ Left \in Nat /\ Left >= 1 /\ userTemp # "none" /\ h.kind \in Kinds
      /\ h.kind # "none"
  BY RecordLasts, StepAt DEF DhwInv, TypeOK, Temps, Handlers, ShapeInv, HandlerShape
<1>1. /\ h.kind \in {"cancel", "bathDone"} => state.preset = "Bath"
      /\ h.kind \notin {"cancel", "bathDone"} => state.preset = "none"
  BY <1>0 DEF ShapeInv, Presets
<1>2. CASE h.kind \in {"showerRead", "bathRead"}
  <2>1. heater.engage = userTemp /\ Clean'
    BY <1>0, <1>1, <1>2 DEF TempInv, Clean
  <2> QED
    BY <1>1, <1>2, <2>1, Worked, IdleIs DEF TempInv
<1>3. CASE h.kind \notin {"showerRead", "bathRead"}
  <2>1. h'.kind = h.kind /\ h'.prior = h.prior /\ Left' = Left - 1
    BY <1>3, Worked
  <2>2. CASE h.kind \in {"shower", "bathApply"}
    BY <1>0, <1>1, <2>1, <2>2 DEF TempInv
  <2>3. CASE h.kind \in {"rollback", "cancel", "bathDone"}
    <3>1. Clean \/ Left >= 3
      BY <1>0, <2>3 DEF TempInv
    <3>2. Left = 3 => Head(h.steps) = Step("engage", userTemp)
      <4>1. h.kind = "rollback" => h.prior = userTemp
        BY <1>0 DEF TempInv
      <4>2. h.kind # "rollback" => state.prior = userTemp
        BY <1>0, <1>1, <2>3 DEF TempInv
      <4>3. Left = 3 => Left # 1 /\ Left # 2 /\ ~(Left >= 4)
        OBVIOUS
      <4> QED
        BY <2>3, <4>1, <4>2, <4>3, StepAt DEF Undoes
    <3>3. Left >= 3 => Left = 3 \/ Left - 1 >= 3
      BY <1>0
    <3>4. Clean' \/ Left' >= 3
      BY <2>1, <3>1, <3>2, <3>3, StepFields
    <3> QED
      BY <1>0, <1>1, <2>1, <2>3, <3>4 DEF TempInv
  <2>4. CASE h.kind = "recover"
    <3>1. file.prior \in {"none", userTemp} /\ (Clean \/ (file.prior = userTemp /\ Left >= 3))
      BY <1>0, <2>4 DEF TempInv
    <3>2. Left = 3 /\ file.prior = userTemp => Head(h.steps) = Step("engage", userTemp)
      <4>1. Left = 3 => Left # 1 /\ Left # 2 /\ ~(Left >= 4)
        OBVIOUS
      <4> QED
        BY <1>0, <2>4, <4>1, StepAt DEF Undoes
    <3>3. Left >= 3 => Left = 3 \/ Left - 1 >= 3
      BY <1>0
    <3>4. Clean' \/ (file.prior = userTemp /\ Left' >= 3)
      BY <2>1, <3>1, <3>2, <3>3, StepFields
    <3> QED
      BY <1>0, <1>1, <2>1, <2>4, <3>1, <3>4 DEF TempInv
  <2> QED
    BY <1>0, <1>3, <2>2, <2>3, <2>4 DEF Kinds
<1> QED
  BY <1>2, <1>3

LEMMA TempFailed ==
    ASSUME DhwInv, ShapeInv, TempInv, h.steps # <<>>, h' = AfterError,
           UNCHANGED <<userTemp, state, file>>, Clean => Clean',
           \/ StepFails
           \/ UNCHANGED limits /\ Head(h.steps).reg = "override" /\ h.kind # "recover"
    PROVE  TempInv'
<1> SUFFICES ASSUME OnRecord' PROVE TempInv'
  BY DEF TempInv
<1>0. /\ OnRecord /\ h.kind # "none"
      /\ StepFails => NoCrash /\ h.kind # "rollback"
  BY RecordLasts DEF DhwInv, TypeOK, ShapeInv, HandlerShape
<1>1. /\ h.kind \in {"cancel", "bathDone"} => state.preset = "Bath"
      /\ h.kind \notin {"cancel", "bathDone"} => state.preset = "none"
  BY <1>0 DEF ShapeInv, Presets
<1>2. h.kind # "recover"
  <2>1. limits.crashes \in 0..MaxCrashes
    BY DEF DhwInv, TypeOK, Limits
  <2>2. limits.crashes < MaxCrashes => ~NoCrash
    BY <2>1 DEF NoCrash
  <2> QED
    BY <1>0, <2>2 DEF ShapeInv, Presets
<1>3. CASE h.kind = "bathApply"
  <2>1. h'.kind = "rollback" /\ h'.prior = h.prior /\ Left' >= 3
    BY <1>3, Failed
  <2> QED
    BY <1>0, <1>1, <1>3, <2>1 DEF TempInv
<1>4. CASE h.kind = "rollback"
  <2>1. h'.kind = "rollback" /\ h'.prior = h.prior
    BY <1>4, Failed
  <2>2. Head(h.steps).reg = "override"
    BY <1>0, <1>4
  <2>3. h.kind \in Undoes
    BY <1>4 DEF Undoes
  <2>4. Left = 1
    BY <2>2, <2>3, UndoesAt
  <2>5. ~(Left >= 3)
    BY <2>4
  <2>6. Clean'
    BY <1>0, <1>4, <2>5 DEF TempInv
  <2> QED
    BY <1>0, <1>1, <1>4, <2>1, <2>6 DEF TempInv
<1>5. CASE h.kind \notin {"bathApply", "rollback"}
  <2>1. h'.kind = "none"
    BY <1>5, Failed, IdleIs
  <2> QED
    BY <1>0, <1>1, <1>2, <1>5, <2>1 DEF TempInv
<1> QED
  BY <1>3, <1>4, <1>5

\* The request of the handler is sent: the user's temp, or a Bath starts.
LEMMA TempSent ==
    ASSUME DhwInv, ShapeInv, TempInv, SendRequest PROVE TempInv'
<1>1. /\ h'.kind = h.kind /\ h'.prior = h.prior /\ h'.steps = h.steps /\ h.steps # <<>>
      /\ UNCHANGED <<userTemp, heater, state, file, limits>>
      /\ bus' = Append(bus, [who |-> "actor", step |-> Head(h.steps)])
  BY DEF SendRequest, NextStepIn, DhwInv, TypeOK, Handlers
<1>2. OnRecord' => OnRecord
  BY <1>1, RecordLasts DEF DhwInv, TypeOK
<1>3. state.preset = "Bath" => h.kind # "bathApply"
  BY DEF ShapeInv, Presets
<1>4. ASSUME OnRecord, h.kind # "bathApply", Head(h.steps).reg = "engage"
      PROVE  Head(h.steps).val = userTemp
  <2>1. \/ h.kind = "rollback" /\ Head(h.steps) = Step("engage", h.prior)
        \/ /\ h.kind = "recover" /\ file.prior # "none"
           /\ Head(h.steps) = Step("engage", file.prior)
        \/ h.kind \in {"cancel", "bathDone"} /\ Head(h.steps) = Step("engage", state.prior)
    BY <1>1, <1>4, StepAt, StepFields
  <2>2. h.kind \in {"cancel", "bathDone"} => state.preset = "Bath"
    BY DEF ShapeInv, Presets
  <2> QED
    BY <1>4, <2>1, <2>2, StepFields DEF TempInv
<1>5. ASSUME OnRecord, Clean, h.kind # "bathApply" PROVE Clean'
  <2>1. ASSUME NEW i \in 1..Len(bus'), bus'[i].step.reg = "engage"
        PROVE  bus'[i].step.val = userTemp
    <3>1. CASE i \in 1..Len(bus) /\ bus'[i] = bus[i]
      BY <1>5, <2>1, <3>1 DEF Clean, EngageReq
    <3>2. CASE bus'[i] = [who |-> "actor", step |-> Head(h.steps)]
      BY <1>4, <1>5, <2>1, <3>2
    <3> QED
      BY <1>1, <3>1, <3>2, OneMore
  <2> QED
    BY <1>1, <1>5, <2>1 DEF Clean, EngageReq
<1>6. Left' = Left
  BY <1>1 DEF Left
<1> QED
  BY <1>1, <1>2, <1>3, <1>5, <1>6 DEF TempInv

\* The heater answers the handler.
LEMMA TempServed ==
    ASSUME DhwInv, ShapeInv, BusInv, TempInv, ServeActor PROVE TempInv'
<1>1. /\ bus # <<>> /\ bus' = Tail(bus) /\ Head(bus).who = "actor" /\ h.steps # <<>>
      /\ UNCHANGED <<userTemp, state, file>>
      /\ \/ Land /\ h' \in AfterSuccess /\ UNCHANGED limits
         \/ StepFails /\ (Land \/ UNCHANGED heater) /\ h' = AfterError
  BY DEF ServeActor, Served, DhwInv, PriorRead
<1>2. Clean => Clean'
  <2>1. NoNewRequest
    BY <1>1, NoneNew
  <2>2. heater'.engage = heater.engage \/ (bus # <<>> /\ Land)
    BY <1>1
  <2> QED
    BY <1>1, <2>1, <2>2, CleanKept
<1>3. ASSUME Land, Head(h.steps).reg = "engage", Head(h.steps).val = userTemp PROVE Clean'
  <2>1. /\ bus[1].who = "actor" /\ 1 \in 1..Len(bus) /\ Head(bus).step = Head(h.steps)
        /\ \A i \in 1..(Len(bus) - 1) :
             i + 1 \in 1..Len(bus) /\ Tail(bus)[i] = bus[i + 1] /\ 1 < i + 1
        /\ Len(Tail(bus)) = Len(bus) - 1
    <3>1. Head(bus) = bus[1] /\ 1 \in 1..Len(bus) /\ Len(Tail(bus)) = Len(bus) - 1
      BY <1>1, Oldest DEF DhwInv, TypeOK
    <3>2. \A i \in 1..(Len(bus) - 1) :
             i + 1 \in 1..Len(bus) /\ Tail(bus)[i] = bus[i + 1]
      BY <1>1, Oldest DEF DhwInv, TypeOK
    <3>3. \A i \in 1..(Len(bus) - 1) : 1 < i + 1
      OBVIOUS
    <3>4. bus[1].who = "actor"
      BY <1>1, <3>1
    <3>5. bus[1].step = Head(h.steps)
      BY <3>1, <3>4 DEF BusInv
    <3> QED
      BY <3>1, <3>2, <3>3, <3>4, <3>5
  <2>2. ASSUME NEW i \in 1..Len(bus') PROVE bus'[i].step.reg = "kw"
    <3>1. i \in 1..(Len(bus) - 1)
      BY <1>1, <2>1
    <3>2. i + 1 \in 1..Len(bus) /\ bus'[i] = bus[i + 1] /\ 1 < i + 1
      BY <1>1, <2>1, <3>1
    <3> QED
      BY <2>1, <3>2 DEF BusInv
  <2>3. EngageReq'
    <3>1. "kw" # "engage"
      OBVIOUS
    <3> QED
      BY <2>2, <3>1 DEF EngageReq
  <2>4. heater'.engage = userTemp
    BY <1>1, <1>3, <2>1, Lands
  <2> QED
    BY <1>1, <2>3, <2>4 DEF Clean
<1>4. CASE Land /\ h' \in AfterSuccess /\ UNCHANGED limits
  BY <1>1, <1>2, <1>3, <1>4, TempWorked
<1>5. CASE StepFails /\ h' = AfterError
  BY <1>1, <1>2, <1>5, TempFailed
<1> QED
  BY <1>1, <1>4, <1>5

\* Recovery begins with the whole list.
LEMMA RecoveryBegins ==
    ASSUME DhwInv, h' = Starts("recover", RecoverySteps(file))
    PROVE  /\ h'.kind = "recover" /\ ~h'.waiting
           /\ h'.steps = RecoverySteps(file)
           /\ Left' \in Nat /\ Left' >= 4 /\ (file.prior # "none" => Left' = 5)
<1>1. /\ RecoverySteps(file) \in Seq(Steps) /\ "recover" \in Kinds /\ file \in Boosts
  BY RecoveryTyped DEF DhwInv, TypeOK, Kinds
<1>2. Starting("recover", RecoverySteps(file))
  BY <1>1, StartsIs
<1>3. /\ Len(RecoverySteps(file)) \in 4..5
      /\ file.prior # "none" => Len(RecoverySteps(file)) = 5
  BY <1>1, RecoveryEnd
<1>4. Left' \in 4..5 /\ (file.prior # "none" => Left' = 5)
  BY <1>2, <1>3 DEF Starting, Left
<1>5. Left' \in Nat /\ Left' >= 4
  BY <1>4
<1> QED
  BY <1>2, <1>4, <1>5 DEF Starting

\* After a crash the record says what the heater needs.
LEMMA TempCrash ==
    ASSUME DhwInv, DhwInv', FileInv, ShapeInv, RecordInv, TempInv, Crash PROVE TempInv'
<1> SUFFICES ASSUME OnRecord' PROVE TempInv'
  BY DEF TempInv
<1>0. /\ limits \in Limits /\ state \in Boosts /\ file \in Boosts /\ userTemp # "none"
      /\ h.kind \in Kinds
  BY DEF DhwInv, TypeOK, Temps, Handlers
<1>1. /\ UNCHANGED <<userTemp, file>> /\ state'.preset = "none" /\ bus' = <<>>
      /\ heater' = heater \/ (bus # <<>> /\ Land)
  BY DEF Crash, NoBoost
<1>2. PICK unreadable \in {0, 1} :
        /\ unreadable <= limits.saves
        /\ h' = IF file.preset = "none" \/ unreadable = 1 THEN Idle
                ELSE Starts("recover", RecoverySteps(file))
        /\ limits'.saves = limits.saves - unreadable
        /\ limits'.io = limits.io /\ limits'.crashes = limits.crashes - 1
        /\ limits'.torn = (limits.torn \/ h.kind \in {"bathApply", "rollback"})
        /\ limits.crashes > 0
  <2>1. PICK unreadable \in {0, 1} :
          /\ unreadable <= limits.saves
          /\ h' = IF file.preset = "none" \/ unreadable = 1 THEN Idle
                  ELSE Starts("recover", RecoverySteps(file))
          /\ limits' = [io      |-> limits.io,
                       saves   |-> limits.saves - unreadable,
                       crashes |-> limits.crashes - 1,
                       torn    |-> limits.torn \/ h.kind \in {"bathApply", "rollback"},
                       skipped |-> limits.skipped,
                       orderly |-> limits.orderly]
    BY DEF Crash
  <2>2. limits.crashes > 0
    BY DEF Crash
  <2> QED
    BY <2>1, <2>2
<1>3. /\ PersistPath /\ ~limits'.torn /\ NoSaveFailed' /\ NoIoFailed'
  <2>1. ~NoCrash'
    BY <1>0, <1>2 DEF NoCrash, Limits
  <2> QED
    BY <2>1 DEF OnRecord
<1>4. /\ ~limits.torn /\ h.kind \notin {"bathApply", "rollback"}
  BY <1>2, <1>3
<1>5. unreadable = 0 /\ NoSaveFailed /\ NoIoFailed
  BY <1>0, <1>2, <1>3 DEF NoSaveFailed, NoIoFailed, Limits
<1>6. OnRecord
  BY <1>3, <1>4, <1>5 DEF OnRecord
<1>7. Clean => Clean'
  <2>1. NoNewRequest
    BY <1>1, NoneNew
  <2>2. heater'.engage = heater.engage \/ (bus # <<>> /\ Land)
    BY <1>1
  <2> QED
    BY <1>1, <2>1, <2>2, CleanKept
<1>8. /\ state.preset # "none" => file = state
      /\ state.preset = "none" /\ h.kind # "recover" => file = NoBoost
  BY <1>3, <1>5 DEF FileInv, FileMirrorsState, RecordInv
<1>9. /\ file.prior \in {"none", userTemp}
      /\ Clean \/ (file.prior = userTemp /\ file.preset # "none")
  <2>1. CASE state.preset = "Bath"
    BY <1>6, <1>8, <2>1 DEF TempInv
  <2>2. CASE state.preset = "Shower"
    <3>1. h.kind = "none" /\ state = ShowerBoost
      BY <1>0, <2>2 DEF ShapeInv, Presets
    <3>2. ShowerBoost.prior = "none"
      BY DEF ShowerBoost, NoBoost
    <3> QED
      BY <1>6, <1>8, <2>2, <3>1, <3>2 DEF TempInv
  <2>3. CASE state.preset = "none" /\ h.kind # "recover"
    <3>1. NoBoost.prior = "none"
      BY DEF NoBoost
    <3> QED
      BY <1>4, <1>6, <1>8, <2>3, <3>1 DEF TempInv
  <2>4. CASE h.kind = "recover"
    BY <1>6, <2>4 DEF TempInv, ShapeInv, HandlerShape
  <2> QED
    BY <1>0, <2>1, <2>2, <2>3, <2>4 DEF Boosts
<1>10. CASE file.preset = "none"
  <2>1. h'.kind = "none"
    BY <1>2, <1>10, IdleIs
  <2> QED
    BY <1>1, <1>7, <1>9, <1>10, <2>1 DEF TempInv
<1>11. CASE file.preset # "none"
  <2>1. h' = Starts("recover", RecoverySteps(file))
    BY <1>2, <1>5, <1>11
  <2>2. h'.kind = "recover" /\ (file.prior # "none" => Left' >= 3)
    BY <2>1, RecoveryBegins
  <2>3. Clean' \/ (file.prior = userTemp /\ Left' >= 3)
    BY <1>0, <1>7, <1>9, <2>2
  <2> QED
    BY <1>1, <1>9, <2>2, <2>3 DEF TempInv
<1> QED
  BY <1>10, <1>11

LEMMA TempStep ==
    DhwInv /\ DhwInv' /\ FileInv /\ ShapeInv /\ BusInv /\ LaneInv /\ RecordInv /\ TempInv
      /\ [Next]_vars => TempInv'
<1> SUFFICES ASSUME DhwInv, DhwInv', FileInv, ShapeInv, BusInv, LaneInv, RecordInv, TempInv,
                    [Next]_vars
             PROVE  TempInv'
  OBVIOUS
<1>0. /\ limits \in Limits /\ Presets /\ HandlerShape /\ state \in Boosts
      /\ Left \in Nat /\ (Left = 0 <=> h.steps = <<>>)
      /\ state.preset = "Bath" => h.kind # "bathApply"
      /\ h.kind = "none" => h.steps = <<>>
  BY LeftIs DEF DhwInv, TypeOK, ShapeInv, Presets, HandlerShape
<1>s. IoFails \/ StepFails \/ SaveFails \/ UNCHANGED limits => (OnRecord' => OnRecord)
  BY <1>0, RecordLasts
<1>v. ASSUME NEW boost, Save(boost) PROVE OnRecord' => OnRecord
  BY <1>s, <1>v DEF Save
<1>c. ASSUME UNCHANGED userTemp, UNCHANGED bus \/ Disown("actor") \/ Disown("watcher"),
             heater'.engage = heater.engage
      PROVE  Clean => Clean'
  <2>1. NoNewRequest
    BY <1>c, NoneNew
  <2> QED
    BY <1>c, <2>1, CleanKept
<1>l. ~(Left >= 3) \/ h.steps # <<>>
  <2>1. Left = 0 => ~(Left >= 3)
    OBVIOUS
  <2> QED
    BY <1>0, <2>1
<1>1. CASE StartShower \/ \E low \in BOOLEAN : StartBath(low)
  <2>1. h'.kind \in {"showerRead", "bathRead"}
    <3>1. <<Step("read", "none")>> \in Seq(Steps) /\ {"showerRead", "bathRead"} \subseteq Kinds
      BY StepKinds DEF Kinds
    <3>2. CASE StartShower
      BY <3>1, <3>2, StartsIs DEF StartShower, Starting
    <3>3. ASSUME NEW low \in BOOLEAN, StartBath(low) PROVE h'.kind = "bathRead"
      <4> DEFINE a == Starts("bathRead", <<Step("read", "none")>>)
      <4>1. a \in Handlers /\ a.kind = "bathRead"
        BY <3>1, StartsTyped
      <4>2. h' = [a EXCEPT !.low = low]
        BY <3>3 DEF StartBath
      <4> HIDE DEF a
      <4> QED
        BY <4>1, <4>2 DEF Handlers
    <3> QED
      BY <1>1, <3>2, <3>3
  <2>2. /\ UNCHANGED <<userTemp, state, heater, bus, limits>>
        /\ h.kind = "none" /\ state.preset = "none"
    BY <1>1 DEF StartShower, StartBath, AtRest
  <2>3. Clean => Clean'
    BY <1>c, <2>2
  <2> QED
    BY <1>s, <2>1, <2>2, <2>3 DEF TempInv
<1>2. CASE Cancel \/ OnBathDone
  <2>1. /\ UNCHANGED <<userTemp, state, limits>> /\ state.preset = "Bath"
        /\ \E reason \in Reasons, kind \in {"cancel", "bathDone"} :
             h' = Starts(kind, StopSteps(state, reason))
    BY <1>0, <1>2
    DEF Cancel, OnBathDone, Presets, DhwInv, TypeOK, BathWatchers, Reasons
  <2>2. h'.kind \in {"cancel", "bathDone"} /\ Left' >= 3
    <3>1. PICK reason \in Reasons, kind \in {"cancel", "bathDone"} :
            h' = Starts(kind, StopSteps(state, reason))
      BY <2>1
    <3>2. kind \in Kinds
      BY DEF Kinds
    <3> QED
      BY <2>1, <3>1, <3>2, StopIsLong
  <2> QED
    BY <1>s, <2>1, <2>2 DEF TempInv
<1>3. CASE ShutdownSave
  <2>1. /\ UNCHANGED <<userTemp, heater, bus, h, state>> /\ Save(state) /\ h.kind = "none"
    BY <1>3 DEF ShutdownSave, AtRest
  <2>2. Clean => Clean'
    BY <1>c, <2>1
  <2> QED
    BY <1>0, <1>v, <2>1, <2>2, TempSame
<1>4. CASE SendRequest
  BY <1>4, TempSent
<1>5. CASE SetSmartGrid \/ SetOverride \/ ActorGivesUp
  <2>1. /\ h.steps # <<>> /\ UNCHANGED <<userTemp, state, file, heater>>
        /\ UNCHANGED bus \/ Disown("actor")
        /\ \/ h' \in AfterSuccess /\ UNCHANGED limits /\ Head(h.steps).reg \in {"sg", "override"}
           \/ /\ h' = AfterError
              /\ \/ StepFails
                 \/ UNCHANGED limits /\ Head(h.steps).reg = "override" /\ h.kind # "recover"
    BY <1>5 DEF SetSmartGrid, SetOverride, ActorGivesUp, NextStepIn, DhwInv, PriorRead
  <2>2. Clean => Clean'
    BY <1>c, <2>1
  <2>3. Head(h.steps).reg \in {"sg", "override"} => Head(h.steps).reg # "engage"
    OBVIOUS
  <2> QED
    BY <2>1, <2>2, <2>3, TempWorked, TempFailed
<1>6. CASE ServeActor
  BY <1>6, TempServed
<1>7. CASE ServeWatcher \/ ServeNobody
  <2>1. /\ UNCHANGED <<userTemp, state, file, h>> /\ bus # <<>> /\ bus' = Tail(bus)
        /\ heater'.engage = heater.engage \/ (bus # <<>> /\ Land)
        /\ IoFails \/ UNCHANGED limits
    BY <1>7 DEF ServeWatcher, ServeNobody, Served
  <2>2. NoNewRequest
    BY <2>1, NoneNew
  <2>3. Clean => Clean'
    BY <2>1, <2>2, CleanKept
  <2> QED
    BY <1>0, <1>s, <2>1, <2>3, TempSame
<1>8. CASE WatcherGivesUp
  <2>1. UNCHANGED <<userTemp, state, file, h, heater>> /\ Disown("watcher") /\ IoFails
    BY <1>8 DEF WatcherGivesUp
  <2>2. Clean => Clean'
    BY <1>c, <2>1
  <2> QED
    BY <1>0, <1>s, <2>1, <2>2, TempSame
<1>9. CASE GateCrosses
  <2>1. /\ UNCHANGED <<userTemp, state, file, h, heater, limits>>
        /\ bus' = Append(bus, [who |-> "watcher",
                               step |-> Step("kw", IF bath'.engaged THEN "on" ELSE "off")])
    BY <1>9 DEF GateCrosses
  <2>2. ASSUME Clean PROVE Clean'
    <3>1. ASSUME NEW i \in 1..Len(bus'), bus'[i].step.reg = "engage"
          PROVE  bus'[i].step.val = userTemp
      <4>1. CASE i \in 1..Len(bus) /\ bus'[i] = bus[i]
        BY <2>2, <3>1, <4>1 DEF Clean, EngageReq
      <4>2. CASE bus'[i] = [who |-> "watcher",
                            step |-> Step("kw", IF bath'.engaged THEN "on" ELSE "off")]
        BY <3>1, <4>2, StepFields
      <4> QED
        BY <2>1, <4>1, <4>2, OneMore
    <3> QED
      BY <2>1, <2>2, <3>1 DEF Clean, EngageReq
  <2> QED
    BY <1>0, <1>s, <2>1, <2>2, TempSame
<1>10. CASE \/ ShowerWatcherFires \/ BathExpires \/ WatcherReports \/ HeaterTimerElapses
            \/ (\E reason \in Reasons \ {"Manual"} : BathTriggers(reason))
            \/ UNCHANGED vars
  <2>1. UNCHANGED <<userTemp, state, file, h, bus, limits>> /\ heater'.engage = heater.engage
    BY <1>10
    DEF ShowerWatcherFires, BathExpires, WatcherReports, HeaterTimerElapses, BathTriggers,
        vars, DhwInv, TypeOK, Registers
  <2>2. Clean => Clean'
    BY <1>c, <2>1
  <2> QED
    BY <1>0, <1>s, <2>1, <2>2, TempSame
<1>11. CASE OnBathEvent
  <2>1. /\ UNCHANGED <<userTemp, h, heater, bus>> /\ Save(state') /\ h.kind = "none"
        /\ state'.preset = state.preset /\ state'.prior = state.prior
    BY <1>0, <1>11 DEF OnBathEvent, Boosts, AtRest
  <2>2. Clean => Clean'
    BY <1>c, <2>1
  <2> QED
    BY <1>0, <1>v, <2>1, <2>2, TempSame
<1>12. CASE FinishRecovery \/ FinishRollback
  <2>1. /\ h.steps = <<>> /\ h'.kind = "none" /\ UNCHANGED <<userTemp, heater, bus, state>>
        /\ h.kind \in {"recover", "rollback"} /\ (OnRecord' => OnRecord)
    BY <1>s, <1>v, <1>12, IdleIs DEF FinishRecovery, FinishRollback, Ends
  <2>2. Clean => Clean'
    BY <1>c, <2>1
  <2>3. state.preset = "none"
    BY <1>0, <2>1 DEF Presets
  <2> QED
    BY <1>l, <2>1, <2>2, <2>3 DEF TempInv
<1>13. CASE FinishShowerStart
  <2>1. /\ h'.kind = "none" /\ UNCHANGED <<userTemp, heater, bus>> /\ h.kind = "shower"
        /\ state'.preset = "Shower" /\ (OnRecord' => OnRecord)
    BY <1>v, <1>13, IdleIs DEF FinishShowerStart, Ends, ShowerBoost, NoBoost
  <2>2. Clean => Clean'
    BY <1>c, <2>1
  <2>3. state.preset = "none"
    BY <1>0, <2>1 DEF Presets
  <2> QED
    BY <2>1, <2>2, <2>3 DEF TempInv
<1>14. CASE FinishBathStart
  <2>1. /\ h'.kind = "none" /\ UNCHANGED userTemp /\ h.kind = "bathApply"
        /\ state'.preset = "Bath" /\ state'.prior = h.prior /\ (OnRecord' => OnRecord)
    BY <1>v, <1>14, IdleIs DEF FinishBathStart, Ends, BathBoost
  <2> QED
    BY <2>1 DEF TempInv
<1>15. CASE FinishCancel \/ FinishBathDone
  <2>1. /\ h'.kind = "none" /\ UNCHANGED <<userTemp, heater>> /\ h.steps = <<>>
        /\ UNCHANGED bus \/ Disown("watcher")
        /\ h.kind \in {"cancel", "bathDone"} /\ state'.preset = "none"
        /\ OnRecord' => OnRecord
    BY <1>v, <1>15, IdleIs DEF FinishCancel, FinishBathDone, AbortBathWatcher, Ends, NoBoost
  <2>2. Clean => Clean'
    BY <1>c, <2>1
  <2> QED
    BY <1>l, <2>1, <2>2 DEF TempInv
<1>16. CASE OnShowerDone
  <2>1. /\ h'.kind = "none" /\ h.kind = "none" /\ UNCHANGED <<userTemp, heater, bus>>
        /\ state.preset = "Shower" /\ state'.preset = "none" /\ (OnRecord' => OnRecord)
    BY <1>0, <1>v, <1>16 DEF OnShowerDone, AtRest, NoBoost, Presets
  <2>2. Clean => Clean'
    BY <1>c, <2>1
  <2> QED
    BY <2>1, <2>2 DEF TempInv
<1>17. CASE Crash
  BY <1>17, TempCrash
<1> QED
  BY <1>1, <1>2, <1>3, <1>4, <1>5, <1>6, <1>7, <1>8, <1>9, <1>10, <1>11, <1>12,
     <1>13, <1>14, <1>15, <1>16, <1>17
  DEF Next, Commands, HandlerSteps, Serve, News, Tick

-----------------------------------------------------------------------------
(* The immersion heater, in an orderly run in which no call fails.         *)

Calm == limits.orderly /\ OnRecord /\ NoIoFailed

\* How many steps recovery has left when it comes to 61591.
RecoverKw == IF file.prior = "none" THEN 3 ELSE 4

KwInv == Calm =>
    /\ \A i \in 1..Len(bus) : bus[i].who # "nobody"
    /\ state.preset # "Bath" /\ h.kind \notin {"recover", "bathApply"} => heater.kw = "off"
    /\ h.kind = "bathApply" => (heater.kw = "on" <=> h.low /\ h.steps = <<>>)
    /\ h.kind = "recover" => heater.kw = "off" \/ Left >= RecoverKw
    /\ h.kind = "bathDone" => heater.kw = "off" \/ (state.engaged /\ Left >= 4)
    /\ events # <<>> => bath.pc = "wait" /\ events = <<bath.engaged>>
    /\ bath.pc \in {"wait", "wrote"} => (heater.kw = "on" <=> bath.engaged)
    /\ bath.pc \in {"wait", "done"} /\ events = <<>> => (heater.kw = "on" <=> state.engaged)

\* The step that turns it off, in recovery and in the stop of an engaged Bath.
LEMMA RecoverKwAt ==
    ASSUME DhwInv, ShapeInv, h.steps # <<>>, h.kind = "recover", Left = RecoverKw
    PROVE  Head(h.steps) = Step("kw", "off")
<1>1. h.steps \in Seq(Steps) /\ file \in Boosts /\ IsRest(h.steps, RecoverySteps(file))
  BY DEF DhwInv, TypeOK, Handlers, ShapeInv, HandlerShape
<1>2. Left \in Nat /\ Left >= 1 /\ Head(h.steps) = FromEnd(h.steps, Left)
  BY <1>1, WorkedOff DEF Left
<1>3. FromEnd(h.steps, Left) = FromEnd(RecoverySteps(file), Left)
  BY <1>1, <1>2 DEF IsRest, Left
<1>4. /\ FromEnd(RecoverySteps(file), Len(RecoverySteps(file)) - 1) = Step("kw", "off")
      /\ file.prior = "none" => Len(RecoverySteps(file)) = 4
      /\ file.prior # "none" => Len(RecoverySteps(file)) = 5
  BY <1>1, RecoveryEnd
<1>5. Left = Len(RecoverySteps(file)) - 1
  <2>1. file.prior = "none" => RecoverKw = 3
    BY DEF RecoverKw
  <2>2. file.prior # "none" => RecoverKw = 4
    BY DEF RecoverKw
  <2>3. 4 - 1 = 3 /\ 5 - 1 = 4
    OBVIOUS
  <2> QED
    BY <1>4, <2>1, <2>2, <2>3
<1> QED
  BY <1>2, <1>3, <1>4, <1>5

LEMMA StopKwAt ==
    ASSUME DhwInv, ShapeInv, h.steps # <<>>, h.kind = "bathDone", state.engaged, Left = 4
    PROVE  Head(h.steps) = Step("kw", "off")
<1>1. PICK reason \in Reasons : IsRest(h.steps, StopSteps(state, reason))
  BY DEF ShapeInv, HandlerShape
<1>2. h.steps \in Seq(Steps) /\ state \in Boosts /\ state.prior \in Temps
  BY DEF DhwInv, TypeOK, Handlers, ShapeInv, Presets
<1>3. Left \in Nat /\ Left >= 1 /\ Head(h.steps) = FromEnd(h.steps, Left)
  BY <1>2, WorkedOff DEF Left
<1>4. FromEnd(h.steps, Left) = FromEnd(StopSteps(state, reason), Left)
  BY <1>1, <1>3 DEF IsRest, Left
<1>5. FromEnd(StopSteps(state, reason), 4) = Step("kw", "off")
  BY <1>2, StopEnd
<1> QED
  BY <1>3, <1>4, <1>5

LEMMA LeftNext == DhwInv' => Left' \in Nat /\ (Left' = 0 <=> h'.steps = <<>>)
<1> SUFFICES ASSUME DhwInv' PROVE Left' \in Nat /\ (Left' = 0 <=> h'.steps = <<>>)
  OBVIOUS
<1>1. h'.steps \in Seq(Steps)
  BY DEF DhwInv, TypeOK, Handlers
<1> QED
  BY <1>1 DEF Left

\* Only a handler at rest has a watcher beside it.
LEMMA CalmHandler ==
    ASSUME DhwInv, ShapeInv, limits.orderly, h.kind # "none"
    PROVE  /\ bath.pc = "off" /\ events = <<>> /\ h.kind # "cancel"
           /\ h.kind = "bathDone" => state.preset = "Bath"
           /\ h.kind # "bathDone" => state.preset = "none"
  BY DEF ShapeInv, Presets

LEMMA CalmLasts ==
    ASSUME limits \in Limits, IoFails \/ StepFails \/ SaveFails \/ UNCHANGED limits, Calm'
    PROVE  Calm /\ ~IoFails /\ ~StepFails
  BY Spent, RecordLasts DEF Calm

\* A handler's step that worked wrote what it says.
LEMMA KwWorked ==
    ASSUME DhwInv, DhwInv', ShapeInv, KwInv, Calm, h.steps # <<>>, h' \in AfterSuccess,
           UNCHANGED <<state, file, bath, events>>,
           \A i \in 1..Len(bus') : bus'[i].who # "nobody",
           heater'.kw = (IF Head(h.steps).reg = "kw" THEN Head(h.steps).val ELSE heater.kw)
    PROVE  KwInv'
<1>0. /\ Left \in Nat /\ Left >= 1 /\ h.kind \in Kinds /\ h.kind # "none"
      /\ heater.kw \in {"on", "off"}
      /\ Left' \in Nat /\ (Left' = 0 <=> h'.steps = <<>>)
  BY StepAt, LeftNext DEF DhwInv, TypeOK, Handlers, Registers, ShapeInv, HandlerShape
<1>1. /\ bath.pc = "off" /\ events = <<>> /\ h.kind # "cancel"
      /\ h.kind = "bathDone" => state.preset = "Bath"
      /\ h.kind # "bathDone" => state.preset = "none"
  BY <1>0, CalmHandler DEF Calm
<1>2. \* What is left to show when no watcher runs.
      ASSUME h'.kind \notin {"recover", "bathApply", "bathDone"} => heater'.kw = "off",
             h'.kind = "bathApply" => (heater'.kw = "on" <=> h'.low /\ h'.steps = <<>>),
             h'.kind = "recover" => heater'.kw = "off" \/ Left' >= RecoverKw',
             h'.kind = "bathDone" =>
               /\ state.preset = "Bath"
               /\ heater'.kw = "off" \/ (state.engaged /\ Left' >= 4)
      PROVE  KwInv'
  BY <1>1, <1>2 DEF KwInv
<1>3. CASE h.kind \in {"showerRead", "bathRead"}
  <2>1. heater'.kw = "off"
    <3>1. Head(h.steps).reg # "kw"
      BY <1>3, StepAt, StepFields DEF Undoes
    <3> QED
      BY <1>1, <1>3, <3>1 DEF KwInv
  <2>2. h'.kind \in {"none", "shower"} \/ (h'.kind = "bathApply" /\ h'.steps # <<>>)
    <3>1. CASE h.kind = "showerRead"
      BY <3>1, Worked, IdleIs
    <3>2. CASE h.kind = "bathRead"
      <4>1. h'.kind = "bathApply" /\ Left' = ApplyAll' /\ h'.prior \in Temps /\ h'.low \in BOOLEAN
        BY <3>2, Worked DEF DhwInv, TypeOK, Handlers, PriorRead
      <4>2. Len(ApplySteps(h'.prior, h'.low)) \in 3..5
        BY <4>1, ApplyEnd
      <4>3. Left' \in 3..5
        BY <4>1, <4>2 DEF ApplyAll
      <4>4. Left' # 0
        BY <4>3
      <4> QED
        BY <1>0, <4>1, <4>4
    <3> QED
      BY <1>3, <3>1, <3>2
  <2>3. heater'.kw # "on"
    BY <2>1
  <2> QED
    BY <1>2, <2>1, <2>2, <2>3
<1>4. CASE h.kind \notin {"showerRead", "bathRead"}
  <2>1. /\ h'.kind = h.kind /\ h'.low = h.low /\ Left' = Left - 1 /\ ApplyAll' = ApplyAll
    BY <1>4, Worked
  <2>2. CASE h.kind = "shower"
    <3>1. Head(h.steps).reg # "kw"
      BY <2>2, StepAt, StepFields DEF Undoes
    <3>2. heater'.kw = "off"
      BY <1>1, <2>2, <3>1 DEF KwInv
    <3> QED
      BY <1>2, <2>1, <2>2, <3>2
  <2>3. CASE h.kind = "bathApply"
    <3>1. heater.kw # "on"
      BY <2>3 DEF KwInv
    <3>2. ApplyAll \in Nat /\ ApplyAll >= 3
      BY <2>3, AllIs
    <3>3. CASE h.low /\ Left = 1
      <4>1. Left # ApplyAll /\ Left # ApplyAll - 1
        BY <3>2, <3>3
      <4>2. Head(h.steps) = Step("kw", "on")
        BY <2>3, <3>3, <4>1, StepAt DEF Undoes
      <4>3. heater'.kw = "on" /\ h'.steps = <<>>
        BY <1>0, <2>1, <3>3, <4>2, StepFields
      <4> QED
        BY <1>2, <2>1, <2>3, <3>3, <4>3
    <3>4. CASE ~(h.low /\ Left = 1)
      <4>1. Head(h.steps).reg # "kw"
        BY <2>3, <3>4, StepAt, StepFields DEF Undoes
      <4>2. heater'.kw # "on"
        BY <3>1, <4>1
      <4>3. ~(h'.low /\ h'.steps = <<>>)
        <5>1. h'.steps = <<>> => Left = 1
          BY <1>0, <2>1
        <5> QED
          BY <2>1, <3>4, <5>1
      <4> QED
        BY <1>2, <2>1, <2>3, <4>2, <4>3
    <3> QED
      BY <3>3, <3>4
  <2>4. CASE h.kind \in Undoes
    <3>1. Head(h.steps).reg = "kw" => Head(h.steps).val = "off"
      BY <2>4, StepAt, StepFields DEF Undoes
    <3>2. heater.kw = "off" => heater'.kw = "off"
      BY <3>1
    <3>3. CASE h.kind = "rollback"
      <4>1. heater'.kw = "off"
        BY <1>1, <3>2, <3>3 DEF KwInv
      <4> QED
        BY <1>2, <2>1, <3>3, <4>1
    <3>4. CASE h.kind = "recover"
      <4>1. RecoverKw \in Nat /\ RecoverKw' = RecoverKw
        BY DEF RecoverKw
      <4>2. heater.kw = "off" \/ Left >= RecoverKw
        BY <3>4 DEF KwInv
      <4>3. Left = RecoverKw => heater'.kw = "off"
        BY <3>4, RecoverKwAt, StepFields
      <4>4. Left >= RecoverKw => Left = RecoverKw \/ Left - 1 >= RecoverKw
        BY <1>0, <4>1
      <4> QED
        BY <1>2, <2>1, <3>2, <3>4, <4>1, <4>2, <4>3, <4>4
    <3>5. CASE h.kind = "bathDone"
      <4>1. heater.kw = "off" \/ (state.engaged /\ Left >= 4)
        BY <3>5 DEF KwInv
      <4>2. state.engaged /\ Left = 4 => heater'.kw = "off"
        BY <3>5, StopKwAt, StepFields
      <4>3. Left >= 4 => Left = 4 \/ Left - 1 >= 4
        BY <1>0
      <4> QED
        BY <1>1, <1>2, <2>1, <3>2, <3>5, <4>1, <4>2, <4>3
    <3> QED
      BY <1>1, <2>4, <3>3, <3>4, <3>5 DEF Undoes
  <2> QED
    BY <1>0, <1>4, <2>2, <2>3, <2>4 DEF Kinds, Undoes
<1> QED
  BY <1>3, <1>4

\* The lane has no receiver: nothing was turned on.
LEMMA KwRefused ==
    ASSUME DhwInv, ShapeInv, ClosedInv, KwInv, Calm, h.steps # <<>>, h' = AfterError,
           override = "closed", UNCHANGED <<heater, state, bath, events, bus>>
    PROVE  KwInv'
<1>1. heater.kw = "off" /\ h.kind \notin {"recover", "cancel", "bathDone"}
  BY DEF ClosedInv, Untouched
<1>2. h'.kind \in {"none", "rollback"}
  BY <1>1, Failed, IdleIs
<1>3. h.kind # "none"
  BY DEF ShapeInv, HandlerShape
<1>4. bath.pc = "off" /\ events = <<>>
  BY <1>3, CalmHandler DEF Calm
<1> QED
  BY <1>1, <1>2, <1>4 DEF KwInv

\* The heater answers the handler.
LEMMA KwServed ==
    ASSUME DhwInv, DhwInv', ShapeInv, BusInv, KwInv, Calm, ServeActor, ~StepFails
    PROVE  KwInv'
<1>1. /\ bus # <<>> /\ bus' = Tail(bus) /\ Head(bus).who = "actor" /\ h.steps # <<>>
      /\ UNCHANGED <<state, file, bath, events>> /\ Land /\ h' \in AfterSuccess
  BY DEF ServeActor, Served, DhwInv, PriorRead
<1>2. Head(bus).step = Head(h.steps)
  <2>1. Head(bus) = bus[1] /\ 1 \in 1..Len(bus)
    BY <1>1, Oldest DEF DhwInv, TypeOK
  <2>2. bus[1].who = "actor"
    BY <1>1, <2>1
  <2> QED
    BY <2>1, <2>2 DEF BusInv
<1>3. heater'.kw = (IF Head(h.steps).reg = "kw" THEN Head(h.steps).val ELSE heater.kw)
  BY <1>1, <1>2, Lands
<1>4. \A i \in 1..Len(bus') : bus'[i].who # "nobody"
  BY <1>1, Rest DEF KwInv
<1> QED
  BY <1>1, <1>3, <1>4, KwWorked

\* The heater answers the watcher.
LEMMA KwGated ==
    ASSUME DhwInv, DhwInv', ShapeInv, BusInv, KwInv, Calm, ServeWatcher, ~IoFails
    PROVE  KwInv'
<1>1. /\ bus # <<>> /\ bus' = Tail(bus) /\ Head(bus).who = "watcher"
      /\ UNCHANGED <<state, h, events>> /\ Land /\ bath' = [bath EXCEPT !.pc = "wrote"]
  BY DEF ServeWatcher, Served
<1>2. bath.pc = "queued" /\ Head(bus).step = GateWrite
  <2>1. Head(bus) = bus[1] /\ 1 \in 1..Len(bus)
    BY <1>1, Oldest DEF DhwInv, TypeOK
  <2>2. bus[1].who = "watcher"
    BY <1>1, <2>1
  <2> QED
    BY <2>1, <2>2 DEF BusInv
<1>3. heater'.kw = IF bath.engaged THEN "on" ELSE "off"
  BY <1>1, <1>2, Lands, StepFields DEF GateWrite
<1>4. \A i \in 1..Len(bus') : bus'[i].who # "nobody"
  BY <1>1, Rest DEF KwInv
<1>5. state.preset = "Bath" /\ h.kind = "none"
  BY <1>2 DEF ShapeInv, Presets, Calm
<1>6. events = <<>>
  BY <1>2 DEF KwInv
<1>7. bath'.pc = "wrote" /\ bath'.engaged = bath.engaged
  BY <1>1 DEF DhwInv, TypeOK, BathWatchers
<1> QED
  BY <1>1, <1>3, <1>4, <1>5, <1>6, <1>7 DEF KwInv

\* A crash leaves the heater off, or recovery with that step before it.
LEMMA KwCrash ==
    ASSUME DhwInv, DhwInv', FileInv, ShapeInv, BusInv, RecordInv, KwInv, Crash
    PROVE  KwInv'
<1> SUFFICES ASSUME Calm' PROVE KwInv'
  BY DEF KwInv
<1>0. /\ limits \in Limits /\ state \in Boosts /\ file \in Boosts /\ h.kind \in Kinds
      /\ h.kind = "none" => h.steps = <<>>
      /\ h.waiting => h.steps # <<>>
  BY DEF DhwInv, TypeOK, Handlers, PriorRead, ShapeInv, HandlerShape
<1>1. /\ UNCHANGED <<userTemp, file>> /\ state'.preset = "none" /\ bus' = <<>>
      /\ bath'.pc = "off" /\ events' = <<>>
      /\ heater' = heater \/ (bus # <<>> /\ Land)
  BY DEF Crash, NoBoost, NoWatcher
<1>2. PICK unreadable \in {0, 1} :
        /\ unreadable <= limits.saves
        /\ h' = IF file.preset = "none" \/ unreadable = 1 THEN Idle
                ELSE Starts("recover", RecoverySteps(file))
        /\ limits'.saves = limits.saves - unreadable
        /\ limits'.io = limits.io /\ limits'.crashes = limits.crashes - 1
        /\ limits'.torn = (limits.torn \/ h.kind \in {"bathApply", "rollback"})
        /\ limits'.orderly = limits.orderly
        /\ limits.crashes > 0
  <2>1. PICK unreadable \in {0, 1} :
          /\ unreadable <= limits.saves
          /\ h' = IF file.preset = "none" \/ unreadable = 1 THEN Idle
                  ELSE Starts("recover", RecoverySteps(file))
          /\ limits' = [io      |-> limits.io,
                       saves   |-> limits.saves - unreadable,
                       crashes |-> limits.crashes - 1,
                       torn    |-> limits.torn \/ h.kind \in {"bathApply", "rollback"},
                       skipped |-> limits.skipped,
                       orderly |-> limits.orderly]
    BY DEF Crash
  <2>2. limits.crashes > 0
    BY DEF Crash
  <2> QED
    BY <2>1, <2>2
<1>3. /\ PersistPath /\ ~limits'.torn /\ NoSaveFailed' /\ NoIoFailed' /\ limits'.orderly
  <2>1. ~NoCrash'
    BY <1>0, <1>2 DEF NoCrash, Limits
  <2> QED
    BY <2>1 DEF OnRecord, Calm
<1>4. /\ ~limits.torn /\ h.kind \notin {"bathApply", "rollback"}
  BY <1>2, <1>3
<1>5. unreadable = 0 /\ NoSaveFailed /\ NoIoFailed
  BY <1>0, <1>2, <1>3 DEF NoSaveFailed, NoIoFailed, Limits
<1>6. Calm
  BY <1>2, <1>3, <1>4, <1>5 DEF OnRecord, Calm
<1>7. CASE file.preset = "none"
  <2>1. state.preset = "none" /\ h.kind \notin {"recover", "cancel", "bathDone"}
    BY <1>3, <1>5, <1>7 DEF FileInv, FileMirrorsState, ShapeInv, HandlerShape, Presets
  <2>2. heater.kw = "off" /\ bath.pc = "off"
    BY <1>4, <1>6, <2>1 DEF KwInv, ShapeInv, Presets
  <2>3. bus # <<>> => Head(bus).step.reg # "kw"
    <3> SUFFICES ASSUME bus # <<>> PROVE Head(bus).step.reg # "kw"
      OBVIOUS
    <3>1. /\ Head(bus) = bus[1] /\ 1 \in 1..Len(bus) /\ bus[1] \in Requests
      BY Oldest DEF DhwInv, TypeOK
    <3>2. bus[1].who = "actor"
      BY <1>6, <2>2, <3>1 DEF KwInv, BusInv, Requests
    <3>3. h.waiting /\ bus[1].step = Head(h.steps)
      BY <3>1, <3>2 DEF BusInv
    <3>4. h.kind \in {"showerRead", "bathRead", "shower"} /\ h.steps # <<>>
      BY <1>0, <1>4, <2>1, <3>3 DEF Kinds
    <3>5. Head(h.steps).reg # "kw"
      BY <3>4, StepAt, StepFields DEF Undoes
    <3> QED
      BY <3>1, <3>3, <3>5
  <2>4. heater'.kw = "off"
    BY <1>1, <2>2, <2>3, Lands
  <2>5. h'.kind = "none"
    BY <1>2, <1>7, IdleIs
  <2>6. 1..Len(bus') = {}
    BY <1>1
  <2> QED
    BY <1>1, <2>4, <2>5, <2>6 DEF KwInv
<1>8. CASE file.preset # "none"
  <2>1. h' = Starts("recover", RecoverySteps(file))
    BY <1>2, <1>5, <1>8
  <2>2. /\ h'.kind = "recover" /\ Left' \in Nat /\ Left' >= 4
    BY <2>1, RecoveryBegins
  <2>3. Left' >= RecoverKw'
    BY <2>2 DEF RecoverKw
  <2>4. 1..Len(bus') = {}
    BY <1>1
  <2> QED
    BY <1>1, <2>2, <2>3, <2>4 DEF KwInv
<1> QED
  BY <1>7, <1>8

LEMMA KwStep ==
    DhwInv /\ DhwInv' /\ FileInv /\ ShapeInv /\ BusInv /\ RecordInv /\ ClosedInv /\ KwInv
      /\ [Next]_vars => KwInv'
<1> SUFFICES ASSUME DhwInv, DhwInv', FileInv, ShapeInv, BusInv, RecordInv, ClosedInv, KwInv,
                    [Next]_vars, Calm'
             PROVE  KwInv'
  BY DEF KwInv
<1>c. CASE Crash
  BY <1>c, KwCrash
<1>n. ~Crash => Calm /\ ~IoFails /\ ~StepFails
  BY EachSpends, CalmLasts DEF DhwInv, TypeOK
<1> SUFFICES ASSUME ~Crash PROVE KwInv'
  BY <1>c
<1>0. /\ Calm /\ ~IoFails /\ ~StepFails
      /\ \A i \in 1..Len(bus) : bus[i].who # "nobody"
      /\ h \in Handlers /\ bath \in BathWatchers /\ heater \in Registers
      /\ events \in Seq(BOOLEAN) /\ Left \in Nat /\ (Left = 0 <=> h.steps = <<>>)
  BY <1>n, LeftIs DEF KwInv, DhwInv, TypeOK
<1>1. CASE StartShower \/ \E low \in BOOLEAN : StartBath(low)
  <2>1. h'.kind \in {"showerRead", "bathRead"}
    <3>1. <<Step("read", "none")>> \in Seq(Steps) /\ {"showerRead", "bathRead"} \subseteq Kinds
      BY StepKinds DEF Kinds
    <3>2. CASE StartShower
      BY <3>1, <3>2, StartsIs DEF StartShower, Starting
    <3>3. ASSUME NEW low \in BOOLEAN, StartBath(low) PROVE h'.kind = "bathRead"
      <4> DEFINE a == Starts("bathRead", <<Step("read", "none")>>)
      <4>1. a \in Handlers /\ a.kind = "bathRead"
        BY <3>1, StartsTyped
      <4>2. h' = [a EXCEPT !.low = low]
        BY <3>3 DEF StartBath
      <4> HIDE DEF a
      <4> QED
        BY <4>1, <4>2 DEF Handlers
    <3> QED
      BY <1>1, <3>2, <3>3
  <2>2. /\ UNCHANGED <<state, bath, events, heater, bus>> /\ h.kind = "none"
        /\ state.preset = "none"
    BY <1>1 DEF StartShower, StartBath, AtRest
  <2> QED
    BY <1>0, <2>1, <2>2 DEF KwInv
<1>2. ~Cancel /\ ~FinishCancel
  BY <1>0 DEF Cancel, FinishCancel, Ends, Calm, ShapeInv, Presets
<1>3. CASE ShutdownSave
  <2>1. UNCHANGED <<state, bath, events, heater, bus, h>> /\ h.kind = "none"
    BY <1>3 DEF ShutdownSave, AtRest
  <2> QED
    BY <1>0, <2>1 DEF KwInv
<1>4. CASE SendRequest
  <2>1. /\ UNCHANGED <<state, bath, events, heater, file>>
        /\ h'.kind = h.kind /\ h'.low = h.low /\ h'.steps = h.steps
        /\ bus' = Append(bus, [who |-> "actor", step |-> Head(h.steps)])
    BY <1>0, <1>4 DEF SendRequest, Handlers
  <2>2. Left' = Left /\ RecoverKw' = RecoverKw
    BY <2>1 DEF Left, RecoverKw
  <2>3. \A i \in 1..Len(bus') : bus'[i].who # "nobody"
    BY <1>0, <2>1, OneMore
  <2> QED
    BY <1>0, <2>1, <2>2, <2>3 DEF KwInv
<1>5. CASE SetSmartGrid \/ SetOverride
  <2>1. /\ h.steps # <<>> /\ UNCHANGED <<state, file, bath, events, heater, bus>>
        /\ Head(h.steps).reg \in {"sg", "override"}
        /\ h' \in AfterSuccess \/ (h' = AfterError /\ override = "closed")
    BY <1>0, <1>5 DEF SetSmartGrid, SetOverride, NextStepIn
  <2>2. /\ Head(h.steps).reg # "kw"
        /\ \A i \in 1..Len(bus') : bus'[i].who # "nobody"
    BY <1>0, <2>1
  <2>3. heater'.kw = (IF Head(h.steps).reg = "kw" THEN Head(h.steps).val ELSE heater.kw)
    BY <2>1, <2>2
  <2>4. CASE h' \in AfterSuccess
    BY <1>0, <2>1, <2>2, <2>3, <2>4, KwWorked
  <2>5. CASE h' = AfterError /\ override = "closed"
    BY <1>0, <2>1, <2>5, KwRefused
  <2> QED
    BY <2>1, <2>4, <2>5
<1>6. CASE ServeActor
  BY <1>0, <1>6, KwServed
<1>7. CASE ServeWatcher
  BY <1>0, <1>7, KwGated
<1>8. ~ServeNobody
  <2>1. bus # <<>> => Head(bus) = bus[1] /\ 1 \in 1..Len(bus)
    BY Oldest DEF DhwInv, TypeOK
  <2> QED
    BY <1>0, <2>1 DEF ServeNobody, Served
<1>9. ~ActorGivesUp /\ ~WatcherGivesUp
  BY <1>0 DEF ActorGivesUp, WatcherGivesUp
<1>10. CASE FinishRecovery \/ FinishRollback \/ FinishShowerStart
  <2>1. /\ h.steps = <<>> /\ h'.kind = "none" /\ UNCHANGED <<heater, bus, bath, events>>
        /\ h.kind \in {"recover", "rollback", "shower"}
        /\ UNCHANGED state \/ state' = ShowerBoost
    BY <1>10, IdleIs DEF FinishRecovery, FinishRollback, FinishShowerStart, Ends
  <2>2. bath.pc = "off" /\ events = <<>> /\ state.preset = "none"
    BY <2>1 DEF ShapeInv, Presets
  <2>3. ~(Left >= RecoverKw)
    <3>1. Left = 0
      BY <1>0, <2>1
    <3> QED
      BY <3>1 DEF RecoverKw
  <2>4. heater.kw = "off"
    BY <1>0, <2>1, <2>2, <2>3 DEF KwInv
  <2> QED
    BY <1>0, <2>1, <2>2, <2>4 DEF KwInv
<1>11. CASE FinishBathStart
  <2>1. /\ h.steps = <<>> /\ h'.kind = "none" /\ UNCHANGED <<heater, bus, events>>
        /\ h.kind = "bathApply" /\ state'.preset = "Bath" /\ state'.engaged = h.low
        /\ bath' = [NoWatcher EXCEPT !.pc = "wait", !.engaged = h.low]
    BY <1>11, IdleIs DEF FinishBathStart, Ends, BathBoost
  <2>2. events = <<>>
    BY <2>1 DEF ShapeInv, Presets
  <2>3. heater.kw = "on" <=> h.low
    BY <1>0, <2>1 DEF KwInv
  <2>4. bath'.pc = "wait" /\ bath'.engaged = h.low
    BY <2>1 DEF NoWatcher
  <2> QED
    BY <1>0, <2>1, <2>2, <2>3, <2>4 DEF KwInv
<1>12. CASE FinishBathDone
  <2>1. /\ h.steps = <<>> /\ h'.kind = "none" /\ UNCHANGED <<heater, bus, bath, events>>
        /\ h.kind = "bathDone" /\ state'.preset = "none"
    BY <1>12, IdleIs DEF FinishBathDone, Ends, NoBoost
  <2>2. bath.pc = "off" /\ events = <<>>
    BY <2>1 DEF ShapeInv, Presets
  <2>3. ~(Left >= 4)
    <3>1. Left = 0
      BY <1>0, <2>1
    <3> QED
      BY <3>1
  <2>4. heater.kw = "off"
    BY <1>0, <2>1, <2>3 DEF KwInv
  <2> QED
    BY <1>0, <2>1, <2>2, <2>4 DEF KwInv
<1>13. CASE ShowerWatcherFires \/ HeaterTimerElapses \/ UNCHANGED vars
  <2>1. UNCHANGED <<state, bath, events, bus, h, file>> /\ heater'.kw = heater.kw
    BY <1>0, <1>13 DEF ShowerWatcherFires, HeaterTimerElapses, vars, Registers
  <2>2. Left' = Left /\ RecoverKw' = RecoverKw
    BY <2>1 DEF Left, RecoverKw
  <2> QED
    BY <1>0, <2>1, <2>2 DEF KwInv
<1>14. CASE OnShowerDone
  <2>1. /\ UNCHANGED <<h, bath, events, heater, bus>> /\ h.kind = "none"
        /\ state.preset = "Shower" /\ state'.preset = "none"
    BY <1>14 DEF OnShowerDone, AtRest, NoBoost, ShapeInv, Presets
  <2>2. bath.pc = "off" /\ events = <<>>
    BY <2>1 DEF ShapeInv, Presets
  <2> QED
    BY <1>0, <2>1, <2>2 DEF KwInv
<1>15. CASE BathExpires
  <2>1. /\ UNCHANGED <<state, events, bus, h, heater>> /\ bath.pc # "off"
        /\ bath'.pc = bath.pc /\ bath'.engaged = bath.engaged
    BY <1>0, <1>15 DEF BathExpires, BathWatchers
  <2>2. h.kind = "none"
    BY <1>0, <2>1 DEF ShapeInv, Presets, Calm
  <2> QED
    BY <1>0, <2>1, <2>2 DEF KwInv
<1>16. ASSUME NEW reason \in Reasons \ {"Manual"}, BathTriggers(reason) PROVE KwInv'
  <2>1. /\ UNCHANGED <<state, events, bus, h, heater>> /\ bath.pc = "wait" /\ events = <<>>
        /\ bath'.pc = "done"
    BY <1>0, <1>16 DEF BathTriggers, Ticks, BathWatchers, Calm
  <2>2. h.kind = "none" /\ state.preset = "Bath"
    BY <1>0, <2>1 DEF ShapeInv, Presets, Calm
  <2> QED
    BY <1>0, <2>1, <2>2 DEF KwInv
<1>17. CASE GateCrosses
  <2>1. /\ UNCHANGED <<state, events, h, heater>> /\ bath.pc = "wait" /\ events = <<>>
        /\ bath'.pc = "queued"
        /\ bus' = Append(bus, [who |-> "watcher",
                               step |-> Step("kw", IF bath'.engaged THEN "on" ELSE "off")])
    BY <1>0, <1>17 DEF GateCrosses, Ticks, BathWatchers, Calm
  <2>2. h.kind = "none" /\ state.preset = "Bath"
    BY <1>0, <2>1 DEF ShapeInv, Presets, Calm
  <2>3. \A i \in 1..Len(bus') : bus'[i].who # "nobody"
    BY <1>0, <2>1, OneMore
  <2> QED
    BY <1>0, <2>1, <2>2, <2>3 DEF KwInv
<1>18. CASE WatcherReports
  <2>1. /\ UNCHANGED <<state, bus, h, heater>> /\ bath.pc = "wrote"
        /\ bath'.pc = "wait" /\ bath'.engaged = bath.engaged
        /\ events' = Append(events, bath.engaged)
    BY <1>0, <1>18 DEF WatcherReports, BathWatchers
  <2>2. h.kind = "none" /\ state.preset = "Bath"
    BY <1>0, <2>1 DEF ShapeInv, Presets, Calm
  <2>3. events = <<>> /\ (heater.kw = "on" <=> bath.engaged)
    BY <1>0, <2>1 DEF KwInv
  <2>4. events' = <<bath.engaged>> /\ events' # <<>>
    BY <2>1, <2>3
  <2> QED
    BY <1>0, <2>1, <2>2, <2>3, <2>4 DEF KwInv
<1>19. CASE OnBathEvent
  <2>1. /\ UNCHANGED <<h, heater, bath, bus>> /\ h.kind = "none" /\ events # <<>>
        /\ events' = Tail(events) /\ state' = [state EXCEPT !.engaged = Head(events)]
    BY <1>19 DEF OnBathEvent, AtRest
  <2>2. bath.pc = "wait" /\ events = <<bath.engaged>> /\ (heater.kw = "on" <=> bath.engaged)
    BY <1>0, <2>1 DEF KwInv
  <2>3. events' = <<>> /\ Head(events) = bath.engaged
    BY <2>1, <2>2
  <2>4. state'.preset = state.preset /\ state'.engaged = bath.engaged
    BY <2>1, <2>3 DEF DhwInv, TypeOK, Boosts
  <2>5. state.preset = "Bath"
    BY <2>2 DEF ShapeInv, Presets
  <2> QED
    BY <1>0, <2>1, <2>2, <2>3, <2>4, <2>5 DEF KwInv
<1>20. CASE OnBathDone
  <2>1. /\ UNCHANGED <<heater, bus, state>> /\ bath.pc = "done" /\ bath' = NoWatcher
        /\ events' = <<>> /\ h' = Starts("bathDone", StopSteps(state, bath.reason))
    BY <1>20 DEF OnBathDone
  <2>2. state.preset = "Bath" /\ bath.reason \in Reasons /\ "bathDone" \in Kinds
    BY <1>0, <2>1 DEF ShapeInv, Presets, BathWatchers, Kinds
  <2>3. h'.kind = "bathDone" /\ (state.engaged => Left' >= 4)
    BY <2>1, <2>2, StopIsLong
  <2>4. heater.kw = "on" <=> state.engaged
    BY <1>0, <2>1 DEF KwInv
  <2>5. heater.kw = "off" \/ state.engaged
    BY <1>0, <2>4 DEF Registers
  <2>6. bath'.pc = "off"
    BY <2>1 DEF NoWatcher
  <2> QED
    BY <1>0, <2>1, <2>2, <2>3, <2>5, <2>6 DEF KwInv
<1> QED
  BY <1>1, <1>2, <1>3, <1>4, <1>5, <1>6, <1>7, <1>8, <1>9, <1>10, <1>11, <1>12,
     <1>13, <1>14, <1>15, <1>16, <1>17, <1>18, <1>19, <1>20
  DEF Next, Commands, HandlerSteps, Serve, News, Tick

-----------------------------------------------------------------------------
(* The heater is given back.                                               *)

HeaterInv == BoostInv /\ FileInv /\ RecordInv /\ ClosedInv /\ TempInv /\ KwInv

LEMMA HeaterStep == HeaterInv /\ [Next]_vars => HeaterInv'
<1>1. HeaterInv /\ [Next]_vars => BoostInv' /\ DhwInv'
  BY BoostStep DEF HeaterInv, BoostInv
<1> QED
  BY <1>1, FileStep, RecordStep, ClosedStep, TempStep, KwStep DEF HeaterInv, BoostInv

LEMMA HeaterInit == Init => HeaterInv
<1> SUFFICES ASSUME Init PROVE HeaterInv
  OBVIOUS
<1>1. BoostInv
  BY BoostInit
<1>2. /\ h.kind = "none" /\ h.steps = <<>> /\ state = NoBoost /\ file = NoBoost
      /\ bus = <<>> /\ events = <<>> /\ bath.pc = "off" /\ sg = "Normal"
      /\ heater = Untouched
  BY IdleIs DEF Init, NoWatcher, Untouched
<1>3. state.preset = "none" /\ heater.engage = userTemp /\ heater.kw = "off"
  BY <1>2 DEF NoBoost, Untouched
<1>4. 1..Len(bus) = {}
  BY <1>2
<1>5. FileInv /\ RecordInv
  BY <1>2, <1>3 DEF FileInv, FileMirrorsState, RecoverAlone, RecordInv
<1>6. ClosedInv
  BY <1>2, <1>3, <1>4 DEF ClosedInv
<1>7. TempInv
  BY <1>2, <1>3, <1>4 DEF TempInv, Clean, EngageReq
<1>8. KwInv
  BY <1>2, <1>3, <1>4 DEF KwInv
<1> QED
  BY <1>1, <1>5, <1>6, <1>7, <1>8 DEF HeaterInv

\* A temp that is not the user's is written down where the invariant says.
LEMMA TempIsKnown == HeaterInv => UserTempIsKnown
<1> SUFFICES ASSUME HeaterInv, OnRecord, heater.engage # userTemp
             PROVE  \/ h.kind \in {"bathApply", "rollback"} /\ h.prior = userTemp
                    \/ state.prior = userTemp
                    \/ file.prior = userTemp
  BY DEF UserTempIsKnown
<1>1. TempInv /\ ~Clean
  BY DEF HeaterInv, Clean
<1> QED
  BY <1>1 DEF TempInv

LEMMA IdleIsRestored == HeaterInv => IdleHeaterIsRestored
<1> SUFFICES ASSUME HeaterInv PROVE IdleHeaterIsRestored
  OBVIOUS
<1>1. /\ TempInv /\ ClosedInv /\ SgElse /\ SkipInv /\ LaneElse /\ Presets
  BY DEF HeaterInv, BoostInv, ShapeInv, LaneInv
<1>2. ASSUME OnRecord, NothingPending
      PROVE  heater.engage = userTemp /\ sg = "Normal" /\ (NoIoFailed => override # "off")
  <2>1. h.kind = "none" /\ state.preset = "none"
    BY <1>2 DEF NothingPending, AtRest
  <2>2. heater.engage = userTemp
    BY <1>1, <1>2, <2>1 DEF TempInv, Clean
  <2>3. ~limits.skipped
    BY <1>1, <1>2 DEF OnRecord, SkipInv
  <2>4. sg = "Normal"
    BY <1>1, <2>1, <2>3 DEF SgElse
  <2>5. shower = "off"
    BY <1>1, <2>1 DEF Presets
  <2>6. NoIoFailed => override # "off"
    BY <1>1, <2>1, <2>5 DEF LaneElse
  <2> QED
    BY <2>2, <2>4, <2>6
<1>3. override = "closed" => state.preset = "none" /\ heater = Untouched /\ sg = "Normal"
  BY <1>1 DEF ClosedInv
<1> QED
  BY <1>2, <1>3 DEF IdleHeaterIsRestored

LEMMA StopEndsImmersion == HeaterInv => OrderlyStopEndsImmersion
<1> SUFFICES ASSUME HeaterInv, limits.orderly, OnRecord, NoIoFailed, NothingPending
             PROVE  heater.kw = "off"
  BY DEF OrderlyStopEndsImmersion, IdleImmersionIsOff
<1>1. h.kind = "none" /\ state.preset = "none"
  BY DEF NothingPending, AtRest
<1> QED
  BY <1>1 DEF HeaterInv, KwInv, Calm

(***************************************************************************)
(* Over all orders of commands, gate crossings, timeouts, failed calls and *)
(* saves, and crashes, of any number: 61636 holds the user's temp or the   *)
(* temp is written down; with nothing running and nothing to recover 61636 *)
(* and the mode are back, and the lane too unless a call failed; a lane    *)
(* without receiver leaves the heater untouched; an orderly stop leaves    *)
(* the immersion heater off (stop_boost, rollback_partial_bath and         *)
(* run_recovery in dhw/actor.rs).                                          *)
(***************************************************************************)
THEOREM HeaterIsGivenBackCorrect == Spec => []HeaterIsGivenBack
<1>1. HeaterInv => HeaterIsGivenBack
  BY TempIsKnown, IdleIsRestored, StopEndsImmersion DEF HeaterIsGivenBack
<1> QED
  BY <1>1, HeaterInit, HeaterStep, PTL DEF Spec
=============================================================================
