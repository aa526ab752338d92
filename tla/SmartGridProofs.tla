--------------------------- MODULE SmartGridProofs ---------------------------
(***************************************************************************)
(* Theorems about SmartGrid for every set of instants, mailbox capacity    *)
(* and number of faults: its type invariant, and the two promises that     *)
(* hang on the generation counter.  What makes them inductive is SchedInv: *)
(* the only timer left is the slot's, and every fire under way is either   *)
(* older than the generation or the one the last SetMode was promised.     *)
(* Then theorems about PriceFeed, whose prices the scheduler reads: what   *)
(* is filed under an hour is the price published for it, and the resumes   *)
(* follow those prices.  The chain of the two buckets is a timeline; a run *)
(* of the chain is what the timeline shows; and the picker walks the runs  *)
(* in an order that puts no cheaper one later.                             *)
(***************************************************************************)
EXTENDS SmartGrid, PriceFeed, FiniteSetTheorems, SequenceTheorems, NaturalsInduction, TLAPS

USE SmartGridAssumption

\* The commands leave the mailbox in order: dropping the head shifts the rest.
LEMMA TailShifts ==
    ASSUME NEW S, NEW s \in Seq(S), s # <<>>
    PROVE  /\ Tail(s) \in Seq(S)
           /\ Head(s) \in S /\ Head(s) = s[1]
           /\ Len(s) \in Nat \ {0} /\ Len(Tail(s)) = Len(s) - 1
           /\ \A i \in 1..Len(Tail(s)) : i + 1 \in 1..Len(s) /\ Tail(s)[i] = s[i + 1]
           /\ \A i \in 1..Len(s) : i # 1 =>
                 i - 1 \in 1..Len(Tail(s)) /\ Tail(s)[i - 1] = s[i]
  OBVIOUS

\* A posted command goes last and moves nothing.
LEMMA AppendKeeps ==
    ASSUME NEW S, NEW s \in Seq(S), NEW e \in S
    PROVE  /\ Append(s, e) \in Seq(S)
           /\ Len(s) \in Nat /\ Len(Append(s, e)) = Len(s) + 1
           /\ \A i \in 1..Len(s) : Append(s, e)[i] = s[i]
           /\ Append(s, e)[Len(s) + 1] = e
  OBVIOUS

\* Each command of the mailbox has the fields of its kind.
LEMMA CommandKinds ==
    ASSUME NEW c \in Commands
    PROVE  /\ c.cmd = "SetMode" => c.mode \in Modes /\ c.at \in Moments
           /\ c.cmd = "ResumeFire" => c.at \in Instants /\ c.gen \in Nat
  BY DEF Commands

\* A spent fault leaves the bounds in their ranges.
LEMMA GpioFaultTyped ==
    ASSUME limits \in [gpio : 0..MaxGpioFaults, restarts : 0..MaxRestarts], GpioFails
    PROVE  limits' \in [gpio : 0..MaxGpioFaults, restarts : 0..MaxRestarts]
  BY DEF GpioFails

\* Dropping the schedule leaves an empty slot and timers of the right type.
LEMMA NoSlotTyped == NoSlot \in [at : Moments, gen : Nat]
  BY DEF NoSlot, Moments

LEMMA AbortTyped == timers \subseteq Resume => AbortSchedule \subseteq Resume
  BY DEF AbortSchedule

-----------------------------------------------------------------------------
\* The first state is typed.
LEMMA InitTyped == Init => TypeOK
  BY DEF Init, TypeOK, NoSlot, Moments, NoPromise, Resume

\* Every step keeps every variable of the actor in its type.
LEMMA StepTyped == TypeOK /\ [Next]_vars => TypeOK'
<1> SUFFICES ASSUME TypeOK, [Next]_vars PROVE TypeOK'
  OBVIOUS
<1> USE DEF TypeOK
<1>1. ASSUME NEW m \in AskedModes, NEW schedule \in BOOLEAN, NEW at \in Moments,
             RequestMode(m, schedule, at)
      PROVE  TypeOK'
  <2>1. [cmd |-> "SetMode", mode |-> m, schedule |-> schedule, at |-> at] \in Commands
    BY DEF Commands
  <2>2. mailbox' \in Seq(Commands)
    BY <1>1, <2>1, AppendKeeps DEF RequestMode
  <2> QED
    BY <1>1, <2>2 DEF RequestMode
<1>2. CASE RequestCancel
  <2>1. [cmd |-> "CancelScheduledResume"] \in Commands
    BY DEF Commands
  <2>2. mailbox' \in Seq(Commands)
    BY <1>2, <2>1, AppendKeeps DEF RequestCancel
  <2> QED
    BY <1>2, <2>2 DEF RequestCancel
<1>3. ASSUME NEW t \in timers, TimerPosts(t) PROVE TypeOK'
  <2>1. [cmd |-> "ResumeFire", at |-> t.at, gen |-> t.gen] \in Commands
    BY DEF Commands, Resume
  <2>2. mailbox' \in Seq(Commands)
    BY <1>3, <2>1, AppendKeeps DEF TimerPosts
  <2> QED
    BY <1>3, <2>2 DEF TimerPosts
<1>4. CASE HandleSetMode
  <2>1. mailbox' \in Seq(Commands) /\ Head(mailbox) \in Commands
    BY <1>4, TailShifts DEF HandleSetMode, Takes
  <2>2. Head(mailbox).mode \in Modes /\ Head(mailbox).at \in Moments
    BY <1>4, <2>1, CommandKinds DEF HandleSetMode, Takes
  <2>3. generation' \in Nat
    BY <1>4 DEF HandleSetMode, NextGeneration
  <2>4. CASE GpioFails /\ slot' = NoSlot /\ timers' = AbortSchedule
             /\ last' = NoPromise(mode) /\ UNCHANGED <<mode, homeyVars>>
    <3>1. last' \in [mode : Modes, at : Moments, held : Modes \cup {"none"},
                     failed : BOOLEAN]
      BY <2>4 DEF NoPromise, Moments
    <3> QED
      BY <1>4, <2>1, <2>3, <2>4, <3>1, GpioFaultTyped, NoSlotTyped, AbortTyped
      DEF HandleSetMode
  <2>5. ASSUME NEW at \in ResumeChoices(Head(mailbox)),
               mode' = Head(mailbox).mode,
               IF IsScheduled(at)
               THEN /\ slot' = [at |-> at, gen |-> generation']
                    /\ timers' = AbortSchedule \cup {slot'}
               ELSE slot' = NoSlot /\ timers' = AbortSchedule,
               last' = [NoPromise(mode') EXCEPT !.at = at],
               UNCHANGED limits
        PROVE  TypeOK'
    <3>1. at \in Moments
      BY <2>2 DEF ResumeChoices, Moments
    <3>2. slot' \in [at : Moments, gen : Nat] /\ timers' \subseteq Resume
      BY <2>3, <2>5, <3>1 DEF IsScheduled, NoSlot, AbortSchedule, Moments, Resume
    <3>3. last' \in [mode : Modes, at : Moments, held : Modes \cup {"none"},
                     failed : BOOLEAN]
      BY <2>2, <2>5, <3>1 DEF NoPromise
    <3> QED
      BY <1>4, <2>1, <2>2, <2>3, <2>5, <3>2, <3>3 DEF HandleSetMode
  <2> QED
    BY <1>4, <2>4, <2>5 DEF HandleSetMode
<1>5. CASE HandleCancel
  BY <1>5, TailShifts DEF HandleCancel, Takes, NoSlot, AbortSchedule, Moments
<1>6. CASE HandleStaleFire
  BY <1>6, TailShifts DEF HandleStaleFire, Takes
<1>7. CASE HandleResumeFire
  <2>1. mailbox' \in Seq(Commands)
    BY <1>7, TailShifts DEF HandleResumeFire, Takes
  <2>2. SlotAfterFire(Head(mailbox)) \in [at : Moments, gen : Nat]
    BY NoSlotTyped DEF SlotAfterFire
  <2>3. [last EXCEPT !.failed = TRUE] \in [mode : Modes, at : Moments,
                                          held : Modes \cup {"none"},
                                          failed : BOOLEAN]
    OBVIOUS
  <2>4. "Normal" \in Modes
    BY DEF Modes
  <2> QED
    BY <1>7, <2>1, <2>2, <2>3, <2>4, GpioFaultTyped DEF HandleResumeFire
<1>8. CASE Shutdown
  <2>1. mailbox' \in Seq(Commands)
    BY <1>8 DEF Shutdown
  <2>3a. alive' \in BOOLEAN
    BY <1>8 DEF Shutdown
  <2>2. slot' \in [at : Moments, gen : Nat] /\ timers' \subseteq Resume
    BY <1>8, NoSlotTyped, AbortTyped DEF Shutdown
  <2>3. UNCHANGED <<mode, generation, last, limits>>
    BY <1>8 DEF Shutdown
  <2> QED
    BY <2>1, <2>2, <2>3, <2>3a
<1>9. CASE Restart
  BY <1>9 DEF Restart, NoSlot, NoPromise, Moments, Resume
<1>10. CASE UNCHANGED sgVars
  BY <1>10 DEF sgVars
<1> QED
  BY <1>1, <1>2, <1>3, <1>4, <1>5, <1>6, <1>7, <1>8, <1>9, <1>10
  DEF Next, Actor, Poll, Boost, vars

(***************************************************************************)
(* The actor's state keeps its types: a timer always carries an instant,   *)
(* and the slot an instant or none.                                        *)
(***************************************************************************)
THEOREM TypeCorrect == Spec => []TypeOK
  BY InitTyped, StepTyped, PTL DEF Spec

-----------------------------------------------------------------------------
(* The generation argument. *)

\* A fire queued at i is stale, or is the one that was promised and has left
\* its timer.
FireIsKnown(i) ==
    /\ mailbox[i].gen <= generation
    /\ mailbox[i].gen = generation => mailbox[i].at = last.at /\ timers = {}

\* The fire of the schedule shown is still to come, or met a GPIO error.
FireIsComing ==
    \/ slot \in timers
    \/ \E i \in Fires : Carries(slot, i)
    \/ last.failed

SlotIsCurrent ==
    slot.at # NoInstant =>
        slot.gen = generation /\ mode = last.mode /\ slot.at = last.at

SchedInv ==
    /\ TypeOK
    /\ timers \subseteq {slot}
    /\ SlotIsCurrent
    /\ \A i \in Fires : FireIsKnown(i)
    /\ slot.at # NoInstant => FireIsComing
    /\ UserModeStands

\* With one owner of the timers, an abort leaves none.
LEMMA AbortEmpties == timers \subseteq {slot} => AbortSchedule = {}
  BY DEF AbortSchedule

\* A queued fire is a typed command.
LEMMA FireTyped ==
    ASSUME TypeOK, NEW i \in Fires
    PROVE  /\ i \in 1..Len(mailbox) /\ mailbox[i].cmd = "ResumeFire"
           /\ mailbox[i].at \in Instants /\ mailbox[i].gen \in Nat
<1>1. i \in 1..Len(mailbox) /\ mailbox[i].cmd = "ResumeFire"
  BY DEF Fires
<1>2. mailbox[i] \in Commands
  BY <1>1 DEF TypeOK
<1> QED
  BY <1>1, <1>2, CommandKinds

\* Taking the head keeps what is known of the fires behind it, when the
\* generation and the promise stand.
LEMMA TakeKeepsFires ==
    ASSUME TypeOK, mailbox # <<>>, mailbox' = Tail(mailbox)
    PROVE  /\ \A i \in Fires' : \E j \in Fires : mailbox'[i] = mailbox[j]
           /\ \A i \in Fires : i # 1 =>
                 i - 1 \in Fires' /\ mailbox'[i - 1] = mailbox[i]
           /\ 1 \in Fires <=> Head(mailbox).cmd = "ResumeFire"
           /\ Head(mailbox) = mailbox[1]
<1>1. mailbox \in Seq(Commands)
  BY DEF TypeOK
<1> QED
  BY <1>1, TailShifts DEF Fires

\* What is known of a fire stays known in its new place.
LEMMA TakeKeepsKnown ==
    ASSUME TypeOK, \A j \in Fires : FireIsKnown(j),
           mailbox # <<>>, mailbox' = Tail(mailbox),
           generation' = generation, last'.at = last.at,
           timers = {} => timers' = {}
    PROVE  \A i \in Fires' : FireIsKnown(i)'
<1> SUFFICES ASSUME NEW i \in Fires' PROVE FireIsKnown(i)'
  OBVIOUS
<1>1. PICK j \in Fires : mailbox'[i] = mailbox[j]
  BY TakeKeepsFires
<1>2. FireIsKnown(j)
  OBVIOUS
<1> DEFINE c == mailbox[j]
<1>3. c.gen <= generation /\ (c.gen = generation => c.at = last.at /\ timers = {})
  BY <1>2 DEF FireIsKnown
<1>4. mailbox'[i] = c
  BY <1>1
<1> HIDE DEF c
<1> QED
  BY <1>3, <1>4 DEF FireIsKnown

\* Posting a command keeps the fires before it.
LEMMA PostKeepsFires ==
    ASSUME TypeOK, NEW c \in Commands, mailbox' = Append(mailbox, c)
    PROVE  /\ \A i \in Fires : i \in Fires' /\ mailbox'[i] = mailbox[i]
           /\ \A i \in Fires' :
                 \/ i \in Fires /\ mailbox'[i] = mailbox[i]
                 \/ c.cmd = "ResumeFire" /\ mailbox'[i] = c
           /\ c.cmd = "ResumeFire" => \E i \in Fires' : mailbox'[i] = c
<1>1. mailbox \in Seq(Commands)
  BY DEF TypeOK
<1> DEFINE n == Len(mailbox)
<1>2. /\ n \in Nat /\ Len(mailbox') = n + 1
      /\ \A i \in 1..n : mailbox'[i] = mailbox[i]
      /\ mailbox'[n + 1] = c
  BY <1>1, AppendKeeps
<1>3. \A i \in Fires : i \in Fires' /\ mailbox'[i] = mailbox[i]
  BY <1>2 DEF Fires
<1>4. \A i \in Fires' : \/ i \in Fires /\ mailbox'[i] = mailbox[i]
                        \/ c.cmd = "ResumeFire" /\ mailbox'[i] = c
  BY <1>2 DEF Fires
<1>5. c.cmd = "ResumeFire" => n + 1 \in Fires' /\ mailbox'[n + 1] = c
  BY <1>2 DEF Fires
<1> QED
  BY <1>3, <1>4, <1>5

\* SchedInv reads only the actor's variables.
LEMMA SchedInvReads == SchedInv /\ UNCHANGED sgVars => SchedInv'
  BY DEF SchedInv, sgVars, TypeOK, SlotIsCurrent, Fires, FireIsKnown, FireIsComing,
         Carries, UserModeStands

\* Nothing is scheduled at the start.
LEMMA InitSched == Init => SchedInv
<1> SUFFICES ASSUME Init PROVE SchedInv
  OBVIOUS
<1>1. TypeOK
  BY InitTyped
<1>2. Fires = {} /\ slot.at = NoInstant /\ timers = {} /\ mode = last.mode
  BY DEF Init, Fires, NoSlot, NoPromise
<1> QED
  BY <1>1, <1>2 DEF SchedInv, SlotIsCurrent, UserModeStands

\* A client's command is no fire: the fires and the schedule are as before.
LEMMA PostSched ==
    ASSUME SchedInv, NEW c \in Commands, c.cmd # "ResumeFire",
           mailbox' = Append(mailbox, c), TypeOK',
           UNCHANGED <<mode, generation, slot, timers, alive, last, limits>>
    PROVE  SchedInv'
<1>1. \A i \in Fires' : i \in Fires /\ mailbox'[i] = mailbox[i]
  BY PostKeepsFires DEF SchedInv
<1>2. \A i \in Fires : i \in Fires' /\ mailbox'[i] = mailbox[i]
  BY PostKeepsFires DEF SchedInv
<1>3. \A i \in Fires' : FireIsKnown(i)'
  BY <1>1 DEF SchedInv, FireIsKnown
<1>4. (slot.at # NoInstant => FireIsComing)'
  BY <1>2 DEF SchedInv, FireIsComing, Carries
<1> QED
  BY <1>3, <1>4 DEF SchedInv, SlotIsCurrent, UserModeStands

\* The commands that clear the slot without touching the promise.
LEMMA ClearSched ==
    ASSUME SchedInv, TypeOK', slot' = NoSlot, timers' = {},
           UserModeStands', \A i \in Fires' : FireIsKnown(i)'
    PROVE  SchedInv'
  BY DEF SchedInv, SlotIsCurrent, NoSlot

\* Every step keeps the schedule in order.
LEMMA StepSched == SchedInv /\ [Next]_vars => SchedInv'
<1> SUFFICES ASSUME SchedInv, [Next]_vars PROVE SchedInv'
  OBVIOUS
<1>0. TypeOK /\ TypeOK'
  BY StepTyped DEF SchedInv
<1>1. ASSUME NEW m \in AskedModes, NEW schedule \in BOOLEAN, NEW at \in Moments,
             RequestMode(m, schedule, at)
      PROVE  SchedInv'
  <2>1. [cmd |-> "SetMode", mode |-> m, schedule |-> schedule, at |-> at] \in Commands
    BY DEF Commands
  <2> QED
    BY <1>0, <1>1, <2>1, PostSched DEF RequestMode
<1>2. CASE RequestCancel
  <2>1. [cmd |-> "CancelScheduledResume"] \in Commands
    BY DEF Commands
  <2> QED
    BY <1>0, <1>2, <2>1, PostSched DEF RequestCancel
<1>3. ASSUME NEW t \in timers, TimerPosts(t) PROVE SchedInv'
  <2> DEFINE c == [cmd |-> "ResumeFire", at |-> t.at, gen |-> t.gen]
  <2>1. t = slot /\ slot.at # NoInstant /\ c \in Commands
    BY <1>0 DEF SchedInv, TypeOK, Commands, Resume
  <2>2. slot.gen = generation /\ slot.at = last.at
    BY <2>1 DEF SchedInv, SlotIsCurrent
  <2>3. mailbox' = Append(mailbox, c)
    BY <1>3 DEF TimerPosts
  <2>4. UNCHANGED <<mode, generation, slot, alive, last, limits>> /\ timers' = {}
    BY <1>3, <2>1 DEF TimerPosts, SchedInv
  <2>5. c.cmd = "ResumeFire" /\ c.at = slot.at /\ c.gen = slot.gen
    BY <2>1
  <2>6. /\ \A i \in Fires' : (i \in Fires /\ mailbox'[i] = mailbox[i]) \/ mailbox'[i] = c
        /\ \E i \in Fires' : mailbox'[i] = c
    <3> HIDE DEF c
    <3> QED
      BY <1>0, <2>1, <2>3, <2>5, PostKeepsFires
  <2>7. \A i \in Fires' : FireIsKnown(i)'
    <3> HIDE DEF c
    <3> QED
      BY <1>0, <2>2, <2>4, <2>5, <2>6 DEF SchedInv, FireIsKnown, TypeOK
  <2>8. FireIsComing'
    <3> HIDE DEF c
    <3> QED
      BY <2>4, <2>5, <2>6 DEF FireIsComing, Carries
  <2> QED
    BY <1>0, <2>4, <2>7, <2>8 DEF SchedInv, SlotIsCurrent, UserModeStands
<1>4. CASE HandleSetMode
  <2>1. mailbox # <<>> /\ mailbox' = Tail(mailbox) /\ generation' = generation + 1
    BY <1>4 DEF HandleSetMode, Takes, NextGeneration
  <2>2. ASSUME NEW i \in Fires' PROVE FireIsKnown(i)'
    <3>1. PICK j \in Fires : mailbox'[i] = mailbox[j]
      BY <1>0, <2>1, TakeKeepsFires
    <3> DEFINE g == mailbox[j].gen
    <3>2. g \in Nat /\ g <= generation /\ generation \in Nat
      BY <1>0, FireTyped DEF SchedInv, FireIsKnown, TypeOK
    <3>3. mailbox'[i].gen = g /\ generation' = generation + 1
      BY <2>1, <3>1
    <3> HIDE DEF g
    <3>4. g <= generation' /\ g # generation'
      BY <3>2, <3>3
    <3> QED
      BY <3>3, <3>4 DEF FireIsKnown
  <2>3. \A i \in Fires' : FireIsKnown(i)'
    BY <2>2
  <2>4. AbortSchedule = {}
    BY AbortEmpties DEF SchedInv
  <2>5. CASE /\ slot' = NoSlot /\ timers' = AbortSchedule
             /\ last' = NoPromise(mode) /\ UNCHANGED <<mode, homeyVars>>
    BY <1>0, <2>3, <2>4, <2>5, ClearSched DEF UserModeStands, NoPromise
  <2>6. ASSUME NEW at \in ResumeChoices(Head(mailbox)),
               IF IsScheduled(at)
               THEN /\ slot' = [at |-> at, gen |-> generation']
                    /\ timers' = AbortSchedule \cup {slot'}
               ELSE slot' = NoSlot /\ timers' = AbortSchedule,
               last' = [NoPromise(mode') EXCEPT !.at = at]
        PROVE  SchedInv'
    <3>1. last'.mode = mode' /\ last'.at = at
      BY <2>6 DEF NoPromise
    <3>2. CASE IsScheduled(at)
      <4>1. slot' = [at |-> at, gen |-> generation'] /\ timers' = {slot'}
        BY <2>4, <2>6, <3>2
      <4> QED
        BY <1>0, <2>3, <3>1, <4>1
        DEF SchedInv, SlotIsCurrent, FireIsComing, UserModeStands
    <3>3. CASE ~IsScheduled(at)
      BY <1>0, <2>3, <2>4, <2>6, <3>1, <3>3, ClearSched DEF UserModeStands
    <3> QED
      BY <3>2, <3>3
  <2> QED
    BY <1>4, <2>5, <2>6 DEF HandleSetMode
<1>5. CASE HandleCancel
  <2>1. /\ mailbox # <<>> /\ mailbox' = Tail(mailbox)
        /\ slot' = NoSlot /\ timers' = AbortSchedule
        /\ last' = [last EXCEPT !.held = mode]
        /\ UNCHANGED <<mode, generation>>
    BY <1>5 DEF HandleCancel, Takes
  <2>2. last'.at = last.at /\ last'.mode = last.mode
    BY <1>0, <2>1 DEF TypeOK
  <2>3. \A i \in Fires' : FireIsKnown(i)'
    BY <1>0, <2>1, <2>2, TakeKeepsKnown, AbortEmpties DEF SchedInv
  <2>4. UserModeStands'
    BY <2>1, <2>2 DEF SchedInv, UserModeStands
  <2> QED
    BY <1>0, <2>1, <2>3, <2>4, AbortEmpties, ClearSched DEF SchedInv
<1>6. CASE HandleStaleFire
  <2>1. /\ mailbox # <<>> /\ mailbox' = Tail(mailbox)
        /\ mailbox[1].gen # generation
        /\ UNCHANGED <<mode, generation, slot, timers, last>>
    BY <1>0, <1>6, TakeKeepsFires DEF HandleStaleFire, Takes, Superseded
  <2>2. \A i \in Fires' : FireIsKnown(i)'
    BY <1>0, <2>1, TakeKeepsKnown DEF SchedInv
  <2>3. ASSUME slot.at # NoInstant PROVE FireIsComing'
    <3>1. \A i \in Fires : Carries(slot, i) => i # 1
      BY <2>1, <2>3 DEF SchedInv, SlotIsCurrent, Carries
    <3>2. \A i \in Fires : Carries(slot, i) =>
             i - 1 \in Fires' /\ mailbox'[i - 1] = mailbox[i]
      BY <1>0, <2>1, <3>1, TakeKeepsFires
    <3> QED
      BY <2>1, <2>3, <3>2 DEF SchedInv, FireIsComing, Carries
  <2> QED
    BY <1>0, <2>1, <2>2, <2>3 DEF SchedInv, SlotIsCurrent, UserModeStands
<1>7. CASE HandleResumeFire
  <2>1. /\ mailbox # <<>> /\ mailbox' = Tail(mailbox)
        /\ Head(mailbox) = mailbox[1] /\ 1 \in Fires
        /\ mailbox[1].gen = generation
        /\ UNCHANGED <<generation, timers>>
    BY <1>0, <1>7, TakeKeepsFires DEF HandleResumeFire, Takes, Superseded
  <2>2. mailbox[1].at = last.at /\ last.at # NoInstant /\ timers = {}
    BY <1>0, <2>1, FireTyped DEF SchedInv, FireIsKnown
  <2>3. CASE mode' = "Normal" /\ slot' = SlotAfterFire(Head(mailbox)) /\ last' = last
    <3>1. slot'.at = NoInstant
      BY <2>1, <2>2, <2>3 DEF SchedInv, SlotIsCurrent, SlotAfterFire, NoSlot
    <3>2. \A i \in Fires' : FireIsKnown(i)'
      BY <1>0, <2>1, <2>3, TakeKeepsKnown DEF SchedInv
    <3>3. UserModeStands'
      BY <2>2, <2>3 DEF UserModeStands
    <3>4. timers' \subseteq {slot'}
      BY <2>1, <2>2
    <3> QED
      BY <1>0, <3>1, <3>2, <3>3, <3>4 DEF SchedInv, SlotIsCurrent
  <2>4. CASE last' = [last EXCEPT !.failed = TRUE] /\ UNCHANGED <<mode, slot>>
    <3>1. last'.at = last.at /\ last'.mode = last.mode /\ last'.failed
      BY <1>0, <2>4 DEF TypeOK
    <3>2. \A i \in Fires' : FireIsKnown(i)'
      BY <1>0, <2>1, <3>1, TakeKeepsKnown DEF SchedInv
    <3> QED
      BY <1>0, <2>1, <2>4, <3>1, <3>2
      DEF SchedInv, SlotIsCurrent, FireIsComing, UserModeStands
  <2> QED
    BY <1>7, <2>3, <2>4 DEF HandleResumeFire
<1>8. CASE Shutdown
  <2>1. /\ slot' = NoSlot /\ timers' = AbortSchedule /\ Fires' = {}
        /\ UNCHANGED <<mode, last>>
    BY <1>8 DEF Shutdown, Fires
  <2> QED
    BY <1>0, <2>1, AbortEmpties, ClearSched DEF SchedInv, UserModeStands
<1>9. CASE Restart
  <2>1. slot' = NoSlot /\ timers' = {} /\ Fires' = {} /\ last'.mode = mode'
    BY <1>9 DEF Restart, Fires, NoPromise
  <2> QED
    BY <1>0, <2>1, ClearSched DEF UserModeStands
<1>10. CASE UNCHANGED sgVars
  BY <1>10, SchedInvReads
<1> QED
  BY <1>1, <1>2, <1>3, <1>4, <1>5, <1>6, <1>7, <1>8, <1>9, <1>10
  DEF Next, Actor, Poll, Boost, vars

\* The generation argument holds in every behaviour.
THEOREM SchedCorrect == Spec => []SchedInv
  BY InitSched, StepSched, PTL DEF Spec

(***************************************************************************)
(* A mode a SetMode put in force is undone only by the resume that SetMode *)
(* was promised (do_set_mode bumps the generation and aborts the timer,    *)
(* set_mode_if_not_superseded drops the fires of older generations).       *)
(***************************************************************************)
THEOREM UserModeCorrect == Spec => []UserModeStands
<1>1. SchedInv => UserModeStands
  BY DEF SchedInv
<1> QED
  BY <1>1, SchedCorrect, PTL

(***************************************************************************)
(* A schedule that is shown belongs to the mode in force and its fire is   *)
(* still under way, unless that fire met a GPIO error.                     *)
(***************************************************************************)
THEOREM ShownResumeCorrect == Spec => []ShownResumeIsComing
<1>1. SchedInv => ShownResumeIsComing
  BY DEF SchedInv, SlotIsCurrent, FireIsComing, ShownResumeIsComing
<1> QED
  BY <1>1, SchedCorrect, PTL
HIDE SmartGridAssumption

-----------------------------------------------------------------------------
(* The price loop: its types, and that no price is ever filed under another  *)
(* day than the one it was published for.  The strengthening says the same   *)
(* of the answers on their way: an answer that is applied after midnight is  *)
(* one day older than it was when asked for.                                 *)

\* The answers the loop holds are genuine, for the day they were asked on.
AnswersAreGenuine ==
    loop.at = "answered" =>
        /\ (loop.wait = 0 => loop.day = 0)
        /\ (loop.day = 0 =>
              \A d \in Asked : loop.got[d] # Nothing => loop.got[d] = market[d])
        /\ (loop.day = -1 =>
              (loop.got["tomorrow"] # Nothing => loop.got["tomorrow"] = market["today"]))

PriceInv == PriceTypeOK /\ PricesAreGenuine /\ AnswersAreGenuine

LEMMA PriceConstants ==
    /\ SlotsPerDay \in Nat \ {0} /\ FetchSlot \in 0..SlotsPerDay - 1
    /\ Nothing \notin Curves /\ <<>> \notin Curves
BY PriceStateAssumption, PriceFeedAssumption

LEMMA EmptyBucket == Empty \in Buckets /\ Empty.day = 0 /\ Empty.curve = <<>>
BY DEF Empty, Buckets

LEMMA BucketTyped ==
    ASSUME NEW d \in {-1, 0, 1}, NEW c \in Curves
    PROVE  /\ Bucket(d, c) \in Buckets /\ Bucket(d, c).day = d
           /\ Bucket(d, c).curve = c /\ Bucket(d, c) # Empty
BY PriceConstants DEF Bucket, Buckets, Empty

\* A bucket that ages stays a bucket, and only its day changes.
LEMMA AgedTyped ==
    ASSUME NEW b \in Buckets
    PROVE  /\ Aged(b) \in Buckets /\ Aged(b).day \in {-1, 0}
           /\ b # Empty => Aged(b).curve = b.curve /\ Aged(b) # Empty
           /\ b # Empty /\ Aged(b).day = 0 => b.day = 1
           /\ b = Empty => Aged(b) = Empty
<1>1. CASE b = Empty
    BY <1>1, EmptyBucket DEF Aged
<1>2. CASE b # Empty
    <2>1. b.day \in {-1, 0, 1} /\ b.curve \in Curves
        BY <1>2 DEF Buckets
    <2>2. CASE b.day = -1
        BY <1>2, <2>2 DEF Aged
    <2>3. CASE b.day # -1
        <3>1. Aged(b) = Bucket(b.day - 1, b.curve)
            BY <1>2, <2>3 DEF Aged
        <3>2. b.day - 1 \in {-1, 0, 1} /\ b.day - 1 \in {-1, 0}
            BY <2>1, <2>3
        <3> QED BY <1>2, <2>1, <3>1, <3>2, BucketTyped
    <2> QED BY <2>2, <2>3
<1> QED BY <1>1, <1>2

LEMMA WaitTyped ==
    ASSUME PriceTypeOK
    PROVE  UntilFetch \in 1..SlotsPerDay /\ 1 \in 0..SlotsPerDay /\ 0 \in 0..SlotsPerDay
BY PriceConstants DEF PriceTypeOK, UntilFetch

LEMMA LoopTyped ==
    ASSUME NEW n \in 0..SlotsPerDay
    PROVE  \A l \in {Waiting(n), Asking, Stopped} :
              l \in [at : {"asleep", "ask", "answered", "stopped"}, wait : 0..SlotsPerDay,
                     day : {-1, 0}, got : [Asked -> Curves \cup {Nothing}]]
BY PriceConstants DEF Waiting, Asking, Stopped, NoAnswers

LEMMA PriceInitInvariant == PriceInit => PriceInv
<1> SUFFICES ASSUME PriceInit PROVE PriceInv
    OBVIOUS
<1>1. 0 \in 0..SlotsPerDay
    BY PriceConstants
<1>2. loop \in [at : {"asleep", "ask", "answered", "stopped"}, wait : 0..SlotsPerDay,
                day : {-1, 0}, got : [Asked -> Curves \cup {Nothing}]]
    BY <1>1, LoopTyped DEF PriceInit
<1>3. PriceTypeOK
    BY <1>2, EmptyBucket DEF PriceInit, PriceTypeOK
<1>4. PricesAreGenuine /\ AnswersAreGenuine
    BY EmptyBucket DEF PriceInit, PricesAreGenuine, Genuine, AnswersAreGenuine, Asking
<1> QED BY <1>3, <1>4 DEF PriceInv

-----------------------------------------------------------------------------
(* The steps. *)

LEMMA TickInvariant == PriceInv /\ Tick => PriceInv'
<1> SUFFICES ASSUME PriceInv, Tick PROVE PriceInv'
    OBVIOUS
<1> USE DEF PriceInv
<1>1. slotNow' \in 0..SlotsPerDay - 1
    BY PriceConstants DEF Tick, PriceTypeOK
<1>2. loop' \in [at : {"asleep", "ask", "answered", "stopped"}, wait : 0..SlotsPerDay,
                 day : {-1, 0}, got : [Asked -> Curves \cup {Nothing}]]
    <2>1. CASE loop.at = "asleep"
        <3>1. loop.wait > 0
            BY <2>1 DEF Tick, MayPass
        <3>2. loop.wait - 1 \in 0..SlotsPerDay
            BY <3>1, PriceConstants DEF PriceTypeOK
        <3>3. loop' = [loop EXCEPT !.wait = loop.wait - 1]
            BY <2>1 DEF Tick
        <3> QED BY <3>2, <3>3 DEF PriceTypeOK
    <2>2. CASE loop.at = "answered"
        <3>1. loop' = [loop EXCEPT !.wait = 1, !.day = IF slotNow' = 0 THEN -1 ELSE loop.day]
            BY <2>2 DEF Tick
        <3>2. 1 \in 0..SlotsPerDay
            BY PriceConstants
        <3> QED BY <3>1, <3>2 DEF PriceTypeOK
    <2>3. CASE loop.at \notin {"asleep", "answered"}
        BY <2>3 DEF Tick, PriceTypeOK
    <2> QED BY <2>1, <2>2, <2>3
<1>3. CASE slotNow' # 0
    <2>1. UNCHANGED <<market, today, tomorrow>>
        BY <1>3 DEF Tick
    <2>2. PriceTypeOK'
        BY <1>1, <1>2, <2>1 DEF Tick, PriceTypeOK
    <2>3. PricesAreGenuine'
        BY <2>1 DEF PricesAreGenuine, Genuine
    <2>4. loop'.at = loop.at /\ loop'.day = loop.day /\ loop'.got = loop.got
        BY <1>3 DEF Tick, PriceTypeOK
    <2>5. AnswersAreGenuine'
        <3>1. ASSUME loop'.at = "answered" PROVE loop'.wait = 1
            BY <3>1, <1>3 DEF Tick, PriceTypeOK
        <3> QED BY <2>1, <2>4, <3>1 DEF AnswersAreGenuine
    <2> QED BY <2>2, <2>3, <2>5
<1>4. CASE slotNow' = 0
    <2>1. /\ market' = [market EXCEPT !["today"] = market["tomorrow"], !["tomorrow"] = Nothing]
          /\ today' = Aged(today) /\ tomorrow' = Aged(tomorrow)
        BY <1>4 DEF Tick, Midnight
    <2>2. /\ market' \in [Asked -> Curves \cup {Nothing}]
          /\ market'["today"] = market["tomorrow"]
        BY <2>1 DEF PriceTypeOK, Asked
    <2>3. PriceTypeOK'
        BY <1>1, <1>2, <2>1, <2>2, AgedTyped DEF Tick, PriceTypeOK
    <2>4. ASSUME NEW b \in Buckets, Genuine(b)
          PROVE  /\ Aged(b).day # 1
                 /\ Aged(b).day = 0 /\ Aged(b) # Empty => Aged(b).curve = market'["today"]
        BY <2>2, <2>4, AgedTyped DEF Genuine
    <2>5. PricesAreGenuine'
        BY <2>1, <2>4 DEF PricesAreGenuine, Genuine, PriceTypeOK
    <2>6. AnswersAreGenuine'
        <3> SUFFICES ASSUME loop'.at = "answered"
                     PROVE  /\ loop'.day = -1 /\ loop'.wait = 1
                            /\ loop'.got["tomorrow"] # Nothing
                                  => loop'.got["tomorrow"] = market'["today"]
            BY DEF AnswersAreGenuine
        <3>1. loop.at = "answered"
            BY DEF Tick, PriceTypeOK
        <3>2. loop.wait = 0
            BY <3>1 DEF Tick, MayPass
        <3>3. loop' = [loop EXCEPT !.wait = 1, !.day = -1]
            BY <1>4, <3>1 DEF Tick
        <3>4. loop'.got = loop.got /\ loop'.day = -1 /\ loop'.wait = 1
            BY <3>3 DEF PriceTypeOK
        <3>5. loop.day = 0
            BY <3>1, <3>2 DEF AnswersAreGenuine
        <3> QED BY <2>2, <3>1, <3>4, <3>5 DEF AnswersAreGenuine, Asked
    <2> QED BY <2>3, <2>5, <2>6
<1> QED BY <1>3, <1>4
LEMMA WorldInvariant ==
    PriceInv /\ (NetworkChanges \/ Cancel \/ \E d \in Asked, c \in Curves : Publish(d, c)) => PriceInv'
<1> SUFFICES ASSUME PriceInv,
                    NetworkChanges \/ Cancel \/ \E d \in Asked, c \in Curves : Publish(d, c)
             PROVE  PriceInv'
    OBVIOUS
<1> USE DEF PriceInv
<1>1. CASE NetworkChanges \/ Cancel
    <2>1. PriceTypeOK'
        BY <1>1 DEF NetworkChanges, Cancel, PriceTypeOK
    <2>2. UNCHANGED <<market, today, tomorrow, loop>>
        BY <1>1 DEF NetworkChanges, Cancel
    <2> QED BY <2>1, <2>2 DEF PricesAreGenuine, Genuine, AnswersAreGenuine
<1>2. ASSUME NEW d \in Asked, NEW c \in Curves, Publish(d, c) PROVE PriceInv'
    <2>1. /\ market[d] = Nothing
          /\ market' = [market EXCEPT ![d] = c]
          /\ UNCHANGED <<slotNow, network, today, tomorrow, loop, cancelled>>
        BY <1>2 DEF Publish
    <2>2. PriceTypeOK'
        BY <2>1 DEF PriceTypeOK
    <2>3. \A e \in Asked : market[e] # Nothing => market'[e] = market[e]
        BY <2>1 DEF PriceTypeOK
    <2>4. ASSUME NEW b \in Buckets, b # Empty, b.day \in {0, 1} PROVE b.curve # Nothing
        BY <2>4, PriceConstants DEF Buckets
    <2>6. PricesAreGenuine'
        BY <2>1, <2>3, <2>4, EmptyBucket DEF PricesAreGenuine, Genuine, Asked, PriceTypeOK
    <2>7. AnswersAreGenuine'
        BY <2>1, <2>3 DEF AnswersAreGenuine, Asked
    <2> QED BY <2>2, <2>6, <2>7
<1> QED BY <1>1, <1>2

LEMMA AskInvariant == PriceInv /\ AskElpris => PriceInv'
<1> SUFFICES ASSUME PriceInv, AskElpris PROVE PriceInv'
    OBVIOUS
<1> USE DEF PriceInv
<1>1. PICK got \in Answers : loop' = [Asking EXCEPT !.at = "answered", !.got = got]
    BY DEF AskElpris
<1>2. /\ got \in [Asked -> Curves \cup {Nothing}]
      /\ \A d \in Asked : got[d] # Nothing => got[d] = market[d]
    BY <1>1 DEF Answers
<1>3. /\ loop'.at = "answered" /\ loop'.wait = 0 /\ loop'.day = 0 /\ loop'.got = got
      /\ loop' \in [at : {"asleep", "ask", "answered", "stopped"}, wait : 0..SlotsPerDay,
                    day : {-1, 0}, got : [Asked -> Curves \cup {Nothing}]]
    <2>1. loop' = [at |-> "answered", wait |-> 0, day |-> 0, got |-> got]
        BY <1>1 DEF Asking
    <2>2. 0 \in 0..SlotsPerDay
        BY PriceConstants
    <2> QED BY <1>2, <2>1, <2>2
<1>4. UNCHANGED <<slotNow, market, network, today, tomorrow, cancelled>>
    BY DEF AskElpris
<1>5. PriceTypeOK'
    BY <1>3, <1>4 DEF PriceTypeOK
<1>6. PricesAreGenuine'
    BY <1>4 DEF PricesAreGenuine, Genuine
<1>7. AnswersAreGenuine'
    BY <1>2, <1>3, <1>4 DEF AnswersAreGenuine
<1> QED BY <1>5, <1>6, <1>7

LEMMA TakeInvariant == PriceInv /\ TakeAnswers => PriceInv'
<1> SUFFICES ASSUME PriceInv, TakeAnswers PROVE PriceInv'
    OBVIOUS
<1> USE DEF PriceInv
<1>1. /\ loop.at = "answered"
      /\ today' = Kept(today, loop.got["today"], loop.day)
      /\ tomorrow' = Kept(tomorrow, loop.got["tomorrow"], loop.day + 1)
      /\ loop' = AfterFetch /\ UNCHANGED <<slotNow, market, network, cancelled>>
    BY DEF TakeAnswers
<1>2. /\ loop' \in [at : {"asleep", "ask", "answered", "stopped"}, wait : 0..SlotsPerDay,
                    day : {-1, 0}, got : [Asked -> Curves \cup {Nothing}]]
      /\ loop'.at = "asleep"
    <2>1. \E n \in 0..SlotsPerDay : loop' = Waiting(n)
        BY <1>1, WaitTyped DEF AfterFetch
    <2> QED BY <2>1, LoopTyped DEF Waiting
<1>3. /\ loop.day \in {-1, 0} /\ loop.day + 1 \in {0, 1}
      /\ loop.got["today"] \in Curves \cup {Nothing}
      /\ loop.got["tomorrow"] \in Curves \cup {Nothing}
    BY DEF PriceTypeOK, Asked
<1>4. today' \in Buckets /\ today'.day \in {-1, 0} /\ tomorrow' \in Buckets
    BY <1>1, <1>3, BucketTyped DEF Kept, PriceTypeOK
<1>5. PriceTypeOK'
    BY <1>1, <1>2, <1>4 DEF PriceTypeOK
<1>6. Genuine(today)'
    <2>1. CASE loop.got["today"] = Nothing
        BY <1>1, <2>1 DEF Kept, PricesAreGenuine, Genuine
    <2>2. CASE loop.got["today"] # Nothing
        <3>1. today' = Bucket(loop.day, loop.got["today"])
            BY <1>1, <2>2 DEF Kept
        <3>2. today'.day = loop.day /\ today'.curve = loop.got["today"]
            BY <1>3, <2>2, <3>1, BucketTyped
        <3> QED BY <1>1, <1>3, <2>2, <3>2 DEF AnswersAreGenuine, Genuine, Asked
    <2> QED BY <2>1, <2>2
<1>7. Genuine(tomorrow)'
    <2>1. CASE loop.got["tomorrow"] = Nothing
        BY <1>1, <2>1 DEF Kept, PricesAreGenuine, Genuine
    <2>2. CASE loop.got["tomorrow"] # Nothing
        <3>1. tomorrow' = Bucket(loop.day + 1, loop.got["tomorrow"])
            BY <1>1, <2>2 DEF Kept
        <3>2. tomorrow'.day = loop.day + 1 /\ tomorrow'.curve = loop.got["tomorrow"]
            BY <1>3, <2>2, <3>1, BucketTyped
        <3>3. CASE loop.day = 0
            BY <1>1, <2>2, <3>2, <3>3 DEF AnswersAreGenuine, Genuine, Asked
        <3>4. CASE loop.day = -1
            BY <1>1, <2>2, <3>2, <3>4 DEF AnswersAreGenuine, Genuine
        <3> QED BY <1>3, <3>3, <3>4
    <2> QED BY <2>1, <2>2
<1>8. AnswersAreGenuine'
    BY <1>2 DEF AnswersAreGenuine
<1> QED BY <1>5, <1>6, <1>7, <1>8 DEF PricesAreGenuine

LEMMA SleepInvariant == PriceInv /\ (Wake \/ Stop \/ UNCHANGED priceVars) => PriceInv'
<1> SUFFICES ASSUME PriceInv, Wake \/ Stop \/ UNCHANGED priceVars PROVE PriceInv'
    OBVIOUS
<1> USE DEF PriceInv
<1>1. UNCHANGED <<slotNow, market, network, today, tomorrow, cancelled>>
    BY DEF Wake, Stop, priceVars
<1>2. loop' \in {Asking, Stopped} \/ loop' = loop
    BY DEF Wake, Stop, priceVars
<1>3. 0 \in 0..SlotsPerDay
    BY PriceConstants
<1>4. PriceTypeOK'
    BY <1>1, <1>2, <1>3, LoopTyped DEF PriceTypeOK
<1>5. PricesAreGenuine'
    BY <1>1 DEF PricesAreGenuine, Genuine
<1>6. AnswersAreGenuine'
    BY <1>1, <1>2 DEF AnswersAreGenuine, Asking, Stopped
<1> QED BY <1>4, <1>5, <1>6

\* The strengthening is an invariant of the price loop.
THEOREM PriceInvariant == PriceSpec => []PriceInv
<1>1. PriceInv /\ [PriceNext]_priceVars => PriceInv'
    BY TickInvariant, WorldInvariant, AskInvariant, TakeInvariant, SleepInvariant DEF PriceNext
<1> QED BY <1>1, PriceInitInvariant, PTL DEF PriceSpec

\* Type correctness of the price loop and of the two buckets.
THEOREM PriceTypeCorrect == PriceSpec => []PriceTypeOK
<1>1. PriceInv => PriceTypeOK
    BY DEF PriceInv
<1> QED BY <1>1, PriceInvariant, PTL

\* No price is filed under another day than its own, whatever fails, whenever
\* elpris publishes and however late an answer is applied.
THEOREM GenuineCorrect == PriceSpec => []PricesAreGenuine
<1>1. PriceInv => PricesAreGenuine
    BY DEF PriceInv
<1> QED BY <1>1, PriceInvariant, PTL

-----------------------------------------------------------------------------
\* A set of numbers that is not empty has a smallest one.
LEMMA LeastNumber ==
    ASSUME NEW T \in SUBSET Nat, T # {}
    PROVE  \E x \in T : \A y \in T : x <= y
  <1> DEFINE R == OpToRel(<, Nat)
  <1>1. IsWellFoundedOn(R, Nat)
    BY NatLessThanWellFounded
  <1>2. \A x, y \in Nat : y < x => <<y, x>> \in R
    BY DEF OpToRel
  <1> HIDE DEF R
  <1>3. PICK x \in T : \A y \in T : ~ (<<y, x>> \in R)
    BY <1>1, WFMin
  <1>4. \A y \in T : ~ (y < x)
    BY <1>2, <1>3
  <1> QED BY <1>4

(***************************************************************************)
(* Sums.  MapThenSumSet takes the elements in an order of its own; what it *)
(* adds up does not depend on it.                                          *)
(***************************************************************************)

\* g has the sum of the weights W for each part of S.
Sums(g, S, W) ==
    /\ g \in [SUBSET S -> Int]
    /\ g[{}] = 0
    /\ \A s \in SUBSET S : \A x \in s : g[s] = W[x] + g[s \ {x}]

\* Of the sets with a property that are parts of a finite one, a smallest.
LEMMA SmallestPart ==
    ASSUME NEW S, IsFiniteSet(S), NEW P \in SUBSET SUBSET S, P # {}
    PROVE  \E t \in P : \A u \in P : ~(\E x \in t : u = t \ {x})
  <1> DEFINE sizes == {Cardinality(t) : t \in P}
  <1>1. \A t \in P : IsFiniteSet(t) /\ Cardinality(t) \in Nat
    BY FS_Subset, FS_CardinalityType
  <1>2. sizes \in SUBSET Nat /\ sizes # {}
    BY <1>1
  <1>3. PICK n \in sizes : \A m \in sizes : n <= m
    <2> HIDE DEF sizes
    <2> QED BY <1>2, LeastNumber
  <1>4. PICK t \in P : Cardinality(t) = n
    BY <1>3
  <1>5. ASSUME NEW u \in P, NEW x \in t, u = t \ {x} PROVE FALSE
    <2>1. Cardinality(u) = Cardinality(t) - 1
      BY <1>1, <1>5, FS_RemoveElement
    <2>2. Cardinality(u) \in sizes
      OBVIOUS
    <2>3. n <= Cardinality(u)
      BY <1>3, <2>2
    <2>4. n \in Nat
      BY <1>1, <1>4
    <2> QED BY <1>4, <2>1, <2>3, <2>4
  <1> QED BY <1>4, <1>5

\* There is such a function.
LEMMA SumExists ==
    ASSUME NEW S, IsFiniteSet(S), NEW W \in [S -> Int]
    PROVE  \E g : Sums(g, S, W)
  <1> DEFINE without == {t \in SUBSET S : ~(\E g : Sums(g, t, W))}
  <1>1. SUFFICES ASSUME without # {} PROVE FALSE
    OBVIOUS
  <1>2. PICK t \in without : \A u \in without : ~(\E x \in t : u = t \ {x})
    <2>1. without \in SUBSET SUBSET S
      OBVIOUS
    <2> HIDE DEF without
    <2> QED BY <1>1, <2>1, SmallestPart
  <1>3. CASE t = {}
    <2> DEFINE g == [s \in SUBSET t |-> 0]
    <2>1. Sums(g, t, W)
      BY <1>3 DEF Sums
    <2> QED BY <2>1
  <1>4. CASE t # {}
    <2>1. PICK y \in t : TRUE
      BY <1>4
    <2>2. PICK h : Sums(h, t \ {y}, W)
      BY <1>2
    <2> DEFINE g == [s \in SUBSET t |-> (IF y \in s THEN W[y] ELSE 0) + h[s \ {y}]]
    <2>3. /\ \A s \in SUBSET t : s \ {y} \in SUBSET (t \ {y}) /\ h[s \ {y}] \in Int
          /\ \A x \in t : W[x] \in Int
      BY <2>2 DEF Sums
    <2>4. g \in [SUBSET t -> Int]
      <3>1. \A s \in SUBSET t : (IF y \in s THEN W[y] ELSE 0) + h[s \ {y}] \in Int
        BY <2>1, <2>3
      <3> QED BY <3>1
    <2>5. g[{}] = 0
      <3>1. {} \ {y} = {}
        OBVIOUS
      <3>2. h[{}] = 0
        BY <2>2 DEF Sums
      <3> QED BY <3>1, <3>2
    <2>6. ASSUME NEW s \in SUBSET t, NEW x \in s PROVE g[s] = W[x] + g[s \ {x}]
      <3>0. /\ g[s] = (IF y \in s THEN W[y] ELSE 0) + h[s \ {y}]
            /\ g[s \ {x}] = (IF y \in s \ {x} THEN W[y] ELSE 0) + h[(s \ {x}) \ {y}]
        OBVIOUS
      <3>1. CASE x = y
        <4>1. (s \ {x}) \ {y} = s \ {y}
          BY <3>1
        <4>2. g[s] = W[y] + h[s \ {y}] /\ g[s \ {x}] = 0 + h[s \ {y}]
          BY <3>0, <3>1, <4>1
        <4>3. h[s \ {y}] \in Int /\ W[y] \in Int
          BY <2>3
        <4> HIDE DEF g
        <4> QED BY <3>1, <4>2, <4>3
      <3>2. CASE x # y
        <4>1. (s \ {x}) \ {y} = (s \ {y}) \ {x} /\ x \in s \ {y}
          BY <3>2
        <4>2. h[s \ {y}] = W[x] + h[(s \ {y}) \ {x}]
          BY <2>2, <2>3, <4>1 DEF Sums
        <4>3. h[(s \ {y}) \ {x}] \in Int /\ W[x] \in Int
          <5>1. (s \ {x}) \in SUBSET t
            OBVIOUS
          <5> QED BY <2>3, <4>1, <5>1
        <4>4. CASE y \in s
          <5>1. g[s] = W[y] + (W[x] + h[(s \ {y}) \ {x}])
            BY <3>0, <4>2, <4>4
          <5>2. g[s \ {x}] = W[y] + h[(s \ {y}) \ {x}]
            BY <3>0, <3>2, <4>1, <4>4
          <5>3. W[y] \in Int
            BY <2>3
          <5> HIDE DEF g
          <5> QED BY <4>3, <5>1, <5>2, <5>3
        <4>5. CASE y \notin s
          <5>1. g[s] = 0 + (W[x] + h[(s \ {y}) \ {x}])
            BY <3>0, <4>2, <4>5
          <5>2. g[s \ {x}] = 0 + h[(s \ {y}) \ {x}]
            BY <3>0, <4>1, <4>5
          <5> HIDE DEF g
          <5> QED BY <4>3, <5>1, <5>2
        <4> QED BY <4>4, <4>5
      <3> QED BY <3>1, <3>2
    <2>7. Sums(g, t, W)
      BY <2>4, <2>5, <2>6 DEF Sums
    <2> QED BY <2>7
  <1> QED BY <1>3, <1>4

\* Whoever adds up in the order of CHOOSE has its values.
PicksFrom(f, S, W) ==
    \A s \in SUBSET S : f[s] = IF s = {} THEN 0
                               ELSE W[CHOOSE x \in s : TRUE] + f[s \ {CHOOSE x \in s : TRUE}]
\* MapThenSumSet is such a sum: it leaves out the element it chose.
LEMMA PickedSums ==
    ASSUME NEW S, IsFiniteSet(S), NEW W \in [S -> Int], NEW g, Sums(g, S, W), NEW f,
           PicksFrom(f, S, W)
    PROVE  \A s \in SUBSET S : f[s] = g[s]
  <1> DEFINE off == {s \in SUBSET S : f[s] # g[s]}
  <1>1. SUFFICES ASSUME off # {} PROVE FALSE
    OBVIOUS
  <1>2. PICK t \in off : \A u \in off : ~(\E x \in t : u = t \ {x})
    <2>1. off \in SUBSET SUBSET S
      OBVIOUS
    <2> HIDE DEF off
    <2> QED BY <1>1, <2>1, SmallestPart
  <1>3. t # {}
    BY DEF Sums, PicksFrom
  <1> DEFINE y == CHOOSE x \in t : TRUE
  <1>4. y \in t
    BY <1>3
  <1>5. f[t] = W[y] + f[t \ {y}]
    BY <1>3 DEF PicksFrom
  <1> HIDE DEF y
  <1>6. f[t \ {y}] = g[t \ {y}]
    BY <1>2, <1>4
  <1>7. g[t] = W[y] + g[t \ {y}]
    BY <1>4 DEF Sums
  <1> QED BY <1>5, <1>6, <1>7

\* A sum over other elements of the same weights is the same.
LEMMA MappedSums ==
    ASSUME NEW A, IsFiniteSet(A), NEW V \in [A -> Int], NEW g, Sums(g, A, V),
           NEW B, NEW W \in [B -> Int], NEW h, Sums(h, B, W),
           NEW to \in [A -> B], \A x, y \in A : to[x] = to[y] => x = y,
           \A x \in A : W[to[x]] = V[x]
    PROVE  \A s \in SUBSET A : g[s] = h[{to[x] : x \in s}]
  <1> DEFINE image(s) == {to[x] : x \in s}
             off == {s \in SUBSET A : g[s] # h[image(s)]}
  <1>1. SUFFICES ASSUME off # {} PROVE FALSE
    OBVIOUS
  <1>2. PICK t \in off : \A u \in off : ~(\E x \in t : u = t \ {x})
    <2>1. off \in SUBSET SUBSET A
      OBVIOUS
    <2> HIDE DEF off
    <2> QED BY <1>1, <2>1, SmallestPart
  <1>3. t # {}
    <2> SUFFICES ASSUME t = {} PROVE FALSE
      OBVIOUS
    <2>1. image(t) = {}
      OBVIOUS
    <2>2. g[t] = 0 /\ h[image(t)] = 0
      BY <2>1 DEF Sums
    <2> QED BY <2>2
  <1>4. PICK y \in t : TRUE
    BY <1>3
  <1>5. image(t \ {y}) = image(t) \ {to[y]} /\ to[y] \in image(t) /\ image(t) \in SUBSET B
    OBVIOUS
  <1>6. g[t \ {y}] = h[image(t \ {y})]
    BY <1>2, <1>4
  <1>7. g[t] = V[y] + g[t \ {y}]
    BY <1>4 DEF Sums
  <1>8. h[image(t)] = W[to[y]] + h[image(t) \ {to[y]}]
    BY <1>5 DEF Sums
  <1>9. g[t] # h[image(t)] /\ W[to[y]] = V[y]
    OBVIOUS
  <1> HIDE DEF image, off
  <1> QED BY <1>5, <1>6, <1>7, <1>8, <1>9

\* What Total adds up is the sum of its function.
LEMMA TotalIs ==
    ASSUME NEW S, IsFiniteSet(S), NEW W \in [S -> Int], NEW g, Sums(g, S, W)
    PROVE  Total(W) = g[S]
  <1> DEFINE F(iter) == [s \in SUBSET S |->
                           IF s = {} THEN 0
                           ELSE W[CHOOSE x \in s : TRUE]
                                  + iter[s \ {CHOOSE x \in s : TRUE}]]
             f == CHOOSE iter : iter = F(iter)
  <1>1. g = F(g)
    <2>1. ASSUME NEW s \in SUBSET S PROVE g[s] = F(g)[s]
      <3>1. CASE s = {}
        BY <3>1 DEF Sums
      <3>2. CASE s # {}
        <4> DEFINE y == CHOOSE x \in s : TRUE
        <4>1. y \in s
          BY <3>2
        <4>2. F(g)[s] = W[y] + g[s \ {y}]
          BY <3>2
        <4> HIDE DEF y
        <4>3. g[s] = W[y] + g[s \ {y}]
          BY <4>1 DEF Sums
        <4> QED BY <4>2, <4>3
      <3> QED BY <3>1, <3>2
    <2>2. g \in [SUBSET S -> Int]
      BY DEF Sums
    <2> QED BY <2>1, <2>2
  <1>2. f = F(f)
    BY <1>1
  <1>3. DOMAIN W = S
    OBVIOUS
  <1>4. Total(W) = f[S]
    BY <1>3 DEF Total, MapThenSumSet, MapThenFoldSet
  <1> HIDE DEF f
  <1>5. PicksFrom(f, S, W)
    BY <1>2 DEF PicksFrom
  <1> QED BY <1>4, <1>5, PickedSums

\* Nothing adds up to nothing.
LEMMA TotalOfNone ==
    ASSUME NEW W \in [{} -> Int]
    PROVE  Total(W) = 0
  <1>1. IsFiniteSet({})
    BY FS_EmptySet
  <1>2. PICK g : Sums(g, {}, W)
    BY <1>1, SumExists
  <1>3. g[{}] = 0
    BY <1>2 DEF Sums
  <1> QED BY <1>1, <1>2, <1>3, TotalIs

\* V is W without its value for x.
IsWithout(V, W, S, x) ==
    /\ IsFiniteSet(S) /\ W \in [S -> Int] /\ x \in S
    /\ V \in [S \ {x} -> Int] /\ \A y \in S \ {x} : V[y] = W[y]

\* A sum is one summand and the sum of the others.
LEMMA TotalWithout ==
    ASSUME NEW V, NEW W, NEW S, NEW x, IsWithout(V, W, S, x)
    PROVE  Total(W) = W[x] + Total(V) /\ Total(V) \in Int
  <1>0. /\ IsFiniteSet(S) /\ W \in [S -> Int] /\ x \in S
        /\ V \in [S \ {x} -> Int] /\ \A y \in S \ {x} : V[y] = W[y]
    BY DEF IsWithout
  <1>1. PICK g : Sums(g, S, W)
    BY <1>0, SumExists
  <1> DEFINE T == S \ {x}
             h == [s \in SUBSET T |-> g[s]]
  <1>2. Sums(h, T, V)
    <2>1. h \in [SUBSET T -> Int] /\ h[{}] = 0
      BY <1>1 DEF Sums
    <2>2. ASSUME NEW s \in SUBSET T, NEW y \in s PROVE h[s] = V[y] + h[s \ {y}]
      BY <1>0, <1>1 DEF Sums
    <2> HIDE DEF h, T
    <2> QED BY <2>1, <2>2 DEF Sums
  <1>3. V \in [T -> Int] /\ IsFiniteSet(T)
    BY <1>0, FS_Subset
  <1>4. Total(V) = h[T]
    BY <1>2, <1>3, TotalIs
  <1>5. Total(W) = g[S]
    BY <1>0, <1>1, TotalIs
  <1>6. g[S] = W[x] + g[S \ {x}] /\ g[S \ {x}] \in Int
    BY <1>0, <1>1 DEF Sums
  <1> QED BY <1>4, <1>5, <1>6

\* Two functions with the same values under other names have the same sum.
LEMMA TotalMapped ==
    ASSUME NEW A, IsFiniteSet(A), NEW V \in [A -> Int],
           NEW B, IsFiniteSet(B), NEW W \in [B -> Int],
           NEW to \in [A -> B], \A x, y \in A : to[x] = to[y] => x = y,
           \A y \in B : \E x \in A : to[x] = y,
           \A x \in A : W[to[x]] = V[x]
    PROVE  Total(V) = Total(W)
  <1>1. PICK g : Sums(g, A, V)
    BY SumExists
  <1>2. PICK h : Sums(h, B, W)
    BY SumExists
  <1>3. \A s \in SUBSET A : g[s] = h[{to[x] : x \in s}]
    BY <1>1, <1>2, MappedSums
  <1>4. {to[x] : x \in A} = B
    OBVIOUS
  <1>5. g[A] = h[B]
    BY <1>3, <1>4
  <1> QED BY <1>1, <1>2, <1>5, TotalIs

-----------------------------------------------------------------------------
(* The timeline of the prices held: the chain of the two buckets. *)

\* A day is a whole number of slots of the length that its curve gives them.
LEMMA WholeShares ==
    ASSUME NEW a \in Nat, NEW b \in Nat \ {0}, a % b = 0
    PROVE  a \div b \in Nat /\ b * (a \div b) = a
OBVIOUS

\* The points of a day, one after the other from its start to its end.
IsDay(P, n, first, next) ==
    /\ n \in Nat \ {0} /\ DOMAIN P = 1..n
    /\ \A i \in 1..n : /\ P[i].start \in Int /\ P[i].end \in Int /\ P[i].spot \in Int
                       /\ P[i].start < P[i].end
                       /\ first <= P[i].start /\ P[i].end <= next
    /\ \A i, j \in 1..n : i < j => P[i].end <= P[j].start
    /\ \A i \in 1..n - 1 : P[i].end = P[i + 1].start
    /\ P[1].start = first /\ P[n].end = next

AreMultiples(m, n, l) ==
    /\ m[0] = 0 /\ \A k \in 0..n : m[k] \in Nat
    /\ \A k \in 1..n : m[k] = m[k - 1] + l /\ m[k - 1] = (k - 1) * l /\ m[k] <= m[n]
    /\ \A i, j \in 1..n : i < j => m[i] <= m[j - 1]

\* The starts of a day go up in equal steps.
LEMMA Multiples ==
    ASSUME NEW n \in Nat, NEW l \in Nat \ {0}
    PROVE  AreMultiples([k \in 0..n |-> k * l], n, l)
<1> DEFINE m == [k \in 0..n |-> k * l]
<1>1. \A k \in 0..n : k * l \in Nat
    OBVIOUS
<1>2. \A i, j \in 0..n : i <= j => i * l <= j * l
    OBVIOUS
<1>3. \A k \in 1..n : k * l = (k - 1) * l + l
    OBVIOUS
<1>4. \A k \in 1..n : k - 1 \in 0..n
    OBVIOUS
<1>5. \A i, j \in 1..n : i < j => i <= j - 1
    OBVIOUS
<1>6. \A k \in 0..n : m[k] = k * l
    OBVIOUS
<1>7. \A k \in 1..n : m[k] = m[k - 1] + l /\ m[k - 1] = (k - 1) * l /\ m[k] <= m[n]
    BY <1>2, <1>3, <1>4, <1>6
<1>8. \A i, j \in 1..n : i < j => m[i] <= m[j - 1]
    <2> SUFFICES ASSUME NEW i \in 1..n, NEW j \in 1..n, i < j PROVE m[i] <= m[j - 1]
        OBVIOUS
    <2>1. i \in 0..n /\ j - 1 \in 0..n /\ i <= j - 1
        OBVIOUS
    <2> QED BY <1>2, <1>6, <2>1
<1>9. m[0] = 0
    BY <1>6
<1> QED BY <1>1, <1>6, <1>7, <1>8, <1>9 DEF AreMultiples

\* The points of a bucket make a day: no gap, no overlap, its length in all.
LEMMA DayOfPoints ==
    ASSUME NEW b \in Buckets, b # Empty
    PROVE  /\ b.day \in {-1, 0, 1}
           /\ IsDay(Points(b), Len(b.curve), b.day * SlotsPerDay, (b.day + 1) * SlotsPerDay)
<1> DEFINE n == Len(b.curve)
           l == SlotsPerDay \div n
           d == b.day * SlotsPerDay
           P == Points(b)
           m == [k \in 0..n |-> k * l]
<1>1. /\ b.curve \in Curves /\ b.day \in {-1, 0, 1}
      /\ b.curve \in Seq(Int) /\ b.curve # <<>> /\ SlotsPerDay % n = 0
      /\ SlotsPerDay \in Nat \ {0}
    BY PriceStateAssumption DEF Buckets
<1>2. n \in Nat \ {0} /\ DOMAIN b.curve = 1..n /\ \A i \in 1..n : b.curve[i] \in Int
    BY <1>1
<1>3. l \in Nat /\ n * l = SlotsPerDay
    BY <1>1, <1>2, WholeShares
<1>4. d \in Int /\ (b.day + 1) * SlotsPerDay = d + SlotsPerDay
    BY <1>1
<1>5. \A i \in 1..n : /\ P[i].start = d + (i - 1) * l /\ P[i].end = d + (i - 1) * l + l
                      /\ P[i].spot = b.curve[i]
    BY <1>2 DEF Points, Point
<1>6. DOMAIN P = 1..n
    BY <1>2 DEF Points
<1>7. l # 0
    <2> HIDE DEF n, l
    <2>1. SUFFICES ASSUME l = 0 PROVE FALSE
        OBVIOUS
    <2>2. n * l = 0
        BY <1>2, <2>1
    <2> QED BY <1>1, <1>3, <2>2
<1>8. m[n] = SlotsPerDay
    BY <1>2, <1>3
<1>9. l \in Nat \ {0} => AreMultiples(m, n, l)
    <2> HIDE DEF n, l
    <2> QED BY <1>2, Multiples
<1> HIDE DEF n, l, d, P, m
<1>10. /\ m[0] = 0 /\ \A k \in 0..n : m[k] \in Nat
       /\ \A k \in 1..n : m[k] = m[k - 1] + l /\ m[k - 1] = (k - 1) * l /\ m[k] <= m[n]
       /\ \A i, j \in 1..n : i < j => m[i] <= m[j - 1]
    BY <1>3, <1>7, <1>9 DEF AreMultiples
<1>11. \A i \in 1..n : i - 1 \in 0..n /\ i \in 0..n
    BY <1>2
<1>12. \A i \in 1..n : P[i].start = d + m[i - 1] /\ P[i].end = d + m[i - 1] + l
    BY <1>5, <1>10
<1>13. \A i \in 1..n : /\ m[i - 1] \in Nat /\ m[i] \in Nat /\ P[i].end = d + m[i]
                       /\ m[i] = m[i - 1] + l
    BY <1>3, <1>4, <1>10, <1>11, <1>12
<1>14. IsDay(P, n, d, d + SlotsPerDay)
    <2>1. \A i \in 1..n : /\ P[i].start \in Int /\ P[i].end \in Int /\ P[i].spot \in Int
                          /\ P[i].start < P[i].end
                          /\ d <= P[i].start /\ P[i].end <= d + SlotsPerDay
        <3> SUFFICES ASSUME NEW i \in 1..n
                     PROVE  /\ P[i].start \in Int /\ P[i].end \in Int /\ P[i].spot \in Int
                            /\ P[i].start < P[i].end
                            /\ d <= P[i].start /\ P[i].end <= d + SlotsPerDay
            OBVIOUS
        <3>1. P[i].spot \in Int
            BY <1>2, <1>5
        <3>2. m[i] <= SlotsPerDay
            BY <1>8, <1>10
        <3>3. m[i - 1] \in Nat /\ m[i] \in Nat /\ m[i] = m[i - 1] + l
            BY <1>13
        <3>4. P[i].start = d + m[i - 1] /\ P[i].end = d + m[i]
            BY <1>12, <1>13
        <3>5. m[i - 1] < m[i]
            BY <1>3, <1>7, <3>3
        <3>6. d \in Int /\ SlotsPerDay \in Int
            BY <1>1, <1>4
        <3> QED BY <3>1, <3>2, <3>3, <3>4, <3>5, <3>6
    <2>2. \A i, j \in 1..n : i < j => P[i].end <= P[j].start
        BY <1>4, <1>10, <1>12, <1>13
    <2>3. \A i \in 1..n - 1 : P[i].end = P[i + 1].start
        <3> SUFFICES ASSUME NEW i \in 1..n - 1 PROVE P[i].end = P[i + 1].start
            OBVIOUS
        <3>1. i \in 1..n /\ i + 1 \in 1..n /\ (i + 1) - 1 = i
            BY <1>2
        <3> QED BY <1>12, <1>13, <3>1
    <2>4. P[1].start = d /\ P[n].end = d + SlotsPerDay
        BY <1>2, <1>4, <1>8, <1>10, <1>12, <1>13
    <2> QED BY <1>2, <1>6, <2>1, <2>2, <2>3, <2>4 DEF IsDay
<1> QED BY <1>1, <1>4, <1>14 DEF n, d, P

\* A chain of points: an instant is in one point only, what follows a point in
\* time follows it in the chain, and a point is there, or a copy of it, before
\* any later one.  Nothing is said of past days.
Covers(p, t) == p.start <= t /\ t < p.end

IsTimeline(c, n) ==
    /\ n \in Nat /\ Len(c) = n /\ DOMAIN c = 1..n
    /\ \A i \in 1..n : /\ c[i].start \in Int /\ c[i].end \in Int /\ c[i].spot \in Int
                       /\ c[i].start < c[i].end
    /\ \A i, j \in 1..n : \A t \in Nat : Covers(c[i], t) /\ Covers(c[j], t) => c[i] = c[j]
    /\ \A i, j \in 1..n : c[i].start >= 0 /\ c[j].start = c[i].end
                            => i < n /\ c[i + 1].start = c[i].end
    /\ \A i \in 1..n : c[i].start > 0
                         => \E k \in 1..i : /\ c[k] = c[i]
                                            /\ \A j \in 1..k : c[j].start <= c[i].start

IsPart(P, n, first) ==
    /\ n \in Nat /\ Len(P) = n
    /\ n # 0 => IsDay(P, n, first, first + SlotsPerDay)

\* Two days joined, the same day twice or a gap between them, make a timeline.
LEMMA JoinedDays ==
    ASSUME NEW T, NEW P \in Seq(T), NEW a, NEW d \in {-SlotsPerDay, 0}, IsPart(P, a, d),
           NEW Q \in Seq(T), NEW b, NEW e \in {-SlotsPerDay, 0, SlotsPerDay}, IsPart(Q, b, e),
           a # 0 /\ b # 0 /\ d = 0 /\ e = 0 => P = Q /\ a = b,
           SlotsPerDay \in Nat \ {0}
    PROVE  IsTimeline(P \o Q, a + b)
<1> DEFINE c == P \o Q
           n == a + b
<1>1. /\ a \in Nat /\ b \in Nat /\ n \in Nat /\ Len(c) = n /\ DOMAIN c = 1..n
      /\ \A i \in 1..a : c[i] = P[i]
      /\ \A i \in a + 1..n : c[i] = Q[i - a]
      /\ \A i \in a + 1..n : i - a \in 1..b
      /\ \A i \in 1..n : i \in 1..a \/ i \in a + 1..n
      /\ \A i \in 1..a : i \in 1..n
    <2>1. a \in Nat /\ b \in Nat /\ Len(P) = a /\ Len(Q) = b
        BY DEF IsPart
    <2> HIDE DEF c
    <2>3. c = P \o Q
        BY DEF c
    <2>4. Len(c) = n /\ DOMAIN c = 1..n
        <3>1. c \in Seq(T) /\ Len(c) = a + b
            BY <2>1, <2>3, ConcatProperties
        <3>2. DOMAIN c = 1..Len(c)
            BY <3>1
        <3> QED BY <3>1, <3>2
    <2>5. \A i \in 1..n : c[i] = IF i <= a THEN P[i] ELSE Q[i - a]
        BY <2>1, <2>3, ConcatProperties
    <2> QED BY <2>1, <2>4, <2>5
<1>t. d \in Int /\ e \in Int /\ SlotsPerDay \in Int /\ (d = -SlotsPerDay \/ d = 0)
      /\ SlotsPerDay > 0
    OBVIOUS
<1>2. \A i \in 1..a : a # 0 /\ IsDay(P, a, d, d + SlotsPerDay)
    BY <1>1 DEF IsPart
<1>3. \A i \in 1..b : b # 0 /\ IsDay(Q, b, e, e + SlotsPerDay)
    BY <1>1 DEF IsPart
<1>4. \A i \in 1..a : /\ P[i].start \in Int /\ P[i].end \in Int /\ P[i].spot \in Int
                      /\ P[i].start < P[i].end
                      /\ d <= P[i].start /\ P[i].end <= d + SlotsPerDay
    BY <1>2 DEF IsDay
<1>5. \A i \in 1..b : /\ Q[i].start \in Int /\ Q[i].end \in Int /\ Q[i].spot \in Int
                      /\ Q[i].start < Q[i].end
                      /\ e <= Q[i].start /\ Q[i].end <= e + SlotsPerDay
    BY <1>3 DEF IsDay
<1>6. \A i, j \in 1..a : i < j => P[i].end <= P[j].start
    BY <1>2 DEF IsDay
<1>7. \A i, j \in 1..b : i < j => Q[i].end <= Q[j].start
    BY <1>3 DEF IsDay
<1>8. /\ \A i \in 1..a - 1 : P[i].end = P[i + 1].start
      /\ a # 0 => P[1].start = d /\ P[a].end = d + SlotsPerDay
    <2>1. a # 0 => 1 \in 1..a
        BY <1>1
    <2>2. \A i \in 1..a - 1 : 1 \in 1..a
        BY <1>1
    <2> QED BY <1>2, <2>1, <2>2 DEF IsDay
<1>9. /\ \A i \in 1..b - 1 : Q[i].end = Q[i + 1].start
      /\ b # 0 => Q[1].start = e /\ Q[b].end = e + SlotsPerDay
    <2>1. b # 0 => 1 \in 1..b
        BY <1>1
    <2>2. \A i \in 1..b - 1 : 1 \in 1..b
        BY <1>1
    <2> QED BY <1>3, <2>1, <2>2 DEF IsDay
<1>10. a # 0 /\ b # 0 /\ d = 0 /\ e = 0 => P = Q /\ a = b
    OBVIOUS
<1> HIDE DEF c, n
<1>0. \A k \in 1..a : P[k].start < SlotsPerDay
    <2> SUFFICES ASSUME NEW k \in 1..a PROVE P[k].start < SlotsPerDay
        OBVIOUS
    <2>1. /\ P[k].start \in Int /\ P[k].end \in Int /\ P[k].start < P[k].end
          /\ P[k].end <= d + SlotsPerDay
        BY <1>4
    <2> QED BY <1>t, <2>1
<1>11. \A i \in 1..n : /\ c[i].start \in Int /\ c[i].end \in Int /\ c[i].spot \in Int
                       /\ c[i].start < c[i].end
    BY <1>1, <1>4, <1>5
<1>12. ASSUME NEW i \in 1..a, NEW j \in 1..a, NEW t \in Nat, Covers(P[i], t), Covers(P[j], t)
       PROVE  i = j
    <2>1. i \in Int /\ j \in Int
        OBVIOUS
    <2>2. ~(i < j) /\ ~(j < i)
        BY <1>4, <1>6, <1>12 DEF Covers
    <2> QED BY <2>1, <2>2
<1>13. ASSUME NEW i \in 1..b, NEW j \in 1..b, NEW t \in Nat, Covers(Q[i], t), Covers(Q[j], t)
       PROVE  i = j
    <2>1. i \in Int /\ j \in Int
        OBVIOUS
    <2>2. ~(i < j) /\ ~(j < i)
        BY <1>5, <1>7, <1>13 DEF Covers
    <2> QED BY <2>1, <2>2
<1>14. ASSUME NEW i \in 1..a, NEW j \in 1..b, NEW t \in Nat, Covers(P[i], t), Covers(Q[j], t)
       PROVE  P[i] = Q[j]
    <2>1. d <= t /\ t < d + SlotsPerDay /\ e <= t /\ t < e + SlotsPerDay
        <3>1. /\ P[i].start \in Int /\ P[i].end \in Int
              /\ d <= P[i].start /\ P[i].end <= d + SlotsPerDay
            BY <1>4
        <3>2. /\ Q[j].start \in Int /\ Q[j].end \in Int
              /\ e <= Q[j].start /\ Q[j].end <= e + SlotsPerDay
            BY <1>5
        <3>3. P[i].start <= t /\ t < P[i].end /\ Q[j].start <= t /\ t < Q[j].end
            BY <1>14 DEF Covers
        <3> QED BY <1>t, <3>1, <3>2, <3>3
    <2>2. d = 0 /\ e = 0
        BY <2>1
    <2>3. P = Q /\ a = b
        BY <1>1, <1>10, <2>2
    <2> QED BY <1>12, <1>14, <2>3
<1>15. ASSUME NEW i \in 1..n, NEW j \in 1..n, NEW t \in Nat, Covers(c[i], t), Covers(c[j], t)
       PROVE  c[i] = c[j]
    <2>1. CASE i \in 1..a /\ j \in 1..a
        BY <1>1, <1>12, <1>15, <2>1
    <2>2. CASE i \in 1..a /\ j \in a + 1..n
        BY <1>1, <1>14, <1>15, <2>2
    <2>3. CASE i \in a + 1..n /\ j \in 1..a
        BY <1>1, <1>14, <1>15, <2>3
    <2>4. CASE i \in a + 1..n /\ j \in a + 1..n
        BY <1>1, <1>13, <1>15, <2>4
    <2> QED BY <1>1, <2>1, <2>2, <2>3, <2>4
<1>16. ASSUME NEW i \in 1..n, NEW j \in 1..n, c[i].start >= 0, c[j].start = c[i].end
       PROVE  i < n /\ c[i + 1].start = c[i].end
    <2>1. CASE i \in 1..a
        <3>1. d = 0 /\ c[i] = P[i]
            BY <1>1, <1>4, <1>16, <2>1
        <3>2. CASE i # a
            <4>1. i \in 1..a - 1 /\ i + 1 \in 1..a
                BY <1>1, <2>1, <3>2
            <4>2. c[i + 1] = P[i + 1] /\ P[i].end = P[i + 1].start /\ i < n
                BY <1>1, <1>8, <4>1 DEF n
            <4> QED BY <3>1, <4>2
        <3>3. CASE i = a
            <4>1. c[i].end = SlotsPerDay
                BY <1>8, <2>1, <3>1, <3>3
            <4>2. j \notin 1..a
                <5> SUFFICES ASSUME j \in 1..a PROVE FALSE
                    OBVIOUS
                <5>1. P[j].start < SlotsPerDay /\ c[j] = P[j]
                    BY <1>0, <1>1
                <5> QED BY <1>4, <1>16, <1>t, <4>1, <5>1
            <4>3. j - a \in 1..b /\ c[j] = Q[j - a]
                BY <1>1, <4>2
            <4>4. e <= SlotsPerDay /\ SlotsPerDay < e + SlotsPerDay
                BY <1>5, <1>16, <4>1, <4>3
            <4>5. e = SlotsPerDay /\ b # 0
                BY <4>3, <4>4
            <4>6. a + 1 \in a + 1..n /\ (a + 1) - a = 1 /\ a < n
                BY <1>1, <4>5 DEF n
            <4>7. c[a + 1] = Q[1]
                BY <1>1, <4>6
            <4> QED BY <1>9, <3>3, <4>1, <4>5, <4>6, <4>7
        <3> QED BY <3>2, <3>3
    <2>2. CASE i \in a + 1..n
        <3>0. i - a \in 1..b /\ c[i] = Q[i - a]
            BY <1>1, <2>2
        <3>1. i - a \in 1..b /\ c[i] = Q[i - a] /\ (e = 0 \/ e = SlotsPerDay)
            BY <1>5, <1>16, <3>0
        <3>2. CASE i # n
            <4>1. i - a \in 1..b - 1 /\ i + 1 \in a + 1..n /\ (i + 1) - a = (i - a) + 1 /\ i < n
                BY <1>1, <2>2, <3>2 DEF n
            <4>2. c[i + 1] = Q[(i - a) + 1]
                <5>1. c[i + 1] = Q[(i + 1) - a]
                    BY <1>1, <4>1
                <5> QED BY <4>1, <5>1
            <4>3. Q[i - a].end = Q[(i - a) + 1].start
                BY <1>9, <4>1
            <4> QED BY <3>1, <4>1, <4>2, <4>3
        <3>3. CASE i = n
            <4>1. c[i].end = e + SlotsPerDay
                BY <1>1, <1>9, <3>1, <3>3 DEF n
            <4>2. \A k \in 1..b : Q[k].start < e + SlotsPerDay
                BY <1>5
            <4>3. \A k \in 1..a : P[k].start < SlotsPerDay
                BY <1>0
            <4>4. c[j].start < e + SlotsPerDay
                <5>1. CASE j \in 1..a
                    <6>1. c[j].start \in Int /\ c[j].start < SlotsPerDay
                        BY <1>1, <1>4, <4>3, <5>1
                    <6> QED BY <3>1, <6>1
                <5>2. CASE j \in a + 1..n
                    <6>1. j - a \in 1..b /\ c[j] = Q[j - a]
                        BY <1>1, <5>2
                    <6> QED BY <4>2, <6>1
                <5> QED BY <1>1, <5>1, <5>2
            <4>5. c[i].end \in Int /\ c[j].start \in Int
                BY <1>11
            <4> QED BY <1>16, <4>1, <4>4, <4>5
        <3> QED BY <3>2, <3>3
    <2> QED BY <1>1, <2>1, <2>2
<1>17. ASSUME NEW i \in 1..n, c[i].start > 0
       PROVE  \E k \in 1..i : c[k] = c[i] /\ \A j \in 1..k : c[j].start <= c[i].start
    <2>1. \A k \in 1..a : \A j \in 1..k : c[j].start <= c[k].start
        <3> SUFFICES ASSUME NEW k \in 1..a, NEW j \in 1..k PROVE P[j].start <= P[k].start
            BY <1>1
        <3>1. j \in 1..a /\ (j = k \/ j < k)
            BY <1>1
        <3>2. /\ P[j].start \in Int /\ P[j].end \in Int /\ P[j].start < P[j].end
              /\ P[k].start \in Int
            BY <1>4, <3>1
        <3>3. j < k => P[j].end <= P[k].start
            BY <1>6, <3>1
        <3> QED BY <3>1, <3>2, <3>3
    <2>2. CASE i \in 1..a
        BY <1>1, <2>1, <2>2
    <2>3. CASE i \in a + 1..n
        <3>0. i - a \in 1..b /\ c[i] = Q[i - a]
            BY <1>1, <2>3
        <3>1. i - a \in 1..b /\ c[i] = Q[i - a] /\ (e = 0 \/ e = SlotsPerDay)
            BY <1>5, <1>17, <3>0
        <3>2. CASE a # 0 /\ d = 0 /\ e = 0
            <4>1. P = Q /\ a = b
                BY <1>10, <3>1, <3>2
            <4>2. i - a \in 1..a /\ c[i - a] = c[i] /\ i - a \in 1..i
                BY <1>1, <3>1, <4>1
            <4> QED BY <2>1, <4>2
        <3>3. CASE ~(a # 0 /\ d = 0 /\ e = 0)
            <4>1. ASSUME NEW j \in 1..i PROVE c[j].start <= c[i].start
                <5>1. CASE j \in 1..a
                    <6>1. a # 0 /\ P[j].start < d + SlotsPerDay /\ P[j].start \in Int
                        <7>1. /\ P[j].start \in Int /\ P[j].end \in Int /\ P[j].start < P[j].end
                              /\ P[j].end <= d + SlotsPerDay
                            BY <1>4, <5>1
                        <7>2. a # 0
                            BY <1>1, <5>1
                        <7> QED BY <1>t, <7>1, <7>2
                    <6>2. d + SlotsPerDay <= Q[i - a].start
                        BY <1>5, <1>17, <3>1, <3>3, <6>1
                    <6>3. Q[i - a].start \in Int /\ c[i] = Q[i - a] /\ c[j] = P[j]
                        BY <1>1, <1>5, <3>1, <5>1
                    <6> QED BY <1>t, <6>1, <6>2, <6>3
                <5>2. CASE j \in a + 1..n
                    <6>1. j - a \in 1..b /\ c[j] = Q[j - a] /\ (j - a = i - a \/ j - a < i - a)
                        BY <1>1, <5>2
                    <6>2. CASE j - a = i - a
                        BY <1>5, <3>1, <6>1, <6>2
                    <6>3. CASE j - a < i - a
                        <7>1. Q[j - a].end <= Q[i - a].start
                            BY <1>7, <3>1, <6>1, <6>3
                        <7> QED BY <1>5, <3>1, <6>1, <7>1
                    <6> QED BY <6>1, <6>2, <6>3
                <5> QED BY <1>1, <5>1, <5>2
            <4> QED BY <1>1, <4>1
        <3> QED BY <3>2, <3>3
    <2> QED BY <1>1, <2>2, <2>3
<1>18. IsTimeline(c, n)
    BY <1>1, <1>11, <1>15, <1>16, <1>17 DEF IsTimeline
<1> QED BY <1>18 DEF c, n

-----------------------------------------------------------------------------
(* Runs of slots without a gap. *)

\* Induction from one place to another.
LEMMA Upwards ==
    ASSUME NEW i \in Nat, NEW j \in Nat, NEW G, i \in G,
           \A k \in i..j - 1 : k \in G => k + 1 \in G
    PROVE  \A k \in i..j : k \in G
<1> DEFINE bad == {k \in i..j : k \notin G}
<1>1. SUFFICES ASSUME bad # {} PROVE FALSE
    OBVIOUS
<1>2. PICK x \in bad : \A y \in bad : x <= y
    <2>1. bad \in SUBSET Nat
        OBVIOUS
    <2> HIDE DEF bad
    <2> QED BY <1>1, <2>1, LeastNumber
<1>3. x - 1 \in i..j - 1 /\ x - 1 \in i..j /\ (x - 1) + 1 = x
    BY <1>2
<1>4. x - 1 \notin bad
    BY <1>2, <1>3
<1> QED BY <1>2, <1>3, <1>4

\* Lowest is the least element, when there is one.
LEMMA LowestIs ==
    ASSUME NEW S \in SUBSET Int, NEW x \in S, \A y \in S : x <= y
    PROVE  Lowest(S) = x
<1>1. \A z \in S : (\A y \in S : z <= y) => z = x
    OBVIOUS
<1> QED BY <1>1 DEF Lowest

\* A slot more in a sum over slots.
LEMMA SumSteps ==
    ASSUME NEW i \in Nat, NEW k \in Nat, i <= k, NEW w, NEW v,
           w \in [i..k -> Int], v \in [i..k + 1 -> Int], \A x \in i..k : v[x] = w[x]
    PROVE  Total(v) = Total(w) + v[k + 1] /\ Total(w) \in Int
<1> DEFINE S == i..k + 1
<1>1. k + 1 \in S /\ S \ {k + 1} = i..k
    OBVIOUS
<1>2. IsFiniteSet(S)
    BY FS_Interval
<1>5. v \in [S -> Int] /\ w \in [S \ {k + 1} -> Int] /\ \A x \in S \ {k + 1} : w[x] = v[x]
    BY <1>1
<1> HIDE DEF S
<1>3. v[k + 1] \in Int
    BY <1>1, <1>5
<1>4. Total(v) = v[k + 1] + Total(w) /\ Total(w) \in Int
    <2>1. IsWithout(w, v, S, k + 1)
        BY <1>1, <1>2, <1>5 DEF IsWithout
    <2> QED BY <2>1, TotalWithout
<1> QED BY <1>3, <1>4

\* A run of one slot costs what the slot costs.
LEMMA SumOfOne ==
    ASSUME NEW i \in Nat, NEW w \in [i..i -> Int]
    PROVE  Total(w) = w[i]
<1> DEFINE S == i..i
           none == [y \in S \ {i} |-> w[y]]
<1>1. i \in S /\ S \ {i} = {} /\ w \in [S -> Int]
    OBVIOUS
<1>6. IsFiniteSet(S)
    <2>1. S = {i}
        OBVIOUS
    <2> QED BY <2>1, FS_Singleton
<1> HIDE DEF S
<1>2. none \in [{} -> Int] /\ none \in [S \ {i} -> Int] /\ \A y \in S \ {i} : none[y] = w[y]
    BY <1>1
<1>3. Total(w) = w[i] + Total(none)
    <2> HIDE DEF none
    <2>1. IsWithout(none, w, S, i)
        BY <1>1, <1>2, <1>6 DEF IsWithout
    <2> QED BY <2>1, TotalWithout
<1>4. Total(none) = 0
    BY <1>2, TotalOfNone
<1>5. w[i] \in Int
    BY <1>1
<1> HIDE DEF none
<1> QED BY <1>3, <1>4, <1>5

\* One slot more makes a run longer by that slot.
LEMMA LengthSteps ==
    ASSUME NEW c, NEW n, IsTimeline(c, n), NEW i \in 1..n, NEW k \in i..n
    PROVE  /\ LengthOf(c, i, i) = Lasts(c[i])
           /\ k < n => LengthOf(c, i, k + 1) = LengthOf(c, i, k) + Lasts(c[k + 1])
<1>1. n \in Nat /\ i \in Nat /\ k \in Nat /\ i <= k /\ \A x \in i..n : x \in 1..n
    BY DEF IsTimeline
<1>2. \A x \in 1..n : Lasts(c[x]) \in Int
    BY DEF IsTimeline, Lasts
<1>3. LengthOf(c, i, i) = Lasts(c[i])
    <2> DEFINE w == [x \in i..i |-> Lasts(c[x])]
    <2>1. w \in [i..i -> Int] /\ w[i] = Lasts(c[i])
        BY <1>1, <1>2
    <2>2. LengthOf(c, i, i) = Total(w)
        BY DEF LengthOf
    <2> HIDE DEF w
    <2> QED BY <1>1, <2>1, <2>2, SumOfOne
<1>4. ASSUME k < n
      PROVE  LengthOf(c, i, k + 1) = LengthOf(c, i, k) + Lasts(c[k + 1])
    <2> DEFINE w == [x \in i..k |-> Lasts(c[x])]
               v == [x \in i..k + 1 |-> Lasts(c[x])]
    <2>1. \A x \in i..k + 1 : x \in 1..n
        BY <1>1, <1>4
    <2>2. w \in [i..k -> Int] /\ v \in [i..k + 1 -> Int] /\ \A x \in i..k : v[x] = w[x]
        BY <1>1, <1>2, <2>1
    <2>3. k + 1 \in i..k + 1
        BY <1>1
    <2>4. v[k + 1] = Lasts(c[k + 1])
        BY <2>3
    <2>5. LengthOf(c, i, k) = Total(w) /\ LengthOf(c, i, k + 1) = Total(v)
        BY DEF LengthOf
    <2> HIDE DEF w, v
    <2> QED BY <1>1, <2>2, <2>4, <2>5, SumSteps
<1> QED BY <1>3, <1>4

\* Slots one after the other: they go on in time, last as long as from the first
\* start to the last end, and leave no instant out.
IsWalked(c, i, k) ==
    /\ c[i].start <= c[k].start
    /\ LengthOf(c, i, k) = c[k].end - c[i].start
    /\ \A l \in i..k : l # k => c[l].end <= c[k].start
    /\ \A t \in Int : c[i].start <= t /\ t < c[k].end => \E l \in i..k : Covers(c[l], t)

\* The slots of a run fill the time from its start to its end.
LEMMA RunIsWalked ==
    ASSUME NEW c, NEW n, IsTimeline(c, n), NEW i \in 1..n, NEW j \in i..n, Adjacent(c, i, j)
    PROVE  \A k \in i..j : IsWalked(c, i, k)
<1>1. n \in Nat /\ i \in Nat /\ j \in Nat /\ \A x \in i..j : x \in 1..n /\ x \in i..n
    BY DEF IsTimeline
<1>2. \A x \in 1..n : c[x].start \in Int /\ c[x].end \in Int /\ c[x].start < c[x].end
    BY DEF IsTimeline
<1> DEFINE G == {k \in i..j : IsWalked(c, i, k)}
<1>3. i \in G
    <2>1. i \in i..j /\ \A l \in i..i : l = i
        BY <1>1
    <2>2. LengthOf(c, i, i) = c[i].end - c[i].start
        BY <1>1, LengthSteps DEF Lasts
    <2>3. \A t \in Int : c[i].start <= t /\ t < c[i].end => \E l \in i..i : Covers(c[l], t)
        BY <1>1 DEF Covers
    <2>4. IsWalked(c, i, i)
        BY <1>2, <2>1, <2>2, <2>3 DEF IsWalked
    <2> QED BY <2>1, <2>4
<1>4. ASSUME NEW k \in i..j - 1, k \in G
      PROVE  k + 1 \in G
    <2>1. /\ k \in i..j /\ k + 1 \in i..j /\ k \in 1..n /\ k + 1 \in 1..n /\ k < n /\ k \in i..n
          /\ k \in i..j - 1
        BY <1>1
    <2>2. IsWalked(c, i, k)
        BY <1>4
    <2>3. c[k].end = c[k + 1].start
        BY <2>1 DEF Adjacent
    <2> HIDE DEF G
    <2>4. /\ c[i].start \in Int /\ c[k].start \in Int /\ c[k].end \in Int /\ c[k].start < c[k].end
          /\ c[k + 1].start \in Int /\ c[k + 1].end \in Int /\ c[k + 1].start < c[k + 1].end
        BY <1>2, <2>1
    <2>5. c[i].start <= c[k + 1].start
        BY <2>2, <2>3, <2>4 DEF IsWalked
    <2>6. LengthOf(c, i, k + 1) = c[k + 1].end - c[i].start
        <3>1. LengthOf(c, i, k + 1) = LengthOf(c, i, k) + (c[k + 1].end - c[k + 1].start)
            BY <2>1, LengthSteps DEF Lasts
        <3>2. LengthOf(c, i, k) = c[k].end - c[i].start
            BY <2>2 DEF IsWalked
        <3> QED BY <2>3, <2>4, <3>1, <3>2
    <2>7. ASSUME NEW l \in i..k + 1, l # k + 1 PROVE c[l].end <= c[k + 1].start
        <3>1. l \in i..k /\ l \in 1..n
            BY <1>1, <2>1, <2>7
        <3>2. c[l].end \in Int
            BY <1>2, <3>1
        <3>3. l # k => c[l].end <= c[k].start
            BY <2>2, <3>1 DEF IsWalked
        <3> QED BY <2>3, <2>4, <3>2, <3>3
    <2>8. ASSUME NEW t \in Int, c[i].start <= t, t < c[k + 1].end
          PROVE  \E l \in i..k + 1 : Covers(c[l], t)
        <3>1. CASE t < c[k].end
            <4>1. PICK l \in i..k : Covers(c[l], t)
                BY <2>2, <2>8, <3>1 DEF IsWalked
            <4>2. l \in i..k + 1
                BY <1>1, <2>1
            <4> QED BY <4>1, <4>2
        <3>2. CASE ~(t < c[k].end)
            <4>1. Covers(c[k + 1], t)
                BY <2>3, <2>4, <2>8, <3>2 DEF Covers
            <4>2. k + 1 \in i..k + 1
                BY <1>1, <2>1
            <4> QED BY <4>1, <4>2
        <3> QED BY <3>1, <3>2
    <2>9. IsWalked(c, i, k + 1)
        BY <2>5, <2>6, <2>7, <2>8 DEF IsWalked
    <2> QED BY <2>1, <2>9 DEF G
<1> HIDE DEF G
<1>5. \A k \in i..j : k \in G
    BY <1>1, <1>3, <1>4, Upwards
<1> QED BY <1>5 DEF G

\* The run of the chain is the one read off the prices known.
Knows(c, n) == \A p : p \in Known <=> \E i \in 1..n : p = c[i]

Reached(e, s) ==
    /\ \E q \in Known : q.end = e
    /\ e >= s + RunSlots
    /\ \A t \in s..e - 1 : \E r \in Known : Covers(r, t)

\* CoverFrom is the least end that the known prices reach without a gap.
LEMMA CoverIs ==
    ASSUME NEW s
    PROVE  \E ends : /\ \A e : e \in ends <=> Reached(e, s)
                     /\ CoverFrom(s) = IF ends = {} THEN Nothing ELSE Lowest(ends)
<1> DEFINE ends == {p.end : p \in {q \in Known : /\ q.end >= s + RunSlots
                                                /\ \A t \in s..q.end - 1 :
                                                     \E r \in Known : r.start <= t /\ t < r.end}}
<1>1. \A e : e \in ends <=> Reached(e, s)
    BY DEF Reached, Covers
<1>2. CoverFrom(s) = IF ends = {} THEN Nothing ELSE Lowest(ends)
    BY DEF CoverFrom
<1> QED BY <1>1, <1>2

\* Where a run can end, the prices known go on without a gap.
LEMMA RunsReach ==
    ASSUME NEW c, NEW n, IsTimeline(c, n), Knows(c, n), NEW i \in 1..n, NEW j \in RunEnds(c, i)
    PROVE  Reached(c[j].end, c[i].start)
<1>1. /\ j \in i..n /\ Adjacent(c, i, j) /\ LengthOf(c, i, j) >= RunSlots
      /\ n \in Nat /\ RunSlots \in Nat
    BY PriceStateAssumption DEF RunEnds, IsTimeline
<1>2. \A k \in i..j : k \in 1..n
    BY <1>1
<1>3. \A k \in 1..n : c[k] \in Known /\ c[k].start \in Int /\ c[k].end \in Int
    BY DEF Knows, IsTimeline
<1>4. j \in i..j /\ IsWalked(c, i, j)
    <2>1. j \in i..j
        BY <1>1
    <2> QED BY <1>1, <2>1, RunIsWalked
<1>5. c[j].end >= c[i].start + RunSlots
    BY <1>1, <1>2, <1>3, <1>4 DEF IsWalked
<1>6. ASSUME NEW t \in c[i].start..c[j].end - 1
      PROVE  \E r \in Known : Covers(r, t)
    <2>1. t \in Int /\ c[i].start <= t /\ t < c[j].end
        BY <1>2, <1>3, <1>4
    <2>2. PICK l \in i..j : Covers(c[l], t)
        BY <1>4, <2>1 DEF IsWalked
    <2> QED BY <1>2, <1>3, <2>2
<1>7. c[j] \in Known
    BY <1>2, <1>3, <1>4
<1> QED BY <1>5, <1>6, <1>7 DEF Reached

\* And where they do, a run ends: the chain leads there.
LEMMA ReachedByRun ==
    ASSUME NEW c, NEW n, IsTimeline(c, n), Knows(c, n), NEW i \in 1..n, c[i].start >= 0,
           NEW e, Reached(e, c[i].start)
    PROVE  \E j \in RunEnds(c, i) : c[j].end = e
<1> DEFINE s == c[i].start
<1>1. n \in Nat /\ RunSlots \in Nat \ {0} /\ i \in Nat /\ \A k \in i..n : k \in 1..n /\ k \in Nat
    BY PriceStateAssumption DEF IsTimeline
<1>2. \A k \in 1..n : c[k].start \in Int /\ c[k].end \in Int /\ c[k].start < c[k].end
    BY DEF IsTimeline
<1>3. \A x, y \in 1..n : \A t \in Nat : Covers(c[x], t) /\ Covers(c[y], t) => c[x] = c[y]
    BY DEF IsTimeline
<1>4. \A x, y \in 1..n : c[x].start >= 0 /\ c[y].start = c[x].end
                           => x < n /\ c[x + 1].start = c[x].end
    BY DEF IsTimeline
<1>5. PICK m \in 1..n : c[m].end = e
    BY DEF Reached, Knows
<1>6. e \in Int /\ e >= s + RunSlots /\ s \in Nat
    BY <1>2, <1>5 DEF Reached
<1>7. \A t \in s..e - 1 : \E r \in 1..n : Covers(c[r], t)
    BY DEF Reached, Knows
<1>8. \A x \in 1..n : \A t \in Nat : Covers(c[x], t) /\ c[m].start <= t /\ t < e => c[x].end = e
    BY <1>3, <1>5 DEF Covers
<1> HIDE DEF s
<1>9. ASSUME NEW x \in 1..n, s <= c[x].start, c[x].start < e
      PROVE  c[x].end <= e
    <2> SUFFICES ASSUME e < c[x].end PROVE FALSE
        BY <1>2, <1>6
    <2>1. e - 1 \in Nat /\ c[m].start <= e - 1 /\ e - 1 < e
        BY <1>2, <1>5, <1>6, <1>9
    <2>2. Covers(c[x], e - 1)
        BY <1>2, <1>6, <1>9 DEF Covers
    <2>3. c[x].end = e
        BY <1>8, <2>1, <2>2
    <2> QED BY <1>6, <2>3
<1> DEFINE G == {k \in i..n : Adjacent(c, i, k) /\ s <= c[k].start /\ c[k].end <= e}
<1>10. SUFFICES ASSUME \A k \in RunEnds(c, i) : c[k].end # e
                PROVE  FALSE
    OBVIOUS
<1>11. ASSUME NEW k \in i..n, k \in G
       PROVE  k < n /\ k + 1 \in G
    <2>1. /\ k \in 1..n /\ k \in i..k /\ Adjacent(c, i, k) /\ s <= c[k].start /\ c[k].end <= e
          /\ c[k].start \in Int /\ c[k].end \in Int /\ c[k].start < c[k].end
        BY <1>1, <1>2, <1>11
    <2>2. c[k].end # e
        <3> SUFFICES ASSUME c[k].end = e PROVE FALSE
            OBVIOUS
        <3>1. LengthOf(c, i, k) = c[k].end - c[i].start
            BY <2>1, RunIsWalked DEF IsWalked
        <3>2. LengthOf(c, i, k) >= RunSlots
            BY <1>1, <1>6, <3>1 DEF s
        <3>3. k \in RunEnds(c, i)
            BY <2>1, <3>2 DEF RunEnds, IsTimeline
        <3> QED BY <1>10, <3>3
    <2>3. c[k].end \in s..e - 1 /\ c[k].end < e
        BY <1>6, <2>1, <2>2
    <2>4. PICK r \in 1..n : Covers(c[r], c[k].end)
        BY <1>7, <2>3
    <2>5. c[r].start \in Int /\ c[r].end \in Int /\ c[r].start <= c[k].end /\ c[k].end < c[r].end
        BY <1>2, <2>4 DEF Covers
    <2>6. c[r].start = c[k].end
        <3> SUFFICES ASSUME c[r].start < c[k].end PROVE FALSE
            BY <2>1, <2>5
        <3>1. c[k].end - 1 \in Nat
            BY <1>6, <2>1
        <3>2. Covers(c[r], c[k].end - 1) /\ Covers(c[k], c[k].end - 1)
            BY <2>1, <2>5 DEF Covers
        <3>3. c[r] = c[k]
            BY <1>3, <2>1, <3>1, <3>2
        <3> QED BY <2>5, <3>3
    <2>7. k < n /\ c[k + 1].start = c[k].end
        BY <1>4, <1>6, <2>1, <2>6
    <2>8. k + 1 \in i..n /\ k + 1 \in 1..n
        BY <1>1, <2>1, <2>7
    <2>9. Adjacent(c, i, k + 1)
        <3> SUFFICES ASSUME NEW x \in i..(k + 1) - 1 PROVE c[x].end = c[x + 1].start
            BY DEF Adjacent
        <3>1. x = k \/ x \in i..k - 1
            BY <1>1, <2>1
        <3>2. x \in i..k - 1 => c[x].end = c[x + 1].start
            BY <2>1 DEF Adjacent
        <3> QED BY <2>7, <3>1, <3>2
    <2>10. s <= c[k + 1].start /\ c[k + 1].start < e
        BY <1>6, <2>1, <2>3, <2>7
    <2>11. c[k + 1].end <= e
        BY <1>9, <2>8, <2>10
    <2> QED BY <2>7, <2>8, <2>9, <2>10, <2>11
<1>12. i \in G
    <2>1. i \in i..n /\ Adjacent(c, i, i)
        BY <1>1 DEF Adjacent
    <2>2. s <= c[i].start /\ c[i].start < e
        BY <1>1, <1>6 DEF s
    <2>3. c[i].end <= e
        BY <1>9, <2>2
    <2> QED BY <2>1, <2>2, <2>3
<1> HIDE DEF G
<1>13. \A k \in i..n - 1 : k \in G => k + 1 \in G
    <2>1. \A k \in i..n - 1 : k \in i..n
        BY <1>1
    <2> QED BY <1>11, <2>1
<1>14. \A k \in i..n : k \in G
    BY <1>1, <1>12, <1>13, Upwards
<1>15. n \in i..n
    BY <1>1
<1> QED BY <1>11, <1>14, <1>15

\* A run of the chain ends where CoverFrom says, and there is one when it does.
LEMMA RunIsCover ==
    ASSUME NEW c, NEW n, IsTimeline(c, n), Knows(c, n), NEW i \in 1..n, c[i].start >= 0
    PROVE  /\ RunEnds(c, i) = {} <=> CoverFrom(c[i].start) = Nothing
           /\ RunEnds(c, i) # {} => /\ Lowest(RunEnds(c, i)) \in RunEnds(c, i)
                                    /\ CoverFrom(c[i].start) = c[Lowest(RunEnds(c, i))].end
<1> DEFINE s == c[i].start
           R == RunEnds(c, i)
<1>1. PICK ends : /\ \A e : e \in ends <=> Reached(e, s)
                  /\ CoverFrom(s) = IF ends = {} THEN Nothing ELSE Lowest(ends)
    BY CoverIs
<1>2. \A j \in R : c[j].end \in ends
    BY <1>1, RunsReach
<1>3. \A e \in ends : \E j \in R : c[j].end = e
    BY <1>1, ReachedByRun
<1>4. R \in SUBSET Nat /\ \A j \in R : c[j].end \in Int /\ j \in i..n /\ Adjacent(c, i, j)
    <2>1. \A k \in 1..n : c[k].end \in Int
        BY DEF IsTimeline
    <2>2. n \in Nat /\ Len(c) = n /\ \A j \in i..n : j \in 1..n /\ j \in Nat
        BY DEF IsTimeline
    <2> QED BY <2>1, <2>2 DEF RunEnds
<1>5. ends \in SUBSET Int
    BY <1>3, <1>4
<1>6. CASE R = {}
    <2>1. ends = {}
        BY <1>3, <1>6
    <2> QED BY <1>1, <1>6, <2>1
<1>7. CASE R # {}
    <2> HIDE DEF R, s
    <2>1. PICK till \in R : \A j \in R : till <= j
        BY <1>4, <1>7, LeastNumber
    <2>2. Lowest(R) = till
        <3>1. R \in SUBSET Int
            BY <1>4
        <3> QED BY <2>1, <3>1, LowestIs
    <2>3. \A j \in R : c[till].end <= c[j].end
        <3> SUFFICES ASSUME NEW j \in R, till # j PROVE c[till].end <= c[j].end
            BY <1>4, <2>1
        <3>1. /\ j \in i..n /\ Adjacent(c, i, j) /\ till \in i..j /\ j \in i..j /\ j \in 1..n
              /\ till \in 1..n
            BY <1>4, <2>1
        <3>2. c[till].end <= c[j].start
            BY <3>1, RunIsWalked DEF IsWalked
        <3>3. c[j].start \in Int /\ c[j].end \in Int /\ c[till].end \in Int /\ c[j].start < c[j].end
            BY <3>1 DEF IsTimeline
        <3> QED BY <3>2, <3>3
    <2>4. c[till].end \in ends /\ \A e \in ends : c[till].end <= e
        BY <1>2, <1>3, <2>1, <2>3
    <2>5. CoverFrom(s) = c[till].end
        BY <1>1, <1>5, <2>4, LowestIs
    <2>6. CoverFrom(s) # Nothing
        BY <1>4, <2>1, <2>5, PriceStateAssumption
    <2> QED BY <1>7, <2>1, <2>2, <2>5, <2>6 DEF R, s
<1> QED BY <1>6, <1>7

\* A run costs what the prices known in its time cost.
LEMMA RunCostIs ==
    ASSUME NEW c, NEW n, IsTimeline(c, n), Knows(c, n), NEW i \in 1..n, c[i].start >= 0,
           NEW till \in i..n, Adjacent(c, i, till), CoverFrom(c[i].start) = c[till].end
    PROVE  CostFrom(c[i].start) = CostOf(c, i, till) /\ CostOf(c, i, till) \in Int
<1> DEFINE s == c[i].start
           A == i..till
           V == [k \in A |-> Costs(c[k])]
           B == {q \in Known : s <= q.start /\ q.start < CoverFrom(s)}
           W == [p \in B |-> Costs(p)]
           to == [k \in A |-> c[k]]
<1>1. n \in Nat /\ i \in Nat /\ till \in Nat /\ i <= till /\ \A k \in A : k \in 1..n /\ k \in Int
    BY DEF IsTimeline
<1>2. \A k \in 1..n : /\ c[k].start \in Int /\ c[k].end \in Int /\ c[k].start < c[k].end
                      /\ c[k].spot \in Int
    BY DEF IsTimeline
<1>3. \A k \in A : IsWalked(c, i, k)
    BY RunIsWalked
<1>4. \A k \in 1..n : Costs(c[k]) \in Int
    <2>1. \A x, y, z \in Int : z * (y - x) \in Int
        OBVIOUS
    <2> QED BY <1>2, <2>1 DEF Costs, Lasts
<1>5. \A k \in 1..n : c[k] \in Known
    BY DEF Knows
<1>6. \A p \in Known : \E k \in 1..n : p = c[k]
    BY DEF Knows
<1>7. \A k, l \in A : k < l => c[k].end <= c[l].start
    <2> SUFFICES ASSUME NEW k \in A, NEW l \in A, k < l PROVE c[k].end <= c[l].start
        OBVIOUS
    <2>1. k \in i..l /\ k # l
        BY <1>1
    <2> QED BY <1>3, <2>1 DEF IsWalked
<1>8. till \in A
    BY <1>1
<1>9. \A k \in A : c[k] \in B
    <2> SUFFICES ASSUME NEW k \in A PROVE s <= c[k].start /\ c[k].start < c[till].end
        BY <1>1, <1>5
    <2>1. s <= c[k].start
        BY <1>3 DEF IsWalked
    <2>2. c[k].start < c[k].end /\ c[k].start \in Int /\ c[k].end \in Int
        BY <1>1, <1>2
    <2>3. c[till].start \in Int /\ c[till].end \in Int /\ c[till].start < c[till].end
        BY <1>1, <1>2, <1>8
    <2>4. k = till \/ c[k].end <= c[till].start
        BY <1>1, <1>7, <1>8
    <2> QED BY <2>1, <2>2, <2>3, <2>4
<1>10. ASSUME NEW p \in B PROVE \E k \in A : c[k] = p
    <2>1. PICK k \in 1..n : p = c[k]
        BY <1>6
    <2>2. p.start \in Int /\ s <= p.start /\ p.start < c[till].end
        BY <1>2, <2>1
    <2>3. PICK l \in i..till : Covers(c[l], p.start)
        BY <1>3, <1>8, <2>2 DEF IsWalked
    <2>4. Covers(p, p.start) /\ p.start \in Nat
        BY <1>2, <2>1, <2>2 DEF Covers
    <2>5. l \in 1..n
        BY <1>1, <2>3
    <2>6. c[l] = c[k]
        BY <2>1, <2>3, <2>4, <2>5 DEF IsTimeline
    <2> QED BY <2>1, <2>3, <2>6
<1>11. V \in [A -> Int] /\ to \in [A -> B] /\ \A k \in A : V[k] = Costs(c[k]) /\ to[k] = c[k]
    BY <1>1, <1>4, <1>9
<1>12. W \in [B -> Int] /\ \A p \in B : W[p] = Costs(p)
    BY <1>1, <1>4, <1>10
<1>13. CostOf(c, i, till) = Total(V)
    BY DEF CostOf
<1>14. CostFrom(s) = Total(W)
    BY DEF CostFrom
<1>15. IsFiniteSet(A)
    BY <1>1, FS_Interval
<1>16. \A x, y \in A : to[x] = to[y] => x = y
    <2> SUFFICES ASSUME NEW x \in A, NEW y \in A, c[x] = c[y], x < y PROVE FALSE
        BY <1>1, <1>11
    <2>1. c[x].end <= c[x].start
        BY <1>7
    <2> QED BY <1>1, <1>2, <2>1
<1> HIDE DEF A, B, V, W, to, s
<1>17. \A p \in B : \E k \in A : to[k] = p
    BY <1>10, <1>11
<1>18. IsFiniteSet(B)
    <2>1. to \in Surjection(A, B)
        BY <1>11, <1>17 DEF Surjection
    <2> QED BY <1>15, <2>1, FS_Surjection
<1>19. \A k \in A : W[to[k]] = V[k]
    BY <1>11, <1>12
<1>20. Total(V) = Total(W)
    BY <1>11, <1>12, <1>15, <1>16, <1>17, <1>18, <1>19, TotalMapped
<1>21. Total(V) \in Int
    <2>1. PICK g : Sums(g, A, V)
        BY <1>11, <1>15, SumExists
    <2>2. Total(V) = g[A]
        BY <1>11, <1>15, <2>1, TotalIs
    <2>3. g[A] \in Int
        BY <2>1 DEF Sums
    <2> QED BY <2>2, <2>3
<1> QED BY <1>13, <1>14, <1>20, <1>21 DEF s

-----------------------------------------------------------------------------
(* Runs from the cheapest on. *)

IsPriced(r) ==
    /\ r.at \in Int /\ r.start \in Int /\ r.end \in Int /\ r.cost \in Int
    /\ r.start < r.end

\* Cheaper compares averages; as such it is an order.
LEMMA CheaperIsOrder ==
    ASSUME NEW r, IsPriced(r), NEW s, IsPriced(s), NEW t, IsPriced(t)
    PROVE  /\ ~Cheaper(r, r)
           /\ Cheaper(r, s) => ~Cheaper(s, r)
           /\ Cheaper(r, s) /\ ~Cheaper(t, s) => Cheaper(r, t)
           /\ ~Cheaper(s, r) /\ Cheaper(s, t) => Cheaper(r, t)
           /\ ~Cheaper(s, r) /\ ~Cheaper(t, s) => ~Cheaper(t, r)
<1> DEFINE a == r.cost  la == Lasts(r)
           b == s.cost  lb == Lasts(s)
           d == t.cost  ld == Lasts(t)
<1>1. /\ a \in Int /\ b \in Int /\ d \in Int
      /\ la \in Nat \ {0} /\ lb \in Nat \ {0} /\ ld \in Nat \ {0}
    BY DEF IsPriced, Lasts
<1>2. /\ Cheaper(r, s) <=> a * lb < b * la
      /\ Cheaper(s, r) <=> b * la < a * lb
      /\ Cheaper(t, s) <=> d * lb < b * ld
      /\ Cheaper(s, t) <=> b * ld < d * lb
      /\ Cheaper(r, t) <=> a * ld < d * la
      /\ Cheaper(t, r) <=> d * la < a * ld
      /\ Cheaper(r, r) <=> a * la < a * la
    BY DEF Cheaper
<1> HIDE DEF a, la, b, lb, d, ld
<1>3. \A x, y \in Int : \A k \in Nat \ {0} : /\ x < y <=> x * k < y * k
                                            /\ x <= y <=> x * k <= y * k
    OBVIOUS
<1>4. /\ (a * lb) * ld = (a * ld) * lb /\ (b * la) * ld = (b * ld) * la
      /\ (d * lb) * la = (d * la) * lb
    BY <1>1
<1>5. /\ a * lb \in Int /\ b * la \in Int /\ d * lb \in Int /\ b * ld \in Int /\ a * ld \in Int
      /\ d * la \in Int /\ a * la \in Int
    BY <1>1
<1>6. /\ (a * lb) * ld \in Int /\ (b * la) * ld \in Int /\ (d * lb) * la \in Int
    BY <1>1
<1>7. ASSUME a * lb < b * la, ~(d * lb < b * ld) PROVE a * ld < d * la
    <2>1. (a * lb) * ld < (b * la) * ld
        BY <1>1, <1>3, <1>5, <1>7
    <2>2. (b * ld) * la <= (d * lb) * la
        BY <1>1, <1>3, <1>5, <1>7
    <2>3. (a * ld) * lb < (d * la) * lb
        BY <1>4, <1>6, <2>1, <2>2
    <2> QED BY <1>1, <1>3, <1>5, <2>3
<1>8. ASSUME ~(b * la < a * lb), b * ld < d * lb PROVE a * ld < d * la
    <2>1. (a * lb) * ld <= (b * la) * ld
        BY <1>1, <1>3, <1>5, <1>8
    <2>2. (b * ld) * la < (d * lb) * la
        BY <1>1, <1>3, <1>5, <1>8
    <2>3. (a * ld) * lb < (d * la) * lb
        BY <1>4, <1>6, <2>1, <2>2
    <2> QED BY <1>1, <1>3, <1>5, <2>3
<1>9. ASSUME ~(b * la < a * lb), ~(d * lb < b * ld) PROVE ~(d * la < a * ld)
    <2>1. (a * lb) * ld <= (b * la) * ld
        BY <1>1, <1>3, <1>5, <1>9
    <2>2. (b * ld) * la <= (d * lb) * la
        BY <1>1, <1>3, <1>5, <1>9
    <2>3. (a * ld) * lb <= (d * la) * lb
        BY <1>4, <1>6, <2>1, <2>2
    <2> QED BY <1>1, <1>3, <1>5, <2>3
<1> QED BY <1>2, <1>5, <1>7, <1>8, <1>9

\* Runs that start at different places of the chain, a finite number of them.
AreRuns(R) ==
    /\ IsFiniteSet(R) /\ \A r \in R : IsPriced(r)
    /\ \A r, s \in R : r.at = s.at => r = s

\* Before orders the runs, and never puts a cheaper one later.
LEMMA BeforeIsOrder ==
    ASSUME NEW R, AreRuns(R), NEW r \in R, NEW s \in R, NEW t \in R
    PROVE  /\ ~Before(r, r)
           /\ r # s => Before(r, s) \/ Before(s, r)
           /\ Before(r, s) => ~Before(s, r) /\ ~Cheaper(s, r)
           /\ Before(r, s) /\ Before(s, t) => Before(r, t)
<1>1. IsPriced(r) /\ IsPriced(s) /\ IsPriced(t)
    BY DEF AreRuns
<1>2. r.at \in Int /\ s.at \in Int /\ t.at \in Int
    BY <1>1 DEF IsPriced
<1>3. ~Before(r, r)
    BY <1>1, <1>2, CheaperIsOrder DEF Before
<1>4. r # s => Before(r, s) \/ Before(s, r)
    <2>1. r # s => r.at # s.at
        BY DEF AreRuns
    <2> QED BY <1>2, <2>1 DEF Before
<1>5. Cheaper(r, s) => ~Cheaper(s, r)
    BY <1>1, CheaperIsOrder
<1>6. Before(r, s) => ~Before(s, r) /\ ~Cheaper(s, r)
    BY <1>2, <1>5 DEF Before
<1>7. ASSUME Before(r, s), Before(s, t) PROVE Before(r, t)
    <2>1. ~Cheaper(s, r) /\ ~Cheaper(t, s)
        <3>1. Cheaper(s, t) => ~Cheaper(t, s)
            BY <1>1, CheaperIsOrder
        <3> QED BY <1>5, <1>7, <3>1 DEF Before
    <2>2. CASE Cheaper(r, s) \/ Cheaper(s, t)
        <3>1. Cheaper(r, t)
            BY <1>1, <2>1, <2>2, CheaperIsOrder
        <3> QED BY <3>1 DEF Before
    <2>3. CASE ~Cheaper(r, s) /\ ~Cheaper(s, t)
        <3>1. r.at < s.at /\ s.at < t.at
            BY <1>7, <2>3 DEF Before
        <3>2. ~Cheaper(t, r)
            BY <1>1, <2>1, CheaperIsOrder
        <3> QED BY <1>2, <3>1, <3>2 DEF Before
    <2> QED BY <2>2, <2>3
<1> QED BY <1>3, <1>4, <1>6, <1>7

Rank(R, r) == Cardinality({s \in R : Before(s, r)})

\* An earlier run has a lower rank.
LEMMA RanksGoUp ==
    ASSUME NEW R, AreRuns(R), NEW r \in R
    PROVE  /\ Rank(R, r) \in 0..Cardinality(R) - 1
           /\ \A s \in R : Before(r, s) => Rank(R, r) < Rank(R, s)
<1> DEFINE below(x) == {y \in R : Before(y, x)}
<1>1. IsFiniteSet(R) /\ Cardinality(R) \in Nat
    BY FS_CardinalityType DEF AreRuns
<1>2. \A x \in R : IsFiniteSet(below(x)) /\ Cardinality(below(x)) \in Nat
    <2> SUFFICES ASSUME NEW x \in R
                 PROVE  IsFiniteSet(below(x)) /\ Cardinality(below(x)) \in Nat
        OBVIOUS
    <2>1. below(x) \in SUBSET R
        OBVIOUS
    <2> HIDE DEF below
    <2> QED BY <1>1, <2>1, FS_Subset, FS_CardinalityType
<1>3. Rank(R, r) < Cardinality(R)
    <2>1. below(r) \in SUBSET R /\ r \notin below(r)
        BY BeforeIsOrder
    <2>2. below(r) # R
        BY <2>1
    <2>3. Cardinality(below(r)) < Cardinality(R)
        <3> HIDE DEF below
        <3>1. Cardinality(below(r)) <= Cardinality(R) /\ (Cardinality(below(r)) = Cardinality(R) => below(r) = R)
            BY <1>1, <2>1, FS_Subset
        <3> QED BY <1>1, <1>2, <2>2, <3>1
    <2> QED BY <2>3 DEF Rank
<1>4. ASSUME NEW s \in R, Before(r, s)
      PROVE  Rank(R, r) < Rank(R, s)
    <2>1. below(r) \in SUBSET below(s)
        BY <1>4, BeforeIsOrder
    <2>2. r \in below(s) /\ r \notin below(r)
        BY <1>4, BeforeIsOrder
    <2>3. below(r) # below(s)
        BY <2>2
    <2>4. Cardinality(below(r)) < Cardinality(below(s))
        <3>0. IsFiniteSet(below(s)) /\ Cardinality(below(s)) \in Nat /\ Cardinality(below(r)) \in Nat
            BY <1>2
        <3> HIDE DEF below
        <3>1. /\ Cardinality(below(r)) <= Cardinality(below(s))
              /\ Cardinality(below(r)) = Cardinality(below(s)) => below(r) = below(s)
            BY <2>1, <3>0, FS_Subset
        <3> QED BY <2>3, <3>0, <3>1
    <2> QED BY <2>4 DEF Rank
<1>5. Rank(R, r) \in Nat
    BY <1>2 DEF Rank
<1> QED BY <1>1, <1>3, <1>4, <1>5

\* Sorted lists each run once.
InCostOrder(list, R) ==
    /\ list \in [1..Cardinality(R) -> R]
    /\ \A i, j \in 1..Cardinality(R) : i < j => Before(list[i], list[j])
    /\ \A r \in R : \E i \in 1..Cardinality(R) : list[i] = r

\* The ranks are 0 to N - 1, each taken once: Sorted lists the runs in order.
LEMMA SortedIsSorted ==
    ASSUME NEW R, AreRuns(R)
    PROVE  InCostOrder(Sorted(R), R)
<1> DEFINE N == Cardinality(R)
           place == [r \in R |-> Rank(R, r) + 1]
<1>1. IsFiniteSet(R) /\ N \in Nat
    BY FS_CardinalityType DEF AreRuns
<1>2. \A r \in R : Rank(R, r) \in 0..N - 1
    BY RanksGoUp
<1>3. \A r, s \in R : Before(r, s) => Rank(R, r) < Rank(R, s)
    BY RanksGoUp
<1>4. \A r, s \in R : r # s => Before(r, s) \/ Before(s, r)
    BY BeforeIsOrder
<1> HIDE DEF N
<1>5. \A r, s \in R : Rank(R, r) = Rank(R, s) => r = s
    BY <1>2, <1>3, <1>4
<1>6. place \in [R -> 1..N]
    BY <1>1, <1>2
<1>7. \A n \in 1..N : \E r \in R : Rank(R, r) = n - 1
    <2>1. \A r, s \in R : place[r] = place[s] => r = s
        BY <1>2, <1>5
    <2>2. place \in Injection(R, 1..N)
        <3> HIDE DEF place
        <3> QED BY <1>6, <2>1 DEF Injection, IsInjective
    <2>3. IsFiniteSet(1..N) /\ Cardinality(1..N) = N
        BY <1>1, FS_Interval
    <2>4. place \in Surjection(R, 1..N)
        <3> HIDE DEF place
        <3> QED BY <2>2, <2>3, FS_Injection DEF N
    <2>5. \A n \in 1..N : \E r \in R : place[r] = n
        <3> HIDE DEF place
        <3> QED BY <2>4 DEF Surjection
    <2>6. \A r \in R : place[r] = Rank(R, r) + 1 /\ Rank(R, r) \in Int
        BY <1>1, <1>2
    <2> HIDE DEF place
    <2> SUFFICES ASSUME NEW n \in 1..N PROVE \E r \in R : Rank(R, r) = n - 1
        OBVIOUS
    <2>7. PICK r \in R : place[r] = n
        BY <2>5
    <2> QED BY <2>6, <2>7
<1>8. \A n \in 1..N : Sorted(R)[n] \in R /\ Rank(R, Sorted(R)[n]) = n - 1
    <2> SUFFICES ASSUME NEW n \in 1..N
                 PROVE  Sorted(R)[n] \in R /\ Rank(R, Sorted(R)[n]) = n - 1
        OBVIOUS
    <2>1. Sorted(R)[n] = CHOOSE r \in R : Rank(R, r) = n - 1
        BY DEF Sorted, Rank, N
    <2> QED BY <1>7, <2>1
<1>9. Sorted(R) \in [1..N -> R]
    <2> DEFINE h == [n \in 1..N |-> CHOOSE r \in R : Rank(R, r) = n - 1]
    <2>1. Sorted(R) = h
        BY DEF Sorted, Rank, N
    <2>2. \A n \in 1..N : h[n] \in R
        BY <1>8, <2>1
    <2> QED BY <2>1, <2>2
<1>10. ASSUME NEW i \in 1..N, NEW j \in 1..N, i < j
       PROVE  Before(Sorted(R)[i], Sorted(R)[j])
    <2>1. Sorted(R)[i] \in R /\ Sorted(R)[j] \in R
        BY <1>8
    <2>2. Rank(R, Sorted(R)[i]) < Rank(R, Sorted(R)[j])
        BY <1>1, <1>8, <1>10
    <2>3. Rank(R, Sorted(R)[i]) \in Int /\ Rank(R, Sorted(R)[j]) \in Int
        BY <1>1, <1>8
    <2>4. ~Before(Sorted(R)[j], Sorted(R)[i])
        BY <1>3, <2>1, <2>2, <2>3
    <2>5. Sorted(R)[i] # Sorted(R)[j]
        BY <2>2, <2>3
    <2> QED BY <1>4, <2>1, <2>4, <2>5
<1>11. ASSUME NEW r \in R
       PROVE  \E i \in 1..N : Sorted(R)[i] = r
    <2>1. Rank(R, r) + 1 \in 1..N /\ (Rank(R, r) + 1) - 1 = Rank(R, r)
        BY <1>1, <1>2
    <2>2. Rank(R, Sorted(R)[Rank(R, r) + 1]) = Rank(R, r) /\ Sorted(R)[Rank(R, r) + 1] \in R
        BY <1>8, <2>1
    <2> QED BY <1>5, <2>1, <2>2
<1> QED BY <1>9, <1>10, <1>11 DEF InCostOrder, N

-----------------------------------------------------------------------------
(* The picker: one walk over the sorted runs. *)

IsWalk(out, list, n) ==
    /\ out[0] = <<>>
    /\ \A m \in 1..n : out[m] = Take(out[m - 1], list[m])

\* Chosen is where a walk over the whole list ends.
LEMMA ChosenIsWalk ==
    ASSUME NEW list, NEW n \in Nat, Len(list) = n
    PROVE  \E out : IsWalk(out, list, n) /\ Chosen(list) = out[n]
<1> DEFINE Step(out, m) == [k \in 0..m |-> IF k = 0 THEN <<>> ELSE Take(out[k - 1], list[k])]
           G == {m \in 0..n : \E out : out = Step(out, m)}
           f == CHOOSE out : out = Step(out, n)
<1>1. 0 \in G
    <2> DEFINE out == [k \in 0..0 |-> <<>>]
    <2>1. out = Step(out, 0)
        <3>1. \A k \in 0..0 : k = 0
            OBVIOUS
        <3>2. \A k \in 0..0 : out[k] = Step(out, 0)[k]
            BY <3>1
        <3> QED BY <3>2
    <2>2. 0 \in 0..n
        OBVIOUS
    <2> HIDE DEF out, Step
    <2> QED BY <2>1, <2>2
<1>2. ASSUME NEW m \in 0..n - 1, m \in G PROVE m + 1 \in G
    <2>1. PICK out : out = Step(out, m)
        BY <1>2
    <2> DEFINE more == [k \in 0..m + 1 |-> IF k = 0 THEN <<>> ELSE Take(out[k - 1], list[k])]
    <2>2. \A k \in 0..m : more[k] = out[k]
        <3>1. \A k \in 0..m : out[k] = IF k = 0 THEN <<>> ELSE Take(out[k - 1], list[k])
            BY <2>1
        <3>2. \A k \in 0..m : k \in 0..m + 1
            OBVIOUS
        <3> QED BY <3>1, <3>2
    <2>3. \A k \in 0..m + 1 : k # 0 => k - 1 \in 0..m
        OBVIOUS
    <2>4. \A k \in 0..m + 1 : more[k] = IF k = 0 THEN <<>> ELSE Take(more[k - 1], list[k])
        BY <2>2, <2>3
    <2>5. more = Step(more, m + 1)
        BY <2>4
    <2>6. m + 1 \in 0..n
        OBVIOUS
    <2> HIDE DEF more, Step
    <2> QED BY <2>5, <2>6
<1>3. n \in G
    <2> HIDE DEF G
    <2>1. \A k \in 0..n : k \in G
        BY <1>1, <1>2, Upwards
    <2> QED BY <2>1
<1>4. f = Step(f, n)
    <2>1. \E out : out = Step(out, n)
        BY <1>3
    <2> QED BY <2>1
<1>5. Chosen(list) = f[n]
    BY DEF Chosen
<1> HIDE DEF f
<1>6. \A k \in 0..n : f[k] = IF k = 0 THEN <<>> ELSE Take(f[k - 1], list[k])
    BY <1>4
<1>7. IsWalk(f, list, n)
    <2>1. 0 \in 0..n /\ \A m \in 1..n : m \in 0..n /\ m # 0
        OBVIOUS
    <2> QED BY <1>6, <2>1 DEF IsWalk
<1> QED BY <1>5, <1>7

\* After m runs: those taken are apart and sorted, and each of the m was taken,
\* or overlaps one before it that was, or found the list full.
IsChoice(chosen, list, m, R) ==
    /\ chosen \in Seq(R) /\ Len(chosen) <= Picks
    /\ \A i \in 1..Len(chosen) : \E k \in 1..m : chosen[i] = list[k]
    /\ \A i, j \in 1..Len(chosen) :
          i < j => Before(chosen[i], chosen[j]) /\ ~Overlap(chosen[i], chosen[j])
    /\ \A k \in 1..m :
          \/ \E i \in 1..Len(chosen) :
                chosen[i] = list[k] \/ (Overlap(list[k], chosen[i]) /\ Before(chosen[i], list[k]))
          \/ Len(chosen) = Picks /\ Before(chosen[Picks], list[k])

\* One more run of the list, taken or left out, keeps the choice sound.
LEMMA TakeIsChoice ==
    ASSUME NEW R, AreRuns(R), NEW list, InCostOrder(list, R),
           NEW m \in 1..Cardinality(R), NEW chosen, IsChoice(chosen, list, m - 1, R)
    PROVE  IsChoice(Take(chosen, list[m]), list, m, R)
<1> DEFINE run == list[m]
           L == Len(chosen)
<1>1. Cardinality(R) \in Nat /\ Picks \in Nat \ {0}
    BY PriceStateAssumption, FS_CardinalityType DEF AreRuns
<1>2. run \in R /\ \A k \in 1..m - 1 : list[k] \in R /\ Before(list[k], run)
    BY <1>1 DEF InCostOrder
<1>3. \A k \in 1..m : k = m \/ k \in 1..m - 1
    BY <1>1
<1>3a. m \in 1..m /\ \A k \in 1..m - 1 : k \in 1..m
    BY <1>1
<1>4. chosen \in Seq(R) /\ L \in Nat /\ L <= Picks /\ \A i \in 1..L : chosen[i] \in R
    BY DEF IsChoice
<1>5. \A i \in 1..L : \E k \in 1..m - 1 : chosen[i] = list[k]
    BY DEF IsChoice
<1>6. \A i \in 1..L : Before(chosen[i], run)
    BY <1>2, <1>5
<1>7. \A i, j \in 1..L : i < j => Before(chosen[i], chosen[j]) /\ ~Overlap(chosen[i], chosen[j])
    BY DEF IsChoice
<1>8. \A k \in 1..m - 1 :
         \/ \E i \in 1..L :
               chosen[i] = list[k] \/ (Overlap(list[k], chosen[i]) /\ Before(chosen[i], list[k]))
         \/ L = Picks /\ Before(chosen[Picks], list[k])
    BY DEF IsChoice
<1>9. ToSet(chosen) = {chosen[i] : i \in 1..L}
    BY <1>4 DEF ToSet
<1> HIDE DEF run, L
<1>10. CASE L >= Picks
    <2>1. Take(chosen, run) = chosen
        BY <1>10 DEF Take, L
    <2>2. L = Picks /\ Picks \in 1..L
        BY <1>1, <1>4, <1>10
    <2>3. \A i \in 1..L : \E k \in 1..m : chosen[i] = list[k]
        BY <1>3a, <1>5
    <2>4. \A k \in 1..m :
             \/ \E i \in 1..L :
                   chosen[i] = list[k] \/ (Overlap(list[k], chosen[i]) /\ Before(chosen[i], list[k]))
             \/ L = Picks /\ Before(chosen[Picks], list[k])
        BY <1>3, <1>6, <1>8, <2>2 DEF run
    <2>5. IsChoice(chosen, list, m, R)
        BY <1>4, <1>7, <2>3, <2>4 DEF IsChoice, L
    <2> QED BY <2>1, <2>5 DEF run
<1>11. CASE L < Picks /\ \E r \in ToSet(chosen) : Overlap(run, r)
    <2>1. Take(chosen, run) = chosen
        BY <1>11 DEF Take
    <2>2. PICK x \in 1..L : Overlap(run, chosen[x])
        BY <1>9, <1>11
    <2>3. \A i \in 1..L : \E k \in 1..m : chosen[i] = list[k]
        BY <1>3a, <1>5
    <2>4. \A k \in 1..m :
             \/ \E i \in 1..L :
                   chosen[i] = list[k] \/ (Overlap(list[k], chosen[i]) /\ Before(chosen[i], list[k]))
             \/ L = Picks /\ Before(chosen[Picks], list[k])
        BY <1>3, <1>6, <1>8, <2>2 DEF run
    <2>5. IsChoice(chosen, list, m, R)
        BY <1>4, <1>7, <2>3, <2>4 DEF IsChoice, L
    <2> QED BY <2>1, <2>5 DEF run
<1>12. CASE L < Picks /\ ~\E r \in ToSet(chosen) : Overlap(run, r)
    <2> DEFINE more == Append(chosen, run)
    <2>1. Take(chosen, run) = more
        BY <1>1, <1>4, <1>12 DEF Take, L
    <2>2. /\ more \in Seq(R) /\ Len(more) = L + 1 /\ more[L + 1] = run
          /\ \A i \in 1..L : more[i] = chosen[i]
        <3>1. chosen \in Seq(R) /\ run \in R
            BY <1>2, <1>4 DEF run
        <3>2. more \in Seq(R) /\ Len(more) = L + 1
            BY <3>1, AppendProperties DEF L
        <3>3. \A i \in 1..Len(chosen) + 1 :
                 more[i] = IF i <= Len(chosen) THEN chosen[i] ELSE run
            BY <3>1
        <3>4. \A i \in 1..L : i \in 1..L + 1 /\ i <= L
            BY <1>4
        <3>5. L + 1 \in 1..L + 1 /\ ~(L + 1 <= L)
            BY <1>4
        <3> QED BY <3>2, <3>3, <3>4, <3>5 DEF L
    <2>3. \A i \in 1..L + 1 : i = L + 1 \/ i \in 1..L
        BY <1>4
    <2>3a. L + 1 \in 1..L + 1 /\ \A i \in 1..L : i \in 1..L + 1
        BY <1>4
    <2> HIDE DEF more
    <2>4. \A i \in 1..L : ~Overlap(run, chosen[i]) /\ ~Overlap(chosen[i], run)
        BY <1>9, <1>12 DEF Overlap
    <2>5. L + 1 <= Picks
        BY <1>1, <1>4, <1>12
    <2>6. \A i \in 1..L + 1 : \E k \in 1..m : more[i] = list[k]
        BY <1>3a, <1>5, <2>2, <2>3 DEF run
    <2>7. \A i, j \in 1..L + 1 :
             i < j => Before(more[i], more[j]) /\ ~Overlap(more[i], more[j])
        <3> SUFFICES ASSUME NEW i \in 1..L + 1, NEW j \in 1..L + 1, i < j
                     PROVE  Before(more[i], more[j]) /\ ~Overlap(more[i], more[j])
            OBVIOUS
        <3>1. i \in 1..L
            BY <1>4, <2>3
        <3>2. CASE j \in 1..L
            BY <1>7, <2>2, <3>1, <3>2
        <3>3. CASE j = L + 1
            BY <1>6, <2>2, <2>4, <3>1, <3>3
        <3> QED BY <2>3, <3>2, <3>3
    <2>8. \A k \in 1..m :
             \/ \E i \in 1..L + 1 :
                   more[i] = list[k] \/ (Overlap(list[k], more[i]) /\ Before(more[i], list[k]))
             \/ L + 1 = Picks /\ Before(more[Picks], list[k])
        <3> SUFFICES ASSUME NEW k \in 1..m
                     PROVE  \E i \in 1..L + 1 :
                               \/ more[i] = list[k]
                               \/ Overlap(list[k], more[i]) /\ Before(more[i], list[k])
            OBVIOUS
        <3>1. CASE k = m
            BY <2>2, <2>3a, <3>1 DEF run
        <3>2. CASE k \in 1..m - 1
            <4>1. PICK i \in 1..L :
                     chosen[i] = list[k] \/ (Overlap(list[k], chosen[i]) /\ Before(chosen[i], list[k]))
                BY <1>1, <1>4, <1>8, <1>12, <3>2
            <4> QED BY <2>2, <2>3a, <4>1
        <3> QED BY <1>3, <3>1, <3>2
    <2>9. IsChoice(more, list, m, R)
        BY <2>2, <2>5, <2>6, <2>7, <2>8 DEF IsChoice
    <2> QED BY <2>1, <2>9 DEF run
<1> QED BY <1>1, <1>4, <1>10, <1>11, <1>12

\* The runs of the picker are a sound choice from all runs.
LEMMA ChosenIsChoice ==
    ASSUME NEW R, AreRuns(R)
    PROVE  \E list : InCostOrder(list, R) /\ IsChoice(Chosen(Sorted(R)), list, Cardinality(R), R)
<1> DEFINE n == Cardinality(R)
           list == Sorted(R)
<1>1. n \in Nat /\ InCostOrder(list, R)
    BY SortedIsSorted, FS_CardinalityType DEF AreRuns
<1> HIDE DEF list, n
<1>2. Len(list) = n
    <2>1. list \in [1..n -> R]
        BY <1>1 DEF InCostOrder, n
    <2>2. list \in Seq(R)
        BY <1>1, <2>1
    <2> QED BY <1>1, <2>1, <2>2
<1>3. PICK out : IsWalk(out, list, n) /\ Chosen(list) = out[n]
    BY <1>1, <1>2, ChosenIsWalk
<1> DEFINE G == {m \in 0..n : IsChoice(out[m], list, m, R)}
<1>4. 0 \in G
    <2>1. out[0] = <<>> /\ <<>> \in Seq(R) /\ Len(<<>>) = 0 /\ 0 <= Picks
        BY <1>3, PriceStateAssumption DEF IsWalk
    <2>2. \A i \in 1..0 : FALSE
        OBVIOUS
    <2>3. IsChoice(out[0], list, 0, R)
        BY <2>1, <2>2 DEF IsChoice
    <2> QED BY <1>1, <2>3
<1>5. ASSUME NEW m \in 0..n - 1, m \in G PROVE m + 1 \in G
    <2>1. m + 1 \in 1..n /\ m + 1 \in 0..n /\ (m + 1) - 1 = m
        BY <1>1
    <2>2. IsChoice(out[m], list, m, R)
        BY <1>5
    <2> HIDE DEF G
    <2>3. out[m + 1] = Take(out[m], list[m + 1])
        BY <1>3, <2>1 DEF IsWalk
    <2>4. IsChoice(Take(out[m], list[m + 1]), list, m + 1, R)
        <3>1. m + 1 \in 1..Cardinality(R)
            BY <2>1 DEF n
        <3>2. IsChoice(out[m], list, (m + 1) - 1, R)
            BY <2>1, <2>2
        <3> QED BY <1>1, <3>1, <3>2, TakeIsChoice
    <2> QED BY <2>1, <2>3, <2>4 DEF G
<1> HIDE DEF G
<1>6. n \in G
    <2>1. \A k \in 0..n : k \in G
        BY <1>1, <1>4, <1>5, Upwards
    <2> QED BY <1>1, <2>1
<1>7. IsChoice(Chosen(list), list, n, R)
    BY <1>3, <1>6 DEF G
<1> QED BY <1>1, <1>7 DEF list, n

-----------------------------------------------------------------------------
(* The resumes follow the prices. *)

PricesHeld == PriceTypeOK /\ PricesAreGenuine

ChainLen == Len(today.curve) + Len(tomorrow.curve)
Held == Chain(today, tomorrow)

\* A bucket's points, an empty one's too, are part of a timeline.
LEMMA PartOfPoints ==
    ASSUME NEW b \in Buckets
    PROVE  /\ b.day \in {-1, 0, 1}
           /\ Len(b.curve) # 0 => b # Empty
           /\ IsPart(Points(b), Len(b.curve), b.day * SlotsPerDay)
           /\ Points(b) \in Seq(ToSet(Points(b))) /\ DOMAIN Points(b) = 1..Len(b.curve)
<1>1. SlotsPerDay \in Nat \ {0} /\ Curves \subseteq Seq(Int)
    BY PriceStateAssumption
<1>2. b.curve \in Seq(Int) /\ b.day \in {-1, 0, 1} /\ (b = Empty => b.curve = <<>>)
    <2>1. CASE b = Empty
        BY <2>1 DEF Empty
    <2>2. CASE b # Empty
        <3>1. b.curve \in Curves /\ b.day \in {-1, 0, 1}
            BY <2>2 DEF Buckets
        <3> QED BY <1>1, <2>2, <3>1
    <2> QED BY <2>1, <2>2
<1>3. DOMAIN Points(b) = 1..Len(b.curve) /\ Len(b.curve) \in Nat
    BY <1>2 DEF Points
<1>4. Points(b) \in [1..Len(b.curve) -> ToSet(Points(b))]
    <2>1. \A i \in 1..Len(b.curve) : Points(b)[i] \in ToSet(Points(b))
        BY <1>3 DEF ToSet
    <2>2. Points(b) = [i \in DOMAIN b.curve |-> Point(b, i)]
        BY DEF Points
    <2>3. DOMAIN b.curve = 1..Len(b.curve)
        BY <1>2
    <2> QED BY <2>1, <2>2, <2>3
<1>5. Points(b) \in Seq(ToSet(Points(b))) /\ Len(Points(b)) = Len(b.curve)
    BY <1>3, <1>4
<1>6. Len(b.curve) # 0 => b # Empty
    BY <1>2
<1>7. Len(b.curve) # 0
        => IsDay(Points(b), Len(b.curve), b.day * SlotsPerDay, b.day * SlotsPerDay + SlotsPerDay)
    <2>1. (b.day + 1) * SlotsPerDay = b.day * SlotsPerDay + SlotsPerDay
        BY <1>1, <1>2
    <2> QED BY <1>6, <2>1, DayOfPoints
<1> QED BY <1>2, <1>3, <1>5, <1>6, <1>7 DEF IsPart

\* The chain of the two buckets held is a timeline of the prices known.
LEMMA HeldIsTimeline ==
    ASSUME PricesHeld
    PROVE  IsTimeline(Held, ChainLen) /\ Knows(Held, ChainLen)
<1> DEFINE P == Points(today)
           Q == Points(tomorrow)
           a == Len(today.curve)
           b == Len(tomorrow.curve)
           T == ToSet(P) \cup ToSet(Q)
<1>1. today \in Buckets /\ tomorrow \in Buckets /\ today.day \in {-1, 0}
    BY DEF PricesHeld, PriceTypeOK
<1>2. SlotsPerDay \in Nat \ {0}
    BY PriceStateAssumption
<1>3. /\ IsPart(P, a, today.day * SlotsPerDay) /\ IsPart(Q, b, tomorrow.day * SlotsPerDay)
      /\ P \in Seq(ToSet(P)) /\ Q \in Seq(ToSet(Q))
      /\ DOMAIN P = 1..a /\ DOMAIN Q = 1..b
      /\ tomorrow.day \in {-1, 0, 1}
    <2>1. /\ IsPart(P, a, today.day * SlotsPerDay) /\ P \in Seq(ToSet(P)) /\ DOMAIN P = 1..a
        BY <1>1, PartOfPoints
    <2>2. /\ IsPart(Q, b, tomorrow.day * SlotsPerDay) /\ Q \in Seq(ToSet(Q)) /\ DOMAIN Q = 1..b
          /\ tomorrow.day \in {-1, 0, 1}
        BY <1>1, PartOfPoints
    <2> QED BY <2>1, <2>2
<1>4. P \in Seq(T) /\ Q \in Seq(T)
    BY <1>3
<1>5. /\ today.day * SlotsPerDay \in {-SlotsPerDay, 0}
      /\ tomorrow.day * SlotsPerDay \in {-SlotsPerDay, 0, SlotsPerDay}
      /\ today.day * SlotsPerDay = 0 => today.day = 0
      /\ tomorrow.day * SlotsPerDay = 0 => tomorrow.day = 0
    BY <1>1, <1>2, <1>3
<1>6. ASSUME a # 0, b # 0, today.day * SlotsPerDay = 0, tomorrow.day * SlotsPerDay = 0
      PROVE  P = Q /\ a = b
    <2>1. today # Empty /\ tomorrow # Empty
        BY <1>1, <1>6, PartOfPoints
    <2>2. today.curve = market["today"] /\ tomorrow.curve = market["today"]
        BY <1>5, <1>6, <2>1 DEF PricesHeld, PricesAreGenuine, Genuine
    <2>3. today = [day |-> today.day, curve |-> today.curve]
          /\ tomorrow = [day |-> tomorrow.day, curve |-> tomorrow.curve]
        BY <1>1, <2>1 DEF Buckets
    <2>4. today = tomorrow
        BY <1>5, <1>6, <2>2, <2>3
    <2> QED BY <2>4
<1>7. Held = P \o Q /\ ChainLen = a + b
    BY DEF Held, Chain, ChainLen
<1>8. Known = ToSet(P) \cup ToSet(Q)
    BY DEF Known
<1> HIDE DEF P, Q, a, b, T
<1>9. IsTimeline(Held, ChainLen)
    BY <1>2, <1>3, <1>4, <1>5, <1>6, <1>7, JoinedDays
<1>10. a \in Nat /\ b \in Nat /\ Len(P) = a /\ Len(Q) = b
    BY <1>3 DEF IsPart
<1>11. \A i \in 1..a + b : Held[i] = IF i <= a THEN P[i] ELSE Q[i - a]
    BY <1>4, <1>7, <1>10, ConcatProperties
<1>12. ASSUME NEW p \in Known PROVE \E i \in 1..ChainLen : p = Held[i]
    <2>1. CASE p \in ToSet(P)
        <3>1. PICK i \in 1..a : p = P[i]
            BY <1>3, <2>1 DEF ToSet
        <3>2. i \in 1..a + b /\ i <= a
            BY <1>10
        <3> QED BY <1>7, <1>11, <3>1, <3>2
    <2>2. CASE p \in ToSet(Q)
        <3>1. PICK i \in 1..b : p = Q[i]
            BY <1>3, <2>2 DEF ToSet
        <3>2. a + i \in 1..a + b /\ ~(a + i <= a) /\ (a + i) - a = i
            BY <1>10
        <3> QED BY <1>7, <1>11, <3>1, <3>2
    <2> QED BY <1>8, <2>1, <2>2
<1>13. ASSUME NEW i \in 1..ChainLen PROVE Held[i] \in Known
    <2>1. i \in 1..a + b
        BY <1>7
    <2>2. CASE i <= a
        <3>1. i \in 1..a /\ Held[i] = P[i]
            BY <1>10, <1>11, <2>1, <2>2
        <3> QED BY <1>3, <1>8, <3>1 DEF ToSet
    <2>3. CASE ~(i <= a)
        <3>1. i - a \in 1..b /\ Held[i] = Q[i - a]
            BY <1>10, <1>11, <2>1, <2>3
        <3> QED BY <1>3, <1>8, <3>1 DEF ToSet
    <2> QED BY <2>2, <2>3
<1>14. Knows(Held, ChainLen)
    BY <1>12, <1>13 DEF Knows
<1> QED BY <1>9, <1>14

\* The runs of the code and those read off the prices.
LEMMA RunsAre ==
    ASSUME PricesHeld, NEW R, R = RunsWithin(today, tomorrow, slotNow)
    PROVE  /\ AreRuns(R)
           /\ \A r \in R : /\ r.start \in Eligible
                           /\ r.end = CoverFrom(r.start) /\ r.cost = CostFrom(r.start)
           /\ \A s \in Eligible : \E r \in R : r.start = s
<1> DEFINE c == Held
           n == ChainLen
           I == {k \in DOMAIN c : InWindow(c[k], slotNow) /\ RunEnds(c, k) # {}}
           till(k) == Lowest(RunEnds(c, k))
<1>1. IsTimeline(c, n) /\ Knows(c, n)
    BY HeldIsTimeline
<1>2. /\ n \in Nat /\ DOMAIN c = 1..n /\ Len(c) = n
      /\ \A k \in 1..n : c[k].start \in Int /\ c[k].end \in Int /\ c[k].start < c[k].end
    BY <1>1 DEF IsTimeline
<1>3. slotNow \in Nat
    BY PriceStateAssumption DEF PricesHeld, PriceTypeOK
<1>4. R = {RunFrom(c, k) : k \in I}
    BY DEF RunsWithin, Held
<1> HIDE DEF c, n
<1>5. \A k \in 1..n : InWindow(c[k], slotNow) => c[k].start >= 0
    BY <1>2, <1>3 DEF InWindow
<1>6. ASSUME NEW k \in I
      PROVE  /\ k \in 1..n /\ RunFrom(c, k).at = k /\ RunFrom(c, k).start = c[k].start
             /\ RunFrom(c, k).end = CoverFrom(c[k].start)
             /\ RunFrom(c, k).cost = CostFrom(c[k].start)
             /\ IsPriced(RunFrom(c, k)) /\ c[k].start \in Eligible
    <2>1. k \in 1..n /\ InWindow(c[k], slotNow) /\ RunEnds(c, k) # {} /\ c[k].start >= 0
        BY <1>2, <1>5
    <2>2. /\ till(k) \in RunEnds(c, k) /\ CoverFrom(c[k].start) = c[till(k)].end
          /\ CoverFrom(c[k].start) # Nothing
        BY <1>1, <2>1, RunIsCover
    <2>3. RunFrom(c, k) = [at |-> k, start |-> c[k].start, end |-> c[till(k)].end,
                           cost |-> CostOf(c, k, till(k))]
        BY DEF RunFrom
    <2> HIDE DEF till, I
    <2>4. till(k) \in k..n /\ Adjacent(c, k, till(k)) /\ till(k) \in 1..n /\ k \in Int
        BY <1>2, <2>1, <2>2 DEF RunEnds
    <2>5. CostFrom(c[k].start) = CostOf(c, k, till(k)) /\ CostOf(c, k, till(k)) \in Int
        BY <1>1, <2>1, <2>2, <2>4, RunCostIs
    <2>6. c[k].start < c[till(k)].end
        <3>1. till(k) \in k..till(k)
            BY <2>4
        <3>2. c[k].start <= c[till(k)].start
            BY <1>1, <2>1, <2>4, <3>1, RunIsWalked DEF IsWalked
        <3> QED BY <1>2, <2>1, <2>4, <3>2
    <2>7. IsPriced(RunFrom(c, k))
        BY <1>2, <2>1, <2>3, <2>4, <2>5, <2>6 DEF IsPriced
    <2>8. c[k].start \in Eligible
        <3>1. c[k] \in Known
            BY <1>1, <2>1 DEF Knows
        <3> QED BY <2>1, <2>2, <3>1 DEF Eligible
    <2> QED BY <2>1, <2>2, <2>3, <2>5, <2>7, <2>8
<1>7. AreRuns(R)
    <2>1. IsFiniteSet(I)
        <3>1. IsFiniteSet(1..n) /\ I \in SUBSET (1..n)
            BY <1>2, FS_Interval
        <3> HIDE DEF I
        <3> QED BY <3>1, FS_Subset
    <2> DEFINE f == [k \in I |-> RunFrom(c, k)]
    <2> HIDE DEF I
    <2>2. f \in Surjection(I, R)
        BY <1>4 DEF Surjection
    <2> HIDE DEF f
    <2>3. IsFiniteSet(R)
        BY <2>1, <2>2, FS_Surjection
    <2> QED BY <1>4, <1>6, <2>3 DEF AreRuns
<1>8. \A r \in R : /\ r.start \in Eligible
                   /\ r.end = CoverFrom(r.start) /\ r.cost = CostFrom(r.start)
    <2> HIDE DEF I
    <2> QED BY <1>4, <1>6
<1>9. ASSUME NEW s \in Eligible PROVE \E r \in R : r.start = s
    <2>1. PICK p \in Known : s = p.start /\ InWindow(p, slotNow) /\ CoverFrom(p.start) # Nothing
        BY DEF Eligible
    <2>2. PICK k \in 1..n : p = c[k]
        BY <1>1 DEF Knows
    <2>3. RunEnds(c, k) # {}
        BY <1>1, <1>5, <2>1, <2>2, RunIsCover
    <2>4. k \in I
        BY <1>2, <2>1, <2>2, <2>3
    <2> HIDE DEF I
    <2> QED BY <1>4, <1>6, <2>1, <2>2, <2>4
<1> QED BY <1>7, <1>8, <1>9

\* The run a Blocking mode resumes into is the cheapest one eligible.
LEMMA PickIsCheapest ==
    ASSUME PricesHeld
    PROVE  RunPickIsCheapest
<1> DEFINE R == RunsWithin(today, tomorrow, slotNow)
           pick == CheapestRunWithin(today, tomorrow, slotNow)
<1>1. /\ AreRuns(R)
      /\ \A r \in R : /\ r.start \in Eligible
                      /\ r.end = CoverFrom(r.start) /\ r.cost = CostFrom(r.start)
      /\ \A s \in Eligible : \E r \in R : r.start = s
    BY RunsAre
<1>2. pick = IF R = {} THEN Nothing ELSE CHOOSE r \in R : \A s \in R \ {r} : Before(r, s)
    BY DEF CheapestRunWithin
<1> HIDE DEF R, pick
<1>3. CASE Eligible = {}
    <2>1. R = {}
        BY <1>1, <1>3
    <2> QED BY <1>2, <1>3, <2>1 DEF RunPickIsCheapest, pick
<1>4. CASE Eligible # {}
    <2>1. R # {}
        BY <1>1, <1>4
    <2>2. \E r \in R : \A s \in R \ {r} : Before(r, s)
        <3> DEFINE N == Cardinality(R)
        <3>1. IsFiniteSet(R) /\ N \in Nat /\ N # 0
            BY <1>1, <2>1, FS_CardinalityType, FS_EmptySet DEF AreRuns
        <3>2. InCostOrder(Sorted(R), R)
            BY <1>1, SortedIsSorted
        <3> HIDE DEF N
        <3>3. 1 \in 1..N /\ \A i \in 1..N : i # 1 => 1 < i
            BY <3>1
        <3>4. Sorted(R)[1] \in R
            BY <3>2, <3>3 DEF InCostOrder, N
        <3>5. ASSUME NEW s \in R \ {Sorted(R)[1]} PROVE Before(Sorted(R)[1], s)
            <4>1. PICK i \in 1..N : Sorted(R)[i] = s
                BY <3>2 DEF InCostOrder, N
            <4>2. i # 1
                BY <4>1
            <4> QED BY <3>2, <3>3, <4>1, <4>2 DEF InCostOrder, N
        <3> QED BY <3>4, <3>5
    <2>3. pick \in R /\ \A s \in R \ {pick} : Before(pick, s)
        BY <1>2, <2>1, <2>2
    <2>4. /\ pick.start \in Eligible
          /\ pick.cost = CostFrom(pick.start) /\ pick.end = CoverFrom(pick.start)
        BY <1>1, <2>3
    <2>5. ASSUME NEW s \in Eligible
          PROVE  pick.cost * (CoverFrom(s) - s) <= CostFrom(s) * Lasts(pick)
        <3>1. PICK r \in R : r.start = s
            BY <1>1
        <3>2. IsPriced(r) /\ IsPriced(pick)
            BY <1>1, <2>3, <3>1 DEF AreRuns
        <3>3. ~Cheaper(r, pick)
            <4>1. CASE r = pick
                BY <3>2, <4>1, CheaperIsOrder
            <4>2. CASE r # pick
                <5>1. Before(pick, r)
                    BY <2>3, <4>2
                <5> QED BY <1>1, <2>3, <5>1, BeforeIsOrder
            <4> QED BY <4>1, <4>2
        <3>4. CoverFrom(s) - s = Lasts(r) /\ CostFrom(s) = r.cost
            BY <1>1, <3>1 DEF Lasts
        <3>5. /\ r.cost \in Int /\ pick.cost \in Int /\ Lasts(r) \in Int /\ Lasts(pick) \in Int
            BY <3>2 DEF IsPriced, Lasts
        <3>6. ~(r.cost * Lasts(pick) < pick.cost * Lasts(r))
            BY <3>3 DEF Cheaper
        <3>7. r.cost * Lasts(pick) \in Int /\ pick.cost * Lasts(r) \in Int
            BY <3>5
        <3>8. pick.cost * Lasts(r) <= r.cost * Lasts(pick)
            BY <3>6, <3>7
        <3> QED BY <3>4, <3>8
    <2> QED BY <1>4, <2>4, <2>5 DEF RunPickIsCheapest, pick
<1> QED BY <1>3, <1>4

\* The comparison of the ends says whether two runs share an instant.
LEMMA SharedIsOverlap ==
    ASSUME NEW r, IsPriced(r), NEW s, IsPriced(s)
    PROVE  Shared(r, s) <=> Overlap(r, s)
<1>1. /\ r.start \in Int /\ r.end \in Int /\ r.start < r.end
      /\ s.start \in Int /\ s.end \in Int /\ s.start < s.end
    BY DEF IsPriced
<1>2. ASSUME Shared(r, s) PROVE Overlap(r, s)
    BY <1>1, <1>2 DEF Shared, Overlap
<1>3. ASSUME Overlap(r, s) PROVE Shared(r, s)
    <2>1. r.start < s.end /\ s.start < r.end
        BY <1>3 DEF Overlap
    <2>2. CASE r.start <= s.start
        <3>1. s.start \in r.start..r.end - 1 /\ s.start \in s.start..s.end - 1
            BY <1>1, <2>1, <2>2
        <3> QED BY <3>1 DEF Shared
    <2>3. CASE s.start <= r.start
        <3>1. r.start \in r.start..r.end - 1 /\ r.start \in s.start..s.end - 1
            BY <1>1, <2>1, <2>3
        <3> QED BY <3>1 DEF Shared
    <2> QED BY <1>1, <2>2, <2>3
<1> QED BY <1>2, <1>3

\* The runs of the picker are apart, get dearer and leave no cheaper one out.
LEMMA PicksAreApart ==
    ASSUME PricesHeld
    PROVE  CandidatesAreApart
<1> DEFINE R == RunsWithin(today, tomorrow, slotNow)
           picks == CheapestRunsWithin(today, tomorrow, slotNow)
<1>1. AreRuns(R)
    BY RunsAre
<1>2. picks = Chosen(Sorted(R))
    BY DEF CheapestRunsWithin
<1> HIDE DEF R, picks
<1>3. PICK list : InCostOrder(list, R) /\ IsChoice(picks, list, Cardinality(R), R)
    BY <1>1, <1>2, ChosenIsChoice
<1>4. picks \in Seq(R) /\ DOMAIN picks = 1..Len(picks) /\ \A i \in 1..Len(picks) : picks[i] \in R
    <2>1. picks \in Seq(R)
        BY <1>3 DEF IsChoice
    <2> QED BY <2>1
<1>5. \A r \in R : IsPriced(r)
    BY <1>1 DEF AreRuns
<1>6. \A i, j \in DOMAIN picks :
         i < j => ~Shared(picks[i], picks[j]) /\ ~Cheaper(picks[j], picks[i])
    <2> SUFFICES ASSUME NEW i \in 1..Len(picks), NEW j \in 1..Len(picks), i < j
                 PROVE  ~Shared(picks[i], picks[j]) /\ ~Cheaper(picks[j], picks[i])
        BY <1>4
    <2>1. Before(picks[i], picks[j]) /\ ~Overlap(picks[i], picks[j])
        BY <1>3 DEF IsChoice
    <2> QED BY <1>1, <1>4, <1>5, <2>1, SharedIsOverlap, BeforeIsOrder
<1>7. ASSUME NEW r \in R
      PROVE  \/ \E i \in DOMAIN picks : ~Cheaper(r, picks[i])
                                        /\ (picks[i] = r \/ Shared(picks[i], r))
             \/ Len(picks) = Picks /\ ~Cheaper(r, Last(picks))
    <2>1. PICK k \in 1..Cardinality(R) : list[k] = r
        BY <1>3 DEF InCostOrder
    <2>2. CASE \E i \in 1..Len(picks) :
                  picks[i] = r \/ (Overlap(r, picks[i]) /\ Before(picks[i], r))
        <3>1. PICK i \in 1..Len(picks) :
                  picks[i] = r \/ (Overlap(r, picks[i]) /\ Before(picks[i], r))
            BY <2>2
        <3>2. picks[i] \in R /\ i \in DOMAIN picks
            BY <1>4
        <3>3. CASE picks[i] = r
            BY <1>5, <3>2, <3>3, CheaperIsOrder
        <3>4. CASE Overlap(r, picks[i]) /\ Before(picks[i], r)
            <4>1. Overlap(picks[i], r)
                BY <3>4 DEF Overlap
            <4>2. Shared(picks[i], r)
                BY <1>5, <3>2, <4>1, SharedIsOverlap
            <4>3. ~Cheaper(r, picks[i])
                BY <1>1, <3>2, <3>4, BeforeIsOrder
            <4> QED BY <3>2, <4>2, <4>3
        <3> QED BY <3>1, <3>3, <3>4
    <2>3. CASE Len(picks) = Picks /\ Before(picks[Picks], r)
        <3>1. Picks \in 1..Len(picks)
            BY <2>3, PriceStateAssumption
        <3>2. Last(picks) = picks[Picks] /\ picks[Picks] \in R
            BY <1>4, <2>3, <3>1 DEF Last
        <3>3. ~Cheaper(r, Last(picks))
            BY <1>1, <2>3, <3>2, BeforeIsOrder
        <3> QED BY <2>3, <3>3
    <2> QED BY <1>3, <2>1, <2>2, <2>3 DEF IsChoice
<1> QED BY <1>6, <1>7 DEF CandidatesAreApart, R, picks

\* A cheap mode ends at the first dear price of the window, or with the window.
LEMMA CheapPricesEnd ==
    ASSUME PricesHeld
    PROVE  BufferEndsWithCheapPrices
<1> DEFINE c == Held
           n == ChainLen
           until == slotNow + Window
           near == {p \in Known : InWindow(p, slotNow)}
           dear == {p \in near : p.level \notin {"very_cheap", "cheap"}}
           reached == {i \in DOMAIN c : /\ c[i].start > slotNow
                                        /\ \A j \in 1..i : c[j].start <= until}
           stops == {i \in reached : c[i].level \notin {"very_cheap", "cheap"}}
           ends == CheapWindowEnd(today, tomorrow, slotNow)
           starts == {until} \cup {p.start : p \in dear}
<1>1. IsTimeline(c, n) /\ Knows(c, n)
    BY HeldIsTimeline
<1>2. /\ n \in Nat /\ DOMAIN c = 1..n /\ \A k \in 1..n : c[k].start \in Int
    BY <1>1 DEF IsTimeline
<1>3. slotNow \in Nat /\ Window \in Nat
    BY PriceStateAssumption DEF PricesHeld, PriceTypeOK
<1>4. ends = CASE stops # {} -> c[Lowest(stops)].start
               [] reached = {} -> Nothing
               [] OTHER -> until
    BY DEF CheapWindowEnd, Held
<1>5. ResumeTarget("LowPrice", today, tomorrow, slotNow) = ends
    BY DEF ResumeTarget
<1>6. BufferEndsWithCheapPrices <=> IF near = {} THEN ends = Nothing ELSE ends = Lowest(starts)
    BY <1>5 DEF BufferEndsWithCheapPrices
<1>7. \A i \in reached : i \in 1..n /\ c[i] \in near
    <2>1. \A i \in 1..n : i \in 1..i /\ c[i] \in Known
        BY <1>1, <1>2 DEF Knows
    <2> QED BY <1>2, <2>1 DEF InWindow
<1>8. ASSUME NEW p \in near
      PROVE  \E k \in reached : c[k] = p /\ \A j \in 1..k : c[j].start <= c[k].start
    <2>1. PICK i \in 1..n : p = c[i]
        BY <1>1 DEF Knows
    <2>2. slotNow < c[i].start /\ c[i].start <= until
        BY <2>1 DEF InWindow
    <2>3. c[i].start > 0
        BY <1>2, <1>3, <2>2
    <2>4. PICK k \in 1..i : c[k] = c[i] /\ \A j \in 1..k : c[j].start <= c[i].start
        BY <1>1, <2>3 DEF IsTimeline
    <2>5. k \in 1..n /\ \A j \in 1..k : j \in 1..n
        BY <1>2
    <2>6. \A j \in 1..k : c[j].start <= until
        BY <1>2, <1>3, <2>2, <2>4, <2>5
    <2> QED BY <1>2, <2>1, <2>2, <2>4, <2>5, <2>6
<1>9. \A p \in near : p.start \in Int /\ p.start <= until
    <2>1. \A p \in Known : \E i \in 1..n : p = c[i]
        BY <1>1 DEF Knows
    <2> QED BY <1>2, <2>1 DEF InWindow
<1>10. starts \in SUBSET Int /\ until \in starts
    BY <1>3, <1>9
<1>11. CASE near = {}
    <2>1. reached = {} /\ stops = {}
        BY <1>7, <1>11
    <2>2. ends = Nothing
        BY <1>4, <2>1
    <2> QED BY <1>6, <1>11, <2>2
<1>12. CASE near # {} /\ stops = {}
    <2>1. reached # {}
        BY <1>8, <1>12
    <2>2. dear = {}
        BY <1>8, <1>12
    <2>3. ends = until
        BY <1>4, <1>12, <2>1
    <2>4. starts = {until}
        BY <2>2
    <2> HIDE DEF starts, ends, near, until
    <2>5. Lowest(starts) = until
        <3>1. until \in Int
            BY <1>3 DEF until
        <3> QED BY <1>10, <2>4, <3>1, LowestIs
    <2> QED BY <1>6, <1>12, <2>3, <2>5
<1>13. CASE near # {} /\ stops # {}
    <2>1. stops \in SUBSET Nat
        BY <1>2
    <2>2. PICK low \in stops : \A i \in stops : low <= i
        <3> HIDE DEF stops
        <3> QED BY <1>13, <2>1, LeastNumber
    <2>3. Lowest(stops) = low
        <3>1. stops \in SUBSET Int
            BY <2>1
        <3> HIDE DEF stops
        <3> QED BY <2>2, <3>1, LowestIs
    <2>4. ends = c[low].start
        BY <1>4, <1>13, <2>3
    <2>5. c[low] \in dear
        BY <1>7, <2>2
    <2>6. c[low].start \in starts /\ c[low].start <= until
        BY <1>9, <2>5
    <2>7. ASSUME NEW p \in dear PROVE c[low].start <= p.start
        <3>1. p \in near /\ p.level \notin {"very_cheap", "cheap"}
            OBVIOUS
        <3>2. PICK k \in reached : c[k] = p /\ \A j \in 1..k : c[j].start <= c[k].start
            BY <1>8, <3>1
        <3>3. k \in stops
            BY <3>1, <3>2
        <3>4. low <= k /\ low \in 1..n /\ k \in 1..n
            BY <1>2, <2>2, <3>3
        <3>5. low \in 1..k
            BY <1>2, <3>4
        <3> QED BY <3>2, <3>5
    <2>8. \A x \in starts : c[low].start <= x
        BY <2>6, <2>7
    <2> HIDE DEF starts, ends, near, dear
    <2>9. Lowest(starts) = c[low].start
        BY <1>10, <2>6, <2>8, LowestIs
    <2> QED BY <1>6, <1>13, <2>4, <2>9
<1> QED BY <1>11, <1>12, <1>13

-----------------------------------------------------------------------------
\* Whatever the two buckets hold, stale, doubled or a day apart, the resumes that
\* are proposed follow the prices known: the cheapest gapless run for a Blocking
\* mode, the picker's runs apart and in order, the end of the cheap prices.
THEOREM ResumesCorrect == PriceSpec => []ResumesFollowPrices
<1>1. PriceInv => PricesHeld
    BY DEF PriceInv, PricesHeld
<1>2. PricesHeld => ResumesFollowPrices
    BY PickIsCheapest, PicksAreApart, CheapPricesEnd DEF ResumesFollowPrices
<1> QED BY <1>1, <1>2, PriceInvariant, PTL
=============================================================================
