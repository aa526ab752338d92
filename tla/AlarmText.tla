------------------------------ MODULE AlarmText ------------------------------
(***************************************************************************)
(* get_alarms of routes/alarms.rs with the caches of messages/types.rs:    *)
(* count, two bitmasks, and for each active message a reference written to *)
(* the heater's one transfer register, a wait, and its one text buffer     *)
(* read back.  Requests come one at a time through ALARMS_HANDLER_LOCK;    *)
(* the client of a request may hang up at any await.                       *)
(*                                                                         *)
(* The Modbus actor is the line here: it serves its requests in turn, one  *)
(* by one; a request nobody waits for is skipped unless it is already      *)
(* under way, and an exchange that fails may have reached the heater.      *)
(* A text is known by the reference it belongs to, a time by a counter.    *)
(***************************************************************************)
EXTENDS Naturals, SequencesExt

CONSTANTS
    Clients,
    Alarms,      \* references of alarms
    Infos,       \* references of infos: INFO_REF_OFFSET and the bit's number
    InfoRefOffset,
    CodeOf,      \* the code in the text of a reference, or Nothing
    Nothing,     \* None; nobody; no text
    MaxCalls,    \* bound: requests
    MaxChanges,  \* bound: messages raised or cleared
    MaxTime,     \* bound: the clock
    MaxStarts    \* bound: starts of the process

Refs == Alarms \cup Infos

\* The key of first_seen: the kind, and the code or else the reference.
KeyOf(ref) ==
    <<IF ref \in Alarms THEN "A" ELSE "I",
      IF CodeOf[ref] = Nothing THEN ref ELSE CodeOf[ref]>>
KeysOf(refs) == {KeyOf(r) : r \in refs}
Keys == KeysOf(Refs)

ASSUME AlarmAssumption ==
    /\ Alarms \subseteq Nat /\ Infos \subseteq Nat /\ Alarms \cap Infos = {}
    /\ IsFiniteSet(Refs) /\ DOMAIN CodeOf = Refs
    /\ InfoRefOffset \in Nat /\ \A r \in Infos : r >= InfoRefOffset
    /\ Nothing \notin Clients /\ Nothing \notin Nat
    /\ {MaxCalls, MaxChanges, MaxTime, MaxStarts} \subseteq Nat

VARIABLES
    heater,     \* messages that are active, transfer register, text buffer
    line,       \* the Modbus actor's requests, the one under way first
    lock,       \* ALARMS_HANDLER_LOCK: who holds it
    call,       \* the requests
    texts,      \* ALARM_TEXT_CACHE
    firstSeen,  \* ALARM_FIRST_SEEN
    now,        \* the clock
    used,       \* what is used of the bounds
    reported    \* ghost: keys active without a break since they were reported,
                \* with the time of the report

vars == <<heater, line, lock, call, texts, firstSeen, now, used, reported>>

Ops == {"count", "alarmBits", "infoBits", "transfer", "buffer"}

\* todo: messages still to look at; shown: messages in the answer; ok: every
\* bitmask and every text so far was read.  Ghosts: steady, the messages active
\* all the time since the request began; ever, those active at some time.
NoCall ==
    [pc |-> "idle", op |-> "count", ref |-> Nothing, infos |-> FALSE, todo |-> {},
     shown |-> {}, ok |-> TRUE, steady |-> {}, ever |-> {}]

Calls ==
    [pc : {"idle", "locking", "waiting", "settling", "answered", "refused"},
     op : Ops, ref : Refs \cup {Nothing}, infos : BOOLEAN, todo : SUBSET Refs,
     shown : SUBSET Refs, ok : BOOLEAN, steady : SUBSET Refs, ever : SUBSET Refs]

Requests == [who : Clients \cup {Nothing}, op : Ops, ref : Refs \cup {Nothing}]

TypeOK ==
    /\ heater \in [active : SUBSET Refs, transfer : Refs \cup {Nothing},
                   buffer : Refs \cup {Nothing}]
    /\ line \in Seq(Requests)
    /\ lock \in Clients \cup {Nothing}
    /\ call \in [Clients -> Calls]
    /\ DOMAIN texts \subseteq Refs /\ texts \in [DOMAIN texts -> Refs \cup {Nothing}]
    /\ DOMAIN firstSeen \subseteq Keys /\ firstSeen \in [DOMAIN firstSeen -> Nat]
    /\ now \in Nat
    /\ used \in [calls : Nat, changes : Nat, starts : Nat]
    /\ DOMAIN reported \subseteq Keys /\ reported \in [DOMAIN reported -> Nat]

Empty == [x \in {} |-> Nothing]

Init ==
    /\ heater \in [active : SUBSET Refs, transfer : {Nothing}, buffer : {Nothing}]
    /\ line = <<>> /\ lock = Nothing
    /\ call = [c \in Clients |-> NoCall]
    /\ texts = Empty /\ firstSeen = Empty /\ reported = Empty
    /\ now = 0 /\ used = [calls |-> 0, changes |-> 0, starts |-> 1]

-----------------------------------------------------------------------------
(* The heater. *)

Keep(f, S) == [x \in DOMAIN f \cap S |-> f[x]]

Raise(ref) ==
    /\ ref \notin heater.active /\ used.changes < MaxChanges
    /\ used' = [used EXCEPT !.changes = @ + 1]
    /\ heater' = [heater EXCEPT !.active = @ \cup {ref}]
    /\ call' = [c \in Clients |-> [call[c] EXCEPT !.ever = @ \cup {ref}]]
    /\ UNCHANGED <<line, lock, texts, firstSeen, now, reported>>

Clear(ref) ==
    /\ ref \in heater.active /\ used.changes < MaxChanges
    /\ used' = [used EXCEPT !.changes = @ + 1]
    /\ heater' = [heater EXCEPT !.active = @ \ {ref}]
    /\ call' = [c \in Clients |-> [call[c] EXCEPT !.steady = @ \ {ref}]]
    /\ reported' = Keep(reported, KeysOf(heater.active \ {ref}))
    /\ UNCHANGED <<line, lock, texts, firstSeen, now>>

\* The text of the reference in the transfer register comes into the buffer.
Fill ==
    /\ heater.buffer # heater.transfer
    /\ heater' = [heater EXCEPT !.buffer = heater.transfer]
    /\ UNCHANGED <<line, lock, call, texts, firstSeen, now, used, reported>>

Tick ==
    /\ now < MaxTime /\ now' = now + 1
    /\ UNCHANGED <<heater, line, lock, call, texts, firstSeen, used, reported>>

-----------------------------------------------------------------------------
(* A request on its way through its operations. *)

\* Mutant: an error on the way keeps the lock.
ReleasedWhenWell(c) == IF lock = c /\ call[c].ok THEN Nothing ELSE lock

Released(c) == IF lock = c THEN Nothing ELSE lock

Sent(c, op, ref) == Append(line, [who |-> c, op |-> op, ref |-> ref])

\* Where the next operation of c goes: call k, after the line's head is served.
Sends(c, k, op, ref, rest) ==
    /\ call' = [call EXCEPT ![c] = [k EXCEPT !.pc = "waiting", !.op = op, !.ref = ref]]
    /\ line' = Append(rest, [who |-> c, op |-> op, ref |-> ref])
    /\ UNCHANGED lock

\* The messages that are looked at next without asking the heater.
Hits(todo, known) == {r \in todo : \A q \in todo : q <= r => q \in DOMAIN known}

Recorded(keys) ==
    [key \in DOMAIN firstSeen \cup keys |->
        IF key \in DOMAIN firstSeen THEN firstSeen[key] ELSE now]

\* Mutant: an incomplete look is enough.
CleanedAnyway(seen, k) == Keep(seen, KeysOf(k.shown))

\* cleanup_inactive_codes, when everything was read.
Cleaned(seen, k) == IF k.ok THEN Keep(seen, KeysOf(k.shown)) ELSE seen

NotesReport(refs) ==
    LET keys == KeysOf(refs) \cap KeysOf(heater.active)
    IN  reported' = [key \in DOMAIN reported \cup keys |->
                        IF key \in DOMAIN reported THEN reported[key] ELSE now]

\* What the client is told: the messages, and whether the answer is partial.
Answer(k) == [NoCall EXCEPT !.pc = "answered", !.shown = k.shown, !.ok = k.ok]

\* The texts that are in the cache go into the answer; the first that is not
\* is asked for, and without one the answer is given.
Proceeds(c, k, known, rest) ==
    LET hits == Hits(k.todo, known)
        left == k.todo \ hits
        next == [k EXCEPT !.todo = left, !.shown = @ \cup hits]
        seen == Recorded(KeysOf(hits))
    IN  /\ texts' = known
        /\ NotesReport(hits)
        /\ IF left # {}
           THEN firstSeen' = seen /\ Sends(c, next, "transfer", Min(left), rest)
           ELSE /\ firstSeen' = Cleaned(seen, next)
                /\ call' = [call EXCEPT ![c] = Answer(next)]
                /\ lock' = Released(c) /\ line' = rest

Quietly == UNCHANGED <<texts, firstSeen, reported>>

\* The count could not be read: an error is returned.
Refuses(c, rest) ==
    /\ call' = [call EXCEPT ![c] = [NoCall EXCEPT !.pc = "refused"]]
    /\ lock' = Released(c) /\ line' = rest /\ Quietly

ReadsInfos(c, k, rest) ==
    IF k.infos THEN Sends(c, k, "infoBits", Nothing, rest) /\ Quietly
    ELSE Proceeds(c, k, texts, rest)

\* Mutant: the reference of an info without its offset.
BareInfoRef(bit) == bit

InfoRef(bit) == InfoRefOffset + bit

\* What the answer to c's operation leads to.
Gets(c, rest) ==
    LET k      == call[c]
        alarms == heater.active \cap Alarms
        infos  == heater.active \cap Infos
    IN  CASE k.op = "count" ->
               LET asks == [k EXCEPT !.infos = infos # {}]
               IN  IF alarms # {} THEN Sends(c, asks, "alarmBits", Nothing, rest) /\ Quietly
                   ELSE ReadsInfos(c, asks, rest)
          [] k.op = "alarmBits" -> ReadsInfos(c, [k EXCEPT !.todo = alarms], rest)
          [] k.op = "infoBits" ->
               Proceeds(c, [k EXCEPT !.todo = @ \cup {InfoRef(r - InfoRefOffset) : r \in infos}],
                        texts, rest)
          [] k.op = "transfer" ->
               /\ call' = [call EXCEPT ![c].pc = "settling"]
               /\ line' = rest /\ UNCHANGED lock /\ Quietly
          [] k.op = "buffer" ->
               Proceeds(c, k, [r \in DOMAIN texts \cup {k.ref} |->
                                  IF r = k.ref THEN heater.buffer ELSE texts[r]], rest)

Missed(k) == [k EXCEPT !.ok = FALSE]

\* What an error, or no answer in time, leads to.
Misses(c, rest) ==
    LET k == call[c]
    IN  CASE k.op = "count" -> Refuses(c, rest)
          [] k.op = "alarmBits" -> ReadsInfos(c, Missed(k), rest)
          [] k.op = "infoBits" -> Proceeds(c, Missed(k), texts, rest)
          [] k.op \in {"transfer", "buffer"} ->
               Proceeds(c, Missed([k EXCEPT !.todo = @ \ {k.ref}]), texts, rest)

-----------------------------------------------------------------------------
(* The requests. *)

GetAlarms(c) ==
    /\ call[c].pc \in {"idle", "answered", "refused"} /\ used.calls < MaxCalls
    /\ used' = [used EXCEPT !.calls = @ + 1]
    /\ call' = [call EXCEPT ![c] = [NoCall EXCEPT !.pc = "locking",
                                                  !.steady = heater.active,
                                                  !.ever = heater.active]]
    /\ UNCHANGED <<heater, line, lock, texts, firstSeen, now, reported>>

\* Mutant: no lock.
FreeForAll(c) == TRUE

Free(c) == lock = Nothing

Locks(c) ==
    /\ call[c].pc = "locking" /\ Free(c)
    /\ lock' = c
    /\ call' = [call EXCEPT ![c].pc = "waiting"]
    /\ line' = Sent(c, "count", Nothing)
    /\ UNCHANGED <<heater, texts, firstSeen, now, used, reported>>

\* The 200 ms are enough for the heater.
Settled == heater.buffer = heater.transfer

Settles(c) ==
    /\ call[c].pc = "settling" /\ Settled
    /\ call' = [call EXCEPT ![c].pc = "waiting", ![c].op = "buffer"]
    /\ line' = Sent(c, "buffer", call[c].ref)
    /\ UNCHANGED <<heater, lock, texts, firstSeen, now, used, reported>>

\* c's operation is skipped, or goes on for nobody when it is under way.
Abandoned(c) ==
    LET mine == {i \in DOMAIN line : line[i].who = c}
    IN  IF mine = {} THEN {line}
        ELSE {RemoveAt(line, i) : i \in mine}
             \cup {[line EXCEPT ![i].who = Nothing] : i \in mine \cap {1}}

TimesOut(c) ==
    /\ call[c].pc = "waiting"
    /\ \E rest \in Abandoned(c) : Misses(c, rest)
    /\ UNCHANGED <<heater, now, used>>

HangsUp(c) ==
    /\ call[c].pc \in {"locking", "waiting", "settling"}
    /\ line' \in Abandoned(c)
    /\ lock' = Released(c)
    /\ call' = [call EXCEPT ![c] = NoCall]
    /\ UNCHANGED <<heater, texts, firstSeen, now, used, reported>>

-----------------------------------------------------------------------------
(* The line. *)

Reaches(q) ==
    heater' = IF q.op = "transfer" THEN [heater EXCEPT !.transfer = q.ref] ELSE heater

Serves ==
    /\ line # <<>>
    /\ Reaches(Head(line))
    /\ IF Head(line).who # Nothing THEN Gets(Head(line).who, Tail(line))
       ELSE line' = Tail(line) /\ UNCHANGED <<lock, call>> /\ Quietly
    /\ UNCHANGED <<now, used>>

Fails ==
    /\ line # <<>>
    /\ Reaches(Head(line)) \/ UNCHANGED heater
    /\ IF Head(line).who # Nothing THEN Misses(Head(line).who, Tail(line))
       ELSE line' = Tail(line) /\ UNCHANGED <<lock, call>> /\ Quietly
    /\ UNCHANGED <<now, used>>

Restart ==
    /\ used.starts < MaxStarts
    /\ used' = [used EXCEPT !.starts = @ + 1]
    /\ line' = <<>> /\ lock' = Nothing /\ call' = [c \in Clients |-> NoCall]
    /\ texts' = Empty /\ firstSeen' = Empty /\ reported' = Empty
    /\ UNCHANGED <<heater, now>>

Acts(c) == Locks(c) \/ Settles(c) \/ TimesOut(c)

Next ==
    \/ \E ref \in Refs : Raise(ref) \/ Clear(ref)
    \/ Fill \/ Tick
    \/ \E c \in Clients : GetAlarms(c) \/ Acts(c) \/ HangsUp(c)
    \/ Serves \/ Fails \/ Restart

\* The heater fills its buffer, a wait ends, the lock is handed on in turn.
Fairness == WF_vars(Fill) /\ \A c \in Clients : SF_vars(Acts(c))

Spec == Init /\ [][Next]_vars /\ Fairness

-----------------------------------------------------------------------------
(* Properties. *)

\* TextIsItsOwn: a text in the cache, where it stays for good, is the text of
\* its reference, whatever other requests, late writes, errors and hung up
\* clients did to the one transfer register and the one buffer.
TextIsItsOwn == \A r \in DOMAIN texts : texts[r] = r

Answers(c) == call[c].pc = "waiting" /\ call'[c].pc = "answered"

\* An answer that is not marked partial shows every message
\* that was active during the whole request, and none that never was.
CompleteMeansAll ==
    [][\A c \in Clients : Answers(c) =>
          /\ call'[c].ok => call[c].steady \subseteq call'[c].shown
          /\ call'[c].shown \subseteq call[c].ever]_vars

\* A message that is active without a break since it
\* was first reported keeps its first_seen, over failures, timeouts and requests
\* of others; and a complete answer leaves no first_seen of a message that was
\* not active while the request ran (cleanup_inactive_codes and the lock).
FirstSeenSurvives ==
    \A key \in DOMAIN reported :
        key \in DOMAIN firstSeen /\ firstSeen[key] <= reported[key]

FirstSeenFollowsReport ==
    [][/\ FirstSeenSurvives'
       /\ \A c \in Clients : Answers(c) /\ call'[c].ok
             => DOMAIN firstSeen' \subseteq KeysOf(call[c].ever)]_vars

\* ReportsAreTrue: what a client is told of the messages is so, whatever failed
\* and whoever asked in between.
ReportsAreTrue == CompleteMeansAll /\ FirstSeenFollowsReport

\* EveryRequestEnds: no request waits for the lock or the line for ever.
EveryRequestEnds ==
    \A c \in Clients :
        call[c].pc = "locking" ~> call[c].pc \in {"answered", "refused", "idle"}
=============================================================================
