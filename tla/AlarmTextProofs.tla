---------------------------- MODULE AlarmTextProofs ---------------------------
(***************************************************************************)
(* Proofs about AlarmText: a cached text is its own, and what a client is  *)
(* told of the messages is so, for any number of clients and messages, of  *)
(* changes, failures, hung up clients and restarts.                        *)
(*                                                                         *)
(* The argument goes in layers.  QueueInv is what the lock buys: the line  *)
(* holds at most one request somebody waits for, the last one, and it is   *)
(* the lock holder's; what is before it is the one nobody waits for.       *)
(* TextInv follows a reference from the transfer register to the buffer to *)
(* the cache.  LookInv is what a request has in hand of the messages that  *)
(* were active all the time and of the keys that were reported before.     *)
(***************************************************************************)
EXTENDS AlarmText, WellFoundedInduction, TLAPS

-----------------------------------------------------------------------------
(* The inductive invariant. *)

Busy(k) == k.pc \in {"waiting", "settling"}

\* The lock, the line and the requests fit together.
QueueInv ==
    /\ \A c \in Clients : Busy(call[c]) <=> lock = c
    /\ \A i \in DOMAIN line :
          IF line[i].who = Nothing THEN i = 1
          ELSE /\ i = Len(line) /\ lock = line[i].who
               /\ call[line[i].who].pc = "waiting"
               /\ call[line[i].who].op = line[i].op
               /\ call[line[i].who].ref = line[i].ref
    /\ \A c \in Clients : call[c].pc = "waiting" =>
          line # <<>> /\ line[Len(line)].who = c

\* The reference a request is about is the one the heater works on, from the
\* answer to the write until the answer to the read.
OnItsWay(k) ==
    /\ k.op \in {"transfer", "buffer"} => k.ref \in Refs
    /\ k.pc = "settling" =>
          k.op = "transfer" /\ line = <<>> /\ heater.transfer = k.ref
    /\ k.pc = "waiting" /\ k.op = "buffer" =>
          Len(line) = 1 /\ heater.transfer = k.ref /\ heater.buffer = k.ref

TextInv ==
    /\ TextIsItsOwn
    /\ \A c \in Clients : Busy(call[c]) => OnItsWay(call[c])

\* What request k has in hand of the messages S.
Covers(k, S) ==
    /\ k.steady \cap S \subseteq k.todo \cup k.shown
    /\ DOMAIN reported \cap KeysOf(S) \subseteq KeysOf(k.todo \cup k.shown)

\* There is nothing of the messages S to have in hand.
NoneOf(k, S) == k.steady \cap S = {} /\ DOMAIN reported \cap KeysOf(S) = {}

Looks(k) ==
    /\ k.todo \cup k.shown \subseteq k.ever
    /\ k.op = "alarmBits" /\ ~k.infos => NoneOf(k, Infos)
    /\ k.op = "infoBits" /\ k.ok => Covers(k, Alarms)
    /\ k.op \in {"transfer", "buffer"} /\ k.ok => Covers(k, Refs)

ActiveInv ==
    /\ DOMAIN reported \subseteq KeysOf(heater.active)
    /\ \A c \in Clients : call[c].pc = "locking" \/ Busy(call[c]) =>
          /\ call[c].steady \subseteq heater.active
          /\ heater.active \subseteq call[c].ever

SeenInv ==
    /\ FirstSeenSurvives
    /\ \A key \in DOMAIN firstSeen : firstSeen[key] <= now

\* A request that has not got the lock yet.
Fresh(k) == k.op = "count" /\ k.ref = Nothing /\ k.todo = {} /\ k.shown = {}

LookInv ==
    /\ ActiveInv /\ SeenInv
    /\ \A c \in Clients : call[c].pc = "locking" => Fresh(call[c])
    /\ \A c \in Clients : Busy(call[c]) => Looks(call[c])

AInv == TypeOK /\ QueueInv /\ TextInv /\ LookInv

-----------------------------------------------------------------------------
(* Helpers. *)

\* A set of natural numbers that is not empty has its minimum.
LEMMA MinIn ==
    ASSUME NEW T \in SUBSET Nat, T # {}
    PROVE  Min(T) \in T
<1> DEFINE R == OpToRel(<, Nat)
<1>1. IsWellFoundedOn(R, Nat)
    BY NatLessThanWellFounded
<1>2. \A x, y \in Nat : y < x => <<y, x>> \in R
    BY DEF OpToRel
<1> HIDE DEF R
<1>3. PICK x \in T : \A y \in T : ~ (<<y, x>> \in R)
    BY <1>1, WFMin
<1>4. \A y \in T : ~ (y < x)
    BY <1>2, <1>3
<1>5. \A y \in T : x <= y
    BY <1>4
<1> QED BY <1>3, <1>5 DEF Min

LEMMA RefsTyped == Refs \subseteq Nat /\ Nothing \notin Refs
    BY AlarmAssumption DEF Refs

\* A key tells an alarm from an info.
LEMMA KeysApart == KeysOf(Alarms) \cap KeysOf(Infos) = {}
<1>1. ASSUME NEW r \in Alarms, NEW q \in Infos
      PROVE  KeyOf(r) # KeyOf(q)
    <2>1. q \notin Alarms
        BY AlarmAssumption
    <2> QED BY <2>1 DEF KeyOf
<1> QED BY <1>1 DEF KeysOf

LEMMA InfoRefs ==
    ASSUME NEW S \in SUBSET Infos
    PROVE  {InfoRef(r - InfoRefOffset) : r \in S} = S
<1>1. \A r \in S : InfoRef(r - InfoRefOffset) = r
    BY AlarmAssumption DEF InfoRef
<1> QED BY <1>1

LEMMA HitsIn ==
    ASSUME NEW todo, NEW known
    PROVE  Hits(todo, known) \subseteq todo
    BY DEF Hits

\* What is left of the line when the request of a caller is taken off it.
Leftover(rest) ==
    /\ rest \in Seq(Requests)
    /\ \A i \in DOMAIN rest : i = 1 /\ rest[i].who = Nothing

\* The request that waits is the last one of at most two.
LEMMA LineShape ==
    ASSUME TypeOK, QueueInv, NEW c \in Clients, call[c].pc = "waiting"
    PROVE  /\ Len(line) \in {1, 2} /\ lock = c
           /\ line[Len(line)].who = c
           /\ Len(line) = 2 => line[1].who = Nothing
<1> DEFINE n == Len(line)
<1>1. line \in Seq(Requests) /\ n \in Nat /\ DOMAIN line = 1..n
    BY DEF TypeOK
<1>2. line # <<>> /\ line[Len(line)].who = c /\ lock = c
    BY DEF QueueInv, Busy
<1>3. n >= 1
    <2>1. n # 0
        BY <1>1, <1>2
    <2> HIDE DEF n
    <2> QED BY <1>1, <2>1
<1>4. c # Nothing
    BY AlarmAssumption
<1>5. ASSUME NEW i \in 1..n, i # n
      PROVE  i = 1 /\ line[i].who = Nothing
    <2>1. i \in DOMAIN line
        BY <1>1
    <2>2. i # Len(line)
        BY <1>5
    <2> QED BY <2>1, <2>2 DEF QueueInv
<1> HIDE DEF n
<1>6. ~ (n > 2)
    <2> SUFFICES ASSUME n > 2 PROVE FALSE
        OBVIOUS
    <2>1. 2 \in 1..n /\ 2 # n
        BY <1>1
    <2> QED BY <1>5, <2>1
<1>7. n = 2 => line[1].who = Nothing
    <2> SUFFICES ASSUME n = 2 PROVE line[1].who = Nothing
        OBVIOUS
    <2>1. 1 \in 1..n /\ 1 # n
        BY <1>1
    <2> QED BY <1>5, <2>1
<1>8. n \in {1, 2}
    BY <1>1, <1>3, <1>6
<1> QED BY <1>2, <1>7, <1>8 DEF n

LEMMA TakenOff ==
    ASSUME TypeOK, QueueInv, NEW c \in Clients, call[c].pc = "waiting",
           NEW rest \in Abandoned(c)
    PROVE  Leftover(rest)
<1> DEFINE mine == {i \in DOMAIN line : line[i].who = c}
<1>1. line \in Seq(Requests) /\ DOMAIN line = 1..Len(line)
    BY DEF TypeOK
<1>2. /\ Len(line) \in {1, 2} /\ line[Len(line)].who = c
      /\ Len(line) = 2 => line[1].who = Nothing
    BY LineShape
<1>3. c # Nothing
    BY AlarmAssumption
<1>4. mine = {Len(line)}
    BY <1>1, <1>2, <1>3
<1>5. \/ rest = RemoveAt(line, Len(line))
      \/ Len(line) = 1 /\ rest = [line EXCEPT ![1].who = Nothing]
    <2>1. mine # {}
        BY <1>4
    <2>2. rest \in {RemoveAt(line, i) : i \in mine}
                   \cup {[line EXCEPT ![i].who = Nothing] : i \in mine \cap {1}}
        BY <2>1 DEF Abandoned
    <2> HIDE DEF mine
    <2> QED BY <1>4, <2>2
<1>6. CASE rest = RemoveAt(line, Len(line)) /\ Len(line) = 1
    <2>1. SubSeq(line, 1, 0) = <<>> /\ SubSeq(line, 2, 1) = <<>>
        BY <1>1
    <2>2. rest = <<>>
        BY <1>6, <2>1 DEF RemoveAt
    <2> QED BY <2>2 DEF Leftover
<1>7. CASE rest = RemoveAt(line, Len(line)) /\ Len(line) = 2
    <2>1. SubSeq(line, 3, 2) = <<>>
        BY <1>1
    <2> DEFINE one == SubSeq(line, 1, 1)
    <2>2. one \in Seq(Requests) /\ Len(one) = 1 /\ one[1] = line[1]
        BY <1>1, <1>7
    <2>3. rest = one \o <<>>
        BY <1>7, <2>1 DEF RemoveAt
    <2> HIDE DEF one
    <2>4. rest = one
        BY <2>2, <2>3
    <2> QED BY <1>2, <1>7, <2>2, <2>4 DEF Leftover
<1>8. CASE Len(line) = 1 /\ rest = [line EXCEPT ![1].who = Nothing]
    <2>1. line[1] \in Requests
        BY <1>1, <1>8
    <2>2. [line[1] EXCEPT !.who = Nothing] \in Requests
        BY <2>1 DEF Requests
    <2>3. rest \in Seq(Requests) /\ DOMAIN rest = 1..1
          /\ rest[1] = [line[1] EXCEPT !.who = Nothing]
        BY <1>1, <1>8, <2>2
    <2>4. [line[1] EXCEPT !.who = Nothing].who = Nothing
        BY <2>1 DEF Requests
    <2>5. \A i \in 1..1 : i = 1
        OBVIOUS
    <2> QED BY <2>3, <2>4, <2>5 DEF Leftover
<1> QED BY <1>2, <1>5, <1>6, <1>7, <1>8

-----------------------------------------------------------------------------
(* What a request does in its turn. *)

Heaters == [active : SUBSET Refs, transfer : Refs \cup {Nothing},
            buffer : Refs \cup {Nothing}]

\* c's request has its turn: rest is left of the line without it.
Turn(c, rest) ==
    /\ c \in Clients /\ Busy(call[c])
    /\ Leftover(rest)
    /\ heater' \in Heaters /\ heater'.active = heater.active
    /\ now' = now /\ used' = used

\* What the invariant says of one request.
Sound(c) == Busy(call[c]) => OnItsWay(call[c]) /\ Looks(call[c])

\* Only the lock holder is under way.
LEMMA HolderAlone ==
    ASSUME QueueInv, NEW c \in Clients, Busy(call[c])
    PROVE  lock = c /\ \A d \in Clients \ {c} : ~Busy(call[d])
    BY DEF QueueInv

\* The layers about the texts and the messages follow from those of the one
\* request that has its turn.
LEMMA OneMoves ==
    ASSUME AInv, NEW c, NEW rest, Turn(c, rest),
           \A d \in Clients \ {c} : call'[d] = call[d],
           call'[c].pc # "locking",
           Busy(call'[c]) => /\ call'[c].steady = call[c].steady
                             /\ call'[c].ever = call[c].ever,
           Sound(c)',
           DOMAIN reported' \subseteq KeysOf(heater.active),
           SeenInv', TextIsItsOwn'
    PROVE  TextInv' /\ LookInv'
<1>1. c \in Clients /\ Busy(call[c])
    BY DEF Turn, Busy
<1>2. \A d \in Clients \ {c} : ~Busy(call[d])
    BY <1>1, HolderAlone DEF AInv
<1>3. \A d \in Clients \ {c} : ~Busy(call'[d])
    BY <1>2
<1>4. TextInv'
    BY <1>3 DEF TextInv, Sound, Busy
<1>5. heater'.active = heater.active
    BY DEF Turn
<1>6. /\ call[c].steady \subseteq heater.active
      /\ heater.active \subseteq call[c].ever
    BY <1>1 DEF AInv, LookInv, ActiveInv
<1>7. ActiveInv'
    BY <1>3, <1>5, <1>6 DEF AInv, LookInv, ActiveInv, Busy
<1>8. \A d \in Clients : call'[d].pc = "locking" => Fresh(call[d])'
    BY DEF AInv, LookInv, Fresh
<1>9. \A d \in Clients : Busy(call'[d]) => Looks(call[d])'
    BY <1>3 DEF Sound, Busy
<1> QED BY <1>4, <1>7, <1>8, <1>9 DEF LookInv, Busy

\* The request of the lock holder goes to the end of the line.
LEMMA LineGrows ==
    ASSUME NEW c \in Clients, NEW rest, Leftover(rest), NEW n \in Calls,
           n.pc = "waiting", call' \in [Clients -> Calls], call'[c] = n, lock' = c,
           \A d \in Clients \ {c} : ~Busy(call'[d]),
           line' = Append(rest, [who |-> c, op |-> n.op, ref |-> n.ref])
    PROVE  line' \in Seq(Requests) /\ QueueInv'
<1>1. PICK q \in Requests :
          /\ q = [who |-> c, op |-> n.op, ref |-> n.ref]
          /\ q.who = c /\ q.op = n.op /\ q.ref = n.ref
    BY DEF Requests, Calls
<1>2. line' = Append(rest, q)
    BY <1>1
<1>3. /\ rest \in Seq(Requests)
      /\ \A i \in DOMAIN rest : i = 1 /\ rest[i].who = Nothing
    BY DEF Leftover
<1> DEFINE m == Len(rest)
<1>4. /\ m \in Nat /\ DOMAIN rest = 1..m
      /\ line' \in Seq(Requests) /\ Len(line') = m + 1 /\ DOMAIN line' = 1..(m + 1)
      /\ line'[m + 1] = q
      /\ \A i \in 1..m : line'[i] = rest[i]
    BY <1>1, <1>2, <1>3
<1> HIDE DEF m
<1>5. \A i \in 1..(m + 1) : i = m + 1 \/ i \in 1..m
    BY <1>4
<1>6. \A i \in DOMAIN line' :
          \/ i = Len(line') /\ line'[i] = q
          \/ i = 1 /\ line'[i].who = Nothing
    BY <1>3, <1>4, <1>5
<1>7. c # Nothing /\ \A d \in Clients : Busy(call'[d]) <=> lock' = d
    BY AlarmAssumption DEF Busy
<1>8. \A i \in DOMAIN line' :
          IF line'[i].who = Nothing THEN i = 1
          ELSE /\ i = Len(line') /\ lock' = line'[i].who
               /\ call'[line'[i].who].pc = "waiting"
               /\ call'[line'[i].who].op = line'[i].op
               /\ call'[line'[i].who].ref = line'[i].ref
    BY <1>1, <1>6, <1>7
<1>9. line' # <<>> /\ line'[Len(line')].who = c
    <2>1. m + 1 # 0
        BY <1>4
    <2>2. line' # <<>>
        BY <1>4, <2>1
    <2> QED BY <1>1, <1>4, <2>2
<1>10. \A d \in Clients : call'[d].pc = "waiting" =>
          line' # <<>> /\ line'[Len(line')].who = d
    BY <1>9 DEF Busy
<1>11. QueueInv'
    BY <1>7, <1>8, <1>10 DEF QueueInv, Busy
<1> QED BY <1>4, <1>11

\* The next operation of a request that has its turn.
LEMMA SendsKeeps ==
    ASSUME AInv, NEW c, NEW rest, Turn(c, rest), NEW k \in Calls,
           NEW op \in Ops, NEW ref \in Refs \cup {Nothing},
           Sends(c, k, op, ref, rest)
    PROVE  /\ call' \in [Clients -> Calls] /\ line' \in Seq(Requests)
           /\ lock' \in Clients \cup {Nothing}
           /\ call'[c] = [k EXCEPT !.pc = "waiting", !.op = op, !.ref = ref]
           /\ \A d \in Clients \ {c} : call'[d] = call[d]
           /\ QueueInv'
<1>1. c \in Clients /\ Busy(call[c]) /\ call \in [Clients -> Calls]
    BY DEF Turn, AInv, TypeOK
<1>2. PICK n \in Calls : /\ n = [k EXCEPT !.pc = "waiting", !.op = op, !.ref = ref]
                         /\ n.pc = "waiting" /\ n.op = op /\ n.ref = ref
    <2> DEFINE m == [k EXCEPT !.pc = "waiting", !.op = op, !.ref = ref]
    <2>1. m \in Calls /\ m.pc = "waiting" /\ m.op = op /\ m.ref = ref
        BY DEF Calls
    <2> HIDE DEF m
    <2>2. \E n \in Calls : n = m /\ n.pc = "waiting" /\ n.op = op /\ n.ref = ref
        BY <2>1
    <2> QED BY <2>2 DEF m
<1>3. /\ call' = [call EXCEPT ![c] = n] /\ lock' = lock
      /\ line' = Append(rest, [who |-> c, op |-> n.op, ref |-> n.ref])
    BY <1>2 DEF Sends
<1>4. /\ call' \in [Clients -> Calls] /\ call'[c] = n
      /\ \A d \in Clients \ {c} : call'[d] = call[d]
    BY <1>1, <1>3
<1>5. lock = c /\ \A d \in Clients \ {c} : ~Busy(call'[d])
    BY <1>1, <1>4, HolderAlone DEF AInv
<1>6. Leftover(rest)
    BY DEF Turn
<1>7. line' \in Seq(Requests) /\ QueueInv'
    BY <1>1, <1>2, <1>3, <1>4, <1>5, <1>6, LineGrows
<1> QED BY <1>1, <1>2, <1>3, <1>4, <1>5, <1>7

\* A request comes to its end, or waits for the heater, when nobody else's
\* request is in the line.
LEMMA EndsKeeps ==
    ASSUME AInv, NEW c, NEW rest, Turn(c, rest), NEW n \in Calls, n.pc # "waiting",
           call' = [call EXCEPT ![c] = n], line' = rest,
           Busy(n) => lock' = c, ~Busy(n) => lock' = Nothing
    PROVE  /\ call' \in [Clients -> Calls] /\ line' \in Seq(Requests)
           /\ lock' \in Clients \cup {Nothing}
           /\ call'[c] = n
           /\ \A d \in Clients \ {c} : call'[d] = call[d]
           /\ QueueInv'
<1>1. c \in Clients /\ Busy(call[c]) /\ call \in [Clients -> Calls]
    BY DEF Turn, Busy, AInv, TypeOK
<1>2. /\ call' \in [Clients -> Calls] /\ call'[c] = n
      /\ \A d \in Clients \ {c} : call'[d] = call[d]
    BY <1>1
<1>3. lock = c /\ \A d \in Clients \ {c} : ~Busy(call'[d])
    BY <1>1, <1>2, HolderAlone DEF AInv
<1>4. /\ line' \in Seq(Requests)
      /\ \A i \in DOMAIN line' : i = 1 /\ line'[i].who = Nothing
    BY DEF Turn, Leftover
<1>5. c # Nothing /\ \A d \in Clients : d # Nothing
    BY <1>1, AlarmAssumption
<1>6. \A d \in Clients : Busy(call'[d]) <=> lock' = d
    BY <1>2, <1>3, <1>5
<1>7. \A d \in Clients : call'[d].pc # "waiting"
    BY <1>2, <1>3 DEF Busy
<1> QED BY <1>1, <1>2, <1>4, <1>6, <1>7 DEF QueueInv, Busy

-----------------------------------------------------------------------------
(* The outcomes of a turn. *)

\* What an answer tells is so.
Told ==
    \A c \in Clients : Answers(c) =>
        /\ call'[c].ok => call[c].steady \subseteq call'[c].shown
        /\ call'[c].shown \subseteq call[c].ever
        /\ call'[c].ok => DOMAIN firstSeen' \subseteq KeysOf(call[c].ever)

\* The call of a turn goes on with what it had of the messages.
Continues(c, k) ==
    /\ k \in Calls
    /\ k.steady = call[c].steady /\ k.ever = call[c].ever
    /\ k.todo \cup k.shown \subseteq k.ever

\* A bitmask is asked for.
LEMMA AsksBits ==
    ASSUME AInv, NEW c, NEW rest, Turn(c, rest), NEW k, Continues(c, k),
           NEW op \in {"alarmBits", "infoBits"},
           Sends(c, k, op, Nothing, rest), Quietly,
           op = "alarmBits" /\ ~k.infos => NoneOf(k, Infos),
           op = "infoBits" /\ k.ok => Covers(k, Alarms)
    PROVE  AInv' /\ Told
<1> DEFINE n == [k EXCEPT !.pc = "waiting", !.op = op, !.ref = Nothing]
<1>1. k \in Calls
    BY DEF Continues
<1>2. op \in Ops
    BY DEF Ops
<1>3. /\ call' \in [Clients -> Calls] /\ line' \in Seq(Requests)
      /\ lock' \in Clients \cup {Nothing}
      /\ call'[c] = n
      /\ \A d \in Clients \ {c} : call'[d] = call[d]
      /\ QueueInv'
    BY <1>1, <1>2, SendsKeeps
<1>4. /\ n.pc = "waiting" /\ n.op = op
      /\ n.todo = k.todo /\ n.shown = k.shown /\ n.ok = k.ok /\ n.infos = k.infos
      /\ n.steady = k.steady /\ n.ever = k.ever
    BY <1>1 DEF Calls
<1> HIDE DEF n
<1>5. texts' = texts /\ firstSeen' = firstSeen /\ reported' = reported
    BY DEF Quietly
<1>6. Sound(c)'
    <2>1. OnItsWay(call[c])'
        BY <1>3, <1>4 DEF OnItsWay
    <2>2. Looks(call[c])'
        BY <1>3, <1>4, <1>5 DEF Looks, Continues, NoneOf, Covers
    <2> QED BY <2>1, <2>2 DEF Sound
<1>7. SeenInv'
    BY <1>5 DEF AInv, LookInv, SeenInv, FirstSeenSurvives, Turn
<1>8. TextIsItsOwn'
    BY <1>5 DEF AInv, TextInv, TextIsItsOwn
<1>9. DOMAIN reported' \subseteq KeysOf(heater.active)
    BY <1>5 DEF AInv, LookInv, ActiveInv
<1>10. TextInv' /\ LookInv'
    BY <1>3, <1>4, <1>6, <1>7, <1>8, <1>9, OneMoves DEF Continues
<1>11. TypeOK'
    BY <1>3, <1>5 DEF AInv, TypeOK, Turn, Heaters
<1>12. Told
    BY <1>3, <1>4 DEF Told, Answers
<1> QED BY <1>3, <1>10, <1>11, <1>12 DEF AInv

\* The write was answered: the request waits for the heater, and the line is
\* empty.
Wrote(c, n, rest) ==
    /\ rest = <<>> /\ call[c].op = "transfer" /\ heater'.transfer = call[c].ref
    /\ n = [call[c] EXCEPT !.pc = "settling"]
    /\ lock' = lock

LEMMA WaitsForText ==
    ASSUME AInv, NEW c, NEW rest, Turn(c, rest), NEW n \in Calls,
           Wrote(c, n, rest), call' = [call EXCEPT ![c] = n], line' = rest, Quietly
    PROVE  AInv' /\ Told
<1>1. c \in Clients /\ call[c] \in Calls /\ Busy(call[c])
    BY DEF AInv, TypeOK, Turn, Busy
<1>2. /\ n.pc = "settling" /\ n.op = "transfer"
      /\ n.ref = call[c].ref /\ n.todo = call[c].todo /\ n.shown = call[c].shown
      /\ n.ok = call[c].ok /\ n.infos = call[c].infos
      /\ n.steady = call[c].steady /\ n.ever = call[c].ever
    BY <1>1 DEF Calls, Wrote
<1>4. /\ n.pc # "waiting"
      /\ Busy(n) => lock' = c
      /\ ~Busy(n) => lock' = Nothing
    BY <1>1, <1>2, HolderAlone DEF AInv, Busy, Wrote
<1>5. /\ call' \in [Clients -> Calls] /\ line' \in Seq(Requests)
      /\ lock' \in Clients \cup {Nothing}
      /\ call'[c] = n
      /\ \A d \in Clients \ {c} : call'[d] = call[d]
      /\ QueueInv'
    BY <1>2, <1>4, EndsKeeps
<1>6. texts' = texts /\ firstSeen' = firstSeen /\ reported' = reported
    BY DEF Quietly
<1>7. OnItsWay(call[c]) /\ Looks(call[c])
    BY <1>1 DEF AInv, TextInv, LookInv
<1>8. Sound(c)'
    <2>1. OnItsWay(call[c])'
        BY <1>2, <1>5, <1>7 DEF OnItsWay, Wrote
    <2>2. /\ call[c].todo \cup call[c].shown \subseteq call[c].ever
          /\ call[c].ok => Covers(call[c], Refs)
        BY <1>7 DEF Looks, Wrote
    <2>3. n.todo \cup n.shown \subseteq n.ever /\ (n.ok => Covers(n, Refs))
        BY <1>2, <2>2 DEF Covers
    <2>4. Looks(call[c])'
        BY <1>2, <1>5, <1>6, <2>3 DEF Looks, Covers
    <2> QED BY <2>1, <2>4 DEF Sound
<1>9. SeenInv'
    BY <1>6 DEF AInv, LookInv, SeenInv, FirstSeenSurvives, Turn
<1>10. TextIsItsOwn'
    BY <1>6 DEF AInv, TextInv, TextIsItsOwn
<1>11. DOMAIN reported' \subseteq KeysOf(heater.active)
    BY <1>6 DEF AInv, LookInv, ActiveInv
<1>12. TextInv' /\ LookInv'
    BY <1>2, <1>5, <1>8, <1>9, <1>10, <1>11, OneMoves
<1>13. TypeOK'
    BY <1>5, <1>6 DEF AInv, TypeOK, Turn, Heaters
<1>14. Told
    BY <1>2, <1>5 DEF Told, Answers
<1> QED BY <1>5, <1>12, <1>13, <1>14 DEF AInv

LEMMA NoCallTyped ==
    /\ NoCall \in Calls /\ NoCall.pc = "idle" /\ NoCall.op = "count"
    /\ NoCall.todo = {} /\ NoCall.shown = {} /\ NoCall.steady = {}
    BY DEF NoCall, Calls, Ops

\* The answer is an error: nothing was looked at.
LEMMA RefusesKeeps ==
    ASSUME AInv, NEW c, NEW rest, Turn(c, rest), Refuses(c, rest)
    PROVE  AInv' /\ Told
<1> DEFINE n == [NoCall EXCEPT !.pc = "refused"]
<1>1. n \in Calls /\ n.pc = "refused"
    BY NoCallTyped DEF Calls
<1>2. call' = [call EXCEPT ![c] = n] /\ line' = rest /\ lock' = Released(c) /\ Quietly
    BY DEF Refuses
<1> HIDE DEF n
<1>3. c \in Clients /\ Busy(call[c])
    BY DEF Turn, Busy
<1>4. /\ n.pc # "waiting"
      /\ Busy(n) => lock' = c
      /\ ~Busy(n) => lock' = Nothing
    BY <1>1, <1>2, <1>3, HolderAlone DEF AInv, Busy, Released
<1>5. /\ call' \in [Clients -> Calls] /\ line' \in Seq(Requests)
      /\ lock' \in Clients \cup {Nothing}
      /\ call'[c] = n
      /\ \A d \in Clients \ {c} : call'[d] = call[d]
      /\ QueueInv'
    BY <1>1, <1>2, <1>4, EndsKeeps
<1>6. texts' = texts /\ firstSeen' = firstSeen /\ reported' = reported
    BY <1>2 DEF Quietly
<1>7. Sound(c)'
    BY <1>1, <1>5 DEF Sound, Busy
<1>8. SeenInv'
    BY <1>6 DEF AInv, LookInv, SeenInv, FirstSeenSurvives, Turn
<1>9. TextIsItsOwn'
    BY <1>6 DEF AInv, TextInv, TextIsItsOwn
<1>10. DOMAIN reported' \subseteq KeysOf(heater.active)
    BY <1>6 DEF AInv, LookInv, ActiveInv
<1>11. TextInv' /\ LookInv'
    BY <1>1, <1>5, <1>7, <1>8, <1>9, <1>10, OneMoves DEF Busy
<1>12. TypeOK'
    BY <1>5, <1>6 DEF AInv, TypeOK, Turn, Heaters
<1>13. Told
    BY <1>1, <1>5 DEF Told, Answers
<1> QED BY <1>5, <1>11, <1>12, <1>13 DEF AInv

\* Texts that are their own.
Texts(known) ==
    /\ DOMAIN known \subseteq Refs /\ known \in [DOMAIN known -> Refs \cup {Nothing}]
    /\ \A r \in DOMAIN known : known[r] = r

LEMMA KeysTyped ==
    ASSUME NEW S \in SUBSET Refs
    PROVE  KeysOf(S) \subseteq Keys
    BY DEF KeysOf, Keys

\* What is written down of the messages that are shown.
LEMMA ReportKept ==
    ASSUME AInv, now' = now, NEW S \in SUBSET Refs, NotesReport(S)
    PROVE  /\ DOMAIN reported' = DOMAIN reported \cup (KeysOf(S) \cap KeysOf(heater.active))
           /\ DOMAIN reported' \subseteq KeysOf(heater.active)
           /\ DOMAIN reported' \subseteq Keys /\ reported' \in [DOMAIN reported' -> Nat]
           /\ DOMAIN Recorded(KeysOf(S)) = DOMAIN firstSeen \cup KeysOf(S)
           /\ DOMAIN Recorded(KeysOf(S)) \subseteq Keys
           /\ Recorded(KeysOf(S)) \in [DOMAIN Recorded(KeysOf(S)) -> Nat]
           /\ \A key \in DOMAIN Recorded(KeysOf(S)) : Recorded(KeysOf(S))[key] <= now
           /\ \A key \in DOMAIN reported' : /\ key \in DOMAIN Recorded(KeysOf(S))
                                            /\ Recorded(KeysOf(S))[key] <= reported'[key]
<1> DEFINE new == KeysOf(S) \cap KeysOf(heater.active)
           seen == Recorded(KeysOf(S))
<1>1. /\ reported' = [key \in DOMAIN reported \cup new |->
                         IF key \in DOMAIN reported THEN reported[key] ELSE now]
      /\ new \subseteq KeysOf(S) /\ new \subseteq KeysOf(heater.active)
    BY DEF NotesReport
<1>2. seen = [key \in DOMAIN firstSeen \cup KeysOf(S) |->
                 IF key \in DOMAIN firstSeen THEN firstSeen[key] ELSE now]
    BY DEF Recorded
<1>3. /\ now \in Nat
      /\ DOMAIN firstSeen \subseteq Keys /\ firstSeen \in [DOMAIN firstSeen -> Nat]
      /\ DOMAIN reported \subseteq Keys /\ reported \in [DOMAIN reported -> Nat]
    BY DEF AInv, TypeOK
<1>4. /\ \A key \in DOMAIN reported :
             key \in DOMAIN firstSeen /\ firstSeen[key] <= reported[key]
      /\ \A key \in DOMAIN firstSeen : firstSeen[key] <= now
      /\ DOMAIN reported \subseteq KeysOf(heater.active)
    BY DEF AInv, LookInv, SeenInv, FirstSeenSurvives, ActiveInv
<1>5. KeysOf(S) \subseteq Keys
    BY KeysTyped
<1> HIDE DEF new, seen
<1>6. /\ DOMAIN reported' = DOMAIN reported \cup new
      /\ DOMAIN seen = DOMAIN firstSeen \cup KeysOf(S)
    BY <1>1, <1>2
<1>7. reported' \in [DOMAIN reported' -> Nat]
    BY <1>1, <1>3
<1>8. seen \in [DOMAIN seen -> Nat]
    BY <1>2, <1>3
<1>9. \A key \in DOMAIN seen : seen[key] <= now
    <2> SUFFICES ASSUME NEW key \in DOMAIN seen PROVE seen[key] <= now
        OBVIOUS
    <2>1. CASE key \in DOMAIN firstSeen
        <3>1. seen[key] = firstSeen[key]
            BY <1>2, <2>1
        <3> QED BY <1>4, <2>1, <3>1
    <2>2. CASE key \notin DOMAIN firstSeen
        <3>1. seen[key] = now
            BY <1>2, <1>6, <2>2
        <3> QED BY <1>3, <3>1
    <2> QED BY <2>1, <2>2
<1>10. ASSUME NEW key \in DOMAIN reported'
       PROVE  key \in DOMAIN seen /\ seen[key] <= reported'[key]
    <2>1. CASE key \in DOMAIN reported
        <3>1. key \in DOMAIN firstSeen /\ firstSeen[key] <= reported[key]
            BY <1>4, <2>1
        <3>2. seen[key] = firstSeen[key] /\ reported'[key] = reported[key]
            BY <1>1, <1>2, <2>1, <3>1
        <3> QED BY <1>6, <3>1, <3>2
    <2>2. CASE key \notin DOMAIN reported
        <3>1. key \in KeysOf(S) /\ reported'[key] = now
            BY <1>1, <1>6, <1>10, <2>2
        <3> QED BY <1>6, <1>9, <3>1
    <2> QED BY <2>1, <2>2
<1>11. DOMAIN reported' \subseteq KeysOf(heater.active) /\ DOMAIN reported' \subseteq Keys
    BY <1>1, <1>3, <1>4, <1>5, <1>6
<1>12. DOMAIN seen \subseteq Keys
    BY <1>3, <1>5, <1>6
<1> QED BY <1>6, <1>7, <1>8, <1>9, <1>10, <1>11, <1>12 DEF new, seen

\* The request goes on to the next text or to its answer.
LEMMA ProceedsKeeps ==
    ASSUME AInv, NEW c, NEW rest, Turn(c, rest), NEW k, Continues(c, k),
           k.ok => Covers(k, Refs), NEW known, Texts(known),
           Proceeds(c, k, known, rest)
    PROVE  AInv' /\ Told
<1> DEFINE hits == Hits(k.todo, known)
           left == k.todo \ hits
           next == [k EXCEPT !.todo = left, !.shown = @ \cup hits]
           seen == Recorded(KeysOf(hits))
<1>1. hits \subseteq k.todo
    BY HitsIn
<1>2. /\ texts' = known
      /\ NotesReport(hits)
      /\ left # {} => firstSeen' = seen /\ Sends(c, next, "transfer", Min(left), rest)
      /\ left = {} => /\ firstSeen' = Cleaned(seen, next)
                      /\ call' = [call EXCEPT ![c] = Answer(next)]
                      /\ lock' = Released(c) /\ line' = rest
    BY DEF Proceeds
<1>3. k \in Calls /\ k.todo \subseteq Refs
    BY DEF Continues, Calls
<1> HIDE DEF hits
<1>4. /\ next \in Calls /\ next.todo = left /\ next.shown = k.shown \cup hits
      /\ next.ok = k.ok /\ next.steady = k.steady /\ next.ever = k.ever
      /\ next.infos = k.infos
    BY <1>1, <1>3 DEF Calls
<1>5. /\ now' = now /\ heater' \in Heaters /\ used' = used
      /\ c \in Clients /\ Busy(call[c])
    BY DEF Turn, Busy
<1>6. hits \in SUBSET Refs
    BY <1>1, <1>3
<1>7. /\ DOMAIN reported' = DOMAIN reported \cup (KeysOf(hits) \cap KeysOf(heater.active))
      /\ DOMAIN reported' \subseteq KeysOf(heater.active)
      /\ DOMAIN reported' \subseteq Keys /\ reported' \in [DOMAIN reported' -> Nat]
      /\ DOMAIN seen \subseteq Keys /\ seen \in [DOMAIN seen -> Nat]
      /\ \A key \in DOMAIN seen : seen[key] <= now
      /\ \A key \in DOMAIN reported' : key \in DOMAIN seen /\ seen[key] <= reported'[key]
    BY <1>2, <1>5, <1>6, ReportKept
<1> HIDE DEF seen
<1>8. left \cup (k.shown \cup hits) = k.todo \cup k.shown
    BY <1>1
<1>9. KeysOf(hits) \subseteq KeysOf(k.todo \cup k.shown)
    BY <1>1 DEF KeysOf
<1>10. k.ok => /\ k.steady \cap Refs \subseteq k.todo \cup k.shown
               /\ DOMAIN reported' \cap KeysOf(Refs) \subseteq KeysOf(k.todo \cup k.shown)
    BY <1>7, <1>9 DEF Covers
<1>11. next.todo \cup next.shown = k.todo \cup k.shown
    BY <1>4, <1>8
<1> HIDE DEF next
<1>12. /\ next.todo \cup next.shown \subseteq next.ever
       /\ next.ok => /\ next.steady \cap Refs \subseteq next.todo \cup next.shown
                     /\ DOMAIN reported' \cap KeysOf(Refs)
                            \subseteq KeysOf(next.todo \cup next.shown)
    BY <1>4, <1>10, <1>11 DEF Continues
<1>13. TextIsItsOwn'
    BY <1>2 DEF TextIsItsOwn, Texts
<1>14. CASE left # {}
    <2> DEFINE ref == Min(left)
               n == [next EXCEPT !.pc = "waiting", !.op = "transfer", !.ref = ref]
    <2>1. left \in SUBSET Nat
        BY <1>3, RefsTyped
    <2>2. ref \in left
        BY <1>14, <2>1, MinIn
    <2>3. ref \in Refs /\ firstSeen' = seen /\ Sends(c, next, "transfer", ref, rest)
        BY <1>2, <1>3, <1>14, <2>2
    <2> HIDE DEF ref, left
    <2>4. "transfer" \in Ops
        BY DEF Ops
    <2>5. /\ call' \in [Clients -> Calls] /\ line' \in Seq(Requests)
          /\ lock' \in Clients \cup {Nothing}
          /\ call'[c] = n
          /\ \A d \in Clients \ {c} : call'[d] = call[d]
          /\ QueueInv'
        BY <1>4, <2>3, <2>4, SendsKeeps
    <2>6. /\ n.pc = "waiting" /\ n.op = "transfer" /\ n.ref = ref
          /\ n.todo = next.todo /\ n.shown = next.shown /\ n.ok = next.ok
          /\ n.steady = next.steady /\ n.ever = next.ever
        BY <1>4 DEF Calls
    <2> HIDE DEF n
    <2>7. Sound(c)'
        <3>1. OnItsWay(call[c])'
            BY <2>3, <2>5, <2>6 DEF OnItsWay
        <3>2. n.todo \cup n.shown = next.todo \cup next.shown
            BY <2>6
        <3>3. /\ n.todo \cup n.shown \subseteq n.ever
              /\ n.ok => /\ n.steady \cap Refs \subseteq n.todo \cup n.shown
                         /\ DOMAIN reported' \cap KeysOf(Refs)
                                \subseteq KeysOf(n.todo \cup n.shown)
            BY <1>12, <2>6, <3>2
        <3>4. Looks(call[c])'
            BY <2>5, <2>6, <3>3 DEF Looks, Covers
        <3> QED BY <3>1, <3>4 DEF Sound
    <2>8. SeenInv'
        BY <1>5, <1>7, <2>3 DEF SeenInv, FirstSeenSurvives
    <2>9. TextInv' /\ LookInv'
        BY <1>4, <1>7, <1>13, <2>5, <2>6, <2>7, <2>8, OneMoves DEF Continues
    <2>10. TypeOK'
        BY <1>2, <1>5, <1>7, <2>3, <2>5 DEF AInv, TypeOK, Heaters, Texts
    <2>11. Told
        BY <2>5, <2>6 DEF Told, Answers
    <2> QED BY <2>5, <2>9, <2>10, <2>11 DEF AInv
<1>15. CASE left = {}
    <2> DEFINE n == Answer(next)
    <2>1. n \in Calls /\ n.pc = "answered" /\ n.shown = next.shown /\ n.ok = next.ok
        BY <1>4, NoCallTyped DEF Answer, Calls
    <2>2. /\ firstSeen' = Cleaned(seen, next)
          /\ call' = [call EXCEPT ![c] = n]
          /\ lock' = Released(c) /\ line' = rest
        BY <1>2, <1>15
    <2> HIDE DEF n, left
    <2>3. /\ n.pc # "waiting" /\ ~Busy(n) /\ lock' = Nothing
        BY <1>5, <2>1, <2>2, HolderAlone DEF AInv, Busy, Released
    <2>4. /\ call' \in [Clients -> Calls] /\ line' \in Seq(Requests)
          /\ lock' \in Clients \cup {Nothing}
          /\ call'[c] = n
          /\ \A d \in Clients \ {c} : call'[d] = call[d]
          /\ QueueInv'
        BY <2>1, <2>2, <2>3, EndsKeeps
    <2>5. Sound(c)'
        BY <2>3, <2>4 DEF Sound
    <2>6. next.ok => DOMAIN reported' \subseteq KeysOf(next.shown)
        <3> SUFFICES ASSUME next.ok PROVE DOMAIN reported' \subseteq KeysOf(next.shown)
            OBVIOUS
        <3>1. next.todo \cup next.shown = next.shown
            BY <1>4, <1>15
        <3>2. Keys = KeysOf(Refs)
            BY DEF Keys
        <3> QED BY <1>7, <1>12, <3>1, <3>2
    <2>7. /\ DOMAIN firstSeen' \subseteq DOMAIN seen
          /\ \A key \in DOMAIN firstSeen' : firstSeen'[key] = seen[key]
          /\ DOMAIN reported' \subseteq DOMAIN firstSeen'
          /\ firstSeen' \in [DOMAIN firstSeen' -> Nat]
        <3>1. CASE next.ok
            <4>1. firstSeen' = [x \in DOMAIN seen \cap KeysOf(next.shown) |-> seen[x]]
                BY <2>2, <3>1 DEF Cleaned, Keep
            <4>2. DOMAIN firstSeen' = DOMAIN seen \cap KeysOf(next.shown)
                BY <4>1
            <4>3. firstSeen' \in [DOMAIN firstSeen' -> Nat]
                BY <1>7, <4>1
            <4> QED BY <1>7, <2>6, <3>1, <4>1, <4>2, <4>3
        <3>2. CASE ~next.ok
            BY <1>7, <2>2, <3>2 DEF Cleaned
        <3> QED BY <3>1, <3>2
    <2>8. SeenInv'
        <3>1. FirstSeenSurvives'
            BY <1>7, <2>7 DEF FirstSeenSurvives
        <3> QED BY <1>5, <1>7, <2>7, <3>1 DEF SeenInv
    <2>9. TextInv' /\ LookInv'
        BY <1>7, <1>13, <2>1, <2>3, <2>4, <2>5, <2>8, OneMoves
    <2>10. TypeOK'
        BY <1>2, <1>5, <1>7, <2>4, <2>7 DEF AInv, TypeOK, Heaters, Texts
    <2>11. Told
        <3>1. next.ever = call[c].ever /\ next.steady = call[c].steady
              /\ next.steady \subseteq Refs
            BY <1>4 DEF Continues, Calls
        <3>2. next.todo = {}
            BY <1>4, <1>15
        <3>3. /\ next.shown \subseteq call[c].ever
              /\ next.ok => call[c].steady \subseteq next.shown
            BY <1>12, <3>1, <3>2
        <3>4. next.ok => DOMAIN firstSeen' \subseteq KeysOf(next.shown)
            BY <2>2 DEF Cleaned, Keep
        <3>5. KeysOf(next.shown) \subseteq KeysOf(call[c].ever)
            BY <3>3 DEF KeysOf
        <3>6. next.ok => DOMAIN firstSeen' \subseteq KeysOf(call[c].ever)
            BY <3>4, <3>5
        <3> QED BY <2>1, <2>4, <3>3, <3>6 DEF Told, Answers
    <2> QED BY <2>4, <2>9, <2>10, <2>11 DEF AInv
<1> QED BY <1>14, <1>15

\* A key that was reported is the key of a message that is active, and of the
\* kind that the key tells.
LEMMA ReportedOf ==
    ASSUME AInv, NEW S \in {Alarms, Infos}
    PROVE  DOMAIN reported \cap KeysOf(S) \subseteq KeysOf(heater.active \cap S)
<1>1. DOMAIN reported \subseteq KeysOf(heater.active) /\ heater.active \subseteq Refs
    BY DEF AInv, TypeOK, LookInv, ActiveInv
<1>2. SUFFICES ASSUME NEW key \in DOMAIN reported \cap KeysOf(S)
               PROVE  key \in KeysOf(heater.active \cap S)
    OBVIOUS
<1>3. PICK r \in heater.active : key = KeyOf(r)
    BY <1>1, <1>2 DEF KeysOf
<1>4. r \in Alarms \/ r \in Infos
    BY <1>1, <1>3 DEF Refs
<1>5. (r \in Alarms => key \in KeysOf(Alarms)) /\ (r \in Infos => key \in KeysOf(Infos))
    BY <1>3 DEF KeysOf
<1>6. r \in S
    BY <1>2, <1>4, <1>5, KeysApart
<1> QED BY <1>3, <1>6 DEF KeysOf

LEMMA KeysOfRefs == KeysOf(Refs) = KeysOf(Alarms) \cup KeysOf(Infos)
    BY DEF KeysOf, Refs

LEMMA TurnTyped ==
    ASSUME AInv, NEW c, NEW rest, Turn(c, rest)
    PROVE  /\ c \in Clients /\ call[c] \in Calls /\ Busy(call[c])
           /\ Continues(c, call[c]) /\ OnItsWay(call[c]) /\ Looks(call[c])
           /\ call[c].steady \subseteq heater.active
           /\ heater.active \subseteq call[c].ever
           /\ heater.active \subseteq Refs
           /\ Texts(texts)
<1>1. c \in Clients /\ call[c] \in Calls /\ Busy(call[c])
    BY DEF AInv, TypeOK, Turn
<1>2. OnItsWay(call[c]) /\ Looks(call[c])
    BY <1>1 DEF AInv, TextInv, LookInv
<1>3. Continues(c, call[c])
    BY <1>1, <1>2 DEF Continues, Looks
<1>4. Texts(texts)
    BY DEF AInv, TypeOK, TextInv, TextIsItsOwn, Texts
<1>5. heater.active \subseteq Refs
    BY DEF AInv, TypeOK
<1> QED BY <1>1, <1>2, <1>3, <1>4, <1>5 DEF AInv, LookInv, ActiveInv

\* The alarms are known, or there are none; the infos come next.
LEMMA ReadsInfosKeeps ==
    ASSUME AInv, NEW c, NEW rest, Turn(c, rest), NEW k, Continues(c, k),
           k.ok => Covers(k, Alarms), ~k.infos => NoneOf(k, Infos),
           ReadsInfos(c, k, rest)
    PROVE  AInv' /\ Told
<1>1. CASE k.infos
    <2>1. Sends(c, k, "infoBits", Nothing, rest) /\ Quietly
        BY <1>1 DEF ReadsInfos
    <2> QED BY <2>1, AsksBits
<1>2. CASE ~k.infos
    <2>1. Proceeds(c, k, texts, rest)
        BY <1>2 DEF ReadsInfos
    <2>2. k.ok => Covers(k, Refs)
        BY <1>2, KeysOfRefs DEF Covers, NoneOf, Refs
    <2> QED BY <2>1, <2>2, TurnTyped, ProceedsKeeps
<1>3. k.infos \in BOOLEAN
    BY DEF Continues, Calls
<1> QED BY <1>1, <1>2

\* The answer to any operation.
LEMMA GetsKeeps ==
    ASSUME AInv, NEW c, NEW rest, Turn(c, rest), call[c].pc = "waiting",
           Gets(c, rest),
           call[c].op = "transfer" => rest = <<>> /\ heater'.transfer = call[c].ref
    PROVE  AInv' /\ Told
<1> DEFINE alarms == heater.active \cap Alarms
           infos  == heater.active \cap Infos
<1>1. PICK k \in Calls : k = call[c]
    BY TurnTyped
<1>2. /\ k.steady \subseteq heater.active /\ heater.active \subseteq k.ever
      /\ Continues(c, k) /\ Looks(k) /\ OnItsWay(k) /\ k.pc = "waiting"
      /\ Texts(texts) /\ c \in Clients /\ heater.active \subseteq Refs
    BY <1>1, TurnTyped
<1>3. k.todo \cup k.shown \subseteq k.ever
    BY <1>2 DEF Looks
<1>4. alarms = {} => NoneOf(k, Alarms)
    <2> SUFFICES ASSUME alarms = {} PROVE NoneOf(k, Alarms)
        OBVIOUS
    <2>1. DOMAIN reported \cap KeysOf(Alarms) \subseteq KeysOf({})
        BY ReportedOf
    <2> QED BY <1>2, <2>1 DEF NoneOf, KeysOf
<1>5. infos = {} => NoneOf(k, Infos)
    <2> SUFFICES ASSUME infos = {} PROVE NoneOf(k, Infos)
        OBVIOUS
    <2>1. DOMAIN reported \cap KeysOf(Infos) \subseteq KeysOf({})
        BY ReportedOf
    <2> QED BY <1>2, <2>1 DEF NoneOf, KeysOf
<1>6. /\ DOMAIN reported \cap KeysOf(Alarms) \subseteq KeysOf(alarms)
      /\ DOMAIN reported \cap KeysOf(Infos) \subseteq KeysOf(infos)
    BY ReportedOf
<1>7. CASE k.op = "count"
    <2>1. PICK b \in BOOLEAN : b = (infos # {})
        OBVIOUS
    <2>2. PICK asks \in Calls : asks = [k EXCEPT !.infos = b]
        BY DEF Calls
    <2>3. /\ asks.infos = b /\ asks.todo = k.todo /\ asks.shown = k.shown
          /\ asks.steady = k.steady /\ asks.ever = k.ever /\ asks.ok = k.ok
        BY <2>2 DEF Calls
    <2>4. Continues(c, asks)
        BY <1>2, <2>3 DEF Continues
    <2>5. asks = [call[c] EXCEPT !.infos = (infos # {})]
        BY <1>1, <2>1, <2>2
    <2>6. ~asks.infos => NoneOf(asks, Infos)
        BY <1>5, <2>1, <2>3 DEF NoneOf
    <2>7. CASE alarms # {}
        <3>1. Sends(c, asks, "alarmBits", Nothing, rest) /\ Quietly
            BY <1>1, <1>7, <2>5, <2>7 DEF Gets
        <3> QED BY <2>4, <2>6, <3>1, AsksBits
    <2>8. CASE alarms = {}
        <3>1. ReadsInfos(c, asks, rest)
            BY <1>1, <1>7, <2>5, <2>8 DEF Gets
        <3>2. Covers(asks, Alarms)
            BY <1>4, <2>3, <2>8 DEF NoneOf, Covers
        <3> QED BY <2>4, <2>6, <3>1, <3>2, ReadsInfosKeeps
    <2> QED BY <2>7, <2>8
<1>8. CASE k.op = "alarmBits"
    <2>1. PICK asks \in Calls : asks = [k EXCEPT !.todo = alarms]
        BY <1>2 DEF Calls
    <2>2. /\ asks.infos = k.infos /\ asks.todo = alarms /\ asks.shown = k.shown
          /\ asks.steady = k.steady /\ asks.ever = k.ever /\ asks.ok = k.ok
        BY <2>1 DEF Calls
    <2>3. Continues(c, asks)
        BY <1>2, <1>3, <2>2 DEF Continues
    <2>4. ReadsInfos(c, asks, rest)
        BY <1>1, <1>8, <2>1 DEF Gets
    <2>5. ~asks.infos => NoneOf(asks, Infos)
        BY <1>2, <1>8, <2>2 DEF NoneOf, Looks
    <2>6. KeysOf(alarms) \subseteq KeysOf(asks.todo \cup asks.shown)
        BY <2>2 DEF KeysOf
    <2>7. Covers(asks, Alarms)
        BY <1>2, <1>6, <2>2, <2>6 DEF Covers
    <2> QED BY <2>3, <2>4, <2>5, <2>7, ReadsInfosKeeps
<1>9. CASE k.op = "infoBits"
    <2>1. PICK asks \in Calls : asks = [k EXCEPT !.todo = k.todo \cup infos]
        BY <1>2 DEF Calls
    <2>2. /\ asks.infos = k.infos /\ asks.todo = k.todo \cup infos /\ asks.shown = k.shown
          /\ asks.steady = k.steady /\ asks.ever = k.ever /\ asks.ok = k.ok
        BY <2>1 DEF Calls
    <2>3. Continues(c, asks)
        BY <1>2, <1>3, <2>2 DEF Continues
    <2>4. {InfoRef(r - InfoRefOffset) : r \in infos} = infos
        <3>1. infos \in SUBSET Infos
            OBVIOUS
        <3> HIDE DEF infos
        <3> QED BY <3>1, InfoRefs
    <2>5. asks = [k EXCEPT !.todo = @ \cup {InfoRef(r - InfoRefOffset) : r \in infos}]
        BY <2>1, <2>4
    <2>6. Proceeds(c, asks, texts, rest)
        BY <1>1, <1>9, <2>5 DEF Gets
    <2>7. asks.ok => Covers(asks, Refs)
        <3> SUFFICES ASSUME asks.ok PROVE Covers(asks, Refs)
            OBVIOUS
        <3>1. Covers(k, Alarms)
            BY <1>2, <1>9, <2>2 DEF Looks
        <3>2. /\ KeysOf(infos) \subseteq KeysOf(asks.todo \cup asks.shown)
              /\ KeysOf(k.todo \cup k.shown) \subseteq KeysOf(asks.todo \cup asks.shown)
            BY <2>2 DEF KeysOf
        <3>3. DOMAIN reported \cap KeysOf(Refs) \subseteq KeysOf(asks.todo \cup asks.shown)
            BY <1>6, <3>1, <3>2, KeysOfRefs DEF Covers
        <3>4. asks.steady \cap Refs \subseteq asks.todo \cup asks.shown
            BY <1>2, <2>2, <3>1 DEF Covers, Refs
        <3> QED BY <3>3, <3>4 DEF Covers
    <2> QED BY <1>2, <2>3, <2>6, <2>7, ProceedsKeeps
<1>10. CASE k.op = "transfer"
    <2>1. PICK n \in Calls : n = [k EXCEPT !.pc = "settling"]
        BY DEF Calls
    <2>2. call' = [call EXCEPT ![c] = n] /\ line' = rest /\ lock' = lock /\ Quietly
        BY <1>1, <1>10, <2>1 DEF Gets
    <2>3. Wrote(c, n, rest)
        BY <1>1, <1>10, <2>1, <2>2 DEF Wrote
    <2> QED BY <2>2, <2>3, WaitsForText
<1>11. CASE k.op = "buffer"
    <2>1. heater.buffer = k.ref /\ k.ref \in Refs
        BY <1>2, <1>11 DEF OnItsWay
    <2> DEFINE known == [r \in DOMAIN texts \cup {k.ref} |->
                            IF r = k.ref THEN heater.buffer ELSE texts[r]]
    <2>2. Proceeds(c, k, known, rest)
        BY <1>1, <1>11 DEF Gets
    <2>3. Texts(known)
        BY <1>2, <2>1 DEF Texts
    <2>4. k.ok => Covers(k, Refs)
        BY <1>2, <1>11 DEF Looks
    <2> HIDE DEF known
    <2> QED BY <1>2, <2>2, <2>3, <2>4, ProceedsKeeps
<1> QED BY <1>7, <1>8, <1>9, <1>10, <1>11 DEF Calls, Ops

\* An error, or no answer in time.
LEMMA MissesKeeps ==
    ASSUME AInv, NEW c, NEW rest, Turn(c, rest), Misses(c, rest)
    PROVE  AInv' /\ Told
<1>1. PICK k \in Calls : k = call[c]
    BY TurnTyped
<1>2. Continues(c, k) /\ Looks(k) /\ Texts(texts)
    BY <1>1, TurnTyped
<1>3. PICK m \in Calls : m = Missed(k)
    BY DEF Missed, Calls
<1>4. /\ ~m.ok /\ m.infos = k.infos /\ m.todo = k.todo /\ m.shown = k.shown
      /\ m.steady = k.steady /\ m.ever = k.ever
    BY <1>3 DEF Missed, Calls
<1>5. Continues(c, m)
    BY <1>2, <1>4 DEF Continues
<1>6. CASE k.op = "count"
    <2>1. Refuses(c, rest)
        BY <1>1, <1>6 DEF Misses
    <2> QED BY <2>1, RefusesKeeps
<1>7. CASE k.op = "alarmBits"
    <2>1. ReadsInfos(c, m, rest)
        BY <1>1, <1>3, <1>7 DEF Misses
    <2>2. ~m.infos => NoneOf(m, Infos)
        BY <1>2, <1>4, <1>7 DEF NoneOf, Looks
    <2> QED BY <1>4, <1>5, <2>1, <2>2, ReadsInfosKeeps
<1>8. CASE k.op = "infoBits"
    <2>1. Proceeds(c, m, texts, rest)
        BY <1>1, <1>3, <1>8 DEF Misses
    <2> QED BY <1>2, <1>4, <1>5, <2>1, ProceedsKeeps
<1>9. CASE k.op \in {"transfer", "buffer"}
    <2>1. PICK n \in Calls : n = Missed([k EXCEPT !.todo = @ \ {k.ref}])
        BY DEF Missed, Calls
    <2>2. /\ ~n.ok /\ n.todo = k.todo \ {k.ref} /\ n.shown = k.shown
          /\ n.steady = k.steady /\ n.ever = k.ever
        BY <2>1 DEF Missed, Calls
    <2>3. Continues(c, n)
        BY <1>2, <2>2 DEF Continues
    <2>4. Proceeds(c, n, texts, rest)
        BY <1>1, <1>9, <2>1 DEF Misses
    <2> QED BY <1>2, <2>2, <2>3, <2>4, ProceedsKeeps
<1> QED BY <1>6, <1>7, <1>8, <1>9 DEF Calls, Ops

-----------------------------------------------------------------------------
(* Every step keeps the invariant. *)

LEMMA InitSound == Init => AInv
<1> SUFFICES ASSUME Init PROVE AInv
    OBVIOUS
<1>1. /\ line = <<>> /\ lock = Nothing /\ now = 0
      /\ call = [c \in Clients |-> NoCall]
      /\ DOMAIN texts = {} /\ DOMAIN firstSeen = {} /\ DOMAIN reported = {}
    BY DEF Init, Empty
<1>2. \A c \in Clients : call[c] = NoCall /\ ~Busy(call[c]) /\ call[c].pc = "idle"
    BY <1>1, NoCallTyped DEF Busy
<1>3. call \in [Clients -> Calls]
    BY <1>1, NoCallTyped
<1>4. \A f, S : f = Empty => f \in [DOMAIN f -> S]
    BY DEF Empty
<1>5. TypeOK
    <2>1. line \in Seq(Requests) /\ heater \in Heaters
        BY <1>1 DEF Init, Heaters
    <2>2. used \in [calls : Nat, changes : Nat, starts : Nat] /\ now \in Nat
        BY DEF Init
    <2>3. /\ texts \in [DOMAIN texts -> Refs \cup {Nothing}]
          /\ firstSeen \in [DOMAIN firstSeen -> Nat]
          /\ reported \in [DOMAIN reported -> Nat]
        BY <1>4 DEF Init
    <2> QED BY <1>1, <1>3, <2>1, <2>2, <2>3 DEF TypeOK, Heaters
<1>6. QueueInv
    <2>1. \A c \in Clients : c # Nothing
        BY AlarmAssumption
    <2>2. DOMAIN line = {}
        BY <1>1
    <2>3. \A c \in Clients : Busy(call[c]) <=> lock = c
        BY <1>1, <1>2, <2>1
    <2> QED BY <1>2, <2>2, <2>3 DEF QueueInv
<1>7. TextInv
    BY <1>1, <1>2 DEF TextInv, TextIsItsOwn
<1>8. LookInv
    BY <1>1, <1>2 DEF LookInv, ActiveInv, SeenInv, FirstSeenSurvives
<1> QED BY <1>5, <1>6, <1>7, <1>8 DEF AInv

\* The line, the lock and the way of the texts are as they were.
LEMMA SameWay ==
    ASSUME AInv, line' = line, lock' = lock, texts' = texts,
           heater'.transfer = heater.transfer, heater'.buffer = heater.buffer,
           \A c \in Clients : /\ call'[c].pc = call[c].pc /\ call'[c].op = call[c].op
                              /\ call'[c].ref = call[c].ref
    PROVE  QueueInv' /\ TextInv'
<1>1. \A c \in Clients : Busy(call'[c]) <=> Busy(call[c])
    BY DEF Busy
<1>2. \A i \in DOMAIN line : line[i].who = Nothing \/ line[i].who \in Clients
    <2>1. line \in Seq(Requests)
        BY DEF AInv, TypeOK
    <2>2. \A i \in DOMAIN line : line[i] \in Requests
        BY <2>1
    <2> QED BY <2>2 DEF Requests
<1>3. QueueInv
    BY DEF AInv
<1>4. ASSUME NEW i \in DOMAIN line
      PROVE  IF line[i].who = Nothing THEN i = 1
             ELSE /\ i = Len(line) /\ lock = line[i].who
                  /\ call'[line[i].who].pc = "waiting"
                  /\ call'[line[i].who].op = line[i].op
                  /\ call'[line[i].who].ref = line[i].ref
    <2>1. CASE line[i].who = Nothing
        BY <1>3, <2>1 DEF QueueInv
    <2>2. CASE line[i].who # Nothing
        <3>1. PICK c \in Clients : c = line[i].who
            BY <1>2, <2>2
        <3>2. /\ i = Len(line) /\ lock = c /\ call[c].pc = "waiting"
              /\ call[c].op = line[i].op /\ call[c].ref = line[i].ref
            BY <1>3, <2>2, <3>1 DEF QueueInv
        <3>3. /\ call'[c].pc = "waiting" /\ call'[c].op = line[i].op
              /\ call'[c].ref = line[i].ref
            BY <3>2
        <3> QED BY <2>2, <3>1, <3>2, <3>3
    <2> QED BY <2>1, <2>2
<1>5. \A c \in Clients : Busy(call'[c]) <=> lock = c
    BY <1>1, <1>3 DEF QueueInv
<1>6. \A c \in Clients : call'[c].pc = "waiting" =>
          line # <<>> /\ line[Len(line)].who = c
    BY <1>3 DEF QueueInv
<1>7. QueueInv'
    BY <1>4, <1>5, <1>6 DEF QueueInv
<1>8. ASSUME NEW c \in Clients, Busy(call'[c])
      PROVE  OnItsWay(call[c])'
    <2>1. OnItsWay(call[c])
        BY <1>1, <1>8 DEF AInv, TextInv
    <2>2. Len(line') = Len(line)
        OBVIOUS
    <2> QED BY <2>1, <2>2 DEF OnItsWay
<1>9. TextInv'
    BY <1>8 DEF AInv, TextInv, TextIsItsOwn, Busy
<1> QED BY <1>7, <1>9

\* A step that leaves the line, the lock, the caches and every request's
\* progress alone.
LEMMA RaiseKeeps ==
    ASSUME AInv, NEW ref \in Refs, Raise(ref)
    PROVE  AInv'
<1>1. /\ heater' = [heater EXCEPT !.active = @ \cup {ref}]
      /\ call' = [c \in Clients |-> [call[c] EXCEPT !.ever = @ \cup {ref}]]
      /\ used' = [used EXCEPT !.changes = @ + 1]
      /\ UNCHANGED <<line, lock, texts, firstSeen, now, reported>>
    BY DEF Raise
<1>2. call \in [Clients -> Calls] /\ heater \in Heaters
    BY DEF AInv, TypeOK, Heaters
<1>3. \A c \in Clients :
          /\ call'[c] \in Calls
          /\ call'[c].pc = call[c].pc /\ call'[c].op = call[c].op
          /\ call'[c].ref = call[c].ref /\ call'[c].infos = call[c].infos
          /\ call'[c].todo = call[c].todo /\ call'[c].shown = call[c].shown
          /\ call'[c].ok = call[c].ok /\ call'[c].steady = call[c].steady
          /\ call'[c].ever = call[c].ever \cup {ref}
    BY <1>1, <1>2 DEF Calls
<1>4. /\ heater' \in Heaters /\ heater'.active = heater.active \cup {ref}
      /\ heater'.transfer = heater.transfer /\ heater'.buffer = heater.buffer
    BY <1>1, <1>2 DEF Heaters
<1>5. TypeOK'
    <2>1. call' \in [Clients -> Calls]
        BY <1>1, <1>3
    <2>2. used' \in [calls : Nat, changes : Nat, starts : Nat]
        BY <1>1 DEF AInv, TypeOK
    <2> QED BY <1>1, <1>4, <2>1, <2>2 DEF AInv, TypeOK, Heaters
<1>6. \A c \in Clients : Busy(call'[c]) <=> Busy(call[c])
    BY <1>3 DEF Busy
<1>7. QueueInv' /\ TextInv'
    BY <1>1, <1>3, <1>4, SameWay
<1>8. ActiveInv'
    <2>1. KeysOf(heater.active) \subseteq KeysOf(heater'.active)
        BY <1>4 DEF KeysOf
    <2>2. DOMAIN reported' \subseteq KeysOf(heater'.active)
        BY <1>1, <2>1 DEF AInv, LookInv, ActiveInv
    <2> QED BY <1>3, <1>4, <1>6, <2>2 DEF AInv, LookInv, ActiveInv
<1>9. SeenInv'
    BY <1>1 DEF AInv, LookInv, SeenInv, FirstSeenSurvives
<1>10. \A c \in Clients : Busy(call'[c]) => Looks(call[c])'
    <2> SUFFICES ASSUME NEW c \in Clients, Busy(call'[c]) PROVE Looks(call[c])'
        OBVIOUS
    <2>1. Looks(call[c])
        BY <1>6 DEF AInv, LookInv
    <2>2. call'[c].todo \cup call'[c].shown = call[c].todo \cup call[c].shown
        BY <1>3
    <2> QED BY <1>1, <1>3, <2>1, <2>2 DEF Looks, NoneOf, Covers
<1>11. \A c \in Clients : call'[c].pc = "locking" => Fresh(call[c])'
    BY <1>3 DEF AInv, LookInv, Fresh
<1> QED BY <1>5, <1>7, <1>8, <1>9, <1>10, <1>11 DEF AInv, LookInv, Busy

LEMMA ClearKeeps ==
    ASSUME AInv, NEW ref \in Refs, Clear(ref)
    PROVE  AInv'
<1>1. /\ heater' = [heater EXCEPT !.active = @ \ {ref}]
      /\ call' = [c \in Clients |-> [call[c] EXCEPT !.steady = @ \ {ref}]]
      /\ used' = [used EXCEPT !.changes = @ + 1]
      /\ reported' = Keep(reported, KeysOf(heater.active \ {ref}))
      /\ UNCHANGED <<line, lock, texts, firstSeen, now>>
    BY DEF Clear
<1>2. call \in [Clients -> Calls] /\ heater \in Heaters
    BY DEF AInv, TypeOK, Heaters
<1>3. \A c \in Clients :
          /\ call'[c] \in Calls
          /\ call'[c].pc = call[c].pc /\ call'[c].op = call[c].op
          /\ call'[c].ref = call[c].ref /\ call'[c].infos = call[c].infos
          /\ call'[c].todo = call[c].todo /\ call'[c].shown = call[c].shown
          /\ call'[c].ok = call[c].ok /\ call'[c].ever = call[c].ever
          /\ call'[c].steady = call[c].steady \ {ref}
    BY <1>1, <1>2 DEF Calls
<1>4. /\ heater' \in Heaters /\ heater'.active = heater.active \ {ref}
      /\ heater'.transfer = heater.transfer /\ heater'.buffer = heater.buffer
    BY <1>1, <1>2 DEF Heaters
<1>5. /\ DOMAIN reported' = DOMAIN reported \cap KeysOf(heater'.active)
      /\ \A key \in DOMAIN reported' : reported'[key] = reported[key]
    BY <1>1, <1>4 DEF Keep
<1>6. TypeOK'
    <2>1. call' \in [Clients -> Calls]
        BY <1>1, <1>3
    <2>2. used' \in [calls : Nat, changes : Nat, starts : Nat]
        BY <1>1 DEF AInv, TypeOK
    <2>3. DOMAIN reported \subseteq Keys /\ reported \in [DOMAIN reported -> Nat]
        BY DEF AInv, TypeOK
    <2>4. reported' \in [DOMAIN reported' -> Nat]
        BY <1>1, <2>3 DEF Keep
    <2> QED BY <1>1, <1>4, <1>5, <2>1, <2>2, <2>3, <2>4 DEF AInv, TypeOK, Heaters
<1>7. \A c \in Clients : Busy(call'[c]) <=> Busy(call[c])
    BY <1>3 DEF Busy
<1>8. QueueInv' /\ TextInv'
    BY <1>1, <1>3, <1>4, SameWay
<1>9. ActiveInv'
    BY <1>3, <1>4, <1>5, <1>7 DEF AInv, LookInv, ActiveInv
<1>10. SeenInv'
    BY <1>1, <1>5 DEF AInv, LookInv, SeenInv, FirstSeenSurvives
<1>11. \A c \in Clients : Busy(call'[c]) => Looks(call[c])'
    <2> SUFFICES ASSUME NEW c \in Clients, Busy(call'[c]) PROVE Looks(call[c])'
        OBVIOUS
    <2>1. Looks(call[c])
        BY <1>7 DEF AInv, LookInv
    <2>2. call'[c].todo \cup call'[c].shown = call[c].todo \cup call[c].shown
        BY <1>3
    <2>3. call'[c].steady \subseteq call[c].steady /\ DOMAIN reported' \subseteq DOMAIN reported
        BY <1>3, <1>5
    <2> QED BY <1>3, <2>1, <2>2, <2>3 DEF Looks, NoneOf, Covers
<1>12. \A c \in Clients : call'[c].pc = "locking" => Fresh(call[c])'
    BY <1>3 DEF AInv, LookInv, Fresh
<1> QED BY <1>6, <1>8, <1>9, <1>10, <1>11, <1>12 DEF AInv, LookInv, Busy

\* A request that is not under way, before the step and after it, disturbs no
\* other.
LEMMA AsideKeeps ==
    ASSUME AInv, NEW c \in Clients, ~Busy(call[c]), NEW n \in Calls, ~Busy(n),
           call' = [call EXCEPT ![c] = n],
           n.pc = "locking" => /\ Fresh(n) /\ n.steady \subseteq heater.active
                               /\ heater.active \subseteq n.ever,
           used' \in [calls : Nat, changes : Nat, starts : Nat],
           UNCHANGED <<heater, line, lock, texts, firstSeen, now, reported>>
    PROVE  AInv'
<1>1. call \in [Clients -> Calls]
    BY DEF AInv, TypeOK
<1>2. /\ call' \in [Clients -> Calls] /\ call'[c] = n
      /\ \A d \in Clients \ {c} : call'[d] = call[d]
    BY <1>1
<1>3. \A d \in Clients : Busy(call'[d]) <=> Busy(call[d])
    BY <1>2
<1>4. \A d \in Clients : Busy(call[d]) => call'[d] = call[d]
    BY <1>2
<1>5. \A i \in DOMAIN line : line[i].who = Nothing \/ line[i].who \in Clients
    <2>1. line \in Seq(Requests)
        BY DEF AInv, TypeOK
    <2>2. \A i \in DOMAIN line : line[i] \in Requests
        BY <2>1
    <2> QED BY <2>2 DEF Requests
<1>6. QueueInv
    BY DEF AInv
<1>7. ASSUME NEW i \in DOMAIN line, line[i].who # Nothing
      PROVE  call'[line[i].who] = call[line[i].who]
    <2>1. PICK d \in Clients : d = line[i].who
        BY <1>5, <1>7
    <2>2. call[d].pc = "waiting"
        BY <1>6, <1>7, <2>1 DEF QueueInv
    <2> QED BY <1>4, <2>1, <2>2 DEF Busy
<1>8. QueueInv'
    <2>1. \A d \in Clients : Busy(call'[d]) <=> lock = d
        BY <1>3, <1>6 DEF QueueInv
    <2>2. \A d \in Clients : call'[d].pc = "waiting" => line # <<>> /\ line[Len(line)].who = d
        BY <1>3, <1>4, <1>6 DEF QueueInv, Busy
    <2>3. ASSUME NEW i \in DOMAIN line
          PROVE  IF line[i].who = Nothing THEN i = 1
                 ELSE /\ i = Len(line) /\ lock = line[i].who
                      /\ call'[line[i].who].pc = "waiting"
                      /\ call'[line[i].who].op = line[i].op
                      /\ call'[line[i].who].ref = line[i].ref
        <3>1. CASE line[i].who = Nothing
            BY <1>6, <3>1 DEF QueueInv
        <3>2. CASE line[i].who # Nothing
            <4>1. call'[line[i].who] = call[line[i].who]
                BY <1>7, <3>2
            <4> QED BY <1>6, <3>2, <4>1 DEF QueueInv
        <3> QED BY <3>1, <3>2
    <2> QED BY <2>1, <2>2, <2>3 DEF QueueInv
<1>9. TextInv'
    <2>1. ASSUME NEW d \in Clients, Busy(call'[d]) PROVE OnItsWay(call[d])'
        <3>1. call'[d] = call[d] /\ OnItsWay(call[d])
            BY <1>3, <1>4, <2>1 DEF AInv, TextInv
        <3> QED BY <3>1 DEF OnItsWay
    <2> QED BY <2>1 DEF AInv, TextInv, TextIsItsOwn, Busy
<1>10. LookInv'
    <2>1. ASSUME NEW d \in Clients, Busy(call'[d]) PROVE Looks(call[d])'
        <3>1. call'[d] = call[d] /\ Looks(call[d])
            BY <1>3, <1>4, <2>1 DEF AInv, LookInv
        <3> QED BY <3>1 DEF Looks, Covers, NoneOf
    <2>2. ActiveInv'
        BY <1>2, <1>3 DEF AInv, LookInv, ActiveInv, Busy
    <2>3. SeenInv'
        BY DEF AInv, LookInv, SeenInv, FirstSeenSurvives
    <2>4. \A d \in Clients : call'[d].pc = "locking" => Fresh(call[d])'
        BY <1>2 DEF AInv, LookInv, Fresh
    <2> QED BY <2>1, <2>2, <2>3, <2>4 DEF LookInv, Busy
<1>11. TypeOK'
    BY <1>2 DEF AInv, TypeOK
<1> QED BY <1>8, <1>9, <1>10, <1>11 DEF AInv

LEMMA GetAlarmsKeeps ==
    ASSUME AInv, NEW c \in Clients, GetAlarms(c)
    PROVE  AInv'
<1>1. heater.active \in SUBSET Refs
    BY DEF AInv, TypeOK
<1>2. PICK n \in Calls :
          /\ n = [NoCall EXCEPT !.pc = "locking", !.steady = heater.active,
                                !.ever = heater.active]
          /\ n.pc = "locking" /\ Fresh(n)
          /\ n.steady = heater.active /\ n.ever = heater.active
    <2> DEFINE m == [NoCall EXCEPT !.pc = "locking", !.steady = heater.active,
                                   !.ever = heater.active]
    <2>1. /\ m \in Calls /\ m.pc = "locking" /\ Fresh(m)
          /\ m.steady = heater.active /\ m.ever = heater.active
        BY <1>1 DEF NoCall, Calls, Ops, Fresh
    <2> HIDE DEF m
    <2>2. \E n \in Calls : /\ n = m /\ n.pc = "locking" /\ Fresh(n)
                           /\ n.steady = heater.active /\ n.ever = heater.active
        BY <2>1
    <2> QED BY <2>2 DEF m
<1>3. /\ call' = [call EXCEPT ![c] = n]
      /\ used' = [used EXCEPT !.calls = @ + 1]
      /\ UNCHANGED <<heater, line, lock, texts, firstSeen, now, reported>>
      /\ ~Busy(call[c])
    BY <1>2 DEF GetAlarms, Busy
<1>4. used' \in [calls : Nat, changes : Nat, starts : Nat]
    BY <1>3 DEF AInv, TypeOK
<1>5. ~Busy(n)
    BY <1>2 DEF Busy
<1> QED BY <1>2, <1>3, <1>4, <1>5, AsideKeeps

LEMMA LocksKeeps ==
    ASSUME AInv, NEW c \in Clients, Locks(c)
    PROVE  AInv'
<1>1. /\ call[c].pc = "locking" /\ lock = Nothing /\ call[c] \in Calls
      /\ call \in [Clients -> Calls]
    BY DEF AInv, TypeOK, Locks, Free
<1>2. /\ Fresh(call[c]) /\ call[c].steady \subseteq heater.active
      /\ heater.active \subseteq call[c].ever
    BY <1>1 DEF AInv, LookInv, ActiveInv
<1>3. PICK n \in Calls : n = [call[c] EXCEPT !.pc = "waiting"]
    BY <1>1 DEF Calls
<1>4. /\ n.pc = "waiting" /\ n.op = "count" /\ n.ref = Nothing
      /\ n.todo = {} /\ n.shown = {}
      /\ n.steady = call[c].steady /\ n.ever = call[c].ever
    BY <1>1, <1>2, <1>3 DEF Calls, Fresh
<1>5. /\ lock' = c /\ call' = [call EXCEPT ![c] = n]
      /\ line' = Append(line, [who |-> c, op |-> n.op, ref |-> n.ref])
      /\ UNCHANGED <<heater, texts, firstSeen, now, used, reported>>
    BY <1>3, <1>4 DEF Locks, Sent
<1>6. /\ call' \in [Clients -> Calls] /\ call'[c] = n
      /\ \A d \in Clients \ {c} : call'[d] = call[d]
    BY <1>1, <1>5
<1>7. \A d \in Clients : ~Busy(call[d])
    BY <1>1, AlarmAssumption DEF AInv, QueueInv
<1>8. Leftover(line)
    <2>1. line \in Seq(Requests) /\ QueueInv
        BY DEF AInv, TypeOK
    <2>2. \A i \in DOMAIN line : line[i] \in Requests
        BY <2>1
    <2>3. \A i \in DOMAIN line : line[i].who = Nothing \/ line[i].who \in Clients
        BY <2>2 DEF Requests
    <2>4. \A i \in DOMAIN line : i = 1 /\ line[i].who = Nothing
        BY <1>1, <2>1, <2>3 DEF QueueInv
    <2> QED BY <2>1, <2>4 DEF Leftover
<1>9. \A d \in Clients \ {c} : ~Busy(call'[d])
    BY <1>6, <1>7
<1>10. line' \in Seq(Requests) /\ QueueInv'
    BY <1>4, <1>5, <1>6, <1>8, <1>9, LineGrows
<1>11. TextInv'
    <2>1. OnItsWay(call[c])'
        BY <1>4, <1>6 DEF OnItsWay
    <2> QED BY <1>5, <1>9, <2>1 DEF AInv, TextInv, TextIsItsOwn, Busy
<1>12. LookInv'
    <2>1. Looks(call[c])'
        BY <1>4, <1>6 DEF Looks
    <2>2. ActiveInv'
        BY <1>2, <1>4, <1>5, <1>6, <1>9 DEF AInv, LookInv, ActiveInv, Busy
    <2>3. SeenInv'
        BY <1>5 DEF AInv, LookInv, SeenInv, FirstSeenSurvives
    <2>4. \A d \in Clients : call'[d].pc = "locking" => Fresh(call[d])'
        BY <1>4, <1>6 DEF AInv, LookInv, Fresh
    <2> QED BY <1>9, <2>1, <2>2, <2>3, <2>4 DEF LookInv, Busy
<1>13. TypeOK'
    BY <1>5, <1>6, <1>10 DEF AInv, TypeOK
<1> QED BY <1>10, <1>11, <1>12, <1>13 DEF AInv

\* The read of the text is sent when the buffer holds it.
LEMMA SettlesKeeps ==
    ASSUME AInv, NEW c \in Clients, Settles(c)
    PROVE  AInv'
<1>1. PICK k \in Calls : k = call[c]
    BY DEF AInv, TypeOK
<1>2. k.pc = "settling" /\ heater.buffer = heater.transfer /\ call \in [Clients -> Calls]
    BY <1>1 DEF Settles, Settled, AInv, TypeOK
<1>3. Busy(call[c])
    BY <1>1, <1>2 DEF Busy
<1>4. OnItsWay(k) /\ Looks(k)
    BY <1>1, <1>3 DEF AInv, TextInv, LookInv
<1>5. k.op = "transfer" /\ line = <<>> /\ heater.transfer = k.ref /\ k.ref \in Refs
    BY <1>2, <1>4 DEF OnItsWay
<1>6. Leftover(line)
    BY <1>5 DEF Leftover, AInv, TypeOK
<1>7. UNCHANGED <<heater, lock, texts, firstSeen, now, used, reported>>
    BY DEF Settles
<1>8. Turn(c, line)
    BY <1>3, <1>6, <1>7 DEF Turn, AInv, TypeOK, Heaters
<1>9. Sends(c, k, "buffer", k.ref, line)
    <2>1. PICK n \in Calls : n = [k EXCEPT !.pc = "waiting", !.op = "buffer"]
        BY DEF Calls, Ops
    <2>2. n = [k EXCEPT !.pc = "waiting", !.op = "buffer", !.ref = k.ref]
        BY <2>1 DEF Calls
    <2>3. call' = [call EXCEPT ![c].pc = "waiting", ![c].op = "buffer"]
        BY DEF Settles
    <2>4. call' = [call EXCEPT ![c] = n]
        BY <1>1, <1>2, <2>1, <2>3
    <2>5. line' = Append(line, [who |-> c, op |-> "buffer", ref |-> k.ref])
        BY <1>1 DEF Settles, Sent
    <2> QED BY <1>7, <2>2, <2>4, <2>5 DEF Sends
<1> DEFINE n == [k EXCEPT !.pc = "waiting", !.op = "buffer", !.ref = k.ref]
<1>10. "buffer" \in Ops
    BY DEF Ops
<1>11. /\ call' \in [Clients -> Calls] /\ line' \in Seq(Requests)
       /\ lock' \in Clients \cup {Nothing}
       /\ call'[c] = n
       /\ \A d \in Clients \ {c} : call'[d] = call[d]
       /\ QueueInv'
    BY <1>5, <1>8, <1>9, <1>10, SendsKeeps
<1>12. /\ n.pc = "waiting" /\ n.op = "buffer" /\ n.ref = k.ref
       /\ n.todo = k.todo /\ n.shown = k.shown /\ n.ok = k.ok
       /\ n.steady = k.steady /\ n.ever = k.ever
    BY DEF Calls
<1> HIDE DEF n
<1>13. Sound(c)'
    <2>1. Len(line') = 1
        <3>1. PICK q : line' = Append(line, q)
            BY DEF Settles, Sent
        <3> QED BY <1>5, <3>1
    <2>2. OnItsWay(call[c])'
        BY <1>2, <1>5, <1>7, <1>11, <1>12, <2>1 DEF OnItsWay
    <2>3. /\ k.todo \cup k.shown \subseteq k.ever
          /\ k.ok => Covers(k, Refs)
        BY <1>4, <1>5 DEF Looks
    <2>4. n.todo \cup n.shown \subseteq n.ever /\ (n.ok => Covers(n, Refs))
        BY <1>12, <2>3 DEF Covers
    <2>5. Looks(call[c])'
        BY <1>7, <1>11, <1>12, <2>4 DEF Looks, Covers
    <2> QED BY <2>2, <2>5 DEF Sound
<1>14. SeenInv'
    BY <1>7 DEF AInv, LookInv, SeenInv, FirstSeenSurvives
<1>15. TextIsItsOwn'
    BY <1>7 DEF AInv, TextInv, TextIsItsOwn
<1>16. DOMAIN reported' \subseteq KeysOf(heater.active)
    BY <1>7 DEF AInv, LookInv, ActiveInv
<1>17. TextInv' /\ LookInv'
    BY <1>1, <1>8, <1>11, <1>12, <1>13, <1>14, <1>15, <1>16, OneMoves
<1>18. TypeOK'
    BY <1>7, <1>11 DEF AInv, TypeOK
<1> QED BY <1>11, <1>17, <1>18 DEF AInv

LEMMA FillKeeps ==
    ASSUME AInv, Fill
    PROVE  AInv'
<1>1. /\ heater' = [heater EXCEPT !.buffer = heater.transfer]
      /\ heater.buffer # heater.transfer
      /\ UNCHANGED <<line, lock, call, texts, firstSeen, now, used, reported>>
    BY DEF Fill
<1>2. heater \in Heaters
    BY DEF AInv, TypeOK, Heaters
<1>3. /\ heater' \in Heaters /\ heater'.active = heater.active
      /\ heater'.transfer = heater.transfer /\ heater'.buffer = heater.transfer
    BY <1>1, <1>2 DEF Heaters
<1>4. TypeOK'
    BY <1>1, <1>3 DEF AInv, TypeOK, Heaters
<1>5. QueueInv'
    BY <1>1 DEF AInv, QueueInv
<1>6. TextInv'
    <2>1. ASSUME NEW c \in Clients, Busy(call[c]) PROVE OnItsWay(call[c])'
        <3>1. OnItsWay(call[c])
            BY <2>1 DEF AInv, TextInv
        <3> QED BY <1>1, <1>3, <3>1 DEF OnItsWay
    <2> QED BY <1>1, <2>1 DEF AInv, TextInv, TextIsItsOwn, Busy
<1>7. LookInv'
    BY <1>1, <1>3 DEF AInv, LookInv, ActiveInv, SeenInv, FirstSeenSurvives, Looks,
                      Covers, NoneOf, Busy, Fresh
<1> QED BY <1>4, <1>5, <1>6, <1>7 DEF AInv

LEMMA TickKeeps ==
    ASSUME AInv, Tick
    PROVE  AInv'
<1>1. /\ now' = now + 1
      /\ UNCHANGED <<heater, line, lock, call, texts, firstSeen, used, reported>>
    BY DEF Tick
<1>2. now \in Nat /\ firstSeen \in [DOMAIN firstSeen -> Nat]
    BY DEF AInv, TypeOK
<1>3. TypeOK'
    BY <1>1, <1>2 DEF AInv, TypeOK
<1>4. QueueInv'
    BY <1>1 DEF AInv, QueueInv
<1>5. TextInv'
    BY <1>1 DEF AInv, TextInv, TextIsItsOwn, OnItsWay, Busy
<1>6. SeenInv'
    <2>1. ASSUME NEW key \in DOMAIN firstSeen PROVE firstSeen[key] <= now + 1
        <3>1. firstSeen[key] \in Nat /\ firstSeen[key] <= now
            BY <1>2, <2>1 DEF AInv, LookInv, SeenInv
        <3> QED BY <1>2, <3>1
    <2> QED BY <1>1, <2>1 DEF AInv, LookInv, SeenInv, FirstSeenSurvives
<1>7. LookInv'
    BY <1>1, <1>6 DEF AInv, LookInv, ActiveInv, Looks, Covers, NoneOf, Busy, Fresh
<1> QED BY <1>3, <1>4, <1>5, <1>7 DEF AInv

LEMMA RestartKeeps ==
    ASSUME AInv, Restart
    PROVE  AInv'
<1>1. /\ line' = <<>> /\ lock' = Nothing /\ heater' = heater /\ now' = now
      /\ call' = [c \in Clients |-> NoCall]
      /\ used' = [used EXCEPT !.starts = @ + 1]
      /\ texts' = Empty /\ firstSeen' = Empty /\ reported' = Empty
    BY DEF Restart
<1>2. /\ call' \in [Clients -> Calls]
      /\ \A c \in Clients : call'[c] = NoCall /\ ~Busy(call'[c]) /\ call'[c].pc = "idle"
    BY <1>1, NoCallTyped DEF Busy
<1>3. \A f, S : f = Empty => DOMAIN f = {} /\ f \in [DOMAIN f -> S]
    BY DEF Empty
<1>4. TypeOK'
    <2>1. /\ texts' \in [DOMAIN texts' -> Refs \cup {Nothing}] /\ DOMAIN texts' = {}
          /\ firstSeen' \in [DOMAIN firstSeen' -> Nat] /\ DOMAIN firstSeen' = {}
          /\ reported' \in [DOMAIN reported' -> Nat] /\ DOMAIN reported' = {}
        BY <1>1, <1>3
    <2>2. line' \in Seq(Requests)
        BY <1>1
    <2>3. used' \in [calls : Nat, changes : Nat, starts : Nat]
        BY <1>1 DEF AInv, TypeOK
    <2> QED BY <1>1, <1>2, <2>1, <2>2, <2>3 DEF AInv, TypeOK
<1>5. DOMAIN texts' = {} /\ DOMAIN firstSeen' = {} /\ DOMAIN reported' = {}
    BY <1>1, <1>3
<1>6. QueueInv'
    <2>1. \A c \in Clients : c # Nothing
        BY AlarmAssumption
    <2>2. DOMAIN line' = {}
        BY <1>1
    <2>3. \A c \in Clients : Busy(call'[c]) <=> lock' = c
        BY <1>1, <1>2, <2>1
    <2> QED BY <1>2, <2>2, <2>3 DEF QueueInv
<1>7. TextInv'
    BY <1>2, <1>5 DEF TextInv, TextIsItsOwn
<1>8. LookInv'
    BY <1>2, <1>5 DEF LookInv, ActiveInv, SeenInv, FirstSeenSurvives
<1> QED BY <1>4, <1>6, <1>7, <1>8 DEF AInv

LEMMA TimesOutKeeps ==
    ASSUME AInv, NEW c \in Clients, TimesOut(c)
    PROVE  AInv' /\ Told
<1>1. PICK rest \in Abandoned(c) : Misses(c, rest)
    BY DEF TimesOut
<1>2. call[c].pc = "waiting" /\ heater' = heater /\ now' = now /\ used' = used
    BY DEF TimesOut
<1>3. Leftover(rest)
    BY <1>2, TakenOff DEF AInv
<1>4. Turn(c, rest)
    BY <1>2, <1>3 DEF Turn, Busy, AInv, TypeOK, Heaters
<1> QED BY <1>1, <1>4, MissesKeeps

\* A request that is not in the line is taken off it as it is.
LEMMA NothingToAbandon ==
    ASSUME AInv, NEW c \in Clients, call[c].pc # "waiting"
    PROVE  Abandoned(c) = {line}
<1> DEFINE mine == {i \in DOMAIN line : line[i].who = c}
<1>1. c # Nothing
    BY AlarmAssumption
<1>2. mine = {}
    BY <1>1 DEF AInv, QueueInv
<1> QED BY <1>2 DEF Abandoned

LEMMA HangsUpKeeps ==
    ASSUME AInv, NEW c \in Clients, HangsUp(c)
    PROVE  AInv'
<1>1. /\ line' \in Abandoned(c) /\ lock' = Released(c)
      /\ call' = [call EXCEPT ![c] = NoCall]
      /\ UNCHANGED <<heater, texts, firstSeen, now, used, reported>>
      /\ call[c].pc \in {"locking", "waiting", "settling"}
    BY DEF HangsUp
<1>2. PICK n \in Calls : n = NoCall /\ n.pc = "idle" /\ ~Busy(n)
    BY NoCallTyped DEF Busy
<1>3. CASE call[c].pc = "locking"
    <2>1. ~Busy(call[c]) /\ line' = line
        BY <1>1, <1>3, NothingToAbandon DEF Busy
    <2>2. lock # c
        BY <2>1 DEF AInv, QueueInv
    <2>3. lock' = lock
        BY <1>1, <2>2 DEF Released
    <2>4. used' \in [calls : Nat, changes : Nat, starts : Nat]
        BY <1>1 DEF AInv, TypeOK
    <2> QED BY <1>1, <1>2, <2>1, <2>3, <2>4, AsideKeeps
<1>4. CASE call[c].pc \in {"waiting", "settling"}
    <2>1. Busy(call[c])
        BY <1>4 DEF Busy
    <2>2. PICK rest : rest = line'
        OBVIOUS
    <2>3. Leftover(rest)
        <3>1. CASE call[c].pc = "waiting"
            BY <1>1, <2>2, <3>1, TakenOff DEF AInv
        <3>2. CASE call[c].pc = "settling"
            <4>1. line' = line
                BY <1>1, <3>2, NothingToAbandon
            <4>2. line = <<>>
                BY <2>1, <3>2 DEF AInv, TextInv, OnItsWay
            <4> QED BY <2>2, <4>1, <4>2 DEF Leftover
        <3> QED BY <1>4, <3>1, <3>2
    <2>4. Turn(c, rest)
        BY <1>1, <2>1, <2>3 DEF Turn, AInv, TypeOK, Heaters
    <2>5. lock = c
        BY <2>1 DEF AInv, QueueInv
    <2>6. n.pc # "waiting" /\ lock' = Nothing /\ call' = [call EXCEPT ![c] = n]
        BY <1>1, <1>2, <2>5 DEF Released
    <2>7. /\ call' \in [Clients -> Calls] /\ line' \in Seq(Requests)
          /\ lock' \in Clients \cup {Nothing}
          /\ call'[c] = n
          /\ \A d \in Clients \ {c} : call'[d] = call[d]
          /\ QueueInv'
        BY <1>2, <2>2, <2>4, <2>6, EndsKeeps
    <2>8. Sound(c)'
        BY <1>2, <2>7 DEF Sound
    <2>9. SeenInv'
        BY <1>1 DEF AInv, LookInv, SeenInv, FirstSeenSurvives
    <2>10. TextIsItsOwn'
        BY <1>1 DEF AInv, TextInv, TextIsItsOwn
    <2>11. DOMAIN reported' \subseteq KeysOf(heater.active)
        BY <1>1 DEF AInv, LookInv, ActiveInv
    <2>12. TextInv' /\ LookInv'
        BY <1>2, <2>4, <2>7, <2>8, <2>9, <2>10, <2>11, OneMoves
    <2>13. TypeOK'
        BY <1>1, <2>7 DEF AInv, TypeOK
    <2> QED BY <2>7, <2>12, <2>13 DEF AInv
<1> QED BY <1>1, <1>3, <1>4

\* What the head of the line is.
LEMMA HeadOfLine ==
    ASSUME AInv, line # <<>>
    PROVE  /\ Head(line) \in Requests
           /\ Head(line).who = Nothing \/ Head(line).who \in Clients
           /\ Head(line).who # Nothing =>
                 /\ Tail(line) = <<>>
                 /\ call[Head(line).who].pc = "waiting"
                 /\ call[Head(line).who].op = Head(line).op
                 /\ call[Head(line).who].ref = Head(line).ref
<1> DEFINE n == Len(line)
<1>1. line \in Seq(Requests) /\ n \in Nat /\ DOMAIN line = 1..n /\ QueueInv
    BY DEF AInv, TypeOK
<1>2. n # 0
    BY <1>1
<1>3. Head(line) = line[1]
    BY <1>1
<1> HIDE DEF n
<1>4. 1 \in DOMAIN line
    BY <1>1, <1>2
<1>5. line[1] \in Requests
    BY <1>1, <1>4
<1>6. line[1].who = Nothing \/ line[1].who \in Clients
    BY <1>5 DEF Requests
<1>7. ASSUME line[1].who # Nothing
      PROVE  /\ n = 1
             /\ call[line[1].who].pc = "waiting"
             /\ call[line[1].who].op = line[1].op
             /\ call[line[1].who].ref = line[1].ref
    BY <1>1, <1>4, <1>7 DEF QueueInv, n
<1>8. n = 1 => Tail(line) = <<>>
    <2> DEFINE t == Tail(line)
               m == Len(t)
    <2>1. t \in Seq(Requests) /\ m = n - 1
        BY <1>1, <1>2 DEF n
    <2> HIDE DEF t
    <2>2. m = 0 => t = <<>>
        BY <2>1
    <2> HIDE DEF m
    <2>3. n = 1 => m = 0
        BY <1>1, <2>1
    <2> QED BY <2>2, <2>3 DEF t
<1> QED BY <1>3, <1>5, <1>6, <1>7, <1>8

LEMMA ReachesTyped ==
    ASSUME AInv, NEW q \in Requests, Reaches(q) \/ heater' = heater
    PROVE  heater' \in Heaters /\ heater'.active = heater.active
<1>1. heater \in Heaters /\ q.ref \in Refs \cup {Nothing}
    BY DEF AInv, TypeOK, Heaters, Requests
<1> QED BY <1>1 DEF Reaches, Heaters

\* The request nobody waits for leaves the line.
LEMMA NobodysKeeps ==
    ASSUME AInv, line # <<>>, Head(line).who = Nothing,
           heater' \in Heaters, heater'.active = heater.active, line' = Tail(line),
           UNCHANGED <<lock, call, texts, firstSeen, now, used, reported>>
    PROVE  AInv'
<1> DEFINE n == Len(line)
<1>1. line \in Seq(Requests) /\ n \in Nat /\ DOMAIN line = 1..n /\ QueueInv
    BY DEF AInv, TypeOK
<1>2. n # 0 /\ line[1].who = Nothing
    BY <1>1
<1>3. /\ line' \in Seq(Requests) /\ Len(line') = n - 1 /\ DOMAIN line' = 1..(n - 1)
      /\ \A i \in 1..(n - 1) : line'[i] = line[i + 1]
    BY <1>1, <1>2
<1>4. /\ \A i \in 1..n : IF line[i].who = Nothing THEN i = 1
                         ELSE /\ i = n /\ lock = line[i].who
                              /\ call[line[i].who].pc = "waiting"
                              /\ call[line[i].who].op = line[i].op
                              /\ call[line[i].who].ref = line[i].ref
      /\ \A c \in Clients : call[c].pc = "waiting" => line[n].who = c
    BY <1>1 DEF QueueInv
<1> HIDE DEF n
<1>5. ASSUME NEW i \in DOMAIN line'
      PROVE  /\ line'[i].who # Nothing
             /\ i = Len(line') /\ lock' = line'[i].who
             /\ call'[line'[i].who].pc = "waiting"
             /\ call'[line'[i].who].op = line'[i].op
             /\ call'[line'[i].who].ref = line'[i].ref
    <2>1. i + 1 \in 1..n /\ i + 1 # 1 /\ line'[i] = line[i + 1]
        BY <1>1, <1>2, <1>3
    <2>2. /\ line[i + 1].who # Nothing
          /\ i + 1 = n /\ lock = line[i + 1].who
          /\ call[line[i + 1].who].pc = "waiting"
          /\ call[line[i + 1].who].op = line[i + 1].op
          /\ call[line[i + 1].who].ref = line[i + 1].ref
        BY <1>4, <2>1
    <2>3. i = n - 1
        BY <1>1, <1>3, <2>2
    <2> QED BY <1>3, <2>1, <2>2, <2>3
<1>6. ASSUME NEW c \in Clients, call[c].pc = "waiting"
      PROVE  n # 1 /\ line' # <<>> /\ line'[Len(line')].who = c
    <2>1. line[n].who = c /\ c # Nothing
        BY <1>4, <1>6, AlarmAssumption
    <2>2. n # 1
        BY <1>2, <2>1
    <2>3. n - 1 \in 1..(n - 1) /\ n - 1 # 0 /\ (n - 1) + 1 = n
        BY <1>1, <1>2, <2>2
    <2>4. line' # <<>>
        BY <1>3, <2>3
    <2>5. line'[n - 1] = line[n]
        BY <1>3, <2>3
    <2> QED BY <1>3, <2>1, <2>2, <2>4, <2>5
<1>7. QueueInv'
    BY <1>1, <1>5, <1>6 DEF QueueInv
<1>8. TextInv'
    <2>1. ASSUME NEW c \in Clients, Busy(call[c]) PROVE OnItsWay(call[c])'
        <3>1. OnItsWay(call[c])
            BY <2>1 DEF AInv, TextInv
        <3>2. call[c].pc # "settling"
            BY <3>1 DEF OnItsWay
        <3>3. ~ (call[c].pc = "waiting" /\ call[c].op = "buffer")
            BY <1>6, <3>1 DEF OnItsWay, n
        <3> QED BY <3>1, <3>2, <3>3 DEF OnItsWay
    <2> QED BY <2>1 DEF AInv, TextInv, TextIsItsOwn, Busy
<1>9. LookInv'
    BY DEF AInv, LookInv, ActiveInv, SeenInv, FirstSeenSurvives, Looks, Covers,
           NoneOf, Busy, Fresh
<1>10. TypeOK'
    BY <1>3 DEF AInv, TypeOK, Heaters
<1> QED BY <1>7, <1>8, <1>9, <1>10 DEF AInv

\* The head of the line is served, or fails.
LEMMA HeadKeeps ==
    ASSUME AInv, Serves \/ Fails
    PROVE  AInv' /\ (Told \/ call' = call)
<1> DEFINE q == Head(line)
<1>1. /\ line # <<>> /\ now' = now /\ used' = used
      /\ Reaches(q) \/ heater' = heater
    BY DEF Serves, Fails
<1>2. /\ q \in Requests /\ (q.who = Nothing \/ q.who \in Clients)
      /\ q.who # Nothing =>
            /\ Tail(line) = <<>> /\ call[q.who].pc = "waiting"
            /\ call[q.who].op = q.op /\ call[q.who].ref = q.ref
    BY <1>1, HeadOfLine
<1> HIDE DEF q
<1>3. heater' \in Heaters /\ heater'.active = heater.active
    BY <1>1, <1>2, ReachesTyped
<1>4. CASE q.who = Nothing
    <2>1. line' = Tail(line) /\ UNCHANGED <<lock, call, texts, firstSeen, reported>>
        BY <1>4 DEF Serves, Fails, Quietly, q
    <2> QED BY <1>1, <1>3, <1>4, <2>1, NobodysKeeps DEF q
<1>5. CASE q.who # Nothing
    <2>1. PICK c \in Clients : c = q.who
        BY <1>2, <1>5
    <2>2. PICK rest : rest = Tail(line) /\ rest = <<>>
        BY <1>2, <1>5
    <2>3. /\ call[c].pc = "waiting" /\ call[c].op = q.op /\ call[c].ref = q.ref
        BY <1>2, <1>5, <2>1
    <2>4. Leftover(rest)
        <3>1. Leftover(<<>>)
            BY DEF Leftover
        <3> QED BY <2>2, <3>1
    <2>5. Turn(c, rest)
        BY <1>1, <1>3, <2>3, <2>4 DEF Turn, Busy
    <2>6. CASE Serves
        <3>1. Gets(c, rest) /\ Reaches(q)
            BY <1>5, <2>1, <2>2, <2>6 DEF Serves, q
        <3>2. call[c].op = "transfer" => heater'.transfer = call[c].ref
            <4>1. heater \in Heaters
                BY DEF AInv, TypeOK, Heaters
            <4> QED BY <2>3, <3>1, <4>1 DEF Reaches, Heaters
        <3> QED BY <2>2, <2>3, <2>5, <3>1, <3>2, GetsKeeps
    <2>7. CASE Fails
        <3>1. Misses(c, rest)
            BY <1>5, <2>1, <2>2, <2>7 DEF Fails, q
        <3> QED BY <2>5, <3>1, MissesKeeps
    <2> QED BY <2>6, <2>7
<1> QED BY <1>4, <1>5

-----------------------------------------------------------------------------
(* The theorems. *)

LEMMA NextSound ==
    ASSUME AInv, Next
    PROVE  AInv' /\ (Told \/ \A c \in Clients : ~Answers(c))
<1>1. ASSUME NEW ref \in Refs, Raise(ref) \/ Clear(ref)
      PROVE  AInv' /\ \A c \in Clients : ~Answers(c)
    <2>1. AInv'
        BY <1>1, RaiseKeeps, ClearKeeps
    <2>2. call \in [Clients -> Calls]
        BY DEF AInv, TypeOK
    <2>3. \A c \in Clients : call'[c].pc = call[c].pc
        BY <1>1, <2>2 DEF Raise, Clear, Calls
    <2> QED BY <2>1, <2>3 DEF Answers
<1>2. ASSUME Fill \/ Tick
      PROVE  AInv' /\ \A c \in Clients : ~Answers(c)
    BY <1>2, FillKeeps, TickKeeps DEF Fill, Tick, Answers
<1>3. ASSUME NEW c \in Clients, GetAlarms(c) \/ Locks(c) \/ Settles(c) \/ HangsUp(c)
      PROVE  AInv' /\ \A d \in Clients : ~Answers(d)
    <2>1. AInv'
        BY <1>3, GetAlarmsKeeps, LocksKeeps, SettlesKeeps, HangsUpKeeps
    <2>2. call \in [Clients -> Calls]
        BY DEF AInv, TypeOK
    <2>3. \A d \in Clients \ {c} : call'[d] = call[d]
        BY <1>3, <2>2 DEF GetAlarms, Locks, Settles, HangsUp
    <2>4. call'[c].pc # "answered"
        <3>1. CASE GetAlarms(c)
            <4>1. call'[c].pc = "locking"
                BY <2>2, <3>1 DEF GetAlarms, NoCall
            <4> QED BY <4>1
        <3>2. CASE Locks(c)
            <4>1. call'[c].pc = "waiting"
                BY <2>2, <3>2 DEF Locks, Calls
            <4> QED BY <4>1
        <3>3. CASE Settles(c)
            <4>1. call'[c].pc = "waiting"
                BY <2>2, <3>3 DEF Settles, Calls
            <4> QED BY <4>1
        <3>4. CASE HangsUp(c)
            <4>1. call'[c].pc = "idle"
                BY <2>2, <3>4, NoCallTyped DEF HangsUp
            <4> QED BY <4>1
        <3> QED BY <1>3, <3>1, <3>2, <3>3, <3>4
    <2> QED BY <2>1, <2>3, <2>4 DEF Answers
<1>4. ASSUME NEW c \in Clients, TimesOut(c)
      PROVE  AInv' /\ Told
    BY <1>4, TimesOutKeeps
<1>5. ASSUME Serves \/ Fails
      PROVE  AInv' /\ (Told \/ \A c \in Clients : ~Answers(c))
    <2>1. AInv' /\ (Told \/ call' = call)
        BY <1>5, HeadKeeps
    <2> QED BY <2>1 DEF Answers
<1>6. ASSUME Restart
      PROVE  AInv' /\ \A c \in Clients : ~Answers(c)
    <2>1. \A c \in Clients : call'[c].pc = "idle"
        BY <1>6, NoCallTyped DEF Restart
    <2> QED BY <1>6, <2>1, RestartKeeps DEF Answers
<1> QED BY <1>1, <1>2, <1>3, <1>4, <1>5, <1>6 DEF Next, Acts

LEMMA StutterSound ==
    ASSUME AInv, UNCHANGED vars
    PROVE  AInv' /\ \A c \in Clients : ~Answers(c)
<1>1. /\ heater' = heater /\ line' = line /\ lock' = lock /\ call' = call
      /\ texts' = texts /\ firstSeen' = firstSeen /\ now' = now /\ used' = used
      /\ reported' = reported
    BY DEF vars
<1>2. TypeOK'
    BY <1>1 DEF AInv, TypeOK
<1>3. QueueInv'
    BY <1>1 DEF AInv, QueueInv
<1>4. TextInv'
    BY <1>1 DEF AInv, TextInv, TextIsItsOwn, OnItsWay, Busy
<1>5. LookInv'
    BY <1>1 DEF AInv, LookInv, ActiveInv, SeenInv, FirstSeenSurvives, Looks,
                Covers, NoneOf, Busy, Fresh
<1>6. \A c \in Clients : ~Answers(c)
    BY <1>1 DEF Answers
<1> QED BY <1>2, <1>3, <1>4, <1>5, <1>6 DEF AInv

\* The inductive invariant holds for any number of clients and messages, of
\* failures, timeouts, hung up clients and restarts.
THEOREM AlarmInductive == Spec => []AInv
<1>1. AInv /\ [Next]_vars => AInv'
    BY NextSound, StutterSound
<1> QED BY <1>1, InitSound, PTL DEF Spec

\* The heater, the line, the lock, the requests and the caches have the shape
\* that get_alarms and messages/types.rs give them.
THEOREM AlarmTypeCorrect == Spec => []TypeOK
<1>1. AInv => TypeOK
    BY DEF AInv
<1> QED BY <1>1, AlarmInductive, PTL

\* A text in ALARM_TEXT_CACHE is the text of its reference: the handler lock and
\* the one line keep the register, the wait and the buffer of a request together,
\* whatever is late, fails or is abandoned.
THEOREM TextCorrect == Spec => []TextIsItsOwn
<1>1. AInv => TextIsItsOwn
    BY DEF AInv, TextInv
<1> QED BY <1>1, AlarmInductive, PTL

\* What get_alarms tells is so: an answer not marked partial shows every message
\* that was active throughout and none that never was, first_seen outlives
\* whatever fails, and a complete answer leaves no first_seen of a message that
\* was gone.
THEOREM ReportsCorrect == Spec => ReportsAreTrue
<1>1. ASSUME AInv, [Next]_vars
      PROVE  /\ \A c \in Clients : Answers(c) =>
                   /\ call'[c].ok => call[c].steady \subseteq call'[c].shown
                   /\ call'[c].shown \subseteq call[c].ever
             /\ FirstSeenSurvives'
             /\ \A c \in Clients : Answers(c) /\ call'[c].ok
                   => DOMAIN firstSeen' \subseteq KeysOf(call[c].ever)
    <2>1. AInv' /\ (Told \/ \A c \in Clients : ~Answers(c))
        BY <1>1, NextSound, StutterSound
    <2>2. FirstSeenSurvives'
        BY <2>1 DEF AInv, LookInv, SeenInv
    <2> QED BY <2>1, <2>2 DEF Told
<1> QED BY <1>1, AlarmInductive, PTL
        DEF Spec, ReportsAreTrue, CompleteMeansAll, FirstSeenFollowsReport
=============================================================================
