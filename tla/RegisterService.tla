--------------------------- MODULE RegisterService ---------------------------
(***************************************************************************)
(* What the Modbus actor promises its clients, without queue, retries,     *)
(* read-back or restarts: a call is answered once; a write that is refused *)
(* has left no trace; a checked write that is accepted is in the register; *)
(* nothing but a legal value is ever sent to a checked register.           *)
(***************************************************************************)
EXTENDS Registers

VARIABLES
    reg,   \* the heater's registers
    call   \* the calls: their phase, what they ask, whether a write was sent

serviceVars == <<reg, call>>

Answers == {"ok", "refused", "failed"}

ServiceInit ==
    /\ reg \in [Params -> Word]
    /\ call \in [Requests -> [phase : {"idle"}, ask : Asks, sent : {FALSE}]]

Open(r) ==
    /\ call[r].phase = "idle"
    /\ \E a \in Asks :
          call' = [call EXCEPT ![r] = [phase |-> "open", ask |-> a, sent |-> FALSE]]
    /\ UNCHANGED reg

\* A write that may be sent at all.
MayBeSent(a) ==
    \/ a.op = "rawWrite"
    \/ /\ a.op = "write" /\ Access[a.param] # "R" /\ Representable(a.param, a.value)
       /\ Access[a.param] = "RW" => InRange(a.param, RawOf(a))

\* The write reaches the heater, which may ignore it; also after the client
\* has left, and more than once.
Send(r) ==
    /\ call[r].phase \in {"open", "left"}
    /\ MayBeSent(call[r].ask)
    /\ \/ reg' = [reg EXCEPT ![call[r].ask.param] = RawOf(call[r].ask)]
       \/ UNCHANGED reg
    /\ call' = [call EXCEPT ![r].sent = TRUE]

MayAnswer(c, answer) ==
    /\ answer = "refused" => ~c.sent
    /\ answer = "ok" /\ c.ask.op \in {"write", "rawWrite"} => c.sent
    /\ answer = "ok" /\ Checked(c.ask) => reg[c.ask.param] = RawOf(c.ask)

Answer(r) ==
    /\ call[r].phase = "open"
    /\ \E answer \in Answers :
          /\ MayAnswer(call[r], answer)
          /\ call' = [call EXCEPT ![r].phase = answer]
    /\ UNCHANGED reg

\* The last write and its answer at once: not verified, or given up on.
SendAndAnswer(r) ==
    /\ call[r].phase = "open"
    /\ MayBeSent(call[r].ask)
    /\ \/ reg' = [reg EXCEPT ![call[r].ask.param] = RawOf(call[r].ask)]
       \/ UNCHANGED reg
    /\ \E answer \in {"ok", "failed"} :
          /\ answer = "ok" => ~Checked(call[r].ask)
          /\ call' = [call EXCEPT ![r] = [phase |-> answer, ask |-> @.ask, sent |-> TRUE]]

Leave(r) ==
    /\ call[r].phase = "open"
    /\ call' = [call EXCEPT ![r].phase = "left"]
    /\ UNCHANGED reg

\* Somebody sets a register at the heater's own display.
Display ==
    /\ \E p \in Params, w \in Word : reg' = [reg EXCEPT ![p] = w]
    /\ UNCHANGED call

ServiceNext ==
    \/ \E r \in Requests :
          Open(r) \/ Send(r) \/ Answer(r) \/ SendAndAnswer(r) \/ Leave(r)
    \/ Display

ServiceSpec == ServiceInit /\ [][ServiceNext]_serviceVars
=============================================================================
