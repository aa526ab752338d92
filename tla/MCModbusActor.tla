---------------------------- MODULE MCModbusActor ----------------------------
(* Small instances of ModbusActor for TLC: words of two bits, read as        *)
(* -2..1 when signed.  "curve" is a read-write parameter with bounds on one  *)
(* side of zero, "text" the write-only alarm buffer, "absent" a parameter    *)
(* this heater does not have; "offset" has bounds around zero.               *)
EXTENDS ModbusActor, TLC

CONSTANTS r1, r2

MCRequests == {r1, r2}
MCOne      == {r1}

MCParams   == {"curve", "text", "absent"}
MCStraddle == MCParams \cup {"offset"}
MCAccess   == [p \in Params |-> IF p = "text" THEN "W" ELSE "RW"]
MCUnsigned == {"text"}
MCHidden   == {"absent"}

\* curve: -2, -1; offset: -1, 0, 1.
MCBounds ==
    [p \in Params |->
        CASE p = "curve"  -> [min |-> 2, max |-> 3, step |-> 1]
          [] p = "offset" -> [min |-> 3, max |-> 1, step |-> 2]
          [] OTHER        -> [min |-> 0, max |-> 1, step |-> 0]]

Call(op, param, value) == [op |-> op, param |-> param, value |-> value]

MCWrites == {Call("write", "curve", -1), Call("write", "curve", 1),
             Call("write", "offset", 1), Call("write", "text", 3),
             Call("write", "absent", 1)}

\* Writes of every kind: legal, refused, to the write-only buffer, raw.
MCSends == {Call("write", "curve", -1), Call("write", "curve", 1),
            Call("write", "text", 3), Call("rawWrite", "curve", 1)}

\* Every operation, and a write that is refused.
MCCalls == {Call("write", "curve", -1), Call("write", "curve", 1),
            Call("rawWrite", "curve", 1), Call("read", "absent", 0),
            Call("rawRead", "curve", 0), Call("visibility", "curve", 0),
            Call("stats", "curve", 0)}

RequestSymmetry == Permutations(MCRequests)
=============================================================================
