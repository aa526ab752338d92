------------------------------ MODULE Registers ------------------------------
(***************************************************************************)
(* The holding registers of the heat pump as modbus/mod.rs and             *)
(* modbus/bms_parameters.rs describe them, and what a client asks of them. *)
(*                                                                         *)
(* A register is a word of 2 * Half values; a signed parameter reads it as *)
(* two's complement.  Scaling is left out: a client's value is the number  *)
(* of factor units, already rounded.                                       *)
(***************************************************************************)
EXTENDS Integers

CONSTANTS
    Half,      \* half of the number of words (2^15 in the source)
    Params,    \* parameters of the catalogue
    Access,    \* read-only "R", read-write "RW" or write-only "W"
    Unsigned,  \* parameters whose register is not two's complement
    Hidden,    \* parameters whose visibility bit is not set on this heater
    Bounds,    \* what the registers reg_max, reg_min and reg_step hold
    Requests,  \* bound: calls of clients to the Modbus actor
    Asks       \* bound: what a client may call for

Word == 0 .. (2 * Half - 1)

Operations == {"read", "write", "visibility", "rawRead", "rawWrite", "stats"}

SignedWord(w) == IF w < Half THEN w ELSE w - 2 * Half

ValueOf(p, w) == IF p \in Unsigned THEN w ELSE SignedWord(w)

\* The heater's bounds make sense to a reader who applies the sign.
ASSUME RegistersAssumption ==
    /\ Half \in Nat \ {0}
    /\ Access \in [Params -> {"R", "RW", "W"}]
    /\ Unsigned \subseteq Params /\ Hidden \subseteq Params
    /\ Bounds \in [Params -> [min : Word, max : Word, step : Word]]
    /\ \A p \in Params : ValueOf(p, Bounds[p].min) <= ValueOf(p, Bounds[p].max)
    /\ Asks \subseteq [op : Operations, param : Params, value : Int]
    /\ \A a \in Asks : a.op = "rawWrite" => a.value \in Word

\* get_raw_value: a value beyond the register's own range has no word.
Representable(p, v) ==
    IF p \in Unsigned THEN v \in Word ELSE v \in -Half .. (Half - 1)

RawValue(v) == IF v >= 0 THEN v ELSE v + 2 * Half

\* The word a request asks to write.
RawOf(a) == IF a.op = "rawWrite" THEN a.value ELSE RawValue(a.value)

\* is_multiple_of: nothing but 0 is a multiple of 0.
MultipleOf(x, n) == IF n = 0 THEN x = 0 ELSE x % n = 0

\* What the bounds mean: the value lies between them, a whole number of steps
\* above the least.
InRange(p, w) ==
    LET least == ValueOf(p, Bounds[p].min)
    IN  /\ least <= ValueOf(p, w) /\ ValueOf(p, w) <= ValueOf(p, Bounds[p].max)
        /\ MultipleOf(ValueOf(p, w) - least, Bounds[p].step)

\* A parameter write with range, step and read-back checks.
Checked(a) == a.op = "write" /\ Access[a.param] = "RW"
=============================================================================
