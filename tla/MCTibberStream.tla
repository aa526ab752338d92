--------------------------- MODULE MCTibberStream ---------------------------
(* A small instance of TibberStream for TLC: from Thursday to Monday over     *)
(* the end of February 2026, with the quarters in which something can happen. *)
EXTENDS TibberStream

Date(month, day) == [year |-> 2026, month |-> month, day |-> day]

MCDates == {Date(2, 26), Date(2, 27), Date(2, 28), Date(3, 1), Date(3, 2)}

MCLocalDate ==
    [n \in {YmdToDays(d) : d \in MCDates} |-> CHOOSE d \in MCDates : YmdToDays(d) = n]

At(month, day, hour, quarter) == (YmdToDays(Date(month, day)) * 24 + hour) * 4 + quarter

\* Thursday's last high quarter, Friday over its last high hour, Monday's first
\* high quarter in the next month.
MCInstants ==
    {At(2, 26, 19, 3), At(2, 27, 19, 2), At(2, 27, 19, 3), At(2, 27, 20, 0),
     At(3, 2, 7, 0)}
=============================================================================
