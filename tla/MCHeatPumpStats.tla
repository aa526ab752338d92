-------------------------- MODULE MCHeatPumpStats ---------------------------
(* Small instances of HeatPumpStats for TLC. *)
EXTENDS HeatPumpStats

MCStatus == <<"HpStatus">>
\* Two cycles whose timestamp could not be parsed share second 0; an older one
\* has left the list, not the totals.
MCLegacyCycles == <<[at |-> 0, secs |-> 1], [at |-> 0, secs |-> 2]>>
MCLegacyTotal == [tracked |-> TRUE, starts |-> 3, secs |-> 5]
=============================================================================
