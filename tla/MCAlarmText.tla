---------------------------- MODULE MCAlarmText -----------------------------
(* A small instance of AlarmText for TLC: an alarm and an info with the same  *)
(* code.                                                                      *)
EXTENDS AlarmText

CONSTANTS Code

MCAlarms == {1}
MCInfos  == {13}
MCCodeOf == [r \in {1, 13} |-> Code]
=============================================================================
