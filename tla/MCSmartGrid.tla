---------------------------- MODULE MCSmartGrid ----------------------------
(* Small instances of SmartGrid for TLC. *)
EXTENDS SmartGrid

CONSTANTS t1, t2

MCInstants     == {t1, t2}
MCOneInstant   == {t1}
MCNormalOnly   == {"Normal"}
MCBlocking     == {"Blocking"}
MCEitherMode   == {"Normal", "Blocking"}
MCThreeModes   == {"Normal", "Blocking", "Overcapacity"}
MCTwoSlots     == {1, 2}
MCOneSlot      == {1}
=============================================================================
