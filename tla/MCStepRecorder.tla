--------------------------- MODULE MCStepRecorder ----------------------------
(* A small instance of StepRecorder for TLC. *)
EXTENDS StepRecorder

MCSensors == <<"Flow", "Return", "BrinePump", "SystemStatus", "HpStatus">>

\* A sweep finds the heater heating the house or heating water.  The return of
\* each is the flow of the other: read between the two, the flow meets the
\* return of before, and there is no way for the return to go.
Reads(flow, ret, sys, hp, bp) ==
    "Flow" :> flow @@ "Return" :> ret @@ "SystemStatus" :> sys @@ "HpStatus" :> hp
    @@ "BrinePump" :> bp
MCSituations == {Reads(6, 4, 4, 3, 1), Reads(4, 6, 5, 4, 0)}
\* Two codes of the system status with that of hot water half way between.
MCMixed == {Reads(6, 4, 4, 3, 1), Reads(4, 6, 6, 3, 0)}

\* The process before left the means of a minute and one event.
MCLeftBehind ==
    [events |-> {[at |-> 0, before |-> 6, after |-> 4, ret |-> 2,
                  samples |-> <<[el |-> 0, flow |-> 4, ret |-> 2],
                                [el |-> 1, flow |-> 4, ret |-> 4]>>]},
     means  |-> [s \in Polled |-> {[at |-> 0, v |-> Reads(4, 2, 7, 3, 1)[s]]}]]
=============================================================================
