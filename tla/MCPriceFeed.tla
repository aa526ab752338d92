---------------------------- MODULE MCPriceFeed -----------------------------
(* Small instances of PriceFeed for TLC: days of four slots, one of them a   *)
(* day of two longer slots.                                                  *)
EXTENDS PriceFeed

\* A morning peak, a valley with a negative price, and an hourly day.
MCCurves == {<<1, 4, 2, 3>>, <<3, -1, 0, 3>>, <<1, 2>>}
=============================================================================
