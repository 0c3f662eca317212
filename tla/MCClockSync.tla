----------------------------- MODULE MCClockSync -----------------------------
(* ClockSync on clocks of a few values that wrap within the model.         *)
EXTENDS ClockSync

\* A time that does not convert: before the epoch, and beyond any skew.
MCInvalidErrors == {-10}
=============================================================================
