------------------------------- MODULE Timer -------------------------------
(***************************************************************************)
(* The millisecond timer the features of the main loop share.  Times wrap, *)
(* so only their differences mean anything; the features hold times for    *)
(* less than half a period.                                                *)
(***************************************************************************)
EXTENDS Integers

CONSTANTS
  TimeMod,   \* the period of the timer: 2^16 or 2^32
  MaxGap     \* the longest time between two rounds of the main loop

ASSUME TimerAssumption ==
  /\ TimeMod \in Nat \ {0} /\ TimeMod % 2 = 0
  /\ MaxGap \in Nat \ {0}

VARIABLE now \* timer_read(), timer_read32()

Time == 0 .. TimeMod - 1

After(t, d) == (t + d) % TimeMod

\* TIMER_DIFF_16, TIMER_DIFF_32: unsigned subtraction.
TimeFrom(t, u) == (u - t) % TimeMod

\* The difference read as a signed number: t is u or before it.
NotAfter(t, u) == TimeFrom(t, u) <= TimeMod \div 2
Before(t, u) == TimeFrom(t, u) \in 1 .. TimeMod \div 2 - 1
=============================================================================
