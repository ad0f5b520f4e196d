--------------------------------- MODULE Times ---------------------------------
(***************************************************************************)
(* The arithmetic on times in kmblack: instr_time.h, the macros of         *)
(* KcUtility.h that part10 waits with, and kcMilliseconds2String.  A time  *)
(* is [sec, frac], frac in units of a constant part of a second: the       *)
(* nanoseconds of clock_gettime or the microseconds of gettimeofday.       *)
(***************************************************************************)
EXTENDS Integers

\* Normalize: the loops that carry between frac and sec, whichever runs first.
CarryUp(t, unit) == [sec |-> t.sec + (t.frac \div unit), frac |-> t.frac % unit]

\* while ((x).tv_nsec < 0): nothing is taken off a frac that is too great.
BorrowDown(t, unit) == IF t.frac < 0 THEN CarryUp(t, unit) ELSE t

\* Mutant: an excess of exactly one second is not carried.
INSTR_TIME_ADD_Late(x, y, unit) ==
  LET sum == [sec |-> x.sec + y.sec, frac |-> x.frac + y.frac]
  IN IF sum.frac > unit THEN CarryUp(sum, unit) ELSE sum

INSTR_TIME_ADD(x, y, unit) ==
  LET sum == [sec |-> x.sec + y.sec, frac |-> x.frac + y.frac]
  IN IF sum.frac >= unit THEN CarryUp(sum, unit) ELSE sum

INSTR_TIME_SUBTRACT(x, y, unit) ==
  BorrowDown([sec |-> x.sec - y.sec, frac |-> x.frac - y.frac], unit)

\* x += y - z
INSTR_TIME_ACCUM_DIFF(x, y, z, unit) ==
  CarryUp([sec |-> x.sec + (y.sec - z.sec), frac |-> x.frac + (y.frac - z.frac)], unit)

\* KC_TIMEVAL2TIMESPEC: tv, in microseconds, some milliseconds later.
KC_TIMEVAL2TIMESPEC(tv, millisecond) ==
  LET usec == tv.frac + millisecond * 1000
  IN [sec |-> tv.sec + (usec \div 1000000), frac |-> (usec % 1000000) * 1000]

TIMEVAL2MSEC(tv) == tv.sec * 1000 + (tv.frac \div 1000)

-----------------------------------------------------------------------------
\* Mutant: the days stay in the hours.
kcMilliseconds2String_NoDays(elapsed) ==
  LET minutes == elapsed \div 600000
  IN [msec |-> elapsed, days |-> minutes \div 1440, hours |-> minutes \div 60,
      minutes |-> minutes % 60, seconds |-> ((elapsed % 600000) + 5) \div 10]

\* What kcMilliseconds2String prints of a time, here in tenths of a millisecond:
\* the milliseconds, and from one second on days, hours, minutes and seconds,
\* these with three decimals, so that 59.9996 seconds become 60.000.
kcMilliseconds2String(elapsed) ==
  LET minutes == elapsed \div 600000
      hours   == minutes \div 60
  IN [msec |-> elapsed,
      days |-> hours \div 24, hours |-> hours % 24, minutes |-> minutes % 60,
      seconds |-> ((elapsed % 600000) + 5) \div 10]
=============================================================================
