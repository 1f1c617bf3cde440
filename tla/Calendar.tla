------------------------------ MODULE Calendar ------------------------------
(***************************************************************************)
(* The date that get_standard_time() (time.c) makes of the GPS week and    *)
(* the second of the week, beside a calendar that turns its pages day by   *)
(* day from Sunday, 6 January 1980, where GPS time begins.                 *)
(*                                                                         *)
(* The proofs extend this module beside Clock, hence CalendarSpec and the  *)
(* like.                                                                   *)
(***************************************************************************)
EXTENDS Integers

CONSTANTS
  PER_DAY,     \* instants looked at in a day
  LAST_WEEK    \* bound: the last week

ASSUME CalendarAssumption == PER_DAY \in Nat \ {0} /\ LAST_WEEK \in Nat

VARIABLES
  gps_weeks,        \* time.weeks
  gps_seconds,      \* time.seconds in units of 86400 / PER_DAY
  date              \* the calendar: year, month, day, part of the day

calendarVars == <<gps_weeks, gps_seconds, date>>

CalendarInit ==
  /\ gps_weeks = 0 /\ gps_seconds = 0
  /\ date = [years |-> 1980, months |-> 1, days |-> 6, part |-> 0]

-----------------------------------------------------------------------------
(* The calendar.                                                           *)

LeapYear(y) == y % 4 = 0 /\ (y % 100 # 0 \/ y % 400 = 0)

DaysIn(m, y) ==
  IF m = 2 THEN IF LeapYear(y) THEN 29 ELSE 28
  ELSE IF m \in {4, 6, 9, 11} THEN 30 ELSE 31

NextDay(d) ==
  IF d.days < DaysIn(d.months, d.years)
    THEN [d EXCEPT !.days = @ + 1, !.part = 0]
  ELSE IF d.months < 12
    THEN [d EXCEPT !.months = @ + 1, !.days = 1, !.part = 0]
  ELSE [d EXCEPT !.years = @ + 1, !.months = 1, !.days = 1, !.part = 0]

SECONDS_IN_WEEK == 7 * PER_DAY

\* Time goes on.
Tick ==
  /\ IF gps_seconds + 1 < SECONDS_IN_WEEK
       THEN gps_seconds' = gps_seconds + 1 /\ gps_weeks' = gps_weeks
       ELSE gps_weeks < LAST_WEEK /\ gps_seconds' = 0 /\ gps_weeks' = gps_weeks + 1
  /\ date' = IF date.part + 1 < PER_DAY THEN [date EXCEPT !.part = @ + 1]
                                        ELSE NextDay(date)

\* The receiver is switched off at last.
Stop == gps_weeks = LAST_WEEK /\ gps_seconds + 1 = SECONDS_IN_WEEK /\ UNCHANGED calendarVars

CalendarNext == Tick \/ Stop

CalendarSpec == CalendarInit /\ [][CalendarNext]_calendarVars

-----------------------------------------------------------------------------
(* The code.                                                               *)

\* days, in parts of a day.
Parts(w, s) == w * 7 * PER_DAY + s

\* Mutant: the Julian day is that of the noon before.
NoonBefore(w, s) == Parts(w, s) \div PER_DAY + 2444244

\* The Julian day after the loop, which fjd, 1 and a part, goes through once.
jd(w, s) == Parts(w, s) \div PER_DAY + 2444244 + 1

\* The part of the day, PER_DAY for 24 hours.
fjd(w, s) == Parts(w, s) % PER_DAY

\* Fliegel and Van Flandern.
Date(j) ==
  LET k1 == j + 68569
      n  == (4 * k1) \div 146097
      k2 == k1 - (146097 * n + 3) \div 4
      m  == (4000 * (k2 + 1)) \div 1461001
      k3 == k2 - (1461 * m) \div 4 + 31
      mm == (80 * k3) \div 2447
      k4 == mm \div 11
  IN  [years |-> 100 * (n - 49) + m + k4, months |-> mm + 2 - 12 * k4,
       days |-> k3 - (2447 * mm) \div 80]

get_standard_time(w, s) ==
  LET d == Date(jd(w, s))
  IN  [years |-> d.years, months |-> d.months, days |-> d.days, part |-> fjd(w, s)]

-----------------------------------------------------------------------------
\* The date printed is the date, through the leap years 2000, which is one, and
\* 2100, which is none; and a new day starts where fjd returns to 0.
DateRight == get_standard_time(gps_weeks, gps_seconds) = date
=============================================================================
