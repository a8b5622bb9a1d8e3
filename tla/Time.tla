-------------------------------- MODULE Time --------------------------------
(***************************************************************************)
(* comm.c, expt_set_time: the time for the experiment board, in seconds    *)
(* since the epoch J2000.  The formula takes a date and a time of day; the *)
(* code reads both from the same three bytes.                              *)
(***************************************************************************)
EXTENDS Integers, FiniteSets

(* Division as in C: the quotient is cut off towards zero. *)
Quot(a, b) == IF a >= 0 THEN a \div b ELSE -((-a) \div b)

(* Number of the day, by the formula of Fliegel and Van Flandern. *)
jd(day, month, year) ==
  LET janfeb == Quot(month - 14, 12)
  IN day - 32075 + Quot(1461 * (year + 4800 + janfeb), 4)
     + Quot(367 * (month - 2 - janfeb * 12), 12)
     - Quot(3 * Quot(year + 4900 + janfeb, 100), 4)

(* A date is <<day, month, year - 2000>>, a time <<hour, minute, second>>. *)
days(date) == jd(date[1], date[2], date[3] + 2000) - 2451545

seconds(date, time) ==
  86400 * days(date) + 60 * (60 * time[1] + time[2]) + time[3] - 43135 - 1

(* What the code sends.  time_date holds hour, minute and second, as its   *)
(* callers store them; day, month and year are taken from the same bytes.  *)
sec(time_date) == seconds(time_date, time_date)

TimesOfDay == (0 .. 23) \X (0 .. 59) \X (0 .. 60)

(* The results of its operations, all of them int32_t, from left to right. *)
INT32_MAX == 2147483647
INT32_MIN == -INT32_MAX - 1
Int32 == INT32_MIN .. INT32_MAX
Computed(t) ==
  LET month == t[2]
      janfeb == Quot(month - 14, 12)
      centuries == Quot(t[3] + 2000 + 4900 + janfeb, 100)
      years == 1461 * (t[3] + 2000 + 4800 + janfeb)
      months == 367 * (month - 2 - janfeb * 12)
      time == 86400 * days(t) + 60 * (60 * t[1] + t[2])
  IN {t[1] - 32075, years, months, 3 * centuries,
      t[1] - 32075 + Quot(years, 4),
      t[1] - 32075 + Quot(years, 4) + Quot(months, 12),
      days(t) + 2451545, days(t), 86400 * days(t),
      60 * (60 * t[1] + t[2]), time, time + t[3], time + t[3] - 43135, sec(t)}

-----------------------------------------------------------------------------
(* The calendar, from its definition. *)

IsLeap(year) == year % 4 = 0 /\ (year % 100 # 0 \/ year % 400 = 0)

DaysBeforeMonth == <<0, 31, 59, 90, 120, 151, 181, 212, 243, 273, 304, 334>>

DaysSince2000(day, month, year) ==
  365 * (year - 2000) + Cardinality({y \in 2000 .. year - 1 : IsLeap(y)})
  + DaysBeforeMonth[month] + (IF IsLeap(year) /\ month > 2 THEN 1 ELSE 0)
  + day - 1

(* J2000 is noon of the first of January 2000 in Terrestrial Time.  That   *)
(* was ahead of International Atomic Time by 32.184 seconds, and this of   *)
(* UTC by 32 seconds: by 64 seconds together.                              *)
J2000 == 12 * 3600 - 64

(* Seconds from J2000 to a date and time, all days taken as 86400 long.    *)
SecondsSinceJ2000(date, time) ==
  86400 * DaysSince2000(date[1], date[2], date[3] + 2000)
  + 3600 * time[1] + 60 * time[2] + time[3] - J2000
=============================================================================
