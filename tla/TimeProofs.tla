----------------------------- MODULE TimeProofs -----------------------------
(***************************************************************************)
(* Proofs about Time: the formula of expt_set_time agrees with the         *)
(* calendar, for every year from 2000 on; what the code computes with it   *)
(* stays within int32_t.                                                   *)
(***************************************************************************)
EXTENDS Time, FiniteSetTheorems, WellFoundedInduction, TLAPS

Years == {year \in Nat : year >= 2000}

-----------------------------------------------------------------------------
(* How many leap years there are *)

LeapYears(year) == {y \in 2000 .. year - 1 : IsLeap(y)}
LeapCount(year) ==
  (year - 1) \div 4 - (year - 1) \div 100 + (year - 1) \div 400 - 484

Counted(year) ==
  /\ IsFiniteSet(LeapYears(year))
  /\ Cardinality(LeapYears(year)) = LeapCount(year)

LEMMA FirstYear == Counted(2000)
  <1>1. LeapYears(2000) = {} BY DEF LeapYears
  <1>2. LeapCount(2000) = 0 BY DEF LeapCount
  <1> QED
    BY <1>1, <1>2, FS_EmptySet DEF Counted

LEMMA NextYear ==
  ASSUME NEW y \in Years, Counted(y)
  PROVE  Counted(y + 1)
  <1>1. LeapYears(y + 1) = IF IsLeap(y) THEN LeapYears(y) \cup {y}
                           ELSE LeapYears(y)
    BY DEF LeapYears, Years
  <1>2. LeapCount(y + 1) = IF IsLeap(y) THEN LeapCount(y) + 1 ELSE LeapCount(y)
    BY DEF LeapCount, IsLeap, Years
  <1>3. y \notin LeapYears(y)
    BY DEF LeapYears, Years
  <1> QED
    BY <1>1, <1>2, <1>3, FS_AddElement DEF Counted

(* By induction, as the absence of a first year that is counted wrong.     *)
LEMMA LeapYearsCounted == \A y \in Years : Counted(y)
  <1> DEFINE Wrong == {y \in Years : ~Counted(y)}
             Less == {p \in Nat \X Nat : p[1] < p[2]}
  <1>1. SUFFICES ASSUME Wrong # {} PROVE FALSE
    OBVIOUS
  <1>2. PICK y \in Wrong : \A z \in Wrong : ~(z < y)
    <2>1. IsWellFoundedOn(Less, Nat)
      BY NatLessThanWellFounded DEF OpToRel
    <2>2. Wrong \subseteq Nat BY DEF Years
    <2>3. \E y \in Wrong : \A z \in Wrong : <<z, y>> \notin Less
      BY <1>1, <2>1, <2>2, WFMin
    <2> QED
      BY <2>2, <2>3
  <1>3. y # 2000 BY FirstYear
  <1>4. y - 1 \in Years /\ Counted(y - 1) BY <1>2, <1>3 DEF Years
  <1>5. y - 1 + 1 = y BY DEF Years
  <1> QED
    BY <1>4, <1>5, NextYear

-----------------------------------------------------------------------------
(* The formula and the calendar *)

(* The day number of expt_set_time, counted from the first of January 2000,*)
(* is the number of days in the whole years, months and days before it, for*)
(* every day of every month of every year since.                           *)
THEOREM DaysByTheCalendar ==
  ASSUME NEW day \in Int, NEW month \in 1 .. 12, NEW year \in Years
  PROVE  jd(day, month, year) - 2451545 = DaysSince2000(day, month, year)
  <1>1. Cardinality({y \in 2000 .. year - 1 : IsLeap(y)}) = LeapCount(year)
    BY LeapYearsCounted DEF Counted, LeapYears
  <1> USE DEF LeapCount, jd, DaysSince2000, Quot, DaysBeforeMonth, IsLeap, Years
  <1>2. CASE month = 1 BY <1>1, <1>2, SMTT(30)
  <1>3. CASE month = 2 BY <1>1, <1>3, SMTT(30)
  <1>4. CASE month = 3 BY <1>1, <1>4, SMTT(30)
  <1>5. CASE month = 4 BY <1>1, <1>5, SMTT(30)
  <1>6. CASE month = 5 BY <1>1, <1>6, SMTT(30)
  <1>7. CASE month = 6 BY <1>1, <1>7, SMTT(30)
  <1>8. CASE month = 7 BY <1>1, <1>8, SMTT(30)
  <1>9. CASE month = 8 BY <1>1, <1>9, SMTT(30)
  <1>10. CASE month = 9 BY <1>1, <1>10, SMTT(30)
  <1>11. CASE month = 10 BY <1>1, <1>11, SMTT(30)
  <1>12. CASE month = 11 BY <1>1, <1>12, SMTT(30)
  <1>13. CASE month = 12 BY <1>1, <1>13, SMTT(30)
  <1> QED
    BY <1>2, <1>3, <1>4, <1>5, <1>6, <1>7, <1>8, <1>9, <1>10, <1>11, <1>12,
       <1>13

LEMMA TimeOfDayType ==
  ASSUME NEW t \in TimesOfDay
  PROVE  t[1] \in 0 .. 23 /\ t[2] \in 0 .. 59 /\ t[3] \in 0 .. 60
  BY DEF TimesOfDay

(* The formula of expt_set_time, with its constants, counts the seconds    *)
(* from J2000 to every date of every year since, and time of day.  (What   *)
(* the code gives it for a date is a time of day: see sec.)                *)
THEOREM SecondsByTheCalendar ==
  ASSUME NEW date \in Int \X (1 .. 12) \X Nat, NEW time \in TimesOfDay
  PROVE  seconds(date, time) = SecondsSinceJ2000(date, time)
  <1>1. date[1] \in Int /\ date[2] \in 1 .. 12 /\ date[3] \in Nat
    OBVIOUS
  <1>2. date[3] + 2000 \in Years BY <1>1 DEF Years
  <1>3. days(date) = DaysSince2000(date[1], date[2], date[3] + 2000)
    BY <1>1, <1>2, DaysByTheCalendar DEF days
  <1>4. jd(date[1], date[2], date[3] + 2000) \in Int
    BY <1>1 DEF jd, Quot
  <1>5. days(date) \in Int
    BY <1>4 DEF days
  <1>6. time[1] \in Int /\ time[2] \in Int /\ time[3] \in Int
    BY TimeOfDayType
  <1> QED
    BY <1>3, <1>5, <1>6 DEF seconds, SecondsSinceJ2000, J2000

(* (The provers list the members of a range between two numerals.)         *)
Within(n, low, high) == n \in Int /\ low <= n /\ n <= high

LEMMA InInt32 ==
  ASSUME NEW n, Within(n, -2000000000, 2100000000)
  PROVE  n \in Int32
  <1>1. INT32_MAX = 2147483647 /\ INT32_MIN = -2147483648
    BY SMT DEF INT32_MAX, INT32_MIN
  <1>2. /\ n \in Int /\ INT32_MIN \in Int /\ INT32_MAX \in Int
        /\ INT32_MIN <= n /\ n <= INT32_MAX
    BY <1>1, SMT DEF Within
  <1> QED
    BY <1>2, SMT DEF Int32

(* No operation of expt_set_time overflows, whatever time of day it is     *)
(* given, minutes that are no month included.                              *)
THEOREM NothingOverflows ==
  ASSUME NEW t \in TimesOfDay
  PROVE  Computed(t) \subseteq Int32
  <1> DEFINE janfeb == Quot(t[2] - 14, 12)
             years == 1461 * (t[3] + 2000 + 4800 + janfeb)
             months == 367 * (t[2] - 2 - janfeb * 12)
             centuries == Quot(t[3] + 2000 + 4900 + janfeb, 100)
             epoch == t[1] - 32075
             clock == 60 * (60 * t[1] + t[2])
             day == 86400 * days(t)
  <1>1. Within(t[1], 0, 23) /\ Within(t[2], 0, 59) /\ Within(t[3], 0, 60)
    BY TimeOfDayType, SMT DEF Within
  <1>2. Within(janfeb, -1, 3) /\ Within(t[2] - 2 - janfeb * 12, 1, 23)
    BY <1>1, SMT DEF Quot, Within
  <1>3. /\ Within(years, 9933339, 10026843)
        /\ Within(months, 367, 8441)
        /\ Within(epoch, -32075, -32052)
    BY <1>1, <1>2, SMT DEF Within
  <1>4. Within(centuries, 68, 69)
    BY <1>1, <1>2, SMT DEF Quot, Within
  <1>5. /\ days(t) \in Int
        /\ days(t) + 2451545 = epoch + Quot(years, 4) + Quot(months, 12)
                               - Quot(3 * centuries, 4)
    <2>1. /\ Quot(years, 4) \in Int /\ Quot(months, 12) \in Int
          /\ Quot(3 * centuries, 4) \in Int
      BY <1>3, <1>4, SMT DEF Quot, Within
    <2>2. days(t) = epoch + Quot(years, 4) + Quot(months, 12)
                    - Quot(3 * centuries, 4) - 2451545
      BY <1>1, <1>2, <1>3, <1>4, <2>1, SMT DEF days, jd, Within
    <2> HIDE DEF years, months, centuries, epoch
    <2> QED
      BY <1>3, <2>1, <2>2, SMT DEF Within
  <1>6. sec(t) = day + clock + t[3] - 43135 - 1
    BY SMT DEF sec, seconds
  <1>7. Computed(t) =
          {epoch, years, months, 3 * centuries, epoch + Quot(years, 4),
           epoch + Quot(years, 4) + Quot(months, 12),
           days(t) + 2451545, days(t), day, clock, day + clock,
           day + clock + t[3], day + clock + t[3] - 43135, sec(t)}
    BY DEF Computed
  <1>8. Within(clock, 0, 86340)
    BY <1>1, SMT DEF Within
  <1> HIDE DEF years, months, centuries, epoch, clock
  <1>9. Within(Quot(years, 4), 2483334, 2506710) /\ Within(Quot(months, 12), 30, 703)
    BY <1>3, SMT DEF Quot, Within
  <1>10. Quot(3 * centuries, 4) = 51
    BY <1>4, SMT DEF Quot, Within
  <1>11. days(t) = epoch + Quot(years, 4) + Quot(months, 12) - 2451596
    BY <1>3, <1>5, <1>9, <1>10, SMT DEF Within
  <1>12. Within(days(t), -307, 23765)
    BY <1>3, <1>9, <1>11, SMT DEF Within
  <1>13. Within(day, -26524800, 2053296000)
    BY <1>12, SMT DEF Within
  <1> HIDE DEF day
  <1>14. ASSUME NEW n \in Computed(t)
         PROVE  Within(n, -2000000000, 2100000000)
    BY <1>1, <1>3, <1>4, <1>6, <1>7, <1>8, <1>9, <1>12, <1>13, SMT DEF Within
  <1> QED
    BY <1>14, InInt32
=============================================================================
