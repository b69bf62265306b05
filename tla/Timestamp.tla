----------------------------- MODULE Timestamp -----------------------------
(***************************************************************************)
(* Dates on an MFS volume (timestamp.rs): 32 bits of seconds since 1904,   *)
(* here days and the seconds of a day (a whole count of seconds is more    *)
(* than TLC's integers hold; the code divides by 86,400 first thing).      *)
(***************************************************************************)
EXTENDS Integers, Sequences

DaySeconds == 86400

\* MAC_EPOCH_TO_UNIX, in days: 66 years of which 17 were leap years.
EpochDays == 66 * 365 + 17

\* u32::MAX seconds.
LastInstant  == [day |-> 49710, sec |-> 23295]
FirstInstant == [day |-> 0, sec |-> 0]

Before(s, t) == s.day < t.day \/ (s.day = t.day /\ s.sec < t.sec)

\* to_unix: the day may be negative, the second of it is not (rem_euclid).
ToUnix(t) == [t EXCEPT !.day = @ - EpochDays]

None == [day |-> -1, sec |-> -1]

FromUnix(u) ==
  LET t == [u EXCEPT !.day = @ + EpochDays]
  IN  IF Before(t, FirstInstant) \/ Before(LastInstant, t) THEN None ELSE t

\* now(), for what the system's clock reads.
Now(u) ==
  LET t == [u EXCEPT !.day = @ + EpochDays]
  IN  IF Before(t, FirstInstant) THEN FirstInstant
      ELSE IF Before(LastInstant, t) THEN LastInstant ELSE t

\* Mutant: the correction for the years divisible by 100 is left out.
JulianYearOfEra(doe) == (doe - doe \div 1460 - doe \div 146096) \div 365

YearOfEra(doe) == (doe - doe \div 1460 + doe \div 36524 - doe \div 146096) \div 365

\* to_ymd_hms, the date: years begin in March, days are counted from 0000-03-01.
Date(t) ==
  LET z   == ToUnix(t).day + 719468
      doe == z % 146097
      yoe == YearOfEra(doe)
      doy == doe - (365 * yoe + yoe \div 4 - yoe \div 100)
      mp  == (5 * doy + 2) \div 153
      m   == mp + (IF mp < 10 THEN 3 ELSE -9)
  IN  <<yoe + (z \div 146097) * 400 + (IF m <= 2 THEN 1 ELSE 0), m, doy - (153 * mp + 2) \div 5 + 1>>

TimeOfDay(t) == <<t.sec \div 3600, (t.sec \div 60) % 60, t.sec % 60>>

-----------------------------------------------------------------------------
(***************************************************************************)
(* The calendar, one day after the other, for as long as 32 bits last.     *)
(***************************************************************************)
VARIABLES today,   \* days since 1904
          date     \* the date on the calendar

calendar == <<today, date>>

IsLeap(y) == y % 4 = 0 /\ (y % 100 # 0 \/ y % 400 = 0)

MonthLength(y, m) ==
  IF m = 2 THEN (IF IsLeap(y) THEN 29 ELSE 28) ELSE IF m \in {4, 6, 9, 11} THEN 30 ELSE 31

DayAfter(d) ==
  IF d[3] < MonthLength(d[1], d[2]) THEN <<d[1], d[2], d[3] + 1>>
  ELSE IF d[2] < 12 THEN <<d[1], d[2] + 1, 1>> ELSE <<d[1] + 1, 1, 1>>

CalendarInit == today = 0 /\ date = <<1904, 1, 1>>

Midnight == today < LastInstant.day /\ today' = today + 1 /\ date' = DayAfter(date)

-----------------------------------------------------------------------------
\* "The u32 range runs from 1904-01-01 to 2040-02-06", and no timestamp in it is
\* shown as another day than the calendar has, or one there never was (to_ymd_hms).
DatesAreGregorian ==
  /\ Date([day |-> today, sec |-> 0]) = date
  /\ today = LastInstant.day => date = <<2040, 2, 6>>
=============================================================================
