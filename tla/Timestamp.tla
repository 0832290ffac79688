----------------------------- MODULE Timestamp -----------------------------
(***************************************************************************)
(* rfc3339_from_unix of crd_discovery.rs: the date and the time of day of  *)
(* a number of seconds since 1970-01-01, by arithmetic on 400-year eras    *)
(* that begin on 1 March.  The digits of the result are left out.          *)
(***************************************************************************)
EXTENDS Integers

\* Variant of year_of_era: a century is taken for a leap year.
YearOfEraJulian(doe) == (doe - doe \div 1460) \div 365

year_of_era(doe) ==
  (doe - doe \div 1460 + doe \div 36524 - doe \div 146096) \div 365

\* The date of a day of an era.
date_in_era(era, doe) ==
  LET yoe == year_of_era(doe)
      y == yoe + era * 400
      doy == doe - (365 * yoe + yoe \div 4 - yoe \div 100)
      mp == (5 * doy + 2) \div 153
      day == doy - (153 * mp + 2) \div 5 + 1
      month == IF mp < 10 THEN mp + 3 ELSE mp - 9
  IN [year |-> IF month <= 2 THEN y + 1 ELSE y, month |-> month, day |-> day]

\* The date of a day, which is counted from 0000-03-01 first; days since the epoch
\* are never negative here.
civil_from_days(days) ==
  LET z == days + 719468
      era == z \div 146097
  IN date_in_era(era, z - era * 146097)

\* The time of a second of the day.
time_of_day(sod) ==
  [hour |-> sod \div 3600, minute |-> (sod % 3600) \div 60, second |-> sod % 60]

\* rfc3339_from_unix(days * 86400 + sod); the product would leave TLC's integers.
rfc3339_from_unix(days, sod) ==
  [date |-> civil_from_days(days), time |-> time_of_day(sod)]

-----------------------------------------------------------------------------
\* The calendar, as the Gregorian rule states it.
IsLeap(y) == (y % 4 = 0 /\ y % 100 # 0) \/ y % 400 = 0

DaysIn(y, m) ==
  CASE m = 2 -> IF IsLeap(y) THEN 29 ELSE 28
    [] m \in {4, 6, 9, 11} -> 30
    [] OTHER -> 31

DayAfter(d) ==
  IF d.day < DaysIn(d.year, d.month) THEN [year |-> d.year, month |-> d.month, day |-> d.day + 1]
  ELSE IF d.month < 12 THEN [year |-> d.year, month |-> d.month + 1, day |-> 1]
  ELSE [year |-> d.year + 1, month |-> 1, day |-> 1]

SecondAfter(t) ==
  IF t.second < 59 THEN [hour |-> t.hour, minute |-> t.minute, second |-> t.second + 1]
  ELSE IF t.minute < 59 THEN [hour |-> t.hour, minute |-> t.minute + 1, second |-> 0]
  ELSE [hour |-> (t.hour + 1) % 24, minute |-> 0, second |-> 0]
=============================================================================
