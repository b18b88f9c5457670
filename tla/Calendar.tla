------------------------------- MODULE Calendar -------------------------------
(* The exchange's calendar (timeutil.py). A day is its ordinal: day 1 is the *)
(* first of January of year 1, a Monday.                                     *)
EXTENDS Integers, FiniteSets

(* The standard library's dates.                                             *)
Leap(y) == (y % 4 = 0 /\ y % 100 # 0) \/ y % 400 = 0
Lengths(y) == <<31, IF Leap(y) THEN 29 ELSE 28, 31, 30, 31, 30, 31, 31, 30, 31, 30, 31>>
BeforeMonth(y, month) ==
    <<0, 31, 59, 90, 120, 151, 181, 212, 243, 273, 304, 334>>[month] + IF month > 2 /\ Leap(y) THEN 1 ELSE 0
BeforeYear(y) == (y - 1) * 365 + (y - 1) \div 4 - (y - 1) \div 100 + (y - 1) \div 400
Date(y, m, d) == BeforeYear(y) + BeforeMonth(y, m) + d
Year(day) ==
    CHOOSE y \in (day \div 366)..(day \div 365 + 1) : BeforeYear(y) < day /\ day <= BeforeYear(y + 1)
Weekday(day) == (day + 6) % 7

NthWeekday(y, m, weekday, n) ==
    LET first == Date(y, m, 1) IN first + ((weekday - Weekday(first)) % 7) + 7 * (n - 1)
LastWeekday(y, m, weekday) ==
    LET end == Date(y, m, Lengths(y)[m]) IN end - ((Weekday(end) - weekday) % 7)

(* Mutant: without the corrections of the moon.                              *)
EasterUncorrected(y) ==
    LET a == y % 19
        b == y \div 100
        c == y % 100
        h == (19 * a + b - (b \div 4) - ((b + 1) \div 3) + 15) % 30
        l == (32 + 2 * (b % 4) + 2 * (c \div 4) - h - (c % 4)) % 7
    IN Date(y, 3, 22) + h + l
(* _easter: the anonymous Gregorian algorithm; m moves the full moons that   *)
(* fall too late in April.                                                   *)
Easter(y) ==
    LET a == y % 19
        b == y \div 100
        c == y % 100
        g == (b - (b + 8) \div 25 + 1) \div 3
        h == (19 * a + b - (b \div 4) - g + 15) % 30
        l == (32 + 2 * (b % 4) + 2 * (c \div 4) - h - (c % 4)) % 7
        m == (a + 11 * h + 22 * l) \div 451
        sum == h + l - 7 * m + 114
    IN Date(y, sum \div 31, (sum % 31) + 1)

Observed(day) ==
    CASE Weekday(day) = 5 -> day - 1
      [] Weekday(day) = 6 -> day + 1
      [] OTHER -> day

MarketHolidays(y) ==
    {Observed(Date(y, 1, 1)), Observed(Date(y, 7, 4)), Observed(Date(y, 12, 25))}
        \cup (IF y < 2022 THEN {} ELSE {Observed(Date(y, 6, 19))})
        \cup {NthWeekday(y, 1, 0, 3), NthWeekday(y, 2, 0, 3), Easter(y) - 2,
              LastWeekday(y, 5, 0), NthWeekday(y, 9, 0, 1), NthWeekday(y, 11, 3, 4)}

IsTradingDay(day) == Weekday(day) < 5 /\ day \notin MarketHolidays(Year(day))
TradingDays(start, end) == {day \in start..end : IsTradingDay(day)}
(* The first trading day after a day: never more than four days away.        *)
NextTradingDay(day) ==
    CHOOSE d \in day + 1 .. day + 7 : IsTradingDay(d) /\ \A e \in day + 1 .. d - 1 : ~IsTradingDay(e)
=============================================================================
