---------------------------- MODULE HubCalendar -----------------------------
(***************************************************************************)
(* unix_to_iso8601, which the hub's clock, the agent's alerts and the        *)
(* agent's routes each hold a copy of: years and months taken off a day      *)
(* count one by one.  Checked against a calendar that only knows the next    *)
(* day.                                                                      *)
(***************************************************************************)
EXTENDS Naturals, Sequences

CONSTANTS CalendarStarts,   \* days whose date is known: <<day, y, m, d>>
          CalendarDays      \* bound: days walked from each

VARIABLES dayNumber, civil, walked

calVars == <<dayNumber, civil, walked>>

IsLeapJulian(y) == y % 4 = 0  \* mutant: no centuries
IsLeap(y) == (y % 4 = 0 /\ y % 100 # 0) \/ y % 400 = 0

DaysInYear(y) == IF IsLeap(y) THEN 366 ELSE 365
MonthDays(y) == <<31, IF IsLeap(y) THEN 29 ELSE 28, 31, 30, 31, 30, 31, 31, 30, 31, 30, 31>>

\* The year loop: from 1970, a whole year at a time.
RECURSIVE YearOf(_, _)
YearOf(y, d) == IF d < DaysInYear(y) THEN <<y, d>> ELSE YearOf(y + 1, d - DaysInYear(y))

\* The month loop; after December it would stop with m = 13.
RECURSIVE MonthOf(_, _, _)
MonthOf(days, m, d) == IF m > 12 \/ d < days[m] THEN <<m, d>> ELSE MonthOf(days, m + 1, d - days[m])

DateOf(day) ==
    LET year == YearOf(1970, day)
        month == MonthOf(MonthDays(year[1]), 1, year[2])
    IN  <<year[1], month[1], month[2] + 1>>

\* unix_to_iso8601 of the instant 86400 * day + tod, as the fields it prints.
UnixToIso8601(day, tod) == DateOf(day) \o <<tod \div 3600, (tod % 3600) \div 60, tod % 60>>

-----------------------------------------------------------------------------
CalendarInit ==
    \E s \in CalendarStarts : dayNumber = s[1] /\ civil = <<s[2], s[3], s[4]>> /\ walked = 0

\* The Gregorian calendar's next day.
Long == {1, 3, 5, 7, 8, 10, 12}
LastOf(y, m) ==
    IF m \in Long THEN 31 ELSE IF m # 2 THEN 30
    ELSE IF y % 400 = 0 \/ (y % 4 = 0 /\ y % 100 # 0) THEN 29 ELSE 28

NextDay ==
    LET y == civil[1]
        m == civil[2]
        d == civil[3]
    IN  /\ walked < CalendarDays /\ walked' = walked + 1 /\ dayNumber' = dayNumber + 1
        /\ civil' = IF d < LastOf(y, m) THEN <<y, m, d + 1>>
                    ELSE IF m < 12 THEN <<y, m + 1, 1>> ELSE <<y + 1, 1, 1>>

\* Every instant is printed as its calendar date and its time within the day, so the last-seen
\* and fired-at columns, which are compared as text, are in the order of their instants.
IsoIsCalendar ==
    \A tod \in {0, 3599, 43200, 86399} :
        LET iso == UnixToIso8601(dayNumber, tod)
        IN  SubSeq(iso, 1, 3) = civil /\ iso[4] * 3600 + iso[5] * 60 + iso[6] = tod
=============================================================================
