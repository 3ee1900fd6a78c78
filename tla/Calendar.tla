------------------------------ MODULE Calendar ------------------------------
(***************************************************************************)
(* internal/settlement/cutoff.go: the end-of-day cutoff of 6:30 PM in      *)
(* Chicago and the business days of the settlement batches, at every       *)
(* moment `now` of the years from 2025 to LastYear.                        *)
(*                                                                         *)
(* A day is its number, day 0 being Wednesday, 1 January 2025; a moment is *)
(* the number of half hours since day 0, 00:00 UTC.  The Gregorian         *)
(* calendar and the daylight saving time of America/Chicago are Go's       *)
(* package time and its zone database, external to the program.            *)
(***************************************************************************)
EXTENDS Integers, FiniteSets, FiniteSetsExt

CONSTANTS
    LastYear,   \* bound: the last year the clock reaches
    ClockStep   \* half hours from one observed moment to the next

ASSUME CalendarAssumption ==
    /\ LastYear \in 2025..2098     \* every fourth year is a leap year
    /\ ClockStep \in Nat \ {0}

VARIABLE now

----------------------------------------------------------------------------
(* Package time *)

Years == 2024..(LastYear + 1)

Sunday == 0
Monday == 1
Thursday == 4
Friday == 5
Saturday == 6

Weekday(d) == (d + 3) % 7

YearStart(y) == 365 * (y - 2025) + (y - 1) \div 4 - 506

MonthLength(y, m) ==
    CASE m = 2 -> IF y % 4 = 0 THEN 29 ELSE 28
      [] m \in {4, 6, 9, 11} -> 30
      [] OTHER -> 31

MonthStart ==
    [y \in Years |->
        [m \in 1..12 |-> YearStart(y) + MapThenSumSet(LAMBDA k : MonthLength(y, k), 1..(m - 1))]]

DayOf(y, m, d) == MonthStart[y][m] + d - 1

\* The date a day number stands for; a table, as it is looked up for every day.
Civil ==
    [day \in YearStart(2024)..(YearStart(LastYear + 2) - 1) |->
        LET y == CHOOSE k \in Years : YearStart(k) <= day /\ day < YearStart(k + 1)
            m == CHOOSE k \in 1..12 :
                    MonthStart[y][k] <= day /\ day < MonthStart[y][k] + MonthLength(y, k)
        IN  [year |-> y, month |-> m, day |-> day - MonthStart[y][m] + 1]]

\* The n-th wd of a month.
NthWeekday(n, wd, y, m) ==
    CHOOSE d \in DayOf(y, m, 7 * n - 6)..DayOf(y, m, 7 * n) : Weekday(d) = wd

\* Daylight saving time runs from 2:00 on the second Sunday of March to 2:00 on
\* the first Sunday of November; both moments in UTC.
DaylightSaving ==
    [y \in Years |-> [from |-> 48 * NthWeekday(2, Sunday, y, 3) + 16,
                      to |-> 48 * NthWeekday(1, Sunday, y, 11) + 14]]

Offset(t) ==
    LET dst == DaylightSaving[Civil[t \div 48].year]
    IN  IF dst.from <= t /\ t < dst.to THEN 10 ELSE 12

\* t.In(CTLocation): its day, and the moment of a time of day there.
DateInCT(t) == (t - Offset(t)) \div 48

CTMoment(day, halfHour) ==
    CHOOSE t \in {48 * day + halfHour + 10, 48 * day + halfHour + 12} :
        t - Offset(t) = 48 * day + halfHour

----------------------------------------------------------------------------
(* cutoff.go *)

Cutoff == 37    \* CutoffHour:CutoffMinute = 18:30

explicitHolidays ==
    { <<2025, 1, 1>>, <<2025, 1, 20>>, <<2025, 2, 17>>, <<2025, 5, 26>>, <<2025, 6, 19>>,
      <<2025, 7, 4>>, <<2025, 9, 1>>, <<2025, 10, 13>>, <<2025, 11, 11>>, <<2025, 11, 27>>,
      <<2025, 12, 25>>,
      <<2026, 1, 1>>, <<2026, 1, 19>>, <<2026, 2, 16>>, <<2026, 5, 25>>, <<2026, 6, 19>>,
      <<2026, 7, 3>>, <<2026, 9, 7>>, <<2026, 10, 12>>, <<2026, 11, 11>>, <<2026, 11, 26>>,
      <<2026, 12, 25>> }

\* A date, or the Monday after or the Friday before it when the code tests for
\* those: New Year's Day, Juneteenth, Independence, Veterans and Christmas Day.
FixedRule(m, d, wd) ==
    \/ <<m, d>> \in {<<1, 1>>, <<6, 19>>, <<7, 4>>, <<11, 11>>, <<12, 25>>}
    \/ wd = Monday /\ <<m, d>> \in {<<1, 2>>, <<6, 20>>, <<7, 5>>, <<11, 12>>, <<12, 26>>}
    \/ wd = Friday /\ <<m, d>> \in {<<12, 31>>, <<6, 18>>, <<7, 3>>, <<11, 10>>, <<12, 24>>}

\* Mutant: Memorial Day is looked for in the fourth week only.
WeekdayRuleShortMay(m, d, wd) ==
    \/ /\ wd = Monday
       /\ \/ m \in {1, 2} /\ d \in 15..21
          \/ m = 5 /\ d \in 22..28
          \/ m = 9 /\ d <= 7
          \/ m = 10 /\ d \in 8..14
    \/ wd = Thursday /\ m = 11 /\ d \in 22..28

\* Martin Luther King, Presidents', Memorial, Labor and Columbus Day, Thanksgiving.
WeekdayRule(m, d, wd) ==
    \/ /\ wd = Monday
       /\ \/ m \in {1, 2} /\ d \in 15..21
          \/ m = 5 /\ d >= 25
          \/ m = 9 /\ d <= 7
          \/ m = 10 /\ d \in 8..14
    \/ wd = Thursday /\ m = 11 /\ d \in 22..28

isFederalHoliday(day) ==
    LET c == Civil[day] IN
    \/ FixedRule(c.month, c.day, Weekday(day))
    \/ WeekdayRule(c.month, c.day, Weekday(day))
    \/ <<c.year, c.month, c.day>> \in explicitHolidays

IsBusinessDay(day) == Weekday(day) \notin {Saturday, Sunday} /\ ~isFederalHoliday(day)

\* The loop of NextBusinessDay, from the day after its argument.
SkipToBusinessDay[day \in Nat] ==
    IF IsBusinessDay(day) THEN day ELSE SkipToBusinessDay[day + 1]

NextBusinessDay(day) == SkipToBusinessDay[day + 1]

\* The cutoff on day, as a moment.
CutoffForDate(day) == CTMoment(day, Cutoff)

\* Mutant: past today's cutoff, the next day's, business day or not.
CurrentCutoffNextDay(t) ==
    LET today == DateInCT(t) IN
    IF t < CutoffForDate(today) THEN CutoffForDate(today) ELSE CutoffForDate(today + 1)

CurrentCutoff(t) ==
    LET today == DateInCT(t) IN
    IF t < CutoffForDate(today) THEN CutoffForDate(today)
    ELSE CutoffForDate(NextBusinessDay(today))

\* Mutant: a deposit at the very cutoff is still in the day's batch.
BatchCutoffDateInclusive(t) ==
    LET today == DateInCT(t) IN
    IF t <= CutoffForDate(today) /\ IsBusinessDay(today) THEN today
    ELSE NextBusinessDay(today)

BatchCutoffDate(t) ==
    LET today == DateInCT(t) IN
    IF t < CutoffForDate(today) /\ IsBusinessDay(today) THEN today
    ELSE NextBusinessDay(today)

----------------------------------------------------------------------------
(* The clock *)

LastMoment == 48 * YearStart(LastYear + 1) - 1

\* The clock runs from some day on, observed at every ClockStep.
Init == now \in {t \in 48..LastMoment : t % 48 = 1}

ClockTicks ==
    /\ now + ClockStep <= LastMoment
    /\ now' = now + ClockStep

Next == ClockTicks

Spec == Init /\ [][Next]_now

----------------------------------------------------------------------------
(* Properties *)

\* What the law says of the federal holidays: a holiday with a fixed date that
\* falls on a Saturday is observed the Friday before, on a Sunday the Monday after.
Observed(d) ==
    IF Weekday(d) = Saturday THEN d - 1 ELSE IF Weekday(d) = Sunday THEN d + 1 ELSE d

LegalHolidays ==
    UNION { {Observed(DayOf(y, 1, 1)), Observed(DayOf(y, 6, 19)), Observed(DayOf(y, 7, 4)),
             Observed(DayOf(y, 11, 11)), Observed(DayOf(y, 12, 25)),
             NthWeekday(3, Monday, y, 1), NthWeekday(3, Monday, y, 2),
             Max({d \in DayOf(y, 5, 1)..DayOf(y, 5, 31) : Weekday(d) = Monday}),
             NthWeekday(1, Monday, y, 9), NthWeekday(2, Monday, y, 10),
             NthWeekday(4, Thursday, y, 11)} : y \in Years }

\* The tests on month, day and weekday find exactly the working days on which a
\* federal holiday is observed, New Year's Day of the next year included, and the
\* explicit list adds none.
HolidaysAreLegal ==
    LET today == DateInCT(now) IN
    Weekday(today) \in Monday..Friday =>
        (isFederalHoliday(today) <=> today \in LegalHolidays)

\* A deposit belongs to the first business day whose cutoff is still to come when it
\* is submitted, at the cutoff itself, over weekends, holidays and changes of clock.
BatchIsFirstOpen ==
    /\ IsBusinessDay(BatchCutoffDate(now))
    /\ now < CutoffForDate(BatchCutoffDate(now))
    /\ \A d \in (DateInCT(now) - 1)..(BatchCutoffDate(now) - 1) :
          IsBusinessDay(d) => CutoffForDate(d) <= now

\* The current cutoff is still to come, and on a business day, and after the cutoff
\* of any day, it is the cutoff of the batch that takes a deposit made now.
CurrentCutoffIsBatch ==
    /\ now < CurrentCutoff(now)
    /\ IsBusinessDay(DateInCT(now)) \/ CutoffForDate(DateInCT(now)) <= now =>
          CurrentCutoff(now) = CutoffForDate(BatchCutoffDate(now))
=============================================================================
