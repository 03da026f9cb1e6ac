---------------------------- MODULE ImondTables ----------------------------
(***************************************************************************)
(* imond's tariff tables and calendar: read_config reads /etc/imond.conf   *)
(* line by line and marks the hours of the week each line is valid in;     *)
(* find_circuit looks up the circuit of the default route for the current  *)
(* weekday and hour, where a public holiday counts as a Sunday.  The dates *)
(* of the movable holidays are computed once per year and cached.          *)
(*                                                                         *)
(* Hours of the week are numbered 0..167 from Sunday 0:00 as in the code.  *)
(* Conf lines are numbered from 0; -1 stands for "none".                   *)
(***************************************************************************)
EXTENDS Integers, Sequences

CONSTANTS
    Files,       \* the contents /etc/imond.conf may have: sequences of lines
    Running,     \* those of them imond is run with, the others are only read
    Years,       \* bound: the years the clock of the router runs through
    Hours        \* bound: the hours of a day at which imond looks at the clock

\* A line names weekdays, hours and a circuit: convert_week_day_to_day numbers
\* the days from Sunday, and the build accepts the hours 00 to 24 (CIRC_HOUR).
Line == [start_day : 0 .. 6, end_day : 0 .. 6, start_hour : 0 .. 24, end_hour : 0 .. 24,
         is_lcr : BOOLEAN, circuit : Nat]

ASSUME FilesAssumption == Files \subseteq Seq(Line)

ASSUME ClockAssumption ==
    /\ Years \subseteq Nat \ {0} /\ \E y \in Years : \A z \in Years : y <= z
    /\ Hours \subseteq 0 .. 23

VARIABLES
    file,          \* the content of /etc/imond.conf, which does not change
    conf_data,     \* per line: circuit_idx, is_lcr and the hours it is valid in
    time_table,    \* hour of the week -> LCR line shown by command timetable
    date,          \* the date of the clock [day, month, year]
    last_year,     \* is_holiday: the year the cached holidays belong to
    holidays,      \* is_holiday: the cached holidays [day, month]
    routed         \* the last lookup of find_circuit [hour, circuit]

tables == <<file, conf_data, time_table>>
vars == <<file, conf_data, time_table, date, last_year, holidays, routed>>

HOURS_PER_DAY == 24
DAYS_PER_WEEK == 7
SUNDAY == 0
HoursOfWeek == 0 .. (HOURS_PER_DAY * DAYS_PER_WEEK - 1)
NotLooked == [hour |-> -1, circuit |-> -1]

-----------------------------------------------------------------------------
(***************************************************************************)
(* The calendar of the C library: localtime.                               *)
(***************************************************************************)
LeapYear(y) == y % 4 = 0 /\ (y % 100 # 0 \/ y % 400 = 0)

MonthLength(m, y) ==
    CASE m = 2 -> IF LeapYear(y) THEN 29 ELSE 28
      [] m \in {4, 6, 9, 11} -> 30
      [] OTHER -> 31

\* Days since 1 March of the year 0, with the year beginning in March.
DayNumber(d, m, y) ==
    LET yy == IF m <= 2 THEN y - 1 ELSE y
        mm == IF m <= 2 THEN m + 9 ELSE m - 3
    IN  365 * yy + yy \div 4 - yy \div 100 + yy \div 400
        + (153 * mm + 2) \div 5 + d - 1

WeekDay(dt) == (DayNumber(dt.day, dt.month, dt.year) + 3) % 7

Tomorrow(dt) ==
    IF dt.day < MonthLength(dt.month, dt.year)
    THEN [dt EXCEPT !.day = @ + 1]
    ELSE IF dt.month < 12
         THEN [day |-> 1, month |-> dt.month + 1, year |-> dt.year]
         ELSE [day |-> 1, month |-> 1, year |-> dt.year + 1]

-----------------------------------------------------------------------------
(***************************************************************************)
(* add_days and is_holiday.                                                *)
(***************************************************************************)
g_days_per_month == <<31, 28, 31, 30, 31, 30, 31, 31, 30, 31, 30, 31>>

\* The length of a month as add_days takes it: the additional day of a leap
\* year goes to month 1.
DaysThisMonth(m, y) ==
    g_days_per_month[m] + (IF m = 1 /\ LeapYear(y) THEN 1 ELSE 0)

add_days[d \in Int, m \in 1 .. 12, y \in Int, n \in Int] ==
    CASE n > 0 /\ d + n > DaysThisMonth(m, y) ->
           add_days[1, IF m = 12 THEN 1 ELSE m + 1, IF m = 12 THEN y + 1 ELSE y,
                    d + n - DaysThisMonth(m, y) - 1]
      [] n < 0 /\ d + n <= 0 ->
           LET mm == IF m = 1 THEN 12 ELSE m - 1
               yy == IF m = 1 THEN y - 1 ELSE y
           IN  add_days[DaysThisMonth(mm, yy), mm, yy, d + n]
      [] OTHER -> [day |-> d + n, month |-> m]

FixedHolidays ==
    <<[day |-> 1, month |-> 1], [day |-> 1, month |-> 5], [day |-> 3, month |-> 10],
      [day |-> 25, month |-> 12], [day |-> 26, month |-> 12]>>
EasterOffsets == <<-2, 1, 39, 50>>

\* Easter as is_holiday computes it.
Easter(year) ==
    LET a == year % 19
        b == year % 4
        c == year % 7
        m == (8 * (year \div 100) + 13) \div 25 - 2
        s == year \div 100 - year \div 400 - 2
        MM == (15 + s - m) % 30
        N == (6 + s) % 7
        d == (MM + 19 * a) % 30
        D == CASE d = 29 -> 28
               [] d = 28 /\ a >= 11 -> 27
               [] OTHER -> d
        e == (2 * b + 4 * c + 6 * D + N) % 7
        day == 21 + D + e + 1
    IN  IF day > 31 THEN [day |-> day - 31, month |-> 4]
                    ELSE [day |-> day, month |-> 3]

HolidaysOf(year) ==
    FixedHolidays \o
    [i \in DOMAIN EasterOffsets |->
        add_days[Easter(year).day, Easter(year).month, year, EasterOffsets[i]]]

\* Mutant: the cache is only renewed when the year has gone up.
CachedHolidays_Forward(year) == IF last_year < year THEN HolidaysOf(year) ELSE holidays

\* The cache after a call of is_holiday for the year.
CachedHolidays(year) == IF last_year # year THEN HolidaysOf(year) ELSE holidays

IsHoliday(dt) ==
    \E i \in DOMAIN CachedHolidays(dt.year) :
        CachedHolidays(dt.year)[i] = [day |-> dt.day, month |-> dt.month]

-----------------------------------------------------------------------------
(***************************************************************************)
(* read_config: one line.  fill_time_table marks the hours from..to-1.     *)
(***************************************************************************)
fill_time_table(tab, from, to, value) ==
    [h \in HoursOfWeek |-> IF from <= h /\ h < to THEN value ELSE tab[h]]

FillDay(tab, l, day, value) ==
    LET base == day * HOURS_PER_DAY
    IN  IF l.start_hour > l.end_hour
        THEN fill_time_table(
                 fill_time_table(tab, base + l.start_hour, base + HOURS_PER_DAY, value),
                 base, base + l.end_hour, value)
        ELSE fill_time_table(tab, base + l.start_hour, base + l.end_hour, value)

\* The days from start_day to end_day, round the week: filled[n] is the table
\* after day number n of the line, counted from 0.
FillDays(tab, l, value) ==
    LET filled[n \in 0 .. DAYS_PER_WEEK - 1] ==
            FillDay(IF n = 0 THEN tab ELSE filled[n - 1], l,
                    (l.start_day + n) % DAYS_PER_WEEK, value)
    IN  filled[(l.end_day - l.start_day) % DAYS_PER_WEEK]

\* Mutant: lines that are not for least cost routing are shown as well.
FillGlobalTable_All(l) == FillDays(time_table, l, Len(conf_data))

FillGlobalTable(l) ==
    IF l.is_lcr THEN FillDays(time_table, l, Len(conf_data)) ELSE time_table

EmptyTable == [h \in HoursOfWeek |-> 0]

ReadLine(l) ==
    /\ Len(conf_data) < Len(file) /\ l = file[Len(conf_data) + 1]
    /\ conf_data' = Append(conf_data,
           [circuit_idx |-> l.circuit, is_lcr |-> l.is_lcr,
            table |-> FillDays(EmptyTable, l, 1)])
    /\ time_table' = FillGlobalTable(l)
    /\ UNCHANGED <<file, date, last_year, holidays, routed>>

-----------------------------------------------------------------------------
(***************************************************************************)
(* find_circuit, called by check_routing with automatic routing, and the   *)
(* clock.                                                                  *)
(***************************************************************************)
HourOfWeek(dt, hour) ==
    (IF IsHoliday(dt) THEN SUNDAY ELSE WeekDay(dt)) * HOURS_PER_DAY + hour

\* The first LCR line valid in an hour of the week.
FindLine(h) ==
    LET valid == {i \in DOMAIN conf_data : conf_data[i].table[h] = 1 /\ conf_data[i].is_lcr}
    IN  IF valid = {} THEN -1 ELSE (CHOOSE i \in valid : \A j \in valid : i <= j) - 1

CircuitOfLine(i) == IF i = -1 THEN -1 ELSE conf_data[i + 1].circuit_idx

find_circuit(hour) ==
    /\ file \in Running /\ Len(conf_data) = Len(file)
    /\ routed = NotLooked
    /\ last_year' = date.year
    /\ holidays' = CachedHolidays(date.year)
    /\ routed' = [hour |-> hour,
                  circuit |-> CircuitOfLine(FindLine(HourOfWeek(date, hour)))]
    /\ UNCHANGED <<tables, date>>

\* Midnight, or a change of the clock (adjust-time) by a year.
NewDate ==
    /\ routed # NotLooked
    /\ \/ date' = Tomorrow(date)
       \/ \E y \in {date.year - 1, date.year + 1} :
             date' = [date EXCEPT !.day = IF date.month = 2 THEN 1 ELSE @, !.year = y]
    /\ date'.year \in Years
    /\ routed' = NotLooked
    /\ UNCHANGED <<tables, last_year, holidays>>

Init ==
    /\ file \in Files /\ conf_data = <<>>
    /\ time_table = [h \in HoursOfWeek |-> -1]
    /\ date = [day |-> 1, month |-> 1, year |-> CHOOSE y \in Years : \A z \in Years : y <= z]
    /\ last_year = 0 /\ holidays = <<>> /\ routed = NotLooked

Next ==
    \/ \E l \in {file[i] : i \in DOMAIN file} : ReadLine(l)
    \/ \E h \in Hours : find_circuit(h)
    \/ NewDate

Spec == Init /\ [][Next]_vars

-----------------------------------------------------------------------------
(***************************************************************************)
(* The reference: the hours a line covers, and Easter by the rule of the   *)
(* Gregorian calendar.                                                     *)
(***************************************************************************)
Covers(l, day, hour) ==
    /\ (day - l.start_day) % DAYS_PER_WEEK <= (l.end_day - l.start_day) % DAYS_PER_WEEK
    /\ IF l.start_hour > l.end_hour
       THEN hour >= l.start_hour \/ hour < l.end_hour
       ELSE l.start_hour <= hour /\ hour < l.end_hour

\* Easter Sunday: the Sunday after the full moon given by golden number and
\* epact, corrected for the century's leap years and the moon's drift.
EasterSunday(y) ==
    LET a == y % 19
        b == y \div 100
        c == y % 100
        h == (19 * a + b - b \div 4 - (b - (b + 8) \div 25 + 1) \div 3 + 15) % 30
        l == (32 + 2 * (b % 4) + 2 * (c \div 4) - h - (c % 4)) % 7
        m == (a + 11 * h + 22 * l) \div 451
        n == h + l - 7 * m + 114
    IN  DayNumber((n % 31) + 1, n \div 31, y)

PublicHoliday(dt) ==
    \/ <<dt.day, dt.month>> \in {<<1, 1>>, <<1, 5>>, <<3, 10>>, <<25, 12>>, <<26, 12>>}
    \/ DayNumber(dt.day, dt.month, dt.year) - EasterSunday(dt.year) \in {-2, 1, 39, 50}

Dates ==
    {dt \in [day : 1 .. 31, month : 1 .. 12, year : Years] :
        dt.day <= MonthLength(dt.month, dt.year)}

\* The holidays is_holiday computes for a year are those of the calendar.
CalendarAgrees ==
    \A dt \in Dates :
        PublicHoliday(dt) <=> \E i \in DOMAIN HolidaysOf(dt.year) :
                                 HolidaysOf(dt.year)[i] = [day |-> dt.day, month |-> dt.month]

TariffDay(dt) == IF PublicHoliday(dt) THEN SUNDAY ELSE WeekDay(dt)

LcrLines(day, hour) ==
    {i \in DOMAIN conf_data : file[i].is_lcr /\ Covers(file[i], day, hour)}

(***************************************************************************)
(* The circuit check_routing is given is the one of the first LCR line     *)
(* whose days and hours contain the current ones, a public holiday         *)
(* counting as a Sunday: the holidays (with the cache kept across changes  *)
(* of the clock's year, and add_days' own notion of a leap year), the      *)
(* wrap-around of days and hours in read_config and the lookup in          *)
(* find_circuit agree.                                                     *)
(***************************************************************************)
RouteFollowsTariff ==
    routed # NotLooked =>
        LET lcr == LcrLines(TariffDay(date), routed.hour)
        IN  routed.circuit = IF lcr = {} THEN -1
                             ELSE file[CHOOSE i \in lcr : \A j \in lcr : i <= j].circuit

(***************************************************************************)
(* What command timetable prints (get_timetable) is where find_circuit     *)
(* routes: in an hour without LCR line both say none, in an hour with LCR  *)
(* lines of one circuit both name that circuit.                            *)
(***************************************************************************)
TimetableShowsRoute ==
    \A day \in 0 .. 6, hour \in 0 .. 23 :
        LET lcr == LcrLines(day, hour)
            h == day * HOURS_PER_DAY + hour
        IN  (\A i, j \in lcr : file[i].circuit = file[j].circuit) =>
                CircuitOfLine(time_table[h]) = CircuitOfLine(FindLine(h))
=============================================================================
