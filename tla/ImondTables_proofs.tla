------------------------- MODULE ImondTables_proofs -------------------------
(***************************************************************************)
(* The tables read_config fills mark exactly the hours a line of           *)
(* imond.conf covers; what command timetable prints is therefore where     *)
(* find_circuit routes, and find_circuit follows the tariff if the         *)
(* holidays it computes are those of the calendar.                         *)
(***************************************************************************)
EXTENDS ImondTables, WellFoundedInduction, TLAPS

InHours(l, hour) ==
    IF l.start_hour > l.end_hour
    THEN hour >= l.start_hour \/ hour < l.end_hour
    ELSE l.start_hour <= hour /\ hour < l.end_hour

-----------------------------------------------------------------------------
(* Filling a table                                                         *)

\* The hours of the week are the hours of its days.
LEMMA HourSplit ==
    /\ \A h \in HoursOfWeek : /\ h \div 24 \in 0 .. 6 /\ h % 24 \in 0 .. 23
                              /\ h = (h \div 24) * 24 + (h % 24)
    /\ \A day \in 0 .. 6, hour \in 0 .. 23 :
          /\ day * 24 + hour \in HoursOfWeek
          /\ (day * 24 + hour) \div 24 = day
          /\ (day * 24 + hour) % 24 = hour
  <1>1. HoursOfWeek = 0 .. 167
    BY DEF HoursOfWeek, HOURS_PER_DAY, DAYS_PER_WEEK
  <1>2. \A h \in 0 .. 167 : /\ h \div 24 \in 0 .. 6 /\ h % 24 \in 0 .. 23
                           /\ h = (h \div 24) * 24 + (h % 24)
    OBVIOUS
  <1>3. \A day \in 0 .. 6, hour \in 0 .. 23 :
          /\ day * 24 + hour \in 0 .. 167
          /\ (day * 24 + hour) \div 24 = day
          /\ (day * 24 + hour) % 24 = hour
    OBVIOUS
  <1> QED
    BY <1>1, <1>2, <1>3

\* One day: the hours of the line on that day get the value, the others none.
LEMMA FillDayMarks ==
    ASSUME NEW l \in Line, NEW d \in 0 .. 6, NEW value, NEW tab
    PROVE  FillDay(tab, l, d, value) =
               [h \in HoursOfWeek |-> IF h \div 24 = d /\ InHours(l, h % 24)
                                      THEN value ELSE tab[h]]
  <1> DEFINE Marked == [h \in HoursOfWeek |-> IF h \div 24 = d /\ InHours(l, h % 24)
                                              THEN value ELSE tab[h]]
  <1>1. l.start_hour \in 0 .. 24 /\ l.end_hour \in 0 .. 24
    BY DEF Line
  <1>2. \A h \in HoursOfWeek : \A a, b \in 0 .. 24 :
           (h \div 24 = d /\ a <= h % 24 /\ h % 24 < b)
           <=> d * 24 + a <= h /\ h < d * 24 + b
    <2> SUFFICES ASSUME NEW h \in HoursOfWeek, NEW a \in 0 .. 24, NEW b \in 0 .. 24
                 PROVE  (h \div 24 = d /\ a <= h % 24 /\ h % 24 < b)
                        <=> d * 24 + a <= h /\ h < d * 24 + b
      OBVIOUS
    <2>1. PICK q \in 0 .. 6, r \in 0 .. 23 :
             q = h \div 24 /\ r = h % 24 /\ h = q * 24 + r
      BY HourSplit
    <2>2. (q = d /\ a <= r /\ r < b) <=> d * 24 + a <= q * 24 + r /\ q * 24 + r < d * 24 + b
      OBVIOUS
    <2> QED
      BY <2>1, <2>2
  <1>3. CASE l.start_hour > l.end_hour
    <2> DEFINE first == fill_time_table(tab, d * 24 + l.start_hour, d * 24 + 24, value)
    <2>1. FillDay(tab, l, d, value) = fill_time_table(first, d * 24, d * 24 + l.end_hour, value)
      BY <1>3 DEF FillDay, HOURS_PER_DAY
    <2>2. \A h \in HoursOfWeek :
             first[h] = IF d * 24 + l.start_hour <= h /\ h < d * 24 + 24 THEN value ELSE tab[h]
      BY DEF fill_time_table
    <2>3. \A h \in HoursOfWeek :
             fill_time_table(first, d * 24, d * 24 + l.end_hour, value)[h] =
                 IF d * 24 <= h /\ h < d * 24 + l.end_hour THEN value ELSE first[h]
      BY DEF fill_time_table
    <2>4. \A h \in HoursOfWeek :
             (h \div 24 = d /\ InHours(l, h % 24))
             <=> \/ d * 24 + l.start_hour <= h /\ h < d * 24 + 24
                 \/ d * 24 <= h /\ h < d * 24 + l.end_hour
      <3> SUFFICES ASSUME NEW h \in HoursOfWeek
                   PROVE  (h \div 24 = d /\ InHours(l, h % 24))
                          <=> \/ d * 24 + l.start_hour <= h /\ h < d * 24 + 24
                              \/ d * 24 <= h /\ h < d * 24 + l.end_hour
        OBVIOUS
      <3>1. h % 24 \in 0 .. 23
        BY HourSplit
      <3>2. (h \div 24 = d /\ l.start_hour <= h % 24 /\ h % 24 < 24)
            <=> d * 24 + l.start_hour <= h /\ h < d * 24 + 24
        BY <1>1, <1>2, 24 \in 0 .. 24
      <3>3. (h \div 24 = d /\ 0 <= h % 24 /\ h % 24 < l.end_hour)
            <=> d * 24 + 0 <= h /\ h < d * 24 + l.end_hour
        BY <1>1, <1>2, 0 \in 0 .. 24
      <3> QED
        BY <1>1, <1>3, <3>1, <3>2, <3>3 DEF InHours
    <2>5. \A h \in HoursOfWeek :
             fill_time_table(first, d * 24, d * 24 + l.end_hour, value)[h] = Marked[h]
      BY <2>2, <2>3, <2>4
    <2> QED
      BY <2>1, <2>5 DEF fill_time_table
  <1>4. CASE ~(l.start_hour > l.end_hour)
    <2>1. FillDay(tab, l, d, value) =
             fill_time_table(tab, d * 24 + l.start_hour, d * 24 + l.end_hour, value)
      BY <1>4 DEF FillDay, HOURS_PER_DAY
    <2>2. \A h \in HoursOfWeek :
             (h \div 24 = d /\ InHours(l, h % 24))
             <=> d * 24 + l.start_hour <= h /\ h < d * 24 + l.end_hour
      BY <1>1, <1>4, <1>2 DEF InHours
    <2> QED
      BY <2>1, <2>2 DEF fill_time_table
  <1> QED
    BY <1>3, <1>4

\* Counting days round the week.
LEMMA RoundTheWeek ==
    \A a, b \in 0 .. 6 :
        /\ (a - b) % 7 = IF a >= b THEN a - b ELSE a - b + 7
        /\ (a + b) % 7 = IF a + b < 7 THEN a + b ELSE a + b - 7
  OBVIOUS

\* All days of a line: FillDays marks the hours the line covers.
LEMMA FillDaysMarks ==
    ASSUME NEW l \in Line, NEW value, NEW tab
    PROVE  FillDays(tab, l, value) =
               [h \in HoursOfWeek |-> IF Covers(l, h \div 24, h % 24) THEN value ELSE tab[h]]
  <1> DEFINE Step(f) == [n \in 0 .. DAYS_PER_WEEK - 1 |->
                            FillDay(IF n = 0 THEN tab ELSE f[n - 1], l,
                                    (l.start_day + n) % DAYS_PER_WEEK, value)]
             filled == CHOOSE f : f = Step(f)
             Upto(n) == [h \in HoursOfWeek |->
                            IF (h \div 24 - l.start_day) % 7 <= n /\ InHours(l, h % 24)
                            THEN value ELSE tab[h]]
             closed == [n \in 0 .. 6 |-> Upto(n)]
             last == (l.end_day - l.start_day) % 7
  <1>1. FillDays(tab, l, value) = filled[last]
    BY DEF FillDays, DAYS_PER_WEEK
  <1>2. l.start_day \in 0 .. 6 /\ l.end_day \in 0 .. 6
    BY DEF Line
  <1>3. \A n \in 0 .. 6 : (l.start_day + n) % 7 \in 0 .. 6
    BY <1>2, RoundTheWeek
  <1>4. FillDay(tab, l, (l.start_day + 0) % 7, value) = Upto(0)
    <2>1. \A h \in HoursOfWeek : h \div 24 = (l.start_day + 0) % 7
                                 <=> (h \div 24 - l.start_day) % 7 <= 0
      BY <1>2, HourSplit, RoundTheWeek
    <2> QED
      BY <1>2, <1>3, <2>1, FillDayMarks
  <1>5. \A n \in 1 .. 6 : FillDay(Upto(n - 1), l, (l.start_day + n) % 7, value) = Upto(n)
    <2> SUFFICES ASSUME NEW n \in 1 .. 6
                 PROVE  FillDay(Upto(n - 1), l, (l.start_day + n) % 7, value) = Upto(n)
      OBVIOUS
    <2>1. \A h \in HoursOfWeek :
             (h \div 24 - l.start_day) % 7 <= n
             <=> \/ h \div 24 = (l.start_day + n) % 7
                 \/ (h \div 24 - l.start_day) % 7 <= n - 1
      BY <1>2, HourSplit, RoundTheWeek
    <2>2. FillDay(Upto(n - 1), l, (l.start_day + n) % 7, value) =
             [h \in HoursOfWeek |-> IF h \div 24 = (l.start_day + n) % 7 /\ InHours(l, h % 24)
                                    THEN value ELSE Upto(n - 1)[h]]
      <3> HIDE DEF Upto
      <3> QED
        BY <1>3, FillDayMarks
    <2> QED
      BY <2>1, <2>2
  <1> HIDE DEF Upto
  <1>6. closed = Step(closed)
    <2>1. \A n \in 0 .. 6 : closed[n] = Step(closed)[n]
      <3> SUFFICES ASSUME NEW n \in 0 .. 6
                   PROVE  closed[n] = Step(closed)[n]
        OBVIOUS
      <3>1. CASE n = 0
        BY <1>4, <3>1 DEF DAYS_PER_WEEK
      <3>2. CASE n # 0
        <4>1. n \in 1 .. 6 /\ n - 1 \in 0 .. 6
          BY <3>2
        <4> QED
          BY <1>5, <3>2, <4>1 DEF DAYS_PER_WEEK
      <3> QED
        BY <3>1, <3>2
    <2> QED
      BY <2>1 DEF DAYS_PER_WEEK
  <1>7. filled = Step(filled)
    <2> HIDE DEF closed, Step
    <2> QED
      BY <1>6
  <1> HIDE DEF filled
  <1>8. filled[0] = Upto(0)
    BY <1>4, <1>7 DEF DAYS_PER_WEEK
  <1>9. \A n \in 1 .. 6 : filled[n - 1] = Upto(n - 1) => filled[n] = Upto(n)
    <2> SUFFICES ASSUME NEW n \in 1 .. 6, filled[n - 1] = Upto(n - 1)
                 PROVE  filled[n] = Upto(n)
      OBVIOUS
    <2>1. filled[n] = FillDay(filled[n - 1], l, (l.start_day + n) % 7, value)
      BY <1>7 DEF DAYS_PER_WEEK
    <2> QED
      BY <1>5, <2>1
  <1>10. filled[1] = Upto(1)
    BY <1>8, <1>9, 1 \in 1 .. 6, 1 - 1 = 0
  <1>11. filled[2] = Upto(2)
    BY <1>10, <1>9, 2 \in 1 .. 6, 2 - 1 = 1
  <1>12. filled[3] = Upto(3)
    BY <1>11, <1>9, 3 \in 1 .. 6, 3 - 1 = 2
  <1>13. filled[4] = Upto(4)
    BY <1>12, <1>9, 4 \in 1 .. 6, 4 - 1 = 3
  <1>14. filled[5] = Upto(5)
    BY <1>13, <1>9, 5 \in 1 .. 6, 5 - 1 = 4
  <1>15. filled[6] = Upto(6)
    BY <1>14, <1>9, 6 \in 1 .. 6, 6 - 1 = 5
  <1>16. last \in 0 .. 6
    BY <1>2, RoundTheWeek
  <1> HIDE DEF last
  <1>17. filled[last] = Upto(last)
    <2>1. last \in {0, 1, 2, 3, 4, 5, 6}
      BY <1>16
    <2> QED
      BY <1>8, <1>10, <1>11, <1>12, <1>13, <1>14, <1>15, <2>1
  <1>18. \A h \in HoursOfWeek :
            Covers(l, h \div 24, h % 24)
            <=> (h \div 24 - l.start_day) % 7 <= last /\ InHours(l, h % 24)
    BY DEF Covers, InHours, last, DAYS_PER_WEEK
  <1> QED
    BY <1>1, <1>17, <1>18 DEF Upto

-----------------------------------------------------------------------------
(* The inductive invariant                                                 *)

\* What is read: each line of conf_data is the file's, with its table.
LinesRead ==
    /\ file \in Files
    /\ conf_data \in Seq([circuit_idx : Nat, is_lcr : BOOLEAN, table : [HoursOfWeek -> 0 .. 1]])
    /\ Len(conf_data) <= Len(file)
    /\ \A i \in 1 .. Len(conf_data) :
          /\ conf_data[i].circuit_idx = file[i].circuit
          /\ conf_data[i].is_lcr = file[i].is_lcr
          /\ \A h \in HoursOfWeek :
                conf_data[i].table[h] = 1 <=> Covers(file[i], h \div 24, h % 24)

\* The table of command timetable shows some LCR line of the hour if there is
\* one, and none otherwise.
TableShowsLine ==
    /\ time_table \in [HoursOfWeek -> Int]
    /\ \A h \in HoursOfWeek :
          IF LcrLines(h \div 24, h % 24) = {} THEN time_table[h] = -1
          ELSE time_table[h] + 1 \in LcrLines(h \div 24, h % 24)

\* The cached holidays are those of the year they are kept for.
CacheIsCurrent == last_year # 0 => holidays = HolidaysOf(last_year)

\* A lookup was made with the whole file read, and for an hour.
LookedUp ==
    routed # NotLooked =>
        Len(conf_data) = Len(file) /\ routed.hour \in 0 .. 23

TypeAndTables ==
    LinesRead /\ TableShowsLine /\ CacheIsCurrent /\ LookedUp /\ date \in Dates

-----------------------------------------------------------------------------
(* The lookup                                                              *)

\* A set of numbers that is not empty has a least element.
LEMMA LeastElement ==
  ASSUME NEW S, S \subseteq Nat, S # {}
  PROVE  \E n \in S : \A m \in S : n <= m
<1> DEFINE Less == {p \in Nat \X Nat : p[1] < p[2]}
<1>1. IsWellFoundedOn(Less, Nat)
  BY NatLessThanWellFounded, Zenon DEF OpToRel
<1> HIDE DEF Less
<1>2. PICK n \in S : \A m \in S : ~ (<<m, n>> \in Less)
  BY <1>1, WFMin
<1>3. ASSUME NEW m \in S PROVE n <= m
  <2>1. n \in Nat /\ m \in Nat /\ <<m, n>> \in Nat \X Nat
    OBVIOUS
  <2>2. ~ (m < n)
    BY <1>2, <2>1 DEF Less
  <2>3. QED
    BY <2>1, <2>2
<1>4. QED
  BY <1>3

\* find_circuit's line is the first LCR line that covers the hour.
LEMMA LookupIsFirst ==
    ASSUME LinesRead, NEW day \in 0 .. 6, NEW hour \in 0 .. 23
    PROVE  LET lcr == LcrLines(day, hour)
           IN  CircuitOfLine(FindLine(day * 24 + hour)) =
                   IF lcr = {} THEN -1
                   ELSE file[CHOOSE i \in lcr : \A j \in lcr : i <= j].circuit
  <1> DEFINE h == day * 24 + hour
             lcr == LcrLines(day, hour)
             valid == {i \in DOMAIN conf_data : conf_data[i].table[h] = 1 /\ conf_data[i].is_lcr}
  <1>1. h \in HoursOfWeek /\ h \div 24 = day /\ h % 24 = hour
    BY HourSplit
  <1> HIDE DEF h
  <1>2. valid = lcr
    BY <1>1 DEF LinesRead, LcrLines
  <1>3. CASE lcr = {}
    BY <1>2, <1>3 DEF FindLine, CircuitOfLine, h
  <1>4. CASE lcr # {}
    <2> DEFINE first == CHOOSE i \in lcr : \A j \in lcr : i <= j
    <2>1. lcr \subseteq 1 .. Len(conf_data)
      BY DEF LcrLines, LinesRead
    <2>2. PICK i \in lcr : \A j \in lcr : i <= j
      <3> HIDE DEF lcr
      <3>1. lcr \subseteq Nat
        BY <2>1 DEF LinesRead
      <3> QED
        BY <1>4, <3>1, LeastElement
    <2>3. first \in lcr
      <3> HIDE DEF lcr
      <3> QED
        BY <2>2
    <2>4. FindLine(h) = first - 1
      BY <1>2, <1>4 DEF FindLine
    <2> HIDE DEF first, lcr
    <2>5. first \in 1 .. Len(conf_data)
      BY <2>1, <2>3
    <2>6. CircuitOfLine(first - 1) = conf_data[first].circuit_idx
      BY <2>5 DEF CircuitOfLine
    <2>7. conf_data[first].circuit_idx = file[first].circuit
      BY <2>5 DEF LinesRead
    <2> QED
      BY <1>4, <2>4, <2>6, <2>7 DEF h, first, lcr
  <1> QED
    BY <1>3, <1>4

-----------------------------------------------------------------------------
(* Every step keeps the invariant                                          *)

LEMMA InitTables == Init => TypeAndTables
  <1> SUFFICES ASSUME Init PROVE TypeAndTables
    OBVIOUS
  <1> USE DEF Init
  <1>1. LinesRead
    BY FilesAssumption DEF LinesRead
  <1>2. TableShowsLine
    BY DEF TableShowsLine, LcrLines
  <1>3. date \in Dates
    <2>1. date.year \in Years
      BY ClockAssumption
    <2> QED
      BY <2>1 DEF Dates, MonthLength
  <1> QED
    BY <1>1, <1>2, <1>3 DEF TypeAndTables, CacheIsCurrent, LookedUp

\* A line read is one more line of conf_data, and the last one of the timetable.
LEMMA ReadLineTables ==
    ASSUME TypeAndTables, NEW l, ReadLine(l)
    PROVE  LinesRead' /\ TableShowsLine' /\ LookedUp'
  <1> DEFINE n == Len(conf_data)
             rec == [circuit_idx |-> l.circuit, is_lcr |-> l.is_lcr,
                     table |-> FillDays(EmptyTable, l, 1)]
  <1>1. file \in Seq(Line) /\ n \in Nat /\ n < Len(file) /\ l = file[n + 1] /\ l \in Line
    BY FilesAssumption DEF TypeAndTables, LinesRead, ReadLine
  <1>2. conf_data' = Append(conf_data, rec) /\ file' = file
    BY DEF ReadLine
  <1>3. rec.table = [h \in HoursOfWeek |-> IF Covers(l, h \div 24, h % 24) THEN 1
                                            ELSE EmptyTable[h]]
    BY <1>1, FillDaysMarks
  <1>4. rec \in [circuit_idx : Nat, is_lcr : BOOLEAN, table : [HoursOfWeek -> 0 .. 1]]
    <2>1. rec.table \in [HoursOfWeek -> 0 .. 1]
      BY <1>3 DEF EmptyTable
    <2> QED
      BY <1>1, <2>1 DEF Line
  <1>5. \A h \in HoursOfWeek : rec.table[h] = 1 <=> Covers(l, h \div 24, h % 24)
    BY <1>3 DEF EmptyTable
  <1>6. rec.circuit_idx = l.circuit /\ rec.is_lcr = l.is_lcr
    OBVIOUS
  <1> HIDE DEF rec
  <1>7. /\ Len(conf_data') = n + 1
        /\ \A i \in 1 .. n : conf_data'[i] = conf_data[i]
        /\ conf_data'[n + 1] = rec
        /\ DOMAIN conf_data' = 1 .. n + 1 /\ DOMAIN conf_data = 1 .. n
    BY <1>2, <1>4 DEF TypeAndTables, LinesRead
  <1>8. LinesRead'
    <2>1. conf_data' \in Seq([circuit_idx : Nat, is_lcr : BOOLEAN, table : [HoursOfWeek -> 0 .. 1]])
      BY <1>2, <1>4 DEF TypeAndTables, LinesRead
    <2>2. ASSUME NEW i \in 1 .. n + 1
          PROVE  /\ conf_data'[i].circuit_idx = file[i].circuit
                 /\ conf_data'[i].is_lcr = file[i].is_lcr
                 /\ \A h \in HoursOfWeek :
                       conf_data'[i].table[h] = 1 <=> Covers(file[i], h \div 24, h % 24)
      <3>1. CASE i = n + 1
        BY <1>1, <1>5, <1>6, <1>7, <3>1
      <3>2. CASE i \in 1 .. n
        BY <1>7, <3>2 DEF TypeAndTables, LinesRead
      <3> QED
        BY <1>1, <3>1, <3>2
    <2> QED
      BY <1>1, <1>2, <1>7, <2>1, <2>2 DEF TypeAndTables, LinesRead
  <1>9. \A h \in HoursOfWeek :
           LcrLines(h \div 24, h % 24)' =
               LcrLines(h \div 24, h % 24)
               \cup {i \in {n + 1} : l.is_lcr /\ Covers(l, h \div 24, h % 24)}
    BY <1>1, <1>2, <1>7 DEF LcrLines
  <1>10. TableShowsLine'
    <2>1. CASE l.is_lcr
      <3>1. time_table' = [h \in HoursOfWeek |-> IF Covers(l, h \div 24, h % 24) THEN n
                                                 ELSE time_table[h]]
        BY <1>1, <2>1, FillDaysMarks DEF ReadLine, FillGlobalTable
      <3>2. time_table' \in [HoursOfWeek -> Int]
        BY <1>1, <3>1 DEF TypeAndTables, TableShowsLine
      <3>3. ASSUME NEW h \in HoursOfWeek
            PROVE  IF LcrLines(h \div 24, h % 24)' = {} THEN time_table'[h] = -1
                   ELSE time_table'[h] + 1 \in LcrLines(h \div 24, h % 24)'
        <4>1. CASE Covers(l, h \div 24, h % 24)
          BY <1>9, <2>1, <3>1, <4>1
        <4>2. CASE ~Covers(l, h \div 24, h % 24)
          BY <1>9, <3>1, <4>2 DEF TypeAndTables, TableShowsLine
        <4> QED
          BY <4>1, <4>2
      <3> QED
        BY <3>2, <3>3 DEF TableShowsLine
    <2>2. CASE ~l.is_lcr
      BY <1>9, <2>2 DEF TypeAndTables, TableShowsLine, ReadLine, FillGlobalTable
    <2> QED
      BY <2>1, <2>2
  <1>11. LookedUp'
    BY <1>1 DEF ReadLine, TypeAndTables, LookedUp
  <1> QED
    BY <1>8, <1>10, <1>11

LEMMA NextTables == TypeAndTables /\ [Next]_vars => TypeAndTables'
  <1> SUFFICES ASSUME TypeAndTables, [Next]_vars PROVE TypeAndTables'
    OBVIOUS
  <1>1. ASSUME NEW l, ReadLine(l) PROVE TypeAndTables'
    <2>1. CacheIsCurrent' /\ (date \in Dates)'
      BY <1>1 DEF ReadLine, TypeAndTables, CacheIsCurrent
    <2> QED
      BY <1>1, <2>1, ReadLineTables DEF TypeAndTables
  <1>2. ASSUME NEW hour \in Hours, find_circuit(hour) PROVE TypeAndTables'
    <2>1. UNCHANGED <<file, conf_data, time_table, date>>
      BY <1>2 DEF find_circuit, tables
    <2>2. LinesRead' /\ TableShowsLine' /\ (date \in Dates)'
      BY <2>1 DEF TypeAndTables, LinesRead, TableShowsLine, LcrLines
    <2>3. CacheIsCurrent'
      BY <1>2 DEF find_circuit, TypeAndTables, CacheIsCurrent, CachedHolidays, Dates
    <2>4. LookedUp'
      BY <1>2, <2>1, ClockAssumption DEF find_circuit, LookedUp
    <2> QED
      BY <2>2, <2>3, <2>4 DEF TypeAndTables
  <1>3. CASE NewDate
    <2>1. UNCHANGED <<file, conf_data, time_table, last_year, holidays>> /\ routed' = NotLooked
      BY <1>3 DEF NewDate, tables
    <2>2. LinesRead' /\ TableShowsLine' /\ CacheIsCurrent' /\ LookedUp'
      BY <2>1 DEF TypeAndTables, LinesRead, TableShowsLine, LcrLines, CacheIsCurrent,
         LookedUp
    <2>3. /\ date \in [day : 1 .. 31, month : 1 .. 12, year : Years]
          /\ date.day <= MonthLength(date.month, date.year)
          /\ date'.year \in Years
          /\ \A y \in Years : y \in Int
      BY <1>3, ClockAssumption DEF NewDate, TypeAndTables, Dates
    <2>4. \A m \in 1 .. 12, y \in Years :
             MonthLength(m, y) \in 28 .. 31 /\ 1 <= MonthLength(m, y) /\ 1 \in 1 .. 31
      BY DEF MonthLength
    <2>5. ASSUME NEW d \in 1 .. 31, NEW m \in 1 .. 12, NEW y \in Years, d <= MonthLength(m, y)
          PROVE  [day |-> d, month |-> m, year |-> y] \in Dates
      BY <2>5 DEF Dates
    <2> DEFINE d == date.day
               m == date.month
               y == date.year
    <2>6. /\ date = [day |-> d, month |-> m, year |-> y]
          /\ d \in 1 .. 31 /\ m \in 1 .. 12 /\ y \in Years /\ d <= MonthLength(m, y)
      BY <2>3
    <2> HIDE DEF d, m, y
    <2>7. ASSUME date' = Tomorrow(date) PROVE date' \in Dates
      <3>1. Tomorrow(date) = IF d < MonthLength(m, y)
                             THEN [day |-> d + 1, month |-> m, year |-> y]
                             ELSE IF m < 12
                                  THEN [day |-> 1, month |-> m + 1, year |-> y]
                                  ELSE [day |-> 1, month |-> 1, year |-> y + 1]
        <4>1. [date EXCEPT !.day = @ + 1] = [day |-> d + 1, month |-> m, year |-> y]
          BY <2>6
        <4> QED
          BY <4>1 DEF Tomorrow, d, m, y
      <3>2. CASE d < MonthLength(m, y)
        <4>1. MonthLength(m, y) \in 28 .. 31
          BY <2>4, <2>6
        <4>2. d + 1 \in 1 .. 31 /\ d + 1 <= MonthLength(m, y)
          BY <2>6, <3>2, <4>1
        <4> QED
          BY <2>5, <2>6, <2>7, <3>1, <3>2, <4>2
      <3>3. CASE ~(d < MonthLength(m, y)) /\ m < 12
        <4>1. m + 1 \in 1 .. 12
          BY <2>6, <3>3
        <4>2. 1 <= MonthLength(m + 1, y) /\ 1 \in 1 .. 31
          BY <2>4, <2>6, <4>1
        <4> QED
          BY <2>5, <2>6, <2>7, <3>1, <3>3, <4>1, <4>2
      <3>4. CASE ~(d < MonthLength(m, y)) /\ ~(m < 12)
        <4>1. date' = [day |-> 1, month |-> 1, year |-> y + 1]
          BY <2>7, <3>1, <3>4
        <4>2. y + 1 \in Years
          BY <2>3, <4>1
        <4>3. 1 <= MonthLength(1, y + 1) /\ 1 \in 1 .. 31 /\ 1 \in 1 .. 12
          BY <2>4, <4>2, 1 \in 1 .. 12
        <4> QED
          BY <2>5, <4>1, <4>2, <4>3, Zenon
      <3> QED
        BY <3>2, <3>3, <3>4
    <2>8. ASSUME NEW z,
                 date' = [date EXCEPT !.day = IF date.month = 2 THEN 1 ELSE @, !.year = z]
          PROVE  date' \in Dates
      <3>1. /\ date' = [day |-> IF m = 2 THEN 1 ELSE d, month |-> m, year |-> z]
            /\ z \in Years
        BY <2>3, <2>6, <2>8
      <3>2. 1 <= MonthLength(m, z) /\ 1 \in 1 .. 31
        BY <2>4, <2>6, <3>1
      <3>3. CASE m = 2
        BY <2>5, <2>6, <3>1, <3>2, <3>3
      <3>4. CASE m # 2
        <4>1. MonthLength(m, z) = MonthLength(m, y)
          BY <3>4 DEF MonthLength
        <4> QED
          BY <2>5, <2>6, <3>1, <3>4, <4>1
      <3> QED
        BY <3>3, <3>4
    <2>9. date' \in Dates
      <3>1. \/ date' = Tomorrow(date)
            \/ \E z \in {date.year - 1, date.year + 1} :
                  date' = [date EXCEPT !.day = IF date.month = 2 THEN 1 ELSE @, !.year = z]
        BY <1>3, Zenon DEF NewDate
      <3> QED
        BY <2>7, <2>8, <3>1
    <2> QED
      BY <2>2, <2>9 DEF TypeAndTables
  <1>4. CASE UNCHANGED vars
    BY <1>4 DEF vars, TypeAndTables, LinesRead, TableShowsLine, LcrLines, CacheIsCurrent,
       LookedUp
  <1> QED
    BY <1>1, <1>2, <1>3, <1>4 DEF Next

-----------------------------------------------------------------------------
(* The theorems                                                            *)

\* For every imond.conf, however its lines overlap and wrap around: in every
\* hour of the week, what command timetable prints is where find_circuit
\* routes, if the LCR lines of the hour name one circuit.
THEOREM TimetableIsRight == Spec => []TimetableShowsRoute
  <1>1. TypeAndTables => TimetableShowsRoute
    <2> SUFFICES ASSUME TypeAndTables, NEW day \in 0 .. 6, NEW hour \in 0 .. 23,
                        \A i, j \in LcrLines(day, hour) : file[i].circuit = file[j].circuit
                 PROVE  CircuitOfLine(time_table[day * 24 + hour]) =
                            CircuitOfLine(FindLine(day * 24 + hour))
      BY DEF TimetableShowsRoute, HOURS_PER_DAY
    <2> DEFINE h == day * 24 + hour
               lcr == LcrLines(day, hour)
    <2>1. h \in HoursOfWeek /\ h \div 24 = day /\ h % 24 = hour
      BY HourSplit
    <2> HIDE DEF h
    <2>2. lcr \subseteq 1 .. Len(conf_data)
      BY DEF LcrLines, TypeAndTables, LinesRead
    <2>3. CircuitOfLine(FindLine(h)) =
              IF lcr = {} THEN -1
              ELSE file[CHOOSE i \in lcr : \A j \in lcr : i <= j].circuit
      BY LookupIsFirst DEF TypeAndTables, h
    <2>4. CASE lcr = {}
      BY <2>1, <2>3, <2>4 DEF TypeAndTables, TableShowsLine, CircuitOfLine, h
    <2>5. CASE lcr # {}
      <3> DEFINE first == CHOOSE i \in lcr : \A j \in lcr : i <= j
                 shown == time_table[h] + 1
      <3>1. first \in lcr
        <4> HIDE DEF lcr
        <4>1. lcr \subseteq Nat
          BY <2>2
        <4> QED
          BY <2>5, <4>1, LeastElement
      <3>2. shown \in lcr /\ time_table[h] \in Int
        BY <2>1, <2>5 DEF TypeAndTables, TableShowsLine
      <3>3. CircuitOfLine(time_table[h]) = file[shown].circuit
        BY <2>2, <3>2 DEF CircuitOfLine, TypeAndTables, LinesRead
      <3>4. file[shown].circuit = file[first].circuit
        BY <3>1, <3>2
      <3> QED
        BY <2>3, <2>5, <3>3, <3>4 DEF h
    <2> QED
      BY <2>4, <2>5
  <1> QED
    BY <1>1, InitTables, NextTables, PTL DEF Spec

\* For every imond.conf and every clock, set forth and back: if the holidays
\* is_holiday computes for the years of the clock are those of the calendar,
\* find_circuit routes to the circuit of the first LCR line that covers the
\* hour, a public holiday counting as a Sunday.  Its cache of the holidays is
\* never that of another year.
THEOREM RouteIsRight == ASSUME CalendarAgrees PROVE Spec => []RouteFollowsTariff
  <1>1. Init => RouteFollowsTariff
    BY DEF Init, RouteFollowsTariff
  <1>2. TypeAndTables /\ RouteFollowsTariff /\ [Next]_vars => RouteFollowsTariff'
    <2> SUFFICES ASSUME TypeAndTables, RouteFollowsTariff, [Next]_vars
                 PROVE  RouteFollowsTariff'
      OBVIOUS
    <2>1. ASSUME NEW l, ReadLine(l) PROVE RouteFollowsTariff'
      <3>1. routed = NotLooked
        BY <2>1 DEF ReadLine, TypeAndTables, LookedUp, LinesRead
      <3> QED
        BY <2>1, <3>1 DEF ReadLine, RouteFollowsTariff
    <2>2. ASSUME NEW hour \in Hours, find_circuit(hour) PROVE RouteFollowsTariff'
      <3>1. UNCHANGED <<file, conf_data, date>> /\ hour \in 0 .. 23
        BY <2>2, ClockAssumption DEF find_circuit, tables
      <3>2. CachedHolidays(date.year) = HolidaysOf(date.year)
        BY ClockAssumption DEF TypeAndTables, CacheIsCurrent, CachedHolidays, Dates
      <3>3. IsHoliday(date) <=> PublicHoliday(date)
        BY <3>2 DEF IsHoliday, CalendarAgrees, TypeAndTables
      <3>4. TariffDay(date) \in 0 .. 6
        <4>1. WeekDay(date) \in 0 .. 6
          <5>1. date.day \in 1 .. 31 /\ date.month \in 1 .. 12 /\ date.year \in Years
            BY DEF TypeAndTables, Dates
          <5>2. \A d, m, y \in Int : DayNumber(d, m, y) \in Int
            BY DEF DayNumber
          <5>3. DayNumber(date.day, date.month, date.year) \in Int
            <6>1. \A z \in Years : z \in Int
              BY ClockAssumption
            <6>2. date.day \in Int /\ date.month \in Int /\ date.year \in Int
              BY <5>1, <6>1
            <6> QED
              BY <5>2, <6>2, Zenon
          <5>4. \A x \in Int : (x + 3) % 7 \in 0 .. 6
            OBVIOUS
          <5> QED
            BY <5>3, <5>4 DEF WeekDay
        <4> QED
          BY <4>1 DEF TariffDay, SUNDAY
      <3>5. HourOfWeek(date, hour) = TariffDay(date) * 24 + hour
        BY <3>3 DEF HourOfWeek, TariffDay, HOURS_PER_DAY
      <3> DEFINE lcr == LcrLines(TariffDay(date), hour)
      <3>6. CircuitOfLine(FindLine(HourOfWeek(date, hour))) =
                IF lcr = {} THEN -1
                ELSE file[CHOOSE i \in lcr : \A j \in lcr : i <= j].circuit
        BY <3>1, <3>4, <3>5, LookupIsFirst DEF TypeAndTables
      <3>7. routed' = [hour |-> hour,
                       circuit |-> CircuitOfLine(FindLine(HourOfWeek(date, hour)))]
        BY <2>2 DEF find_circuit
      <3>8. LcrLines(TariffDay(date), hour)' = lcr /\ TariffDay(date)' = TariffDay(date)
        BY <3>1 DEF LcrLines
      <3> QED
        BY <3>1, <3>6, <3>7, <3>8 DEF RouteFollowsTariff
    <2>3. CASE NewDate
      BY <2>3 DEF NewDate, RouteFollowsTariff
    <2>4. CASE UNCHANGED vars
      BY <2>4 DEF vars, RouteFollowsTariff, LcrLines
    <2> QED
      BY <2>1, <2>2, <2>3, <2>4 DEF Next
  <1> QED
    BY <1>1, <1>2, InitTables, NextTables, PTL DEF Spec
=============================================================================
