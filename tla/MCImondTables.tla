--------------------------- MODULE MCImondTables ---------------------------
EXTENDS ImondTables

Conf(sd, ed, sh, eh, lcr, circuit) ==
    [start_day |-> sd, end_day |-> ed, start_hour |-> sh, end_hour |-> eh,
     is_lcr |-> lcr, circuit |-> circuit]

\* The documentation's example: the evening and the weekend on circuit 0,
\* office hours on circuit 1; the second line is not for LCR.
OfficeConf ==
    <<Conf(1, 5, 18, 9, TRUE, 0), Conf(0, 6, 0, 24, FALSE, 2),
      Conf(6, 0, 0, 24, TRUE, 0), Conf(1, 5, 9, 18, TRUE, 1)>>

\* Lines that overlap: the first one that covers the hour counts.
OverlapConf ==
    <<Conf(1, 5, 18, 9, TRUE, 0), Conf(6, 0, 9, 18, TRUE, 2), Conf(0, 6, 0, 24, TRUE, 1)>>

MCRunning == {OfficeConf, OverlapConf}

\* The configurations with two of these lines.
SmallLines ==
    {Conf(sd, ed, h[1], h[2], lcr, c) :
        sd \in {0, 3, 6}, ed \in {0, 3, 6}, h \in {<<0, 24>>, <<9, 18>>, <<18, 9>>, <<9, 9>>},
        lcr \in BOOLEAN, c \in {0, 1}}
MCFiles == MCRunning \cup {<<l, k>> : l, k \in SmallLines}
MCYears == 2046 .. 2080
MCHours == {0, 9, 12, 18}

\* The hypothesis of theorem RouteIsRight, for each day of these years.
ASSUME CalendarAssumption == CalendarAgrees
=============================================================================
