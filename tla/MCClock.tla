-------------------------------- MODULE MCClock --------------------------------
EXTENDS Clock

Day(y, m, d) == [year |-> y, month |-> m, day |-> d]
Time(h, m, s) == [hour |-> h, minute |-> m, second |-> s]
\* The last day of a leap year, and three seconds later.  Setting only the date
\* or only the time goes a day ahead or back.
MCInitial == RX8900SA_set_datetime(Datetime(Day(2024, 12, 31), Time(23, 59, 58)))
MCMoments == {Datetime(Day(2025, 1, 1), Time(0, 0, 1))}
=============================================================================
