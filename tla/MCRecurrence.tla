---------------------------- MODULE MCRecurrence ----------------------------
(***************************************************************************)
(* Recurrence over the Gregorian calendar from January 2024 (a leap year), *)
(* with half days as slots.  Day 0 is Sunday, 31 December 2023.            *)
(***************************************************************************)
EXTENDS Recurrence

\* Every fourth year is a leap year until 2100.
MonthOffset == <<0, 31, 59, 90, 120, 151, 181, 212, 243, 273, 304, 334>>
MCMonthStart ==
    [m \in 0..60 |->
        LET year == m \div 12
            month == (m % 12) + 1
        IN  1 + 365 * year + (year + 3) \div 4 + MonthOffset[month]
              + (IF year % 4 = 0 /\ month > 2 THEN 1 ELSE 0)]

On(m, d) == 2 * (MCMonthStart[m] + d - 1)   \* midnight of day d of month m

Rule(f, n, c, u, days, mdays) ==
    [freq |-> f, interval |-> n, count |-> c, until |-> u,
     byDay |-> days, byMonthDay |-> mdays]
Event(s, d, ex, r) == [start |-> s, dur |-> d, exdates |-> ex, rule |-> r]
Moved(t, by, c) == [replaces |-> t, start |-> t + by, end |-> t + by + 1, cancelled |-> c]

Ask(events, overrides, froms) ==
    [event : events, override : overrides \cup {None}, from : froms]

\* Series from the second week of January 2024: 7 January is a Sunday.
Weekly ==
    {Event(On(0, d) + tod, dur, ex, Rule("weekly", n, c, u, days, <<>>)) :
        d \in {7, 10, 13}, tod \in {0, 1}, dur \in {0, 2}, ex \in {{}, {On(0, 15) + 1}},
        n \in {1, 2}, c \in {0, 4}, u \in {None, On(0, 22)},
        days \in {<<>>, <<0, 6>>, <<1, 3, 5>>}}

Daily ==
    {Event(On(0, 10), 1, ex, Rule("daily", n, c, u, <<>>, <<>>)) :
        ex \in {{}, {On(0, 16)}}, n \in {1, 3}, c \in {0, 4}, u \in {None, On(0, 22)}}

Monthly ==
    {Event(On(0, d) + 1, 2, {}, Rule("monthly", n, c, u, <<>>, mdays)) :
        d \in {8, 31}, n \in {1, 2}, c \in {0, 2}, u \in {None, On(2, 31)},
        mdays \in {<<>>, <<31>>, <<15, 30>>}}

Yearly ==
    {Event(On(m, d), 2, {}, Rule("yearly", n, c, None, <<>>, <<>>)) :
        m \in {0, 1}, d \in {12, 28}, n \in {1, 2}, c \in {0, 2}}

MovedMondays == {Moved(On(0, 15) + 1, by, c) : by \in {-5, 30}, c \in BOOLEAN}
MovedTuesday == {Moved(On(0, 16), 3, FALSE)}

MCAgendas ==
    Ask(Weekly, MovedMondays, {On(0, 2), On(0, 15), On(0, 16) + 1, On(1, 3)})
      \cup Ask(Daily, MovedTuesday, {On(0, 2), On(0, 15), On(0, 16) + 1})
      \cup Ask(Monthly, {}, {On(0, 2), On(1, 20), On(2, 25)})
      \cup Ask(Yearly, {}, {On(0, 2), On(12, 10), On(13, 20), On(24, 10)})

\* An all-day yearly event asked for at noon.
Birthday ==
    Ask({Event(On(0, 16), 2, {}, Rule("yearly", 1, 0, None, <<>>, <<>>))}, {},
        {On(0, 16) + 1})
=============================================================================
