-------------------------------- MODULE Demo --------------------------------
(***************************************************************************)
(* internal/data/demo.go: the weather and the calendar that are shown when *)
(* no source is configured, and that the cards are developed against.      *)
(***************************************************************************)
EXTENDS Forecast, Agenda

\* time.Time.Truncate: down to a multiple of d since the beginning of time, which is
\* an hour or a day of UTC, whatever the zone of the display.
TruncatedTo(t, d) == t - (t % d)

\* Three days and as many hours as there are chances, from the hour of ref.
DemoModel(ref) ==
    LET day0 == TruncatedTo(ref, Hours(24))
        chances == <<5, 5, 0, 0, 0, 10, 20, 35, 55, 70, 80, 75,
                     60, 40, 25, 15, 10, 10, 5, 5, 0, 0, 0, 5>>
        tenths  == <<0, 0, 0, 0, 0, 0, 1, 3, 8, 14, 21, 17, 10, 5, 2, 1, 0, 0, 0, 0, 0, 0, 0, 0>>
        Day(n, high, low, chance) ==
            [date |-> day0 + n * Hours(24), high |-> high, low |-> low, chance |-> chance]
    IN  [now |-> ref,
         days |-> <<Day(0, 14, 8, 80), Day(1, 16, 9, 20), Day(2, 18, 10, 5)>>,
         hourly |-> [i \in 1..24 |-> [at |-> TruncatedTo(ref, Hours(1)) + Hours(i - 1),
                                      chance |-> chances[i], mm |-> tenths[i]]]]

\* Quarters of an hour on the wall clock of ref's day, late enough for the day to
\* have had its change of the clock behind it.  The demo goes by the zone of the process,
\* which is taken to be the display's.
AtToday(ref, quarters) ==
    LET day == DayOf(ref) IN Midnight[day + 1] - (Hours(24) - quarters)

\* The words of the demo titles, which are numbered in alphabetical order: Bin day,
\* Dentist, Lunch with Sam, Morning standup, Pick up groceries, Weekend trip.
DemoWords == <<<<3, 3>>, <<7>>, <<5, 4, 3>>, <<7, 7>>, <<4, 2, 9>>, <<7, 4>>>>

\* Events of today at times of the display zone, and of the next days at times of UTC.
DemoEvents(ref) ==
    LET day == TruncatedTo(ref, Hours(24))
        Of(title, start, end) == [title |-> title, start |-> start, end |-> end]
    IN  {Of(4, AtToday(ref, 36), AtToday(ref, 37)),
         Of(2, AtToday(ref, 58), AtToday(ref, 62)),
         Of(5, AtToday(ref, 72), AtToday(ref, 75)),
         Of(1, day + Hours(24), day + Hours(48)),
         Of(3, day + Hours(36), day + Hours(37)),
         Of(6, day + Hours(72), day + Hours(120))}
=============================================================================
