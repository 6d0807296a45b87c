------------------------------ MODULE Forecast ------------------------------
(***************************************************************************)
(* internal/weather/openmeteo.go from the decoded reply to the Forecast,   *)
(* internal/data/openmeteo.go from that to the model of the widgets, and   *)
(* what the rain card makes of it.                                         *)
(*                                                                         *)
(* Instants are quarters of an hour.  A reply states local times without   *)
(* an offset and the offset apart from them; one it states wrongly is Bad. *)
(* Its arrays are meant to be parallel and need not be.                    *)
(***************************************************************************)
EXTENDS Integers, FiniteSetsExt, SequencesExt

CONSTANTS
    Bad,            \* a time or date that does not parse
    SliceHours      \* hours the rain card looks ahead

ASSUME SliceAssumption == SliceHours \in Nat \ {0}

Smaller(a, b) == IF a < b THEN a ELSE b

\* The entry of an array that may be shorter than its time axis.
Entry(array, i) == IF i \in DOMAIN array THEN array[i] ELSE 0

\* The readings of an hourly section, at their instants.
BuildHourly(hourly, offset) ==
    [i \in DOMAIN hourly.time |->
        [at |-> hourly.time[i] - offset, chance |-> Entry(hourly.chance, i),
         mm |-> Entry(hourly.mm, i)]]

\* The days of a daily section.
BuildDaily(daily, offset) ==
    [i \in DOMAIN daily.time |->
        [date |-> daily.time[i] - offset, high |-> daily.max[i], low |-> daily.min[i],
         chance |-> Entry(daily.chance, i)]]

\* Defect: the reading of the moment itself is passed over.
SliceAfterNow(hourly, now) ==
    LET later == {i \in DOMAIN hourly : hourly[i].at > now}
    IN  IF later = {} THEN <<>>
        ELSE SubSeq(hourly, Min(later), Smaller(Min(later) + SliceHours - 1, Len(hourly)))

\* Defect: one reading too many.
SliceTooLong(hourly, now) ==
    LET coming == {i \in DOMAIN hourly : hourly[i].at >= now}
    IN  IF coming = {} THEN <<>>
        ELSE SubSeq(hourly, Min(coming), Smaller(Min(coming) + SliceHours, Len(hourly)))

\* The readings from the first one that is not before now.
SliceNext(hourly, now) ==
    LET coming == {i \in DOMAIN hourly : hourly[i].at >= now}
    IN  IF coming = {} THEN <<>>
        ELSE SubSeq(hourly, Min(coming), Smaller(Min(coming) + SliceHours - 1, Len(hourly)))

\* What toForecast refuses: times it cannot parse, temperatures that do not match
\* the hours, and days without a high and a low.
Decodes(r) ==
    /\ r.now # Bad
    /\ Len(r.hourly.time) = r.hourly.temps
    /\ \A i \in DOMAIN r.hourly.time : r.hourly.time[i] # Bad
    /\ r.daily.time # <<>>
    /\ Len(r.daily.max) >= Len(r.daily.time) /\ Len(r.daily.min) >= Len(r.daily.time)
    /\ \A i \in DOMAIN r.daily.time : r.daily.time[i] # Bad

\* The forecast of a reply that decodes, as the widgets get it.
ToForecast(r) ==
    [now    |-> r.now - r.offset,
     days   |-> BuildDaily(r.daily, r.offset),
     hourly |-> SliceNext(BuildHourly(r.hourly, r.offset), r.now - r.offset)]

\* The day the widgets take for today, or nothing.
Today(model) ==
    IF model.days = <<>> THEN [date |-> 0, high |-> 0, low |-> 0, chance |-> 0] ELSE model.days[1]

\* The wettest of some hours, the first of them if there are several: the greatest
\* chance, when, and how much falls in all.  Without any hour it panics.
Summarise(hours) ==
    LET Wetter(best, i) == IF hours[i].chance > Entry([h \in DOMAIN hours |-> hours[h].chance], best)
                           THEN i ELSE best
        best == FoldLeft(Wetter, 0, [i \in DOMAIN hours |-> i])
    IN  [peak  |-> IF best = 0 THEN 0 ELSE hours[best].chance,
         at    |-> hours[IF best = 0 THEN 1 ELSE best].at,
         total |-> FoldLeft(+, 0, [i \in DOMAIN hours |-> hours[i].mm])]
=============================================================================
