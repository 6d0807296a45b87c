----------------------------- MODULE MCDashboard -----------------------------
(***************************************************************************)
(* Dashboard on pages that bring out one thing each: the calendar of       *)
(* various moments, titles of all shapes, replies whole and broken, and    *)
(* every query.  The zone puts its clocks forward on day 10 and back on    *)
(* day 40, as that of Casablanca does around Ramadan, so that spans of 23  *)
(* and of 25 hours come in reach, and forward again on day 54, over        *)
(* midnight, west of Greenwich, as Havana does.                            *)
(***************************************************************************)
EXTENDS Dashboard

MCMidnight ==
    [d \in 0..80 |-> 96 * d - (IF d \in 11..40 THEN 4 ELSE 0) - IF d > 54 THEN 4 ELSE 0]

\* West of Greenwich a midnight that is skipped becomes an hour earlier.
West == -4

\* The demo titles, and: a line, two, three lines, a word wider than a line before
\* and after another, nothing but emoji, some emoji.
MCWords == DemoWords \o
    <<<<5>>, <<9, 9>>, <<6, 9, 8, 7>>, <<30, 4>>, <<4, 30>>, <<0, 0>>, <<0, 5, 0, 8, 3>>>>

\* A moment of a day; by default, noon of days in the middle of nothing.
At(d, quarters) == MCMidnight[d] + quarters
Quiet == 25
Plain == [orientation |-> "absent", rain |-> "absent", batt |-> {}, plug |-> "absent"]
Landscape == [Plain EXCEPT !.orientation = "landscape"]
NoWeather == [kind |-> "down"]
DemoWeather == [kind |-> "demo"]
Page(now, query, weather, events) ==
    [now |-> now, query |-> query, setting |-> "", weather |-> weather, events |-> events]

\* Any of the demo's events, at night when UTC has another date, in the morning, at
\* the end of an event and on the days the clocks change.
DemoPages ==
    {Page(now, q, DemoWeather, es) :
        now \in {At(Quiet, 2), At(Quiet, 37), At(10, 40)}, q \in {Plain, Landscape},
        es \in UNION {SUBSET DemoEvents(At(Quiet, 37)), {DemoEvents(At(10, 40)), DemoEvents(At(Quiet, 2))}}}

\* An event of a quarter of an hour on each of the days around, two of them, seen on
\* days before and after the clocks change, weeks before and after the skipped midnight
\* among them.
DayPages ==
    {Page(At(d, q), Plain, NoWeather,
          {[title |-> 7, start |-> At(d + a, 0), end |-> At(d + a + 2, 0)],
           [title |-> 8, start |-> At(d + b, 40), end |-> At(d + b, 60)]}) :
        d \in {9, 10, 11, 24, 34, 40, 41, 53, 54, 55, 61}, q \in {0, 50, 95}, a \in -1..8, b \in {0, 1, 7}}

\* Three titles of any shape on the agenda, and two more events.
TitlePages ==
    {Page(At(Quiet, 10), q, NoWeather,
          {[title |-> ts[i], start |-> At(Quiet, 40 + i), end |-> At(Quiet, 60)] : i \in 1..3}
            \cup more) :
        q \in {Plain, Landscape}, ts \in [1..3 -> 7..13],
        more \in {{}, {[title |-> 7, start |-> At(Quiet + d, 8), end |-> At(Quiet + d, 9)] : d \in 2..3}}}

\* Replies: hours from 100 on, whole or cut short, seen from before, in between and
\* after them.
Daily == [time |-> <<96, 192, 288>>, max |-> <<9, 8, 7>>, min |-> <<1, 2, 3>>, chance |-> <<90>>]
Hourly(n, chances) ==
    [time |-> [i \in 1..n |-> 96 + 4 * i], temps |-> n, chance |-> chances,
     mm |-> [i \in DOMAIN chances |-> i + chances[i]]]
Reply(now, hourly, daily) == [offset |-> 4, now |-> now, hourly |-> hourly, daily |-> daily]

WholeReplies ==
    {Reply(now, Hourly(n, cs), Daily) :
        now \in {95, 100, 101, 108, 113, 117}, n \in {0, 1, 4},
        cs \in UNION {[1..k -> {0, 40, 100}] : k \in 0..3}}
BrokenReplies ==
    LET h == Hourly(4, <<40, 90>>) IN
    {Reply(Bad, h, Daily), Reply(101, [h EXCEPT !.temps = 3], Daily),
     Reply(101, [h EXCEPT !.time[2] = Bad], Daily), Reply(101, h, [Daily EXCEPT !.time = <<>>]),
     Reply(101, h, [Daily EXCEPT !.max = <<9>>]), Reply(101, h, [Daily EXCEPT !.time[3] = Bad]),
     Reply(101, [h EXCEPT !.mm = <<>>], [Daily EXCEPT !.min = <<1, 2, 3, 4>>])}
ReplyPages ==
    {Page(At(1, 10), [Plain EXCEPT !.rain = rain], [kind |-> "reply", reply |-> r], None) :
        rain \in {"absent", "card"}, r \in WholeReplies \cup BrokenReplies}

\* Everything a client may ask for and a server may be set to.
QueryPages ==
    LET Asked(s, w, es, o, r, b, p) ==
            [now |-> At(Quiet, 37), setting |-> s, weather |-> w, events |-> es,
             query |-> [orientation |-> o, rain |-> r, batt |-> b, plug |-> p]]
        demo == DemoEvents(At(Quiet, 37))
    IN  {Asked(s, w, es, o, r, {}, "absent") :
            s \in {"", "landscape"}, w \in {NoWeather, DemoWeather}, es \in {None, demo},
            o \in {"absent", "landscape", "portrait", "sideways"}, r \in {"absent", "card", "footer"}}
        \cup {Asked("", DemoWeather, None, o, "absent", b, p) : o \in {"landscape", "portrait"},
            b \in {{-5}, {0}, {7}, {55}, {100}, {250}}, p \in {"absent", "1", "off"}}

MCPages == DemoPages \cup DayPages \cup TitlePages \cup ReplyPages \cup QueryPages
=============================================================================
