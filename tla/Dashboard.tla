----------------------------- MODULE Dashboard -----------------------------
(***************************************************************************)
(* One picture, from the sources to the last card: what main.go reads from *)
(* the query, internal/data makes of the weather, and render.Dashboard     *)
(* draws in which order and where.                                         *)
(*                                                                         *)
(* A page is what a picture is made from: the moment, the query, the       *)
(* server's orientation, the weather (a reply of the upstream, the demo or *)
(* nothing) and the events of the calendar, if there is one.  A card that  *)
(* panics takes the picture with it; the server goes on.                   *)
(***************************************************************************)
EXTENDS Cards, Demo

CONSTANTS
    None,           \* no weather, no calendar
    Pages           \* the pages drawn

\* What a page may be.  The upstream states its hours in order, and no chance beyond
\* a hundred; all else it may get wrong.
Reading == Int \cup {Bad}
ReplyOK(r) ==
    /\ r.offset \in Int /\ r.now \in Reading
    /\ r.hourly.time \in Seq(Reading) /\ r.hourly.temps \in Nat
    /\ r.hourly.chance \in Seq(0..100) /\ r.hourly.mm \in Seq(Int)
    /\ \A i, j \in DOMAIN r.hourly.time :
          i < j /\ Bad \notin {r.hourly.time[i], r.hourly.time[j]} =>
             r.hourly.time[i] < r.hourly.time[j]
    /\ r.daily.time \in Seq(Reading) /\ r.daily.chance \in Seq(0..100)
    /\ r.daily.max \in Seq(Int) /\ r.daily.min \in Seq(Int)

ASSUME PageAssumption ==
    \A p \in Pages :
        /\ Dated(p.now)
        /\ p.query.batt \subseteq Int
        /\ p.weather.kind \in {"down", "demo", "reply"}
        /\ p.weather.kind = "reply" => ReplyOK(p.weather.reply)
        /\ p.events # None => /\ IsFiniteSet(p.events) /\ p.events \subseteq Event
                              /\ \A e \in p.events : Dated(e.start)

VARIABLES
    page,
    pc,             \* what is done next
    model,          \* the weather as the cards get it, or None
    cards           \* the cards drawn so far

vars == <<page, pc, model, cards>>

\* ?orientation= wins over DASHBOARD_ORIENTATION if it is one of the two, and that
\* is portrait unless it is landscape.
OrientationFromName(s) == IF s = "landscape" THEN "landscape" ELSE "portrait"
ParseOrientation(v, default) == IF v \in {"landscape", "portrait"} THEN v ELSE default
Orientation == ParseOrientation(page.query.orientation, OrientationFromName(page.setting))

\* ?rain=card asks for the card.
RainInFooter == page.query.rain # "card"

\* ?batt= is a set of at most one level: none if it is absent or not a number.
ParseBattery(batt, plug) ==
    [known |-> batt # {}, level |-> IF batt = {} THEN 0 ELSE CHOOSE level \in batt : TRUE,
     charging |-> plug \in {"1", "true", "yes", "on"}]

G == NewGrid(Dims(Orientation), 2, 2)
Cell(col, row) == CellRect(G, col, row, 1, 1)
WideCell(row) == CellRect(G, 0, row, 2, 1)

Init ==
    /\ page \in Pages
    /\ pc = "weather"
    /\ model = None
    /\ cards = <<>>

Draw(drawn, next) ==
    /\ cards' = cards \o drawn
    /\ pc' = next
    /\ UNCHANGED <<page, model>>

\* The weather provider answers: the demo, or a reply if there is one that decodes.
GetWeather ==
    /\ pc = "weather"
    /\ model' = CASE page.weather.kind = "demo" -> DemoModel(page.now)
                  [] page.weather.kind = "reply" /\ Decodes(page.weather.reply) ->
                        ToForecast(page.weather.reply)
                  [] OTHER -> None
    /\ pc' = "header"
    /\ UNCHANGED <<page, cards>>

DrawHeader ==
    /\ pc = "header"
    /\ Draw(<<HeaderCard(HeaderRect(G), model # None,
                         ParseBattery(page.query.batt, page.query.plug))>>,
            IF model = None THEN "unavailable" ELSE "today")

\* The calendar cards, on the top row, if there is a calendar.
CalendarCards ==
    IF page.events = None THEN <<>>
    ELSE <<MonthCard(Cell(0, 0), page.events, page.now),
           AgendaCard(Cell(1, 0), page.events, page.now)>>

\* Without weather: the calendar, a line of text, and the credit even if the query
\* asks for the rain in the footer.
DrawUnavailable ==
    /\ pc = "unavailable"
    /\ Draw(CalendarCards \o <<UnavailableCard(WideCell(1)), FooterCard(FooterRect(G))>>, "done")

DrawWeather ==
    /\ pc = "today"
    /\ Draw(<<TodayCard(Cell(0, 1), model), ForecastCard(Cell(1, 1), model)>>, "rain")

\* The rain card indexes the first of its hours.
RainPanics ==
    /\ pc = "rain"
    /\ model.hourly = <<>>
    /\ Draw(<<>>, "panic")

\* The rain in the footer, with the calendar above.
DrawRainStrip ==
    /\ pc = "rain"
    /\ model.hourly # <<>>
    /\ RainInFooter
    /\ Draw(<<RainCard(FooterRect(G), model.hourly)>> \o CalendarCards, "done")

\* The rain in place of the calendar, with the credit below.
DrawRainCard ==
    /\ pc = "rain"
    /\ model.hourly # <<>>
    /\ ~RainInFooter
    /\ Draw(<<RainCard(WideCell(0), model.hourly), FooterCard(FooterRect(G))>>, "done")

Next ==
    \/ GetWeather \/ DrawHeader \/ DrawUnavailable \/ DrawWeather
    \/ RainPanics \/ DrawRainStrip \/ DrawRainCard

Spec == Init /\ [][Next]_vars
-----------------------------------------------------------------------------
Named(name) == {cards[i] : i \in {j \in DOMAIN cards : cards[j].name = name}}
PageRect == Rect(0, 0, G.w, G.h)

TypeOK ==
    /\ pc \in {"weather", "header", "unavailable", "today", "rain", "panic", "done"}
    /\ model # None =>
          /\ model.now \in Int
          /\ Len(model.hourly) <= IF page.weather.kind = "demo" THEN 24 ELSE SliceHours
          /\ \A i \in DOMAIN model.hourly : model.hourly[i].chance \in 0..100
          /\ model.days # <<>>

\* Cards do not run into each other or over the edge, as far as that is a matter of
\* heights and of filled rectangles: the areas of the cards lie apart on the page; every
\* card puts the baselines of its text and its rules between the top and the bottom of
\* the area it was given, however long the titles and the lists are, and its dots, discs,
\* bars and icons inside it, and the bar of the battery in its icon, whatever level the
\* query states.  How wide a line of text gets is no part of this (TitlesReadable has the
\* titles of the agenda).
InCells ==
    /\ \A c \in Named("header") : Inside(c.bar, c.body) /\ c.bar.x0 <= c.bar.x1
    /\ \A i, j \in DOMAIN cards : i < j => Apart(cards[i].area, cards[j].area)
    /\ \A i \in DOMAIN cards :
          /\ Inside(cards[i].area, PageRect)
          /\ \A b \in cards[i].boxes : Inside(b, cards[i].area)
          /\ \A y \in cards[i].marks : cards[i].area.y0 < y /\ y < cards[i].area.y1

\* The tiles complement each other: the agenda and the footer of the month card show
\* no event twice and none that has ended, both in order, and pass over an event only
\* where the agenda has no room for it.
Listed(c) == IF c.name = "agenda" THEN c.rows ELSE c.later
TilesComplement ==
    \A a \in Named("agenda"), m \in Named("month") :
       LET shown == [i \in DOMAIN a.rows |-> a.rows[i].event]
                      \o [i \in DOMAIN m.later |-> m.later[i].event]
           live == {e \in page.events : e.end > page.now}
       IN  /\ \A i \in DOMAIN shown : shown[i] \in live
           /\ \A i, j \in DOMAIN shown : i < j => Precedes(shown[i], shown[j])
           /\ live # {} => shown # <<>>
           /\ \A e \in live \ ToSet(shown) :
                 (\E i \in DOMAIN shown : Precedes(e, shown[i])) => Len(a.rows) < AgendaEvents

\* Days are those of the display zone, be they of 23, 24 or 25 hours.  An event is called
\* after the number of days it is ahead, whatever goes for a midnight.  If the four weeks
\* from this week's Monday have no day without a midnight, the month card shows them,
\* "highlights today, and marks days that have an event with a dot"; otherwise it is wrong.
DayName(n) ==
    CASE n <= 0 -> "today" [] n = 1 -> "tomorrow" [] n \in 2..6 -> "weekday" [] OTHER -> "date"
DaysRight ==
    LET today == DayOf(page.now)
        first == today - ((today - Monday) % 7)
    IN  /\ \A c \in Named("agenda") \cup Named("month") : \A i \in DOMAIN Listed(c) :
              Listed(c)[i].day = DayName(DayOf(Listed(c)[i].event.start) - today)
        /\ (first..first + 27) \cap Skipped = {} =>
              \A m \in Named("month") : \A i \in DOMAIN m.days :
                 /\ m.days[i].day = first + i
                 /\ m.days[i].tone = "today" <=> first + i = today
                 /\ m.days[i].dot <=> first + i # today /\ \E e \in page.events :
                       DayOf(e.start) = first + i

\* The rain card tells the truth about the reply: its chance is the greatest of the
\* hours to come, its time the first hour of that chance, its amount their sum.  The
\* picture is lost to a panic only where the reply has no hour to come.
RainTrue ==
    page.weather.kind = "reply" =>
        LET r == page.weather.reply
            coming == {i \in DOMAIN r.hourly.time : r.hourly.time[i] >= r.now}
            ahead == {i \in coming : Cardinality({j \in coming : j < i}) < SliceHours}
            Chance(i) == Entry(r.hourly.chance, i)
        IN  /\ pc = "panic" => coming = {}
            /\ \A c \in Named("rain") :
                  /\ c.summary.peak = Max({0} \cup {Chance(i) : i \in ahead})
                  /\ c.summary.peak > 0 =>
                        c.summary.at + r.offset
                          = Min({r.hourly.time[i] : i \in {j \in ahead : Chance(j) = c.summary.peak}})
                  /\ c.summary.total = MapThenSumSet(LAMBDA i : Entry(r.hourly.mm, i), ahead)

\* Titles take at most two lines, none wider than the card; the lines follow each
\* other from the first rune of the title, none of it twice, and what they leave out an
\* ellipsis marks; on a line that is not the last that is the end of the first word.
TitlesReadable ==
    \A a \in Named("agenda") : \A i \in DOMAIN a.rows :
       LET lines == a.rows[i].lines
           words == Sanitized(a.rows[i].event.title)
           length == FoldLeft(+, 0, words) + Len(words) - 1
           last == lines[Len(lines)]
       IN  /\ Len(lines) \in 1..MaxTitleLines
           /\ \A k \in DOMAIN lines : Runes(lines[k]) <= a.rows[i].runes
           /\ lines[1].from = 1
           /\ \A k \in 1..Len(lines) - 1 :
                 lines[k + 1].from = 2 + IF lines[k].dots THEN words[1] ELSE lines[k].to
           /\ words # <<>> /\ ~last.dots => last.to = length
=============================================================================
