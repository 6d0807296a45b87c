-------------------------------- MODULE Cards --------------------------------
(***************************************************************************)
(* The weather cards of internal/render/widgets (weather_today.go,         *)
(* weather_forecast.go, rain.go) and the header and footer of              *)
(* internal/render/dashboard.go: what each shows and where it draws.       *)
(*                                                                         *)
(* A card has a name, the area it was given, the heights at which it draws *)
(* lines of text or rules (marks), the rectangles it fills (boxes), and    *)
(* what it says.                                                           *)
(***************************************************************************)
EXTENDS Layout, Forecast

CONSTANT DigitWidth     \* pixels, of a digit or the percent sign of the battery

ASSUME DigitAssumption == DigitWidth \in 0..100

Margin == 16

TodayCard(area, model) ==
    LET Y(v) == area.y0 + Scaled(v, area) IN
    [name |-> "today", area |-> area, boxes |-> {}, day |-> Today(model),
     marks |-> {Y(30), Y(30) + Scaled(10, area), Y(130), Y(172), Y(214), Y(250)}]

ForecastCard(area, model) ==
    LET S(v) == Scaled(v, area)
        n == Smaller(3, Len(model.days))
        top == area.y0 + S(30) + S(26)
        RowTop(i) == top + (i - 1) * S(64)
    IN  [name |-> "forecast", area |-> area, boxes |-> {}, days |-> SubSeq(model.days, 1, n),
         marks |-> {area.y0 + S(30), area.y0 + S(30) + S(10)}
                     \cup (UNION {{RowTop(i) + S(26), RowTop(i) + S(50)} : i \in 1..n})
                     \cup {RowTop(i) + S(64) - S(4) : i \in 1..n - 1}]

\* One bar an hour; the chart is left out where there is no room or no line to draw.
RainCard(area, hours) ==
    LET labelY == area.y0 + 28
        chart == Rect(area.x0 + Margin, labelY + 14, area.x1 - Margin, area.y1 - 26)
        n == Len(hours)
        Bar(i) ==
            LET x0 == chart.x0 + ((i - 1) * Width(chart)) \div n
                h  == Max({(Height(chart) * hours[i].chance) \div 100, 1})
            IN  Rect(x0, chart.y1 - h, x0 + Max({Width(chart) \div n - 2, 2}), chart.y1)
        charted == n >= 2 /\ Height(chart) >= 8
    IN  [name |-> "rain", area |-> area, summary |-> Summarise(hours),
         boxes |-> IF charted THEN {Bar(i) : i \in {j \in 1..n : hours[j].chance > 0}} ELSE {},
         marks |-> {labelY} \cup IF charted THEN {chart.y1, chart.y1 + 20} ELSE {}]

Clamped(level) == Max({Smaller(level, 100), 0})

\* The battery at the right end of an area: number, bolt if it charges, icon.
Battery(area, level, charging) ==
    LET digits == IF level = 100 THEN 3 ELSE IF level >= 10 THEN 2 ELSE 1
        right == area.x1 - (digits + 1) * DigitWidth - 8 - IF charging THEN 18 ELSE 0
        top == area.y1 - 10 - 12
        body == Rect(right - 52, top, right - 4, top + 24)
        fill == (42 * level) \div 100
        boltX == right + 18 \div 2 + 1 - 5
    IN  [body |-> body, notch |-> Rect(body.x1, top + 7, body.x1 + 4, top + 17),
         bar |-> Rect(body.x0 + 3, body.y0 + 3, body.x0 + 3 + fill, body.y1 - 3),
         bolt |-> IF charging THEN {Rect(boltX, top + 12 - 10, boltX + 10, top + 12 + 11)} ELSE {}]

\* The header: date and, when there is weather, the temperature; the battery if the
\* client states one.
HeaderCard(area, warm, battery) ==
    LET baseY == (area.y0 + area.y1) \div 2 + 12
        b == Battery(Rect(0, baseY - 28, area.x1, baseY), Clamped(battery.level), battery.charging)
    IN  [name |-> "header", area |-> area, warm |-> warm, marks |-> {baseY},
         battery |-> battery.known,
         boxes |-> IF battery.known THEN {b.body, b.notch, b.bar} \cup b.bolt ELSE {},
         bar |-> IF battery.known THEN b.bar ELSE Rect(0, 0, 0, 0),
         body |-> IF battery.known THEN b.body ELSE Rect(0, 0, 0, 0)]

FooterCard(area) ==
    [name |-> "credit", area |-> area, boxes |-> {}, marks |-> {(area.y0 + area.y1) \div 2 + 8}]

\* In place of the weather cards when there is none.
UnavailableCard(area) ==
    [name |-> "unavailable", area |-> area, boxes |-> {}, marks |-> {(area.y0 + area.y1) \div 2}]
=============================================================================
