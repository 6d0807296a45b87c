------------------------------- MODULE Agenda -------------------------------
(***************************************************************************)
(* The two calendar cards: internal/data/calendar.go and, under            *)
(* internal/render/widgets, calendar_agenda.go and calendar_month.go.      *)
(*                                                                         *)
(* Instants are quarters of an hour on one absolute scale.  The display    *)
(* zone is the instants its days begin at, so a day may have 23 or 25      *)
(* hours, with the days whose midnight the clocks skip or repeat: the code *)
(* stands for a day by what time.Date returns for its midnight.  The runes *)
(* of the display font are taken to be equally wide; a title is the number *)
(* of runes the font has of each of its words, and a line of it is an      *)
(* interval of its runes, blanks between words included.                   *)
(***************************************************************************)
EXTENDS Layout, SequencesExt

CONSTANTS
    Midnight,       \* Midnight[d]: when day d of the display zone begins
    Skipped,        \* the days without a midnight: clocks go forward over it
    SkippedTo,      \* how far from such a midnight time.Date lands: an hour later
                    \*   east of Greenwich, an hour earlier west of it
    Second,         \* the days whose midnight comes twice and time.Date takes the
                    \*   second, as it does east of Greenwich
    Monday,         \* a day that is a Monday
    Words,          \* Words[n]: runes with a glyph in each word of title n, the
                    \*   titles numbered in alphabetical order
    RuneWidth       \* pixels, at the size of a title

ASSUME AgendaAssumption ==
    /\ DOMAIN Midnight \subseteq Int
    /\ \A a, b \in DOMAIN Midnight : a..b \subseteq DOMAIN Midnight
    /\ \A d \in DOMAIN Midnight : Midnight[d] \in Int
    /\ \A d \in DOMAIN Midnight : d + 1 \in DOMAIN Midnight =>
          Midnight[d + 1] - Midnight[d] \in {23 * 4, 24 * 4, 25 * 4}
    /\ Skipped \subseteq Int /\ SkippedTo \in {-4, 4} /\ Second \subseteq Int
    /\ \A d \in DOMAIN Midnight : d + 1 \in DOMAIN Midnight =>
          /\ d \in Skipped => Midnight[d + 1] - Midnight[d] = 23 * 4
          /\ d \in Second => Midnight[d + 1] - Midnight[d] = 25 * 4
    /\ Monday \in Int
    /\ Words \in Seq(Seq(Nat))
    /\ RuneWidth \in Nat \ {0, 1}     \* on a low cell it is scaled down

Hours(n) == 4 * n
Pad == 16
MaxTitleLines == 2
AgendaEvents == 3       \* defaultAgendaEvents
FooterMax == 2
Weeks == 4
-----------------------------------------------------------------------------
\* Events: which come next, and in what order.
Event == [title : DOMAIN Words, start : Int, end : Int]

Ended(e, t) == e.end <= t

Precedes(a, b) ==
    \/ a.start < b.start
    \/ a.start = b.start /\ a.end < b.end
    \/ a.start = b.start /\ a.end = b.end /\ a.title < b.title

\* The events of a set in that order.
Sorted(events) ==
    [i \in 1..Cardinality(events) |->
        CHOOSE e \in events : Cardinality({f \in events : Precedes(f, e)}) = i - 1]

Upcoming(events, from, n) ==
    LET out == Sorted({e \in events : ~Ended(e, from)})
    IN  SubSeq(out, 1, IF n < Len(out) THEN n ELSE Len(out))

\* Days: the one an instant falls in, and what it is called from now.
Falls(t, d) == Midnight[d] <= t /\ (d + 1 \in DOMAIN Midnight => t < Midnight[d + 1])
DayOf(t) == CHOOSE d \in DOMAIN Midnight : Falls(t, d)
Dated(t) == t \in Int /\ \E d \in DOMAIN Midnight : Falls(t, d)

\* dateOnlyIn: a day as the instant of its midnight, or what goes for it.
DateOnly(d) ==
    Midnight[d] + IF d \in Skipped THEN (IF SkippedTo < 0 THEN SkippedTo ELSE 0)
                  ELSE IF d \in Second THEN 4 ELSE 0

\* Defect: whole days of 24 hours, without rounding.
DayLabelCut(now, start) ==
    LET diff == (DateOnly(DayOf(start)) - DateOnly(DayOf(now))) \div Hours(24)
    IN  CASE diff <= 0 -> "today" [] diff = 1 -> "tomorrow"
          [] diff \in 2..6 -> "weekday" [] OTHER -> "date"

\* Go's division rounds towards zero.
DayLabel(now, start) ==
    LET span == DateOnly(DayOf(start)) - DateOnly(DayOf(now)) + Hours(12)
        diff == IF span >= 0 THEN span \div Hours(24) ELSE -((-span) \div Hours(24))
    IN  CASE diff <= 0 -> "today" [] diff = 1 -> "tomorrow"
          [] diff \in 2..6 -> "weekday" [] OTHER -> "date"

\* The month card goes from day to day by AddDate, which keeps the time of the wall
\* clock.  Two times that time.Date has made are the same if the wall clock reads the
\* same at them; a reading is the quarters since the midnight of day 0.
DateOf(reading) == reading \div Hours(24)
TimeDate(reading) ==
    IF DateOf(reading) \in Skipped /\ reading % Hours(24) < 4 THEN reading + SkippedTo
                                                             ELSE reading
Reads(d) == TimeDate(Hours(24) * d)     \* at DateOnly(d)
AddDate(reading, days) == TimeDate(reading + Hours(24) * days)
-----------------------------------------------------------------------------
\* Titles: a word none of whose runes has a glyph vanishes.
WithGlyphs(words, n) == IF n > 0 THEN Append(words, n) ELSE words
Sanitized(title) == FoldLeft(WithGlyphs, <<>>, Words[title])

Line(from, to) == [from |-> from, to |-> to, dots |-> FALSE]
Runes(line) == line.to - line.from + 1 + IF line.dots THEN 1 ELSE 0

\* As many runes from one on as leave room for an ellipsis; blanks before it, which
\* the code trims, count as its own.
Truncated(from, width) == [from |-> from, to |-> from + width - 2, dots |-> TRUE]

\* Defect: what does not fit on the last line is left out.
WrapSilently(words, width) ==
    LET Place(st, n) ==
            LET word == Line(st.at, st.at + n - 1)
                last == st.lines[Len(st.lines)]
            IN  IF st.lines # <<>> /\ word.to - last.from < width
                THEN [at |-> word.to + 2, lines |-> [st.lines EXCEPT ![Len(st.lines)].to = word.to]]
                ELSE [at |-> word.to + 2, lines |-> Append(st.lines, word)]
        all == FoldLeft(Place, [lines |-> <<>>, at |-> 1], words).lines
    IN  IF words = <<>> THEN <<Line(1, 0)>>
        ELSE SubSeq(all, 1, IF Len(all) < MaxTitleLines THEN Len(all) ELSE MaxTitleLines)

\* The next word, of n runes, goes to the line begun, if any (st.cur); else the last
\* line ends in an ellipsis; else the word begins a line; and a word wider than a
\* line is cut and has the line to itself.
Place(width, st, n) ==
    LET word == Line(st.at, st.at + n - 1)
        try == IF st.cur = <<>> THEN word ELSE [st.cur[1] EXCEPT !.to = word.to]
        lines == st.lines \o st.cur
    IN  CASE st.full -> st
          [] ~st.full /\ Runes(try) <= width ->
                [st EXCEPT !.cur = <<try>>, !.at = word.to + 2]
          [] ~st.full /\ Runes(try) > width /\ st.cur # <<>> /\ Len(lines) = MaxTitleLines ->
                [st EXCEPT !.lines = Append(@, Truncated(st.cur[1].from, width)),
                           !.cur = <<>>, !.full = TRUE]
          [] ~st.full /\ Runes(try) > width /\ n <= width
                      /\ ~(st.cur # <<>> /\ Len(lines) = MaxTitleLines) ->
                [st EXCEPT !.lines = lines, !.cur = <<word>>, !.at = word.to + 2]
          [] OTHER ->
                [st EXCEPT !.lines = Append(lines, Truncated(st.at, width)), !.cur = <<>>,
                           !.at = word.to + 2, !.full = Len(lines) + 1 = MaxTitleLines]

\* The words of a title on lines of a width.
WrapToWidth(words, width) ==
    LET Put(st, n) == Place(width, st, n)
        end == FoldLeft(Put, [lines |-> <<>>, cur |-> <<>>, at |-> 1, full |-> FALSE], words)
    IN  IF words = <<>> THEN <<Line(1, 0)>> ELSE end.lines \o end.cur
-----------------------------------------------------------------------------
\* Defect: nothing is left out for want of room.
FitsAlways(y, block, bottom) == TRUE

\* A block fits above the bottom margin of the cell.
Fits(y, block, bottom) == y + block <= bottom

\* The i-th event of the agenda goes below the ones before it, with the lines of its
\* title, the label of its time and, if there is room for it, a rule before the next
\* one; after the first event that does not fit nothing is drawn, the first always is.
\* marks are the heights at which lines of text and rules are drawn.
Row(area, next, now, st, i) ==
    LET S(v) == Scaled(v, area)
        bottom == area.y1 - S(6)
        runes == (Width(area) - 2 * Pad) \div S(RuneWidth)
        lines == WrapToWidth(Sanitized(next[i].title), runes)
        below == st.y + Len(lines) * S(33) + S(30)
        rule  == i < Len(next) /\ below + S(8) < bottom
    IN  IF st.full \/ (i > 1 /\ ~Fits(st.y, below - st.y, bottom))
        THEN [st EXCEPT !.full = TRUE]
        ELSE [st EXCEPT
                !.y = IF rule THEN below + S(8) ELSE below,
                !.rows = Append(@, [event |-> next[i], lines |-> lines, runes |-> runes,
                                    day |-> DayLabel(now, next[i].start)]),
                !.marks = @ \cup {st.y + S(24) + k * S(33) : k \in 0..Len(lines) - 1}
                            \cup {st.y + S(24) + Len(lines) * S(33) + S(2)}
                            \cup (IF rule THEN {below} ELSE {})]

\* The agenda card in an area.
AgendaCard(area, events, now) ==
    LET S(v) == Scaled(v, area)
        next == Upcoming(events, now, AgendaEvents)
        labelY == area.y0 + S(30)
        top == labelY + S(26)
        Below(st, i) == Row(area, next, now, st, i)
        flow == FoldLeft(Below, [y |-> top, rows |-> <<>>, marks |-> {}, full |-> FALSE],
                         [i \in DOMAIN next |-> i])
    IN  [name |-> "agenda", area |-> area, boxes |-> {}, rows |-> flow.rows,
         marks |-> {labelY, labelY + S(10)}
                     \cup (IF next = <<>> THEN {top + S(28)} ELSE flow.marks)]

\* Defect: the month card begins one event early.
LaterSkipping(events, now) ==
    LET up == Upcoming(events, now, AgendaEvents + FooterMax)
    IN  SubSeq(up, AgendaEvents, Len(up))

\* What the month card lists: what comes after the events the agenda may list.
LaterEvents(events, now) ==
    LET up == Upcoming(events, now, AgendaEvents + FooterMax)
    IN  SubSeq(up, AgendaEvents + 1, Len(up))

\* Where the grid of a day begins: gridStart, the Monday of its week.
MondayOf(today) == AddDate(today, -((DateOf(today) - Monday) % 7))

\* The i-th day of a grid that begins at top with rows of rowH, from Monday this week:
\* its number, in a disc if it is today, and under it a dot if it is marked.  Today, the
\* marked days and the day itself are compared as times, by what the clock reads.
MonthDay(area, top, rowH, today, marked, i) ==
    LET S(v) == Scaled(v, area)
        day == AddDate(MondayOf(today), i)
        colW == (Width(area) - 2 * Pad) \div 7
        cx == area.x0 + Pad + (i % 7) * colW + colW \div 2
        cellTop == top + (i \div 7) * rowH
        number == cellTop + (rowH * 52) \div 100
        half == S(26) \div 2
        dotX == cx - S(4) \div 2
        dotY == cellTop + (rowH * 78) \div 100 - S(4) \div 2
        dot == day \in marked /\ day # today
    IN  [day |-> DateOf(day), dot |-> dot, number |-> number,
         tone |-> IF day = today THEN "today" ELSE IF day < today THEN "past" ELSE "ahead",
         boxes |-> (IF day = today
                    THEN {Rect(cx - half, number - S(19), cx + half, number + S(7))} ELSE {})
                   \cup (IF dot THEN {Rect(dotX, dotY, dotX + S(4), dotY + S(4))} ELSE {})]

\* The month card in an area: four weeks of days, marked where an event begins, and a
\* footer of later events.
MonthCard(area, events, now) ==
    LET S(v) == Scaled(v, area)
        later == LaterEvents(events, now)
        footerH == IF later = <<>> THEN 0 ELSE S(20) + Len(later) * S(24)
        labelY == area.y0 + S(30)
        headY == labelY + S(34)
        gridTop == headY + S(8)
        gridBottom == area.y1 - footerH - S(6)
        rowH == (gridBottom - gridTop) \div Weeks
        today == Reads(DayOf(now))
        marked == {Reads(DayOf(e.start)) : e \in events}
        days == [i \in 0..7 * Weeks - 1 |-> MonthDay(area, gridTop, rowH, today, marked, i)]
    IN  [name |-> "month", area |-> area,
         boxes |-> UNION {days[i].boxes : i \in DOMAIN days},
         later |-> [i \in DOMAIN later |->
                        [event |-> later[i], day |-> DayLabel(now, later[i].start)]],
         days |-> [i \in DOMAIN days |-> [day |-> days[i].day, dot |-> days[i].dot,
                                          tone |-> days[i].tone]],
         marks |-> {labelY, labelY + S(10), headY, headY - S(14), gridBottom}
                     \cup {days[i].number : i \in DOMAIN days}
                     \cup (IF later = <<>> THEN {} ELSE {gridBottom + S(4)})
                     \cup {gridBottom + S(22) + (i - 1) * S(24) : i \in DOMAIN later}]
=============================================================================
