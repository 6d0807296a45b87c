----------------------------- MODULE FeedParser -----------------------------
(***************************************************************************)
(* Parse, calendar/ics.go: one pass over the logical lines of an iCalendar *)
(* feed collects its VEVENTs.  A line is a name and a value; unfolding,    *)
(* splitting, letter case and escapes are done with.                       *)
(*                                                                         *)
(* A time as written has a form, the number it reads and perhaps a TZID;   *)
(* as parsed it is an instant and a location, or None for the zero time.   *)
(* A location is its distance from UTC.                                    *)
(***************************************************************************)
EXTENDS Integers, SequencesExt

CONSTANTS
    Feeds,          \* the feeds: sequences of lines
    Texts,          \* values of UID and SUMMARY
    Offset,         \* Offset[z]: how far zone z is ahead of UTC
    DayLength,
    None            \* a field that is not set, no event, no TZID

Zones == DOMAIN Offset
Names == {"BEGIN", "END", "X-WR-TIMEZONE", "UID", "SUMMARY", "STATUS", "DTSTART",
          "DTEND", "RECURRENCE-ID", "EXDATE", "RRULE", "OTHER"}

\* Times and rules as written; those of form "bad" or "baddate" cannot be read.
Forms == {"date", "utc", "local", "bad", "baddate"}
Written == [form : Forms, at : Int, tz : Zones \cup {"nowhere", None}]
WrittenRules == [supported : BOOLEAN, until : {v \in Written : v.tz = None} \cup {None}]

\* Times, rules and VEVENTs as parsed.
Times == [at : Int, loc : Zones]
Rules == [until : Times \cup {None}]
VEvents == [uid : Texts \cup {None}, summary : Texts \cup {None},
            start : Times \cup {None}, end : Times \cup {None}, allDay : BOOLEAN,
            cancelled : BOOLEAN, rrule : Rules \cup {None}, exdates : SUBSET Times,
            recurrenceId : Times \cup {None}]

IsLine(l) ==
    /\ l.name \in Names
    /\ l.name \in {"UID", "SUMMARY"} => l.value \in Texts
    /\ l.name \in {"DTSTART", "DTEND", "RECURRENCE-ID"} => l.value \in Written
    /\ l.name = "EXDATE" => l.value \in SUBSET Written
    /\ l.name = "RRULE" => l.value \in WrittenRules

ASSUME FeedAssumption ==
    /\ "UTC" \in Zones /\ Offset["UTC"] = 0
    /\ \A z \in Zones : Offset[z] \in Int
    /\ DayLength \in Nat \ {0}
    /\ None \notin VEvents /\ None \notin Times /\ None \notin Rules /\ None \notin Zones
    /\ \A f \in Feeds : f \in Seq({f[k] : k \in DOMAIN f}) /\ \A k \in DOMAIN f : IsLine(f[k])

VARIABLES
    lines,          \* the feed
    pos,            \* the line Parse is at
    events, defaultLoc,     \* fields of the Calendar it builds
    cur,            \* the VEVENT being read, or None for nil
    inEvent,
    done            \* Parse has returned

vars == <<lines, pos, events, defaultLoc, cur, inEvent, done>>

\* The zero VEvent.
New == [uid |-> None, summary |-> None, start |-> None, end |-> None,
        allDay |-> FALSE, cancelled |-> FALSE, rrule |-> None, exdates |-> {},
        recurrenceId |-> None]

TypeOK ==
    /\ lines \in Feeds
    /\ pos \in 1..(Len(lines) + 1)
    /\ events \in Seq(VEvents)
    /\ defaultLoc \in Zones
    /\ cur \in VEvents \cup {None}
    /\ inEvent \in BOOLEAN /\ done \in BOOLEAN

Init ==
    /\ lines \in Feeds /\ pos = 1
    /\ events = <<>> /\ defaultLoc = "UTC"
    /\ cur = None /\ inEvent = FALSE /\ done = FALSE
-----------------------------------------------------------------------------
\* Defect: the calendar's zone goes before the TZID.
ParamLocDefault(v, loc) == loc

\* paramLoc: the zone of the TZID, if it is known.
ParamLoc(v, loc) == IF v.tz \in Zones THEN v.tz ELSE loc

\* parseICSTime: the time and whether it was a date.
Resolve(v, loc) ==
    CASE v.form \in {"date", "local"} ->
            [at |-> v.at - Offset[ParamLoc(v, loc)], loc |-> ParamLoc(v, loc)]
      [] v.form = "utc" -> [at |-> v.at, loc |-> "UTC"]
      [] v.form \in {"bad", "baddate"} -> None
IsDate(v) == v.form \in {"date", "baddate"}

\* parseRRule as far as it needs the event: UNTIL is read in the zone of the DTSTART
\* seen so far, and of the zero time, which is UTC, before that.
RuleOf(e, r) ==
    LET loc == IF e.start = None THEN "UTC" ELSE e.start.loc
        until == IF r.until = None THEN None ELSE Resolve(r.until, loc)
    IN  IF r.supported /\ (r.until # None => until # None)
           THEN [until |-> until] ELSE e.rrule

\* A property line inside a VEVENT; names that are not listed are ignored, those of
\* other components with them.
Assign(e, l, loc) ==
    CASE l.name = "UID" -> [e EXCEPT !.uid = l.value]
      [] l.name = "SUMMARY" -> [e EXCEPT !.summary = l.value]
      [] l.name = "STATUS" -> [e EXCEPT !.cancelled = (l.value = "CANCELLED")]
      [] l.name = "DTSTART" ->
            [e EXCEPT !.start = Resolve(l.value, loc), !.allDay = IsDate(l.value)]
      [] l.name = "DTEND" -> [e EXCEPT !.end = Resolve(l.value, loc)]
      [] l.name = "RECURRENCE-ID" -> [e EXCEPT !.recurrenceId = Resolve(l.value, loc)]
      [] l.name = "EXDATE" -> [e EXCEPT !.exdates =
            @ \cup ({Resolve(v, loc) : v \in l.value} \ {None})]
      [] l.name = "RRULE" -> [e EXCEPT !.rrule = RuleOf(e, l.value)]
      [] OTHER -> e
-----------------------------------------------------------------------------
line == lines[pos]
At(name, value) == pos <= Len(lines) /\ line.name = name /\ line.value = value
Advance == pos' = pos + 1 /\ UNCHANGED <<lines, done>>

\* Defect: the VEVENT of before is filled again.
BeginReusing ==
    /\ At("BEGIN", "VEVENT")
    /\ cur' = IF events = <<>> THEN New ELSE events[Len(events)]
    /\ inEvent' = TRUE
    /\ UNCHANGED <<events, defaultLoc>>
    /\ Advance

\* A VEVENT begins; one that was not ended is forgotten.
BeginEvent ==
    /\ At("BEGIN", "VEVENT")
    /\ cur' = New /\ inEvent' = TRUE
    /\ UNCHANGED <<events, defaultLoc>>
    /\ Advance

\* Defect: inEvent is left set.
EndInside ==
    /\ At("END", "VEVENT")
    /\ events' = IF cur # None THEN Append(events, cur) ELSE events
    /\ cur' = None
    /\ UNCHANGED <<inEvent, defaultLoc>>
    /\ Advance

\* Defect: cur is not compared with nil.
EndUnchecked ==
    /\ At("END", "VEVENT")
    /\ events' = Append(events, cur)
    /\ cur' = None /\ inEvent' = FALSE
    /\ UNCHANGED defaultLoc
    /\ Advance

\* A VEVENT ends, if one had begun.
EndEvent ==
    /\ At("END", "VEVENT")
    /\ events' = IF cur # None THEN Append(events, cur) ELSE events
    /\ cur' = None /\ inEvent' = FALSE
    /\ UNCHANGED defaultLoc
    /\ Advance

Marker == At("BEGIN", "VEVENT") \/ At("END", "VEVENT")

\* Outside of events only the calendar's zone matters; a zone nobody knows does not.
CalendarLine ==
    /\ pos <= Len(lines) /\ ~Marker
    /\ ~inEvent
    /\ defaultLoc' = IF line.name = "X-WR-TIMEZONE" /\ line.value \in Zones
                        THEN line.value ELSE defaultLoc
    /\ UNCHANGED <<events, cur, inEvent>>
    /\ Advance

\* A line inside an event is stored through cur.
EventLine ==
    /\ pos <= Len(lines) /\ ~Marker
    /\ inEvent
    /\ cur' = Assign(cur, line, defaultLoc)
    /\ UNCHANGED <<events, defaultLoc, inEvent>>
    /\ Advance

\* A missing DTEND: the end of the day, or the start itself.
Ended(e) ==
    IF e.end = None /\ e.start # None
       THEN [e EXCEPT !.end = [e.start EXCEPT !.at = @ + (IF e.allDay THEN DayLength ELSE 0)]]
       ELSE e

\* The last line is read.
Finish ==
    /\ pos > Len(lines) /\ ~done
    /\ events' = [k \in DOMAIN events |-> Ended(events[k])]
    /\ done' = TRUE
    /\ UNCHANGED <<lines, pos, defaultLoc, cur, inEvent>>

Next == BeginEvent \/ EndEvent \/ CalendarLine \/ EventLine \/ Finish

Spec == Init /\ [][Next]_vars
-----------------------------------------------------------------------------
\* A line is only ever stored through cur when cur is not nil, whatever the feed:
\* Parse does not panic on lines out of place.
NoNilEvent == inEvent <=> cur # None

\* The VEVENT markers, and the blocks from a BEGIN to the END that is the next marker.
Marks(what) ==
    {k \in DOMAIN lines : lines[k].name = what /\ lines[k].value = "VEVENT"}
AllMarks == Marks("BEGIN") \cup Marks("END")
Blocks == {b \in Marks("BEGIN") \X Marks("END") :
              b[1] < b[2] /\ \A k \in AllMarks : k <= b[1] \/ k >= b[2]}

\* The place of a block among them, in the order of the feed.
Place(b) == Cardinality({c \in Blocks : c[1] <= b[1]})

\* What a block says of a property: the value of its last line of that name, if any.
Inside(b) == (b[1] + 1)..(b[2] - 1)
Lines(b, name) == {k \in Inside(b) : lines[k].name = name}
Said(b, name) == {lines[k].value : k \in {k \in Lines(b, name) :
                                             \A m \in Lines(b, name) : m <= k}}
OrNone(S) == IF S = {} THEN {None} ELSE S

\* Each closed block of the feed becomes one event, in the order of the feed, and
\* nothing else does, whatever the feed: neither a block that is begun again or never
\* ended, nor a stray END.
EventPerBlock ==
    /\ Len(events) = Cardinality(Blocks)
    /\ \A b \in Blocks :
          /\ Place(b) \in DOMAIN events
          /\ events[Place(b)].uid \in OrNone(Said(b, "UID"))

Readable(v) == v.form \notin {"bad", "baddate"}

\* Inside a component, such as a VALARM, inside the event of block b.
Nested(b, k) ==
    \E c, d \in Inside(b) : lines[c].name = "BEGIN" /\ lines[d].name = "END" /\ c < k /\ k < d

\* A feed as RFC 5545 and Parse both have it: the calendar's properties before its
\* events, each property of an event once (but EXDATE), a DTSTART that can be read,
\* the rest in any order, but DTSTART before RRULE.  A component inside an event has
\* none of the properties Parse looks for, since Parse takes them for the event's.
WellFormed ==
    /\ \A k \in Marks("BEGIN") : \E b \in Blocks : b[1] = k
    /\ \A k \in Marks("END") : \E b \in Blocks : b[2] = k
    /\ \A k, m \in DOMAIN lines :
          lines[k].name = "X-WR-TIMEZONE" /\ (lines[m].name = "X-WR-TIMEZONE" \/ m \in AllMarks)
             => k <= m
    /\ \A b \in Blocks : \A k, m \in Inside(b) :
          /\ Nested(b, k) => lines[k].name = "OTHER"
          /\ lines[k].name = lines[m].name
                => k = m \/ lines[k].name \in {"EXDATE", "BEGIN", "END", "OTHER"}
          /\ lines[k].name = "DTSTART" /\ lines[m].name = "RRULE" => k < m
    /\ \A b \in Blocks : \E v \in Said(b, "DTSTART") : Readable(v)

\* The calendar's zone, and the moment a time as written means.
CalendarZone ==
    LET named == {lines[k].value : k \in {k \in DOMAIN lines : lines[k].name = "X-WR-TIMEZONE"}}
    IN  IF named \cap Zones = {} THEN "UTC" ELSE CHOOSE z \in named \cap Zones : TRUE
ZoneOf(v) == IF v.tz \in Zones THEN v.tz ELSE CalendarZone
Moment(v) == IF v.form = "utc" THEN v.at ELSE v.at - Offset[ZoneOf(v)]
Moments(S) == {Moment(v) : v \in {v \in S : Readable(v)}}
Instants(S) == {t.at : t \in S \ {None}}

\* UNTIL is read in the zone of DTSTART.
UntilMoment(u, start) ==
    IF u.form = "utc" \/ start.form = "utc" THEN u.at ELSE u.at - Offset[ZoneOf(start)]

AllDay(b) == \E v \in Said(b, "DTSTART") : v.form = "date"
Ends(b) ==
    IF Moments(Said(b, "DTEND")) # {} THEN Moments(Said(b, "DTEND"))
    ELSE {t + (IF AllDay(b) THEN DayLength ELSE 0) : t \in Moments(Said(b, "DTSTART"))}
ReadRules(b) ==
    {r \in Said(b, "RRULE") : r.supported /\ (r.until # None => Readable(r.until))}
Untils(b, r) == {UntilMoment(u, s) : u \in {r.until} \ {None}, s \in Said(b, "DTSTART")}

Describes(b, e) ==
    /\ e.summary \in OrNone(Said(b, "SUMMARY"))
    /\ e.cancelled <=> Said(b, "STATUS") = {"CANCELLED"}
    /\ Instants({e.start}) = Moments(Said(b, "DTSTART"))
    /\ e.allDay <=> AllDay(b)
    /\ Instants({e.end}) = Ends(b)
    /\ Instants({e.recurrenceId}) = Moments(Said(b, "RECURRENCE-ID"))
    /\ Instants(e.exdates) = UNION {Moments(lines[k].value) : k \in Lines(b, "EXDATE")}
    /\ e.rrule = None <=> ReadRules(b) = {}
    /\ \A r \in ReadRules(b) : Instants({e.rrule.until}) = Untils(b, r)

\* Parse makes an event of each block of any feed, and reads a well-formed one as
\* RFC 5545 means it: each event has what its own block says, floating times and dates
\* in the zone they belong to, UNTIL included, and an end, in whatever order the
\* properties come.
ParsesFeed ==
    done =>
        /\ EventPerBlock
        /\ WellFormed => \A b \in Blocks : Describes(b, events[Place(b)])
=============================================================================
