----------------------------- MODULE Recurrence -----------------------------
(***************************************************************************)
(* From a VEVENT to agenda entries: RRule.between walks a recurring series *)
(* period by period, and Expand keeps the instances that overlap the       *)
(* window [from, from+horizon) and lets a RECURRENCE-ID override stand in  *)
(* for the instance it replaces.                                           *)
(*                                                                         *)
(* A time is a number of slots: SlotsPerDay of them make a day, day 0 is a *)
(* Sunday, and MonthStart tabulates the first day of each month.  All      *)
(* times are in one zone, and wall clock and instants agree.               *)
(***************************************************************************)
EXTENDS Integers, Sequences, FiniteSets

CONSTANTS
    Agendas,        \* what Expand is given: [event, override, from]
    Horizon,        \* length of the window, in slots
    SlotsPerDay,
    MonthStart,     \* MonthStart[m]: first day of month m; month 0 is a January
    MaxOccurrences, \* maxOccurrences
    None            \* no UNTIL, no override

\* An RRule, as parseRRule makes one.  It accepts each list with any FREQ, and only
\* WEEKLY reads BYDAY, only MONTHLY reads BYMONTHDAY.
IsRule(r) ==
    /\ r.freq \in {"daily", "weekly", "monthly", "yearly"}
    /\ r.interval \in Nat \ {0}
    /\ r.count \in Nat                      \* 0: unbounded
    /\ r.until \in Nat \cup {None}
    /\ r.byDay \in Seq(0..6)                \* in the order of the feed
    /\ r.byMonthDay \in Seq(1..31)

ASSUME RecurrenceAssumption ==
    /\ SlotsPerDay \in Nat \ {0}
    /\ Horizon \in Nat
    /\ MaxOccurrences \in Nat
    /\ \A a \in Agendas :
          /\ a = [event |-> a.event, override |-> a.override, from |-> a.from]
          /\ a.from \in Nat /\ a.event.start \in Nat /\ IsRule(a.event.rule)
    /\ \A m \in DOMAIN MonthStart : m \in Nat /\ MonthStart[m] \in Nat

VARIABLES
    event,          \* the master being expanded
    override,       \* the event that replaces one of its instances, or None
    from,           \* from, also windowStart
    i,              \* the period the walk is in
    j,              \* the weekday or month day of the period it is at
    count,          \* candidates emitted, inside the window or not
    out,            \* occurrence start times
    walking         \* the loop has not ended

inputs == <<event, override, from>>
vars == <<inputs, i, j, count, out, walking>>

windowEnd == from + Horizon
rule == event.rule

Init ==
    /\ \E a \in Agendas : event = a.event /\ override = a.override /\ from = a.from
    /\ i = 0 /\ j = 1 /\ count = 0
    /\ out = <<>>
    /\ walking = TRUE
-----------------------------------------------------------------------------
Day(t) == t \div SlotsPerDay
TimeOfDay(t) == t % SlotsPerDay
At(day) == day * SlotsPerDay + TimeOfDay(event.start)   \* atTimeOf
Weekday(day) == day % 7
StartOfWeek(day) == day - Weekday(day)

Month(day) == CHOOSE m \in DOMAIN MonthStart :
                 /\ MonthStart[m] <= day
                 /\ m + 1 \in DOMAIN MonthStart => day < MonthStart[m + 1]
DayOfMonth(day) == day - MonthStart[Month(day)] + 1
DaysIn(m) == MonthStart[m + 1] - MonthStart[m]

StartDay == Day(event.start)
Days == IF rule.byDay = <<>> THEN <<Weekday(StartDay)>> ELSE rule.byDay
MDays == IF rule.byMonthDay = <<>> THEN <<DayOfMonth(StartDay)>> ELSE rule.byMonthDay

\* The week, month, year or day of period n; time.Date and AddDate let a day that a
\* month does not have run over into the next month.
WeekStart(n) == StartOfWeek(StartDay) + 7 * rule.interval * n
MonthIndex(n) == Month(StartDay) + rule.interval * n
YearlyDay(n) == MonthStart[Month(StartDay) + 12 * rule.interval * n] + DayOfMonth(StartDay) - 1
DailyDay(n) == StartDay + rule.interval * n

PerPeriod ==
    CASE rule.freq = "weekly" -> Len(Days)
      [] rule.freq = "monthly" -> Len(MDays)
      [] OTHER -> 1

\* The k-th candidate of period n.
Candidate(n, k) ==
    CASE rule.freq = "weekly" -> At(WeekStart(n) + Days[k])
      [] rule.freq = "monthly" -> At(MonthStart[MonthIndex(n)] + MDays[k] - 1)
      [] rule.freq = "yearly" -> At(YearlyDay(n))
      [] rule.freq = "daily" -> At(DailyDay(n))

\* The candidate exists (dayOfMonth) and does not precede the series.
Exists(n, k) ==
    /\ rule.freq = "monthly" => MDays[k] <= DaysIn(MonthIndex(n))
    /\ Candidate(n, k) >= event.start

\* The walk has left the window, where that is enough to break.
Over(n) ==
    \/ rule.freq = "weekly" /\ WeekStart(n) * SlotsPerDay > windowEnd
    \/ rule.freq = "monthly" /\ MonthStart[MonthIndex(n)] * SlotsPerDay > windowEnd
    \/ /\ rule.freq \in {"daily", "yearly"}
       /\ rule.count = 0 /\ rule.until = None
       /\ Candidate(n, 1) > windowEnd

\* Defect: the instance an override replaces is not suppressed.
ExcludedOnly(t) == t \in event.exdates

Excluded(t) ==
    \/ t \in event.exdates
    \/ override # None /\ override.replaces = t

InWindow(t) == from <= t /\ t <= windowEnd

\* COUNT or UNTIL ends the series before t, the n-th candidate.
Ended(n, t) ==
    \/ rule.count > 0 /\ n > rule.count
    \/ rule.until # None /\ t > rule.until
TypeOK ==
    /\ [event |-> event, override |-> override, from |-> from] \in Agendas
    /\ IsRule(rule)
    /\ i \in 0..MaxOccurrences
    /\ j \in 1..PerPeriod + 1
    /\ count \in Nat
    /\ out \in Seq(from..windowEnd)
    /\ walking \in BOOLEAN
-----------------------------------------------------------------------------
Walks == walking /\ i < MaxOccurrences /\ ~Over(i)

\* Defect: only the occurrences inside the window are counted.
EmitInWindow ==
    /\ Walks /\ j <= PerPeriod /\ Exists(i, j)
    /\ LET t == Candidate(i, j) IN
          /\ count' = IF InWindow(t) THEN count + 1 ELSE count
          /\ \/ Ended(count', t) /\ walking' = FALSE /\ UNCHANGED out
             \/ /\ ~Ended(count', t) /\ UNCHANGED walking
                /\ out' = IF InWindow(t) /\ ~Excluded(t) THEN Append(out, t) ELSE out
    /\ j' = j + 1
    /\ UNCHANGED <<inputs, i>>

\* Defect: the lower edge of the window is forgotten.
EmitAny ==
    /\ Walks /\ j <= PerPeriod /\ Exists(i, j)
    /\ LET t == Candidate(i, j) IN
          /\ count' = count + 1
          /\ \/ Ended(count', t) /\ walking' = FALSE /\ UNCHANGED out
             \/ /\ ~Ended(count', t) /\ UNCHANGED walking
                /\ out' = IF t <= windowEnd /\ ~Excluded(t) THEN Append(out, t) ELSE out
    /\ j' = j + 1
    /\ UNCHANGED <<inputs, i>>

\* emit: the candidate is counted, ends the series, or is kept if it is in the window
\* and neither excluded nor replaced.
Emit ==
    /\ Walks /\ j <= PerPeriod /\ Exists(i, j)
    /\ LET t == Candidate(i, j) IN
          /\ count' = count + 1
          /\ \/ Ended(count', t) /\ walking' = FALSE /\ UNCHANGED out
             \/ /\ ~Ended(count', t) /\ UNCHANGED walking
                /\ out' = IF InWindow(t) /\ ~Excluded(t) THEN Append(out, t) ELSE out
    /\ j' = j + 1
    /\ UNCHANGED <<inputs, i>>

Skip ==
    /\ Walks /\ j <= PerPeriod /\ ~Exists(i, j)
    /\ j' = j + 1
    /\ UNCHANGED <<inputs, i, count, out, walking>>

NextPeriod ==
    /\ Walks /\ j > PerPeriod
    /\ i' = i + 1 /\ j' = 1
    /\ UNCHANGED <<inputs, count, out, walking>>

Finish ==
    /\ walking /\ (i = MaxOccurrences \/ Over(i))
    /\ walking' = FALSE
    /\ UNCHANGED <<inputs, i, j, count, out>>

Next == Emit \/ Skip \/ NextPeriod \/ Finish

Spec == Init /\ [][Next]_vars
-----------------------------------------------------------------------------
\* Expand: the instances and the override, those that overlap the window.
Span(s, e) == [start |-> s, end |-> e]
Overlaps(o) == o.end > from /\ o.start < windowEnd

Replacement == IF override = None \/ override.cancelled THEN {}
               ELSE {Span(override.start, override.end)}

Occurrences ==
    {o \in {Span(out[k], out[k] + event.dur) : k \in DOMAIN out} \cup Replacement :
        Overlaps(o)}
-----------------------------------------------------------------------------
\* The series as RFC 5545 defines it, with weeks that begin on Sunday.  A day is in it
\* if its week, month, year or itself is of the INTERVAL, and the lists name it or,
\* without any list, it has the place of the first day.  BYDAY and BYMONTHDAY are sets:
\* their order in the feed means nothing.  (BYMONTHDAY with WEEKLY is not allowed.)
Listed(s, x) == \E k \in DOMAIN s : s[k] = x
January(m) == m - (m % 12)

InPeriod(day) ==
    CASE rule.freq = "weekly" -> (StartOfWeek(day) - WeekStart(0)) % (7 * rule.interval) = 0
      [] rule.freq = "monthly" -> (Month(day) - Month(StartDay)) % rule.interval = 0
      [] rule.freq = "yearly" ->
            (January(Month(day)) - January(Month(StartDay))) % (12 * rule.interval) = 0
      [] rule.freq = "daily" -> (day - StartDay) % rule.interval = 0

OnLists(day) ==
    /\ rule.byDay # <<>> => Listed(rule.byDay, Weekday(day))
    /\ rule.byMonthDay # <<>> => Listed(rule.byMonthDay, DayOfMonth(day))

LikeFirst(day) ==
    /\ rule.freq = "weekly" => Weekday(day) = Weekday(StartDay)
    /\ rule.freq \in {"monthly", "yearly"} => DayOfMonth(day) = DayOfMonth(StartDay)
    /\ rule.freq = "yearly" => (Month(day) - Month(StartDay)) % 12 = 0

Matches(day) ==
    /\ InPeriod(day)
    /\ IF rule.byDay = <<>> /\ rule.byMonthDay = <<>> THEN LikeFirst(day) ELSE OnLists(day)

\* Its instances up to the end of the window: the first COUNT, none after UNTIL.
Series ==
    LET all == {At(d) : d \in {d \in StartDay..Day(windowEnd) : Matches(d)}}
    IN  {t \in all : ~Ended(Cardinality({s \in all : s <= t}), t)}

\* What is left of it after exclusion and replacement, and the entries of an agenda
\* that make the event up.
Remaining == {t \in Series \ event.exdates : override # None => t # override.replaces}
Effective == {Span(t, t + event.dur) : t \in Remaining} \cup Replacement

\* between returns, once each, the instances of the series that start in
\* the window and are neither excluded nor replaced.
Exact ==
    ~walking =>
        /\ {out[k] : k \in DOMAIN out} = {t \in Remaining : InWindow(t)}
        /\ \A k, l \in DOMAIN out : k # l => out[k] # out[l]

\* "A moved or deleted instance shows correctly": the agenda has no entry but those of
\* the series with its exclusions and its replacement, and all that start in the window.
ShowsSeries ==
    ~walking =>
        /\ Occurrences \subseteq Effective
        /\ {o \in Effective : Overlaps(o) /\ o.start >= from} \subseteq Occurrences

\* "Occurrences whose time span overlaps [from, from+horizon)": an event that is still
\* running is shown, recurring or not.
RunningShown == ~walking => {o \in Effective : Overlaps(o)} \subseteq Occurrences
=============================================================================
