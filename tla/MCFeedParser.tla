---------------------------- MODULE MCFeedParser ----------------------------
(***************************************************************************)
(* FeedParser on whole feeds in every order of properties, on pairs of     *)
(* events, and on any few lines in any order.  Hours; day 1 begins at 24.  *)
(***************************************************************************)
EXTENDS FeedParser

MCOffset == [z \in {"UTC", "Tokyo", "NewYork"} |->
               CASE z = "UTC" -> 0 [] z = "Tokyo" -> 9 [] z = "NewYork" -> -5]

L(n, v) == [name |-> n, value |-> v]
T(f, t, z) == [form |-> f, at |-> t, tz |-> z]
Rule(s, u) == [supported |-> s, until |-> u]
BeginVEVENT == L("BEGIN", "VEVENT")
EndVEVENT == L("END", "VEVENT")

Starts == {L("DTSTART", T("date", 24, None)), L("DTSTART", T("local", 30, None)),
           L("DTSTART", T("utc", 30, None)), L("DTSTART", T("local", 30, "NewYork")),
           L("DTSTART", T("local", 30, "nowhere")), L("DTSTART", T("baddate", 0, None))}
Others == {L("UID", "a"), L("SUMMARY", "s"), L("STATUS", "CANCELLED"),
           L("DTEND", T("local", 36, None)), L("DTEND", T("bad", 0, None)),
           L("RECURRENCE-ID", T("local", 31, "Tokyo")),
           L("EXDATE", {T("date", 48, None), T("bad", 0, None)}),
           L("EXDATE", {T("local", 54, "NewYork"), T("utc", 78, None)}),
           L("RRULE", Rule(TRUE, None)), L("RRULE", Rule(TRUE, T("date", 72, None))),
           L("RRULE", Rule(TRUE, T("utc", 78, None))), L("RRULE", Rule(FALSE, None)),
           L("RRULE", Rule(TRUE, T("bad", 0, None)))}
Headers == {<<>>, <<L("X-WR-TIMEZONE", "Tokyo")>>, <<L("X-WR-TIMEZONE", "NowhereCity")>>}

\* Blocks with a start and up to n other lines, in every order.
Orders(n) ==
    UNION {{p \in [1..(k + 1) -> Starts \cup Others] :
              /\ \E m \in DOMAIN p : p[m].name = "DTSTART"
              /\ \A m, q \in DOMAIN p : p[m] = p[q] => m = q} : k \in 0..n}
Block(p) == <<BeginVEVENT>> \o p \o <<EndVEVENT>>

OneEvent == {h \o Block(p) : h \in Headers, p \in Orders(2)}
TwoEvents == {Block(p) \o Block(q) : p \in Orders(1), q \in Orders(0)}

Alarm == <<L("BEGIN", "VALARM"), L("OTHER", "trigger"), L("END", "VALARM")>>
Alarms == {Block(p \o Alarm \o q) : p \in Orders(1), q \in {<<>>} \cup {<<o>> : o \in Others}}

\* Any lines, in and out of place.
Loose == SeqOf({BeginVEVENT, EndVEVENT, L("BEGIN", "VALARM"), L("UID", "a"), L("UID", "b"),
                L("X-WR-TIMEZONE", "Tokyo"), L("DTSTART", T("local", 30, None))}, 5)

MCFeeds == UNION {OneEvent, TwoEvents, Alarms, Loose}
=============================================================================
