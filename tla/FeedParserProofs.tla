-------------------------- MODULE FeedParserProofs --------------------------
(***************************************************************************)
(* Parse stores no line through a nil event, whatever it is given, makes   *)
(* one event of each block and reads it as the feed means it.  The         *)
(* invariant behind the latter says what has been read before line pos:    *)
(* the closed blocks are events, in their places (Built), cur is what the  *)
(* open block says so far (Reading), and the calendar's zone is known once *)
(* the first event begins (Zoned).                                         *)
(***************************************************************************)
EXTENDS FeedParser, FiniteSetTheorems, TLAPS

Inv == TypeOK /\ NoNilEvent

LEMMA ResolveType ==
    ASSUME NEW v \in Written, NEW loc \in Zones
    PROVE  Resolve(v, loc) \in Times \cup {None}
BY FeedAssumption DEF Resolve, ParamLoc, Written, Forms, Times

LEMMA RuleType ==
    ASSUME NEW e \in VEvents, NEW r \in WrittenRules
    PROVE  RuleOf(e, r) \in Rules \cup {None}
<1> DEFINE loc == IF e.start = None THEN "UTC" ELSE e.start.loc
<1>1. loc \in Zones
  BY FeedAssumption DEF VEvents, Times
<1>2. r.until # None => Resolve(r.until, loc) \in Times \cup {None}
  BY <1>1, ResolveType DEF WrittenRules
<1> QED BY <1>2 DEF RuleOf, Rules, VEvents, WrittenRules

LEMMA AssignType ==
    ASSUME NEW e \in VEvents, NEW l, IsLine(l), NEW loc \in Zones
    PROVE  Assign(e, l, loc) \in VEvents
<1> USE DEF IsLine
<1>1. CASE l.name \in {"DTSTART", "DTEND", "RECURRENCE-ID"}
  <2>1. Resolve(l.value, loc) \in Times \cup {None}
    BY <1>1, ResolveType
  <2>2. IsDate(l.value) \in BOOLEAN
    BY DEF IsDate
  <2> QED BY <1>1, <2>1, <2>2 DEF Assign, VEvents
<1>2. CASE l.name = "RRULE"
  BY <1>2, RuleType DEF Assign, VEvents
<1>3. CASE l.name = "EXDATE"
  <2>1. {Resolve(v, loc) : v \in l.value} \ {None} \subseteq Times
    BY <1>3, ResolveType
  <2> QED BY <1>3, <2>1 DEF Assign, VEvents
<1>4. CASE l.name \in {"UID", "SUMMARY"}
  BY <1>4 DEF Assign, VEvents
<1>5. CASE l.name = "STATUS"
  BY <1>5 DEF Assign, VEvents
<1>6. CASE l.name \in {"BEGIN", "END", "X-WR-TIMEZONE", "OTHER"}
  BY <1>6 DEF Assign
<1> QED BY <1>1, <1>2, <1>3, <1>4, <1>5, <1>6 DEF Names

LEMMA NewType == New \in VEvents
BY DEF New, VEvents

LEMMA EndedType ==
    ASSUME NEW e \in VEvents PROVE Ended(e) \in VEvents
<1>1. CASE e.end = None /\ e.start # None
  <2>1. [e.start EXCEPT !.at = @ + (IF e.allDay THEN DayLength ELSE 0)] \in Times
    BY <1>1, FeedAssumption DEF VEvents, Times
  <2> QED BY <1>1, <2>1 DEF Ended, VEvents
<1>2. CASE ~(e.end = None /\ e.start # None)
  BY <1>2 DEF Ended
<1> QED BY <1>1, <1>2

\* A feed is a sequence of lines.
LEMMA FeedType ==
    ASSUME NEW f \in Feeds
    PROVE  /\ Len(f) \in Nat /\ DOMAIN f = 1..Len(f)
           /\ \A k \in DOMAIN f : IsLine(f[k])
<1>1. f \in Seq({f[k] : k \in DOMAIN f}) /\ \A k \in DOMAIN f : IsLine(f[k])
  BY FeedAssumption
<1> QED BY <1>1

LEMMA InvStarts == Init => Inv
<1> USE FeedAssumption DEF Inv, TypeOK, NoNilEvent
<1> SUFFICES ASSUME Init PROVE Inv
  OBVIOUS
<1>1. Len(lines) \in Nat
  BY FeedType DEF Init
<1>2. pos \in 1..(Len(lines) + 1) /\ events \in Seq(VEvents)
  BY <1>1 DEF Init
<1> QED BY <1>2, Zenon DEF Init

LEMMA InvSteps == Inv /\ [Next]_vars => Inv'
<1> USE FeedAssumption DEF Inv, TypeOK, NoNilEvent
<1> SUFFICES ASSUME Inv, [Next]_vars PROVE Inv'
  OBVIOUS
<1>0. /\ Len(lines) \in Nat /\ DOMAIN lines = 1..Len(lines)
      /\ \A k \in DOMAIN lines : IsLine(lines[k])
  BY FeedType
<1>1. CASE BeginEvent
  BY <1>1, <1>0, NewType DEF BeginEvent, At, Advance
<1>2. CASE EndEvent
  <2>1. events' \in Seq(VEvents)
    BY <1>2 DEF EndEvent
  <2>2. pos' \in 1..(Len(lines') + 1) /\ lines' = lines
    BY <1>2, <1>0 DEF EndEvent, At, Advance
  <2>3. cur' = None /\ inEvent' = FALSE /\ defaultLoc' = defaultLoc /\ done' = done
    BY <1>2 DEF EndEvent, Advance
  <2> QED BY <2>1, <2>2, <2>3
<1>3. CASE CalendarLine
  BY <1>3, <1>0 DEF CalendarLine, Advance
<1>4. CASE EventLine
  <2>1. IsLine(line)
    BY <1>4, <1>0 DEF EventLine, line
  <2>2. Assign(cur, line, defaultLoc) \in VEvents
    BY <1>4, <2>1, AssignType DEF EventLine
  <2> QED BY <1>4, <1>0, <2>2 DEF EventLine, Advance
<1>5. CASE Finish
  <2>1. \A k \in DOMAIN events : Ended(events[k]) \in VEvents
    BY EndedType
  <2> QED BY <1>5, <2>1 DEF Finish
<1>6. CASE UNCHANGED vars
  BY <1>6 DEF vars
<1> QED BY <1>1, <1>2, <1>3, <1>4, <1>5, <1>6 DEF Next

LEMMA InvHolds == Spec => []Inv
BY InvStarts, InvSteps, PTL DEF Spec

\* Whatever the lines are, what Parse builds is an event, with times that were read or
\* are absent, and a zone that exists.
THEOREM TypeCorrect == Spec => []TypeOK
BY InvHolds, PTL DEF Inv

\* Parse never stores a line through a nil event: inEvent and cur agree on every feed,
\* so that no order of BEGIN, END and property lines makes it panic.
THEOREM NeverNil == Spec => []NoNilEvent
BY InvHolds, PTL DEF Inv
-----------------------------------------------------------------------------
\* The blocks that end before line p, and the BEGIN whose block reaches line p.
Closed(p) == {b \in Blocks : b[2] < p}
Open(s, p) == s \in Marks("BEGIN") /\ s < p /\ \A k \in AllMarks : k <= s \/ k >= p

\* Lines are numbered.
LEMMA MarksType ==
    ASSUME lines \in Feeds
    PROVE  /\ \A what : Marks(what) \subseteq 1..Len(lines)
           /\ AllMarks \subseteq 1..Len(lines) /\ Len(lines) \in Nat
           /\ \A k \in Marks("BEGIN") : k \notin Marks("END")
BY FeedType DEF Marks, AllMarks

\* There are finitely many blocks.
LEMMA BlocksFinite ==
    ASSUME lines \in Feeds
    PROVE  /\ IsFiniteSet(Blocks)
           /\ \A b \in Blocks : /\ b = <<b[1], b[2]>> /\ b[1] \in Nat /\ b[2] \in Nat
                                /\ b[1] < b[2] /\ b[2] <= Len(lines) /\ b[1] >= 1
<1> DEFINE Numbers == 1..Len(lines)
<1>1. Len(lines) \in Nat /\ Marks("BEGIN") \subseteq Numbers /\ Marks("END") \subseteq Numbers
  BY MarksType
<1>2. IsFiniteSet(Numbers)
  BY <1>1, FS_Interval
<1>3. IsFiniteSet(Numbers \X Numbers)
  BY <1>2, FS_Product
<1>4. Blocks \in SUBSET (Numbers \X Numbers)
  BY <1>1 DEF Blocks
<1>5. IsFiniteSet(Blocks)
  BY <1>3, <1>4, FS_Subset
<1>6. ASSUME NEW b \in Blocks
      PROVE  /\ b = <<b[1], b[2]>> /\ b[1] \in Nat /\ b[2] \in Nat
             /\ b[1] < b[2] /\ b[2] <= Len(lines) /\ b[1] >= 1
  BY <1>1 DEF Blocks
<1> QED BY <1>5, <1>6

\* Only one block is open at a line.
LEMMA OneOpen ==
    ASSUME lines \in Feeds, NEW p \in Nat, NEW s, NEW t, Open(s, p), Open(t, p)
    PROVE  s = t
<1>1. s \in AllMarks /\ t \in AllMarks /\ s \in Nat /\ t \in Nat
  BY MarksType DEF Open, AllMarks
<1> QED BY <1>1 DEF Open

\* What a line does to the blocks before it: a BEGIN opens one and forgets the one that
\* was open, an END closes the one that was open, any other line does neither.
LEMMA OpenNext ==
    ASSUME lines \in Feeds, NEW p \in 1..Len(lines)
    PROVE  /\ p \in Marks("BEGIN") => \A s : Open(s, p + 1) <=> s = p
           /\ p \in Marks("END") => \A s : ~Open(s, p + 1)
           /\ p \notin AllMarks => \A s : Open(s, p + 1) <=> Open(s, p)
<1>0. /\ \A k \in AllMarks : k \in Nat
      /\ \A k \in Marks("BEGIN") : k \in Nat /\ k \in AllMarks /\ k \notin Marks("END")
      /\ \A k \in Marks("END") : k \in Nat /\ k \in AllMarks
      /\ p \in Nat
  BY MarksType DEF AllMarks
<1>1. ASSUME p \in Marks("BEGIN"), NEW s PROVE Open(s, p + 1) <=> s = p
  <2>1. Open(s, p + 1) => s = p
    BY <1>0, <1>1 DEF Open
  <2>2. Open(p, p + 1)
    BY <1>0, <1>1 DEF Open
  <2> QED BY <2>1, <2>2
<1>2. ASSUME p \in Marks("END"), NEW s PROVE ~Open(s, p + 1)
  <2> SUFFICES ASSUME Open(s, p + 1) PROVE FALSE
    OBVIOUS
  <2>1. s \in Marks("BEGIN") /\ s \in Nat /\ s < p + 1 /\ s # p
    BY <1>0, <1>2 DEF Open
  <2>2. p <= s \/ p >= p + 1
    BY <1>0, <1>2 DEF Open
  <2> QED BY <1>0, <2>1, <2>2
<1>3. ASSUME p \notin AllMarks, NEW s PROVE Open(s, p + 1) <=> Open(s, p)
  BY <1>0, <1>3 DEF Open
<1> QED BY <1>1, <1>2, <1>3

LEMMA ClosedNext ==
    ASSUME lines \in Feeds, NEW p \in 1..Len(lines)
    PROVE  /\ p \notin Marks("END") => Closed(p + 1) = Closed(p)
           /\ p \in Marks("END") /\ (\A s : ~Open(s, p)) => Closed(p + 1) = Closed(p)
           /\ \A s : p \in Marks("END") /\ Open(s, p) =>
                 /\ <<s, p>> \in Blocks /\ <<s, p>> \notin Closed(p)
                 /\ Closed(p + 1) = Closed(p) \cup {<<s, p>>}
<1>1. p \in Nat /\ \A b \in Blocks : b = <<b[1], b[2]>> /\ b[1] \in Nat /\ b[2] \in Nat
  BY MarksType, BlocksFinite
<1>2. \A b \in Blocks : b[2] < p + 1 <=> b[2] < p \/ b[2] = p
  BY <1>1
<1>3. \A b \in Blocks : b[2] \in Marks("END") /\ Open(b[1], b[2])
  <2> SUFFICES ASSUME NEW b \in Blocks PROVE b[2] \in Marks("END") /\ Open(b[1], b[2])
    OBVIOUS
  <2> QED BY DEF Blocks, Open
<1>4. p \notin Marks("END") => Closed(p + 1) = Closed(p)
  BY <1>2, <1>3 DEF Closed
<1>5. (\A s : ~Open(s, p)) => Closed(p + 1) = Closed(p)
  BY <1>2, <1>3 DEF Closed
<1>6. ASSUME NEW s, p \in Marks("END"), Open(s, p)
      PROVE  /\ <<s, p>> \in Blocks /\ <<s, p>> \notin Closed(p)
             /\ Closed(p + 1) = Closed(p) \cup {<<s, p>>}
  <2>1. <<s, p>> \in Blocks
    BY <1>6 DEF Blocks, Open
  <2>2. ASSUME NEW b \in Blocks, b[2] = p PROVE b = <<s, p>>
    BY <1>1, <1>3, <1>6, <2>2, OneOpen
  <2>3. <<s, p>>[2] = p /\ ~(p < p)
    BY <1>1
  <2> QED BY <1>1, <1>2, <2>1, <2>2, <2>3 DEF Closed
<1> QED BY <1>4, <1>5, <1>6

\* Blocks do not overlap, so that the place of a block is known when it ends.
LEMMA Apart ==
    ASSUME lines \in Feeds, NEW b \in Blocks, NEW c \in Blocks
    PROVE  /\ c[1] <= b[1] => c[1] = b[1] \/ c[2] <= b[1]
           /\ c[1] = b[1] => c = b
<1>1. /\ b = <<b[1], b[2]>> /\ b[1] \in Nat /\ b[2] \in Nat /\ b[1] < b[2]
      /\ c = <<c[1], c[2]>> /\ c[1] \in Nat /\ c[2] \in Nat /\ c[1] < c[2]
  BY BlocksFinite
<1>2. b[1] \in AllMarks /\ b[2] \in AllMarks /\ c[2] \in AllMarks
  BY DEF Blocks, AllMarks
<1>3. /\ \A k \in AllMarks : k <= b[1] \/ k >= b[2]
      /\ \A k \in AllMarks : k <= c[1] \/ k >= c[2]
  BY DEF Blocks
<1>4. c[1] <= b[1] => c[1] = b[1] \/ c[2] <= b[1]
  BY <1>1, <1>2, <1>3
<1>5. c[1] = b[1] => c[2] = b[2]
  BY <1>1, <1>2, <1>3
<1> QED BY <1>1, <1>4, <1>5

LEMMA PlaceIs ==
    ASSUME lines \in Feeds, NEW p \in 1..(Len(lines) + 1)
    PROVE  /\ IsFiniteSet(Closed(p)) /\ Cardinality(Closed(p)) \in Nat
           /\ \A b \in Closed(p) : Place(b) \in 1..Cardinality(Closed(p))
           /\ \A s : Open(s, p) /\ p \in Marks("END") =>
                 /\ Place(<<s, p>>) = Cardinality(Closed(p)) + 1
                 /\ Cardinality(Closed(p + 1)) = Cardinality(Closed(p)) + 1
<1>1. IsFiniteSet(Blocks) /\ p \in Nat /\ (p \in Marks("END") => p \in 1..Len(lines))
  BY BlocksFinite, MarksType
<1>2. IsFiniteSet(Closed(p)) /\ Cardinality(Closed(p)) \in Nat
  <2>1. Closed(p) \in SUBSET Blocks
    BY DEF Closed
  <2> QED BY <1>1, <2>1, FS_Subset, FS_CardinalityType
<1>3. ASSUME NEW b \in Closed(p) PROVE Place(b) \in 1..Cardinality(Closed(p))
  <2> DEFINE S == {c \in Blocks : c[1] <= b[1]}
  <2>1. b \in Blocks /\ b[1] \in Nat /\ b[2] \in Nat /\ b[1] < b[2] /\ b[2] < p
    BY <1>3, BlocksFinite DEF Closed
  <2>2. ASSUME NEW c \in S PROVE c \in Closed(p)
    <3>1. c \in Blocks /\ c[2] \in Nat /\ c[1] <= b[1]
      BY BlocksFinite
    <3>2. c = b \/ c[2] <= b[1]
      BY <2>1, <3>1, Apart
    <3> QED BY <1>1, <1>3, <2>1, <3>1, <3>2 DEF Closed
  <2>3. S \in SUBSET Closed(p) /\ b \in S
    BY <2>1, <2>2
  <2> HIDE DEF S
  <2>4. IsFiniteSet(S) /\ Cardinality(S) <= Cardinality(Closed(p)) /\ Cardinality(S) \in Nat
    BY <1>2, <2>3, FS_Subset, FS_CardinalityType
  <2>5. Cardinality(S) # 0
    BY <2>3, <2>4, FS_EmptySet
  <2>6. Place(b) = Cardinality(S)
    BY DEF Place, S
  <2> QED BY <1>2, <2>4, <2>5, <2>6
<1>4. ASSUME NEW s, Open(s, p), p \in Marks("END")
      PROVE  /\ Place(<<s, p>>) = Cardinality(Closed(p)) + 1
             /\ Cardinality(Closed(p + 1)) = Cardinality(Closed(p)) + 1
  <2> DEFINE b == <<s, p>>
  <2>1. /\ b \in Blocks /\ b \notin Closed(p) /\ Closed(p + 1) = Closed(p) \cup {b}
    BY <1>1, <1>4, ClosedNext
  <2>2. b[1] = s /\ b[2] = p /\ s \in Nat /\ s < p
    BY <1>4, MarksType DEF Open
  <2> HIDE DEF b
  <2>3. {c \in Blocks : c[1] <= s} = Closed(p + 1)
    <3>1. ASSUME NEW c \in Blocks, c[1] <= s PROVE c = b \/ c[2] < p
      <4>1. c[2] \in Nat /\ (c = b \/ c[2] <= s)
        BY <2>1, <2>2, <3>1, Apart, BlocksFinite
      <4> QED BY <1>1, <2>2, <4>1
    <3>2. ASSUME NEW c \in Blocks, c[2] < p PROVE c[1] <= s
      <4>1. c[2] \in AllMarks /\ c[2] \in Nat /\ c[1] \in Nat /\ c[1] < c[2]
        BY BlocksFinite DEF Blocks, AllMarks
      <4>2. c[2] <= s
        BY <1>1, <1>4, <3>2, <4>1 DEF Open
      <4> QED BY <2>2, <4>1, <4>2
    <3> QED BY <2>1, <2>2, <3>1, <3>2 DEF Closed
  <2>4. Place(b) = Cardinality(Closed(p + 1))
    BY <2>2, <2>3 DEF Place
  <2> QED BY <1>2, <2>1, <2>4, FS_AddElement DEF b
<1> QED BY <1>2, <1>3, <1>4
-----------------------------------------------------------------------------
\* What the lines after s say of a property, as one more is read.
LEMMA NothingSaid ==
    ASSUME NEW s \in Nat
    PROVE  \A name : Lines(<<s, s + 1>>, name) = {} /\ Said(<<s, s + 1>>, name) = {}
<1>1. Inside(<<s, s + 1>>) = {}
  BY DEF Inside
<1> QED BY <1>1 DEF Lines, Said

LEMMA SaidNext ==
    ASSUME NEW s \in Nat, NEW p \in Nat, s < p, NEW name
    PROVE  /\ lines[p].name = name =>
                 /\ Said(<<s, p + 1>>, name) = {lines[p].value}
                 /\ Lines(<<s, p + 1>>, name) = Lines(<<s, p>>, name) \cup {p}
           /\ lines[p].name # name =>
                 /\ Said(<<s, p + 1>>, name) = Said(<<s, p>>, name)
                 /\ Lines(<<s, p + 1>>, name) = Lines(<<s, p>>, name)
<1>1. Inside(<<s, p + 1>>) = Inside(<<s, p>>) \cup {p}
  BY DEF Inside
<1>2. \A k \in Inside(<<s, p>>) : k \in Nat /\ k < p
  BY DEF Inside
<1>3. \A k \in Lines(<<s, p>>, name) : k \in Nat /\ k < p
  BY <1>2 DEF Lines
<1>4. CASE lines[p].name = name
  <2>1. Lines(<<s, p + 1>>, name) = Lines(<<s, p>>, name) \cup {p}
    BY <1>1, <1>4 DEF Lines
  <2>2. {k \in Lines(<<s, p + 1>>, name) : \A m \in Lines(<<s, p + 1>>, name) : m <= k} = {p}
    BY <1>3, <2>1
  <2> QED BY <1>4, <2>1, <2>2 DEF Said
<1>5. CASE lines[p].name # name
  <2>1. Lines(<<s, p + 1>>, name) = Lines(<<s, p>>, name)
    BY <1>1, <1>5 DEF Lines
  <2> QED BY <1>5, <2>1 DEF Said
<1> QED BY <1>4, <1>5

\* A block says one thing of a property at most, in a line of that name.
LEMMA SaidOnce ==
    ASSUME NEW b, b[1] \in Int, b[2] \in Int, NEW name
    PROVE  \A v, w \in Said(b, name) : v = w
<1>1. \A k \in Lines(b, name) : k \in Int
  BY DEF Lines, Inside
<1> QED BY <1>1 DEF Said

LEMMA SaidInLine ==
    ASSUME lines \in Feeds, NEW b \in Blocks, NEW name
    PROVE  /\ \A v \in Said(b, name) :
                 \E k \in Inside(b) : lines[k].name = name /\ lines[k].value = v /\ IsLine(lines[k])
           /\ \A k \in Lines(b, name) : IsLine(lines[k])
<1>1. \A k \in Inside(b) : k \in DOMAIN lines
  BY BlocksFinite, FeedType DEF Inside
<1>2. \A k \in Inside(b) : IsLine(lines[k])
  BY <1>1, FeedType
<1> QED BY <1>2 DEF Said, Lines

\* What an event has that has been read from the lines inside b, where loc is the zone
\* of the calendar.
TimeRead(b, name, t, loc) ==
    IF Said(b, name) = {} THEN t = None ELSE \A v \in Said(b, name) : t = Resolve(v, loc)
RuleRead(b, e) ==
    IF Said(b, "RRULE") = {} THEN e.rrule = None
    ELSE \A r \in Said(b, "RRULE") : e.rrule = RuleOf([e EXCEPT !.rrule = None], r)
Resolved(S, loc) == {Resolve(v, loc) : v \in S} \ {None}
Reads(b, e, loc) ==
    /\ e \in VEvents
    /\ e.uid \in OrNone(Said(b, "UID")) /\ e.summary \in OrNone(Said(b, "SUMMARY"))
    /\ e.cancelled <=> Said(b, "STATUS") = {"CANCELLED"}
    /\ TimeRead(b, "DTSTART", e.start, loc)
    /\ e.allDay <=> \E v \in Said(b, "DTSTART") : IsDate(v)
    /\ TimeRead(b, "DTEND", e.end, loc)
    /\ TimeRead(b, "RECURRENCE-ID", e.recurrenceId, loc)
    /\ e.exdates = UNION {Resolved(lines[k].value, loc) : k \in Lines(b, "EXDATE")}
    /\ WellFormed => RuleRead(b, e)

LEMMA NewReads ==
    ASSUME NEW s \in Nat, NEW loc \in Zones
    PROVE  Reads(<<s, s + 1>>, New, loc)
<1>1. \A name : Lines(<<s, s + 1>>, name) = {} /\ Said(<<s, s + 1>>, name) = {}
  BY NothingSaid
<1> QED BY <1>1, NewType DEF New, Reads, TimeRead, RuleRead, OrNone

\* In a well-formed feed a block has one line of a kind, and DTSTART before RRULE.
LEMMA RuleLast ==
    ASSUME lines \in Feeds, WellFormed, NEW p \in 1..Len(lines), NEW s, Open(s, p), p \notin AllMarks
    PROVE  /\ lines[p].name = "RRULE" => Said(<<s, p>>, "RRULE") = {}
           /\ lines[p].name = "DTSTART" => Said(<<s, p>>, "RRULE") = {}
<1>1. PICK b \in Blocks : b[1] = s
  BY DEF WellFormed, Open
<1>2. s \in Nat /\ s < p /\ p \in Nat /\ b[2] \in Nat /\ s < b[2]
  BY <1>1, MarksType, BlocksFinite DEF Open
<1>3. b[2] \in AllMarks
  BY DEF Blocks, AllMarks
<1>4. b[2] > p
  BY <1>2, <1>3 DEF Open
<1>5. p \in Inside(b) /\ \A k \in Inside(<<s, p>>) : k \in Inside(b) /\ k < p /\ k \in Nat
  BY <1>1, <1>2, <1>4 DEF Inside
<1>6. \A k, m \in Inside(b) :
         /\ lines[k].name = lines[m].name
               => k = m \/ lines[k].name \in {"EXDATE", "BEGIN", "END", "OTHER"}
         /\ lines[k].name = "DTSTART" /\ lines[m].name = "RRULE" => k < m
  BY DEF WellFormed
<1>7. ASSUME NEW k \in Inside(<<s, p>>), lines[k].name = "RRULE"
      PROVE  lines[p].name # "RRULE" /\ lines[p].name # "DTSTART"
  <2>1. k \in Inside(b) /\ k < p /\ k \in Nat
    BY <1>5
  <2>2. lines[p].name # "RRULE"
    BY <1>2, <1>5, <1>6, <1>7, <2>1
  <2>3. lines[p].name = "DTSTART" => p < k
    BY <1>5, <1>6, <1>7, <2>1
  <2> QED BY <1>2, <2>1, <2>2, <2>3
<1> QED BY <1>7 DEF Said, Lines

\* A line stored through cur adds what it says, and nothing else.
LEMMA AssignReads ==
    ASSUME lines \in Feeds, NEW p \in 1..Len(lines), NEW s, Open(s, p), p \notin AllMarks,
           NEW loc \in Zones, NEW e, Reads(<<s, p>>, e, loc)
    PROVE  Reads(<<s, p + 1>>, Assign(e, lines[p], loc), loc)
<1> DEFINE a == <<s, p>>
           b == <<s, p + 1>>
           l == lines[p]
           f == Assign(e, l, loc)
<1>0. s \in Nat /\ p \in Nat /\ s < p /\ e \in VEvents /\ IsLine(l)
  BY MarksType, FeedType DEF Open, Reads
<1>1. f \in VEvents
  BY <1>0, AssignType
<1>2. \A name : /\ l.name = name => /\ Said(b, name) = {l.value}
                                    /\ Lines(b, name) = Lines(a, name) \cup {p}
                /\ l.name # name => Said(b, name) = Said(a, name) /\ Lines(b, name) = Lines(a, name)
  BY <1>0, SaidNext
<1>3. WellFormed => (l.name \in {"RRULE", "DTSTART"} => Said(a, "RRULE") = {})
  BY RuleLast
<1>4. l.name \in Names
  BY <1>0 DEF IsLine
<1>5. Reads(a, e, loc)
  OBVIOUS
<1>6. SUFFICES Reads(b, f, loc)
  OBVIOUS
<1> HIDE DEF a, b
<1>7. /\ f.uid = IF l.name = "UID" THEN l.value ELSE e.uid
      /\ f.summary = IF l.name = "SUMMARY" THEN l.value ELSE e.summary
      /\ f.cancelled = IF l.name = "STATUS" THEN l.value = "CANCELLED" ELSE e.cancelled
      /\ f.start = IF l.name = "DTSTART" THEN Resolve(l.value, loc) ELSE e.start
      /\ f.allDay = IF l.name = "DTSTART" THEN IsDate(l.value) ELSE e.allDay
      /\ f.end = IF l.name = "DTEND" THEN Resolve(l.value, loc) ELSE e.end
      /\ f.recurrenceId = IF l.name = "RECURRENCE-ID" THEN Resolve(l.value, loc)
                                                      ELSE e.recurrenceId
      /\ f.exdates = IF l.name = "EXDATE" THEN e.exdates \cup Resolved(l.value, loc) ELSE e.exdates
      /\ f.rrule = IF l.name = "RRULE" THEN RuleOf(e, l.value) ELSE e.rrule
  <2> HIDE DEF l
  <2> USE <1>0 DEF Assign, VEvents, Resolved
  <2>1. CASE l.name = "UID"
    BY <2>1
  <2>2. CASE l.name = "SUMMARY"
    BY <2>2
  <2>3. CASE l.name = "STATUS"
    BY <2>3
  <2>4. CASE l.name = "DTSTART"
    BY <2>4
  <2>5. CASE l.name = "DTEND"
    BY <2>5
  <2>6. CASE l.name = "RECURRENCE-ID"
    BY <2>6
  <2>7. CASE l.name = "EXDATE"
    BY <2>7
  <2>8. CASE l.name = "RRULE"
    BY <2>8
  <2>9. CASE l.name \in {"BEGIN", "END", "X-WR-TIMEZONE", "OTHER"}
    BY <2>9
  <2> QED BY <1>4, <2>1, <2>2, <2>3, <2>4, <2>5, <2>6, <2>7, <2>8, <2>9 DEF Names
<1> HIDE DEF l, f
<1>8. f.uid \in OrNone(Said(b, "UID")) /\ f.summary \in OrNone(Said(b, "SUMMARY"))
  <2>1. e.uid \in OrNone(Said(a, "UID")) /\ e.summary \in OrNone(Said(a, "SUMMARY"))
    BY <1>5 DEF Reads
  <2> QED BY <1>2, <1>7, <2>1 DEF OrNone
<1>9. f.cancelled <=> Said(b, "STATUS") = {"CANCELLED"}
  <2>1. e.cancelled <=> Said(a, "STATUS") = {"CANCELLED"}
    BY <1>5 DEF Reads
  <2>2. CASE l.name = "STATUS"
    <3>1. Said(b, "STATUS") = {l.value} /\ f.cancelled = (l.value = "CANCELLED")
      BY <1>2, <1>7, <2>2
    <3> QED BY <3>1
  <2>3. CASE l.name # "STATUS"
    <3>1. Said(b, "STATUS") = Said(a, "STATUS") /\ f.cancelled = e.cancelled
      BY <1>2, <1>7, <2>3
    <3> QED BY <2>1, <3>1
  <2> QED BY <2>2, <2>3
<1>10. /\ TimeRead(b, "DTSTART", f.start, loc)
       /\ TimeRead(b, "DTEND", f.end, loc)
       /\ TimeRead(b, "RECURRENCE-ID", f.recurrenceId, loc)
  <2>1. /\ TimeRead(a, "DTSTART", e.start, loc)
        /\ TimeRead(a, "DTEND", e.end, loc)
        /\ TimeRead(a, "RECURRENCE-ID", e.recurrenceId, loc)
    BY <1>5 DEF Reads
  <2>2. ASSUME NEW name, NEW t, NEW u, TimeRead(a, name, t, loc),
               u = IF l.name = name THEN Resolve(l.value, loc) ELSE t
        PROVE  TimeRead(b, name, u, loc)
    BY <1>2, <2>2 DEF TimeRead
  <2> QED BY <1>7, <2>1, <2>2
<1>11. f.allDay <=> \E v \in Said(b, "DTSTART") : IsDate(v)
  <2>1. e.allDay <=> \E v \in Said(a, "DTSTART") : IsDate(v)
    BY <1>5 DEF Reads
  <2>2. CASE l.name = "DTSTART"
    <3>1. Said(b, "DTSTART") = {l.value} /\ f.allDay = IsDate(l.value)
      BY <1>2, <1>7, <2>2
    <3> QED BY <3>1
  <2>3. CASE l.name # "DTSTART"
    <3>1. Said(b, "DTSTART") = Said(a, "DTSTART") /\ f.allDay = e.allDay
      BY <1>2, <1>7, <2>3
    <3> QED BY <2>1, <3>1
  <2> QED BY <2>2, <2>3
<1>12. f.exdates = UNION {Resolved(lines[k].value, loc) : k \in Lines(b, "EXDATE")}
  <2>1. e.exdates = UNION {Resolved(lines[k].value, loc) : k \in Lines(a, "EXDATE")}
    BY <1>5 DEF Reads
  <2>2. CASE l.name = "EXDATE"
    <3>1. Lines(b, "EXDATE") = Lines(a, "EXDATE") \cup {p} /\ f.exdates = e.exdates \cup Resolved(l.value, loc)
      BY <1>2, <1>7, <2>2
    <3>2. l.value = lines[p].value
      BY DEF l
    <3> QED BY <2>1, <3>1, <3>2
  <2>3. CASE l.name # "EXDATE"
    <3>1. Lines(b, "EXDATE") = Lines(a, "EXDATE") /\ f.exdates = e.exdates
      BY <1>2, <1>7, <2>3
    <3> QED BY <2>1, <3>1
  <2> QED BY <2>2, <2>3
<1>13. ASSUME WellFormed PROVE RuleRead(b, f)
  <2>1. RuleRead(a, e) /\ e \in VEvents
    BY <1>5, <1>13 DEF Reads
  <2>2. CASE l.name = "RRULE"
    <3>1. Said(a, "RRULE") = {} /\ Said(b, "RRULE") = {l.value} /\ f.start = e.start
      BY <1>2, <1>3, <1>7, <1>13, <2>2
    <3>2. f.rrule = RuleOf(e, l.value) /\ e.rrule = None
      BY <1>7, <2>1, <2>2, <3>1 DEF RuleRead
    <3>3. RuleOf([f EXCEPT !.rrule = None], l.value) = RuleOf(e, l.value)
      BY <1>1, <2>1, <3>1, <3>2 DEF RuleOf, VEvents
    <3> QED BY <3>1, <3>2, <3>3 DEF RuleRead
  <2>3. CASE l.name = "DTSTART"
    <3>1. Said(a, "RRULE") = {} /\ Said(b, "RRULE") = {} /\ f.rrule = e.rrule
      BY <1>2, <1>3, <1>7, <1>13, <2>3
    <3> QED BY <2>1, <3>1 DEF RuleRead
  <2>4. CASE l.name \notin {"RRULE", "DTSTART"}
    <3>1. Said(b, "RRULE") = Said(a, "RRULE") /\ f.rrule = e.rrule /\ f.start = e.start
      BY <1>2, <1>7, <2>4
    <3>2. \A r : RuleOf([f EXCEPT !.rrule = None], r) = RuleOf([e EXCEPT !.rrule = None], r)
      BY <1>1, <2>1, <3>1 DEF RuleOf, VEvents
    <3> QED BY <2>1, <3>1, <3>2 DEF RuleRead
  <2> QED BY <2>2, <2>3, <2>4
<1> QED BY <1>1, <1>8, <1>9, <1>10, <1>11, <1>12, <1>13 DEF Reads
-----------------------------------------------------------------------------
\* The zone of the calendar as the lines before p have it: all of X-WR-TIMEZONE comes
\* before the events of a well-formed feed.
Naming == {k \in DOMAIN lines : lines[k].name = "X-WR-TIMEZONE"}
Zoned(p, loc) ==
    WellFormed =>
        /\ \A k \in Naming : k < p /\ lines[k].value \in Zones => loc = lines[k].value
        /\ (\A k \in Naming : k < p => lines[k].value \notin Zones) => loc = "UTC"

LEMMA ZoneNext ==
    ASSUME lines \in Feeds, NEW p \in 1..Len(lines), NEW loc \in Zones, Zoned(p, loc)
    PROVE  /\ p \in AllMarks \/ (\E m \in AllMarks : m < p) => Zoned(p + 1, loc)
           /\ Zoned(p + 1, IF lines[p].name = "X-WR-TIMEZONE" /\ lines[p].value \in Zones
                              THEN lines[p].value ELSE loc)
<1>0. /\ p \in DOMAIN lines /\ p \in Nat /\ \A k \in Naming : k \in Nat
      /\ \A m \in AllMarks : m \in Nat
  BY FeedType, MarksType DEF Naming
<1>1. SUFFICES ASSUME WellFormed
               PROVE  /\ p \in AllMarks \/ (\E m \in AllMarks : m < p) => Zoned(p + 1, loc)
                      /\ Zoned(p + 1, IF lines[p].name = "X-WR-TIMEZONE" /\ lines[p].value \in Zones
                                        THEN lines[p].value ELSE loc)
  BY DEF Zoned
<1>2. \A k \in Naming : \A m \in Naming \cup AllMarks : k <= m
  <2>1. AllMarks \subseteq DOMAIN lines
    BY DEF AllMarks, Marks
  <2> QED BY <1>1, <2>1 DEF WellFormed, Naming
<1>3. \A k \in Naming : k < p + 1 <=> k < p \/ k = p
  BY <1>0
<1>4. p \notin Naming => Zoned(p + 1, loc)
  BY <1>3 DEF Zoned
<1>5. p \in Naming => p \notin AllMarks /\ ~\E m \in AllMarks : m < p
  <2>1. p \in Naming => p \notin AllMarks
    BY DEF Naming, AllMarks, Marks
  <2> QED BY <1>0, <1>2, <2>1
<1>6. ASSUME p \in Naming
      PROVE  Zoned(p + 1, IF lines[p].value \in Zones THEN lines[p].value ELSE loc)
  <2>1. \A k \in Naming : k = p
    BY <1>0, <1>2, <1>6
  <2>2. loc = "UTC"
    BY <1>0, <1>1, <2>1 DEF Zoned
  <2> QED BY <1>0, <1>6, <2>1, <2>2 DEF Zoned
<1>7. p \in Naming <=> lines[p].name = "X-WR-TIMEZONE"
  BY <1>0 DEF Naming
<1>8. CASE p \in Naming
  BY <1>5, <1>6, <1>7, <1>8
<1>9. CASE p \notin Naming
  BY <1>4, <1>7, <1>9
<1> QED BY <1>8, <1>9

LEMMA ZoneKnown ==
    ASSUME lines \in Feeds, NEW p \in Nat, NEW loc \in Zones, Zoned(p, loc), WellFormed,
           NEW m \in AllMarks, m < p
    PROVE  loc = CalendarZone
<1> DEFINE named == {lines[k].value : k \in Naming}
<1>1. \A k \in Naming : k < p
  <2>1. AllMarks \subseteq DOMAIN lines /\ m \in Nat /\ \A k \in Naming : k \in Nat
    BY MarksType, FeedType DEF AllMarks, Marks, Naming
  <2>2. \A k \in Naming : k <= m
    BY <2>1 DEF WellFormed, Naming
  <2> QED BY <2>1, <2>2
<1>2. CalendarZone = IF named \cap Zones = {} THEN "UTC" ELSE CHOOSE z \in named \cap Zones : TRUE
  BY DEF CalendarZone, Naming
<1>3. /\ \A z \in named \cap Zones : loc = z
      /\ named \cap Zones = {} => loc = "UTC"
  BY <1>1 DEF Zoned
<1> HIDE DEF named
<1> QED BY <1>2, <1>3
-----------------------------------------------------------------------------
\* Parse before line p: the blocks that have ended are events, in their places; cur is
\* what has been read of the one that has not; and the calendar's zone is known.
Built(p, evs) ==
    /\ Len(evs) = Cardinality(Closed(p))
    /\ \A b \in Closed(p) :
          \E loc \in Zones : /\ Reads(b, evs[Place(b)], loc)
                             /\ WellFormed => loc = CalendarZone
Reading(p, e, in, loc) ==
    /\ in <=> \E s : Open(s, p)
    /\ \A s : Open(s, p) => Reads(<<s, p>>, e, loc)
ParseInv(p, evs, e, in, loc) == Built(p, evs) /\ Reading(p, e, in, loc) /\ Zoned(p, loc)

LEMMA StartParse == ASSUME lines \in Feeds PROVE ParseInv(1, <<>>, None, FALSE, "UTC")
<1>1. Closed(1) = {}
  BY BlocksFinite DEF Closed
<1>2. \A s : ~Open(s, 1)
  BY MarksType DEF Open
<1>3. \A k \in Naming : ~(k < 1)
  BY FeedType DEF Naming
<1> QED BY <1>1, <1>2, <1>3, FS_EmptySet DEF ParseInv, Built, Reading, Zoned

LEMMA BeginParse ==
    ASSUME lines \in Feeds, NEW p \in 1..Len(lines), NEW evs, NEW e, NEW in, NEW loc \in Zones,
           ParseInv(p, evs, e, in, loc), p \in Marks("BEGIN")
    PROVE  ParseInv(p + 1, evs, New, TRUE, loc)
<1>1. p \in Nat /\ p \in AllMarks /\ p \notin Marks("END")
  BY MarksType DEF AllMarks
<1>2. Closed(p + 1) = Closed(p) /\ \A s : Open(s, p + 1) <=> s = p
  BY <1>1, ClosedNext, OpenNext
<1>3. Built(p + 1, evs)
  BY <1>2 DEF ParseInv, Built
<1>4. Reading(p + 1, New, TRUE, loc)
  BY <1>1, <1>2, NewReads DEF Reading
<1>5. Zoned(p + 1, loc)
  BY <1>1, ZoneNext DEF ParseInv
<1> QED BY <1>3, <1>4, <1>5 DEF ParseInv

LEMMA EndParse ==
    ASSUME lines \in Feeds, NEW p \in 1..Len(lines), NEW evs \in Seq(VEvents),
           NEW e \in VEvents \cup {None}, NEW in \in BOOLEAN, in <=> e # None, NEW loc \in Zones,
           ParseInv(p, evs, e, in, loc), p \in Marks("END")
    PROVE  ParseInv(p + 1, IF e # None THEN Append(evs, e) ELSE evs, None, FALSE, loc)
<1>1. p \in Nat /\ p \in AllMarks
  BY MarksType DEF AllMarks
<1>2. \A s : ~Open(s, p + 1)
  BY OpenNext
<1>3. Reading(p + 1, None, FALSE, loc) /\ Zoned(p + 1, loc)
  BY <1>1, <1>2, ZoneNext DEF Reading, ParseInv
<1>4. CASE ~in
  <2>1. Closed(p + 1) = Closed(p)
    BY <1>4, ClosedNext DEF ParseInv, Reading
  <2> QED BY <1>3, <1>4, <2>1 DEF ParseInv, Built
<1>5. CASE in
  <2>1. PICK s : Open(s, p)
    BY <1>5 DEF ParseInv, Reading
  <2>2. Reads(<<s, p>>, e, loc)
    BY <2>1 DEF ParseInv, Reading
  <2>3. WellFormed => loc = CalendarZone
    <3>1. s \in AllMarks /\ s < p
      BY <2>1 DEF Open, AllMarks
    <3> QED BY <1>1, <3>1, ZoneKnown DEF ParseInv
  <2> DEFINE more == Append(evs, e)
             n == Cardinality(Closed(p))
  <2>4. n \in Nat /\ Len(evs) = n /\ \A b \in Closed(p) : Place(b) \in 1..n
    BY PlaceIs DEF ParseInv, Built
  <2>5. Place(<<s, p>>) = n + 1 /\ Cardinality(Closed(p + 1)) = n + 1
    BY <2>1, PlaceIs
  <2>6. Closed(p + 1) = Closed(p) \cup {<<s, p>>}
    BY <2>1, ClosedNext
  <2> HIDE DEF n
  <2>7. Len(more) = n + 1 /\ more[n + 1] = e /\ \A k \in 1..n : more[k] = evs[k]
    BY <1>5, <2>4
  <2> HIDE DEF more
  <2>8. Built(p + 1, more)
    <3>1. ASSUME NEW b \in Closed(p)
          PROVE  \E z \in Zones : Reads(b, more[Place(b)], z) /\ (WellFormed => z = CalendarZone)
      <4>1. more[Place(b)] = evs[Place(b)]
        BY <2>4, <2>7
      <4> QED BY <4>1 DEF ParseInv, Built
    <3>2. Reads(<<s, p>>, more[Place(<<s, p>>)], loc)
      BY <2>2, <2>5, <2>7
    <3> QED BY <2>3, <2>5, <2>6, <2>7, <3>1, <3>2 DEF Built
  <2> QED BY <1>3, <1>5, <2>8 DEF ParseInv, more
<1> QED BY <1>4, <1>5

LEMMA CalendarParse ==
    ASSUME lines \in Feeds, NEW p \in 1..Len(lines), NEW evs, NEW e, NEW loc \in Zones,
           ParseInv(p, evs, e, FALSE, loc), p \notin AllMarks
    PROVE  ParseInv(p + 1, evs, e, FALSE,
                    IF lines[p].name = "X-WR-TIMEZONE" /\ lines[p].value \in Zones
                       THEN lines[p].value ELSE loc)
<1>1. p \notin Marks("END")
  BY DEF AllMarks
<1>2. Closed(p + 1) = Closed(p) /\ \A s : Open(s, p + 1) <=> Open(s, p)
  BY <1>1, ClosedNext, OpenNext
<1>3. \A s : ~Open(s, p)
  BY DEF ParseInv, Reading
<1>4. Built(p + 1, evs)
  BY <1>2 DEF ParseInv, Built
<1> DEFINE z == IF lines[p].name = "X-WR-TIMEZONE" /\ lines[p].value \in Zones
                   THEN lines[p].value ELSE loc
<1>5. Zoned(p + 1, z)
  BY ZoneNext DEF ParseInv
<1> HIDE DEF z
<1>6. Reading(p + 1, e, FALSE, z)
  BY <1>2, <1>3 DEF Reading
<1> QED BY <1>4, <1>5, <1>6 DEF ParseInv, z

LEMMA EventParse ==
    ASSUME lines \in Feeds, NEW p \in 1..Len(lines), NEW evs, NEW e, NEW loc \in Zones,
           ParseInv(p, evs, e, TRUE, loc), p \notin AllMarks
    PROVE  ParseInv(p + 1, evs, Assign(e, lines[p], loc), TRUE, loc)
<1>1. p \notin Marks("END")
  BY DEF AllMarks
<1>2. Closed(p + 1) = Closed(p) /\ \A s : Open(s, p + 1) <=> Open(s, p)
  BY <1>1, ClosedNext, OpenNext
<1>3. Built(p + 1, evs)
  BY <1>2 DEF ParseInv, Built
<1>4. PICK s : Open(s, p)
  BY DEF ParseInv, Reading
<1>5. s \in AllMarks /\ s < p
  BY <1>4 DEF Open, AllMarks
<1>6. Zoned(p + 1, loc)
  BY <1>5, ZoneNext DEF ParseInv
<1>7. ASSUME NEW t, Open(t, p + 1) PROVE Reads(<<t, p + 1>>, Assign(e, lines[p], loc), loc)
  <2>1. Open(t, p) /\ Reads(<<t, p>>, e, loc)
    BY <1>2, <1>7 DEF ParseInv, Reading
  <2> QED BY <2>1, AssignReads
<1> QED BY <1>2, <1>3, <1>4, <1>6, <1>7 DEF ParseInv, Reading
-----------------------------------------------------------------------------
\* A time that is read is the moment that was written.
LEMMA MomentIs ==
    ASSUME NEW v \in Written, CalendarZone \in Zones
    PROVE  /\ Readable(v) => /\ Resolve(v, CalendarZone) \in Times
                             /\ Resolve(v, CalendarZone).at = Moment(v)
           /\ ~Readable(v) => Resolve(v, CalendarZone) = None
BY FeedAssumption DEF Written, Forms, Readable, Resolve, ParamLoc, Times, Moment, ZoneOf

LEMMA InstantIs ==
    ASSUME lines \in Feeds, CalendarZone \in Zones, NEW b \in Blocks,
           NEW name \in {"DTSTART", "DTEND", "RECURRENCE-ID"}, NEW t,
           TimeRead(b, name, t, CalendarZone)
    PROVE  /\ Instants({t}) = Moments(Said(b, name))
           /\ t \in Times \cup {None}
           /\ t = None <=> Moments(Said(b, name)) = {}
<1>1. CASE Said(b, name) = {}
  BY <1>1, FeedAssumption DEF TimeRead, Instants, Moments
<1>2. ASSUME NEW v \in Said(b, name)
      PROVE  /\ Instants({t}) = Moments(Said(b, name))
             /\ t \in Times \cup {None}
             /\ t = None <=> Moments(Said(b, name)) = {}
  <2>1. Said(b, name) = {v}
    BY <1>2, SaidOnce, BlocksFinite
  <2>2. v \in Written
    BY <1>2, SaidInLine DEF IsLine
  <2>3. t = Resolve(v, CalendarZone)
    BY <1>2 DEF TimeRead
  <2>4. CASE Readable(v)
    <3>1. t \in Times /\ t.at = Moment(v) /\ t # None
      BY <2>2, <2>3, <2>4, MomentIs, FeedAssumption
    <3>2. Moments({v}) = {Moment(v)}
      BY <2>4 DEF Moments
    <3> QED BY <2>1, <3>1, <3>2 DEF Instants
  <2>5. CASE ~Readable(v)
    <3>1. t = None
      BY <2>2, <2>3, <2>5, MomentIs
    <3>2. Moments({v}) = {}
      BY <2>5 DEF Moments
    <3> QED BY <2>1, <3>1, <3>2 DEF Instants
  <2> QED BY <2>4, <2>5
<1> QED BY <1>1, <1>2

\* A date or an instant of UNTIL that is read in the zone of the start.
LEMMA UntilIs ==
    ASSUME CalendarZone \in Zones, NEW u \in Written, u.tz = None, NEW v \in Written, Readable(v)
    PROVE  LET until == Resolve(u, Resolve(v, CalendarZone).loc)
           IN  /\ until # None <=> Readable(u)
               /\ Readable(u) => until.at = UntilMoment(u, v)
<1> DEFINE z == Resolve(v, CalendarZone).loc
<1>1. /\ v.form = "utc" => z = "UTC"
      /\ v.form # "utc" => z = ZoneOf(v)
  BY DEF Readable, Resolve, ParamLoc, ZoneOf, Written, Forms
<1>2. z \in Zones /\ ParamLoc(u, z) = z
  BY <1>1, FeedAssumption DEF ParamLoc, ZoneOf
<1>3. /\ u.form = "utc" => Resolve(u, z) = [at |-> u.at, loc |-> "UTC"]
      /\ u.form \in {"date", "local"} => Resolve(u, z) = [at |-> u.at - Offset[z], loc |-> z]
      /\ u.form \in {"bad", "baddate"} => Resolve(u, z) = None
  BY <1>2 DEF Resolve
<1>4. u.at \in Int /\ Offset[z] \in Int /\ u.form \in Forms
  BY <1>2, FeedAssumption DEF Written
<1> HIDE DEF z
<1>5. Resolve(u, z) # None <=> Readable(u)
  <2>1. CASE u.form \in {"utc", "date", "local"}
    <3>1. Resolve(u, z) \in Times
      BY <1>2, <1>3, <1>4, <2>1, FeedAssumption DEF Times
    <3> QED BY <2>1, <3>1, FeedAssumption DEF Readable
  <2>2. CASE u.form \in {"bad", "baddate"}
    BY <1>3, <2>2 DEF Readable
  <2> QED BY <1>4, <2>1, <2>2 DEF Forms
<1>6. ASSUME Readable(u) PROVE Resolve(u, z).at = UntilMoment(u, v)
  <2>1. CASE u.form = "utc"
    BY <1>3, <2>1 DEF UntilMoment
  <2>2. CASE u.form # "utc" /\ v.form = "utc"
    <3>1. Resolve(u, z).at = u.at - Offset["UTC"]
      BY <1>1, <1>3, <1>4, <1>6, <2>2 DEF Readable, Forms
    <3> QED BY <1>4, <2>2, <3>1, FeedAssumption DEF UntilMoment
  <2>3. CASE u.form # "utc" /\ v.form # "utc"
    BY <1>1, <1>3, <1>4, <1>6, <2>3 DEF Readable, Forms, UntilMoment
  <2> QED BY <2>1, <2>2, <2>3
<1> QED BY <1>5, <1>6 DEF z

\* An event read from a block of a well-formed feed is what the block describes, once
\* it has an end.
LEMMA EventIs ==
    ASSUME lines \in Feeds, WellFormed, CalendarZone \in Zones, NEW b \in Blocks, NEW e,
           Reads(b, e, CalendarZone)
    PROVE  Describes(b, Ended(e))
<1> DEFINE f == Ended(e)
           day == IF AllDay(b) THEN DayLength ELSE 0
<1>1. e \in VEvents
  BY DEF Reads
<1>2. /\ f.summary = e.summary /\ f.cancelled = e.cancelled /\ f.start = e.start
      /\ f.allDay = e.allDay /\ f.recurrenceId = e.recurrenceId /\ f.exdates = e.exdates
      /\ f.rrule = e.rrule
      /\ f.end = IF e.end = None /\ e.start # None
                   THEN [e.start EXCEPT !.at = @ + (IF e.allDay THEN DayLength ELSE 0)] ELSE e.end
  BY <1>1 DEF Ended, VEvents
<1>3. PICK v \in Said(b, "DTSTART") : Readable(v)
  BY DEF WellFormed
<1>4. Said(b, "DTSTART") = {v} /\ v \in Written
  BY SaidOnce, SaidInLine, BlocksFinite DEF IsLine
<1>5. /\ TimeRead(b, "DTSTART", e.start, CalendarZone)
      /\ TimeRead(b, "DTEND", e.end, CalendarZone)
      /\ TimeRead(b, "RECURRENCE-ID", e.recurrenceId, CalendarZone)
  BY DEF Reads
<1>6. /\ Instants({e.start}) = Moments(Said(b, "DTSTART"))
      /\ Instants({e.recurrenceId}) = Moments(Said(b, "RECURRENCE-ID"))
      /\ Instants({e.end}) = Moments(Said(b, "DTEND"))
      /\ e.end = None <=> Moments(Said(b, "DTEND")) = {}
  BY <1>5, InstantIs
<1>7. e.start = Resolve(v, CalendarZone) /\ e.start \in Times /\ e.start # None
  BY <1>3, <1>4, <1>5, MomentIs, FeedAssumption DEF TimeRead
<1>8. e.allDay \in BOOLEAN /\ (e.allDay <=> AllDay(b))
  <2>1. e.allDay \in BOOLEAN /\ (e.allDay <=> IsDate(v))
    BY <1>1, <1>4 DEF Reads, VEvents
  <2> QED BY <1>3, <1>4, <2>1 DEF IsDate, Readable, AllDay
<1> HIDE DEF f
<1>9. Instants({f.end}) = Ends(b)
  <2>1. CASE Moments(Said(b, "DTEND")) # {}
    BY <1>2, <1>6, <2>1 DEF Ends
  <2>2. CASE Moments(Said(b, "DTEND")) = {}
    <3>1. f.end = [e.start EXCEPT !.at = @ + day]
      BY <1>2, <1>6, <1>7, <1>8, <2>2
    <3>2. day \in Int
      BY FeedAssumption
    <3>3. Ends(b) = {t + day : t \in Moments(Said(b, "DTSTART"))}
      BY <2>2 DEF Ends
    <3> HIDE DEF day
    <3>4. f.end \in Times /\ f.end.at = e.start.at + day
      BY <1>7, <3>1, <3>2 DEF Times
    <3>5. Instants({f.end}) = {e.start.at + day}
      BY <3>4, FeedAssumption DEF Instants
    <3>6. Moments(Said(b, "DTSTART")) = {e.start.at}
      BY <1>6, <1>7 DEF Instants
    <3> QED BY <3>3, <3>5, <3>6
  <2> QED BY <2>1, <2>2
<1>10. Instants(e.exdates) = UNION {Moments(lines[k].value) : k \in Lines(b, "EXDATE")}
  <2>1. e.exdates = UNION {Resolved(lines[k].value, CalendarZone) : k \in Lines(b, "EXDATE")}
    BY DEF Reads
  <2>2. ASSUME NEW S \in SUBSET Written
        PROVE  {t.at : t \in Resolved(S, CalendarZone)} = Moments(S)
    <3>1. ASSUME NEW u \in S, Resolve(u, CalendarZone) # None
          PROVE  Resolve(u, CalendarZone).at \in Moments(S)
      BY <3>1, MomentIs DEF Moments
    <3>2. ASSUME NEW u \in S, Readable(u)
          PROVE  \E t \in Resolved(S, CalendarZone) : t.at = Moment(u)
      BY <3>2, MomentIs, FeedAssumption DEF Resolved
    <3>3. \A t \in Resolved(S, CalendarZone) : t.at \in Moments(S)
      BY <3>1 DEF Resolved
    <3> QED BY <3>2, <3>3 DEF Moments
  <2>3. \A k \in Lines(b, "EXDATE") : lines[k].value \in SUBSET Written
    BY SaidInLine DEF IsLine, Lines
  <2>4. None \notin e.exdates
    BY <2>1 DEF Resolved
  <2>5. Instants(e.exdates) = {t.at : t \in e.exdates}
    BY <2>4 DEF Instants
  <2>6. {t.at : t \in e.exdates} =
           UNION {{t.at : t \in Resolved(lines[k].value, CalendarZone)} : k \in Lines(b, "EXDATE")}
    BY <2>1
  <2> QED BY <2>2, <2>3, <2>5, <2>6
<1>11. /\ e.rrule = None <=> ReadRules(b) = {}
       /\ \A r \in ReadRules(b) : Instants({e.rrule.until}) = Untils(b, r)
  <2>1. RuleRead(b, e)
    BY DEF Reads
  <2>2. CASE Said(b, "RRULE") = {}
    BY <2>1, <2>2 DEF RuleRead, ReadRules
  <2>3. ASSUME NEW r \in Said(b, "RRULE")
        PROVE  /\ e.rrule = None <=> ReadRules(b) = {}
               /\ \A q \in ReadRules(b) : Instants({e.rrule.until}) = Untils(b, q)
    <3>1. Said(b, "RRULE") = {r} /\ r \in WrittenRules
      BY SaidOnce, SaidInLine, BlocksFinite DEF IsLine
    <3> DEFINE z == e.start.loc
               until == IF r.until = None THEN None ELSE Resolve(r.until, z)
    <3>2. e.rrule = IF r.supported /\ (r.until # None => until # None)
                       THEN [until |-> until] ELSE None
      <4>1. e.rrule = RuleOf([e EXCEPT !.rrule = None], r)
        BY <2>1, <2>3 DEF RuleRead
      <4>2. [e EXCEPT !.rrule = None].start = e.start /\ [e EXCEPT !.rrule = None].rrule = None
        BY <1>1 DEF VEvents
      <4> QED BY <1>7, <4>1, <4>2 DEF RuleOf
    <3>3. r.until # None =>
             /\ until # None <=> Readable(r.until)
             /\ Readable(r.until) => until.at = UntilMoment(r.until, v) /\ until \in Times
      <4> SUFFICES ASSUME r.until # None
                   PROVE  /\ until # None <=> Readable(r.until)
                          /\ Readable(r.until) => until.at = UntilMoment(r.until, v) /\ until \in Times
        OBVIOUS
      <4>1. r.until \in Written /\ r.until.tz = None
        BY <3>1 DEF WrittenRules
      <4>2. z = Resolve(v, CalendarZone).loc /\ z \in Zones
        BY <1>7 DEF Times
      <4>3. until = Resolve(r.until, z)
        OBVIOUS
      <4> HIDE DEF until, z
      <4>4. until \in Times \cup {None}
        BY <4>1, <4>2, <4>3, ResolveType
      <4> QED BY <1>3, <1>4, <4>1, <4>2, <4>3, <4>4, UntilIs
    <3> HIDE DEF until
    <3>4. ASSUME r \in ReadRules(b)
          PROVE  e.rrule # None /\ ReadRules(b) = {r} /\ Instants({e.rrule.until}) = Untils(b, r)
      <4>1. ReadRules(b) = {r} /\ e.rrule = [until |-> until]
        BY <3>1, <3>2, <3>3, <3>4 DEF ReadRules
      <4>2. e.rrule # None
        <5>1. until \in Times \cup {None}
          BY <3>3, <3>4 DEF until, ReadRules
        <5> QED BY <4>1, <5>1, FeedAssumption DEF Rules
      <4>3. Instants({until}) = Untils(b, r)
        <5>1. CASE r.until = None
          BY <5>1 DEF Instants, until, Untils
        <5>2. CASE r.until # None
          <6>1. until # None /\ until.at = UntilMoment(r.until, v)
            BY <3>3, <3>4, <5>2 DEF ReadRules
          <6>2. Untils(b, r) = {UntilMoment(r.until, v)}
            BY <1>4, <5>2 DEF Untils
          <6> QED BY <6>1, <6>2 DEF Instants
        <5> QED BY <5>1, <5>2
      <4> QED BY <4>1, <4>2, <4>3
    <3>5. ASSUME r \notin ReadRules(b) PROVE e.rrule = None /\ ReadRules(b) = {}
      BY <3>1, <3>2, <3>3, <3>5 DEF ReadRules
    <3> QED BY <3>4, <3>5
  <2> QED BY <2>2, <2>3
<1>12. /\ f.summary \in OrNone(Said(b, "SUMMARY"))
       /\ f.cancelled <=> Said(b, "STATUS") = {"CANCELLED"}
  BY <1>2 DEF Reads
<1>13. /\ Instants({f.start}) = Moments(Said(b, "DTSTART")) /\ (f.allDay <=> AllDay(b))
       /\ Instants({f.recurrenceId}) = Moments(Said(b, "RECURRENCE-ID"))
  BY <1>2, <1>6, <1>8
<1>14. f.exdates = e.exdates /\ f.rrule = e.rrule
  BY <1>2
<1> SUFFICES Describes(b, f)
  BY DEF f
<1> QED BY <1>9, <1>10, <1>11, <1>12, <1>13, <1>14 DEF Describes
LEMMA FinishParse ==
    ASSUME lines \in Feeds, NEW evs \in Seq(VEvents), NEW e, NEW in, NEW loc,
           ParseInv(Len(lines) + 1, evs, e, in, loc)
    PROVE  LET ended == [k \in DOMAIN evs |-> Ended(evs[k])]
           IN  /\ Len(ended) = Cardinality(Blocks)
               /\ \A b \in Blocks : /\ Place(b) \in DOMAIN ended
                                    /\ ended[Place(b)].uid \in OrNone(Said(b, "UID"))
               /\ WellFormed => \A b \in Blocks : Describes(b, ended[Place(b)])
<1> DEFINE ended == [k \in DOMAIN evs |-> Ended(evs[k])]
<1>1. Len(lines) \in Nat
  BY FeedType
<1>2. Closed(Len(lines) + 1) = Blocks
  BY <1>1, BlocksFinite DEF Closed
<1>3. Len(evs) = Cardinality(Blocks) /\ \A b \in Blocks : Place(b) \in 1..Cardinality(Blocks)
  BY <1>1, <1>2, PlaceIs DEF ParseInv, Built
<1>4. /\ DOMAIN ended = 1..Cardinality(Blocks) /\ Len(ended) = Cardinality(Blocks)
      /\ \A k \in 1..Cardinality(Blocks) : ended[k] = Ended(evs[k])
  BY <1>3
<1>5. ASSUME NEW b \in Blocks
      PROVE  /\ Ended(evs[Place(b)]).uid \in OrNone(Said(b, "UID"))
             /\ WellFormed => Describes(b, Ended(evs[Place(b)]))
  <2>1. PICK z \in Zones : Reads(b, evs[Place(b)], z) /\ (WellFormed => z = CalendarZone)
    BY <1>2 DEF ParseInv, Built
  <2>2. evs[Place(b)] \in VEvents /\ evs[Place(b)].uid \in OrNone(Said(b, "UID"))
    BY <2>1 DEF Reads
  <2>3. Ended(evs[Place(b)]).uid = evs[Place(b)].uid
    BY <2>2 DEF Ended, VEvents
  <2> QED BY <2>1, <2>2, <2>3, EventIs
<1> HIDE DEF ended
<1>6. \A b \in Blocks : Place(b) \in DOMAIN ended /\ ended[Place(b)] = Ended(evs[Place(b)])
  BY <1>3, <1>4
<1> QED BY <1>4, <1>5, <1>6 DEF ended
-----------------------------------------------------------------------------
\* The lines stay, and what is said of them with them.
LEMMA LinesStay ==
    ASSUME lines' = lines
    PROVE  /\ \A what : Marks(what)' = Marks(what)
           /\ AllMarks' = AllMarks /\ Blocks' = Blocks
           /\ \A b : Place(b)' = Place(b)
           /\ \A b, name : Lines(b, name)' = Lines(b, name) /\ Said(b, name)' = Said(b, name)
           /\ CalendarZone' = CalendarZone /\ WellFormed' = WellFormed
<1>1. \A what : Marks(what)' = Marks(what)
  BY DEF Marks
<1>2. AllMarks' = AllMarks
  BY <1>1 DEF AllMarks
<1>3. Blocks' = Blocks
  BY <1>1, <1>2 DEF Blocks
<1>4. \A b : Place(b)' = Place(b)
  BY <1>3 DEF Place
<1>5. \A b, name : Lines(b, name)' = Lines(b, name)
  BY DEF Lines, Inside
<1>6. \A b, name : Said(b, name)' = Said(b, name)
  BY <1>5 DEF Said
<1>7. CalendarZone' = CalendarZone
  BY DEF CalendarZone
<1>8. WellFormed' = WellFormed
  BY <1>1, <1>2, <1>3, <1>6 DEF WellFormed, Nested
<1> QED BY <1>1, <1>2, <1>3, <1>4, <1>5, <1>6, <1>7, <1>8

LEMMA ReadsStay ==
    ASSUME lines' = lines
    PROVE  /\ \A b, e, loc : Reads(b, e, loc)' = Reads(b, e, loc)
           /\ \A b, e : Describes(b, e)' = Describes(b, e)
<1>1. \A b, e, loc : Reads(b, e, loc)' = Reads(b, e, loc)
  BY LinesStay DEF Reads, TimeRead, RuleRead
<1>2. \A v : Moment(v)' = Moment(v)
  BY LinesStay DEF Moment, ZoneOf
<1>3. \A S : Moments(S)' = Moments(S)
  BY <1>2 DEF Moments
<1>4. \A b : AllDay(b)' = AllDay(b) /\ Ends(b)' = Ends(b)
  BY <1>3, LinesStay DEF AllDay, Ends
<1>5. \A b : ReadRules(b)' = ReadRules(b)
  BY LinesStay DEF ReadRules
<1>6. \A u, s : UntilMoment(u, s)' = UntilMoment(u, s)
  BY LinesStay DEF UntilMoment, ZoneOf
<1>7. \A b, r : Untils(b, r)' = Untils(b, r)
  BY <1>6, LinesStay DEF Untils
<1>8. \A b : UNION {Moments(lines[k].value) : k \in Lines(b, "EXDATE")}' =
             UNION {Moments(lines[k].value) : k \in Lines(b, "EXDATE")}
  BY <1>3, LinesStay
<1>9. \A b, e : Describes(b, e)' = Describes(b, e)
  BY <1>3, <1>4, <1>5, <1>7, <1>8, LinesStay DEF Describes
<1> QED BY <1>1, <1>9

LEMMA ParseInvStays ==
    ASSUME lines' = lines, ParseInv(pos', events', cur', inEvent', defaultLoc')
    PROVE  ParseInv(pos, events, cur, inEvent, defaultLoc)'
<1>1. \A p : Closed(p)' = Closed(p)
  BY LinesStay DEF Closed
<1>2. \A s, p : Open(s, p)' = Open(s, p)
  BY LinesStay DEF Open
<1>3. Built(pos, events)'
  BY <1>1, LinesStay, ReadsStay DEF ParseInv, Built
<1>4. Reading(pos, cur, inEvent, defaultLoc)'
  BY <1>2, ReadsStay DEF ParseInv, Reading
<1>5. Zoned(pos, defaultLoc)'
  BY LinesStay DEF ParseInv, Zoned, Naming
<1> QED BY <1>3, <1>4, <1>5 DEF ParseInv
-----------------------------------------------------------------------------
\* While Parse reads, what it has built is what the lines before pos say.
Parsed == IF done THEN pos > Len(lines) /\ ParsesFeed
                  ELSE ParseInv(pos, events, cur, inEvent, defaultLoc)
Full == Inv /\ Parsed

LEMMA Reached ==
    ASSUME Inv
    PROVE  /\ lines \in Feeds /\ Len(lines) \in Nat
           /\ pos <= Len(lines) => pos \in 1..Len(lines) /\ pos \in DOMAIN lines
           /\ pos > Len(lines) => pos = Len(lines) + 1
           /\ \A what : At(what, "VEVENT") <=> pos \in Marks(what)
           /\ pos <= Len(lines) /\ ~Marker => pos \in 1..Len(lines) /\ pos \notin AllMarks
<1>1. lines \in Feeds /\ pos \in 1..(Len(lines) + 1)
  BY DEF Inv, TypeOK
<1>2. Len(lines) \in Nat /\ DOMAIN lines = 1..Len(lines)
  BY <1>1, FeedType
<1>3. \A what : At(what, "VEVENT") <=> pos \in Marks(what)
  BY <1>1, <1>2 DEF At, line, Marks
<1> QED BY <1>1, <1>2, <1>3 DEF Marker, AllMarks

LEMMA FinishParsed ==
    ASSUME Inv, Parsed, Finish PROVE Parsed'
<1>1. lines \in Feeds /\ pos = Len(lines) + 1 /\ events \in Seq(VEvents)
  BY Reached DEF Finish, Inv, TypeOK
<1>2. ParseInv(Len(lines) + 1, events, cur, inEvent, defaultLoc)
  BY <1>1 DEF Parsed, Finish
<1>3. /\ Len(events') = Cardinality(Blocks)
      /\ \A b \in Blocks : /\ Place(b) \in DOMAIN events'
                           /\ events'[Place(b)].uid \in OrNone(Said(b, "UID"))
      /\ WellFormed => \A b \in Blocks : Describes(b, events'[Place(b)])
  BY <1>1, <1>2, FinishParse DEF Finish
<1>4. lines' = lines /\ pos' = pos /\ done' = TRUE
  BY DEF Finish
<1>5. EventPerBlock'
  BY <1>3, <1>4, LinesStay DEF EventPerBlock, OrNone
<1>6. WellFormed' => \A b \in Blocks' : Describes(b, events[Place(b)])'
  BY <1>3, <1>4, LinesStay, ReadsStay
<1>7. pos' > Len(lines')
  BY <1>4 DEF Finish
<1> QED BY <1>4, <1>5, <1>6, <1>7 DEF Parsed, ParsesFeed

LEMMA FullHolds == Spec => []Full
<1>1. Init => Full
  <2> SUFFICES ASSUME Init PROVE Parsed
    BY InvStarts DEF Full
  <2> QED BY StartParse DEF Init, Parsed
<1>2. Full /\ [Next]_vars => Full'
  <2> SUFFICES ASSUME Inv, Parsed, [Next]_vars PROVE Parsed'
    BY InvSteps DEF Full
  <2>0. TypeOK /\ NoNilEvent
    BY DEF Inv
  <2>7. pos \in 1..Len(lines) => ~done
    BY Reached DEF Parsed
  <2>1. CASE BeginEvent
    <3>1. pos \in Marks("BEGIN") /\ pos \in 1..Len(lines)
      BY <2>1, Reached DEF BeginEvent, At
    <3>2. ~done /\ done' = done /\ lines' = lines
      BY <2>1, <2>7, <3>1 DEF BeginEvent, Advance
    <3>3. ParseInv(pos', events', cur', inEvent', defaultLoc')
      BY <2>0, <2>1, <3>1, <3>2, BeginParse, Reached DEF BeginEvent, Advance, Parsed, TypeOK
    <3> QED BY <3>2, <3>3, ParseInvStays DEF Parsed
  <2>2. CASE EndEvent
    <3>1. pos \in Marks("END") /\ pos \in 1..Len(lines)
      BY <2>2, Reached DEF EndEvent, At
    <3>2. ~done /\ done' = done /\ lines' = lines
      BY <2>2, <2>7, <3>1 DEF EndEvent, Advance
    <3>3. ParseInv(pos', events', cur', inEvent', defaultLoc')
      BY <2>0, <2>2, <3>1, <3>2, EndParse, Reached DEF EndEvent, Advance, Parsed, TypeOK, NoNilEvent
    <3> QED BY <3>2, <3>3, ParseInvStays DEF Parsed
  <2>3. CASE CalendarLine
    <3>1. pos \in 1..Len(lines) /\ pos \notin AllMarks
      BY <2>3, Reached DEF CalendarLine
    <3>2. ~done /\ done' = done /\ lines' = lines
      BY <2>3, <2>7, <3>1 DEF CalendarLine, Advance
    <3>3. ParseInv(pos', events', cur', inEvent', defaultLoc')
      BY <2>0, <2>3, <3>1, <3>2, CalendarParse, Reached
      DEF CalendarLine, Advance, Parsed, TypeOK, line
    <3> QED BY <3>2, <3>3, ParseInvStays DEF Parsed
  <2>4. CASE EventLine
    <3>1. pos \in 1..Len(lines) /\ pos \notin AllMarks
      BY <2>4, Reached DEF EventLine
    <3>2. ~done /\ done' = done /\ lines' = lines
      BY <2>4, <2>7, <3>1 DEF EventLine, Advance
    <3>3. ParseInv(pos', events', cur', inEvent', defaultLoc')
      BY <2>0, <2>4, <3>1, <3>2, EventParse, Reached DEF EventLine, Advance, Parsed, TypeOK, line
    <3> QED BY <3>2, <3>3, ParseInvStays DEF Parsed
  <2>5. CASE Finish
    BY <2>5, FinishParsed
  <2>6. CASE UNCHANGED vars
    <3>1. /\ lines' = lines /\ pos' = pos /\ events' = events /\ cur' = cur
          /\ inEvent' = inEvent /\ defaultLoc' = defaultLoc /\ done' = done
      BY <2>6 DEF vars
    <3>2. CASE done
      <4>1. EventPerBlock' = EventPerBlock
        BY <3>1, LinesStay DEF EventPerBlock, OrNone
      <4>2. ParsesFeed' = ParsesFeed
        BY <3>1, <4>1, LinesStay, ReadsStay DEF ParsesFeed
      <4> QED BY <3>1, <3>2, <4>2 DEF Parsed
    <3>3. CASE ~done
      BY <3>1, <3>3, ParseInvStays DEF Parsed
    <3> QED BY <3>2, <3>3
  <2> QED BY <2>1, <2>2, <2>3, <2>4, <2>5, <2>6 DEF Next
<1> QED BY <1>1, <1>2, PTL DEF Spec

\* Parse makes one event of each block of every feed there is, in the order of the
\* feed, with the UID the block says; and each event of a well-formed feed has what its
\* block says, with each time the moment that RFC 5545 means, whatever the order of the
\* properties, the zone or the number of events.
THEOREM FeedsAreRead == Spec => []ParsesFeed
<1>1. Inv /\ Parsed => ParsesFeed
  BY DEF Parsed, ParsesFeed
<1> QED BY <1>1, FullHolds, PTL DEF Full
=============================================================================
