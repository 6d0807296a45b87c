-------------------------- MODULE RecurrenceProofs --------------------------
(***************************************************************************)
(* The walk of Recurrence is exact for every rule that has no list but the *)
(* one the walk reads, in order: daily, weekly on any weekdays, monthly on *)
(* any days of the month, yearly on a day that each year has; whatever the *)
(* interval, COUNT, UNTIL, the window, the exclusions and the override     *)
(* are, as long as maxOccurrences takes the walk past the window.          *)
(*                                                                         *)
(* First, kind by kind, that the periods of the walk follow each other and *)
(* offer the days that the series matches (Periods); then, from that       *)
(* alone, that the walk has emitted the instances before some day.         *)
(***************************************************************************)
EXTENDS Recurrence, FiniteSetTheorems, WellFoundedInduction, TLAPS

Increasing(s) == \A k, l \in DOMAIN s : k < l => s[k] < s[l]

\* A calendar without end that begins before the series does.
Calendar ==
    /\ MonthStart \in [Nat -> Nat]
    /\ \A m \in Nat : MonthStart[m] < MonthStart[m + 1]
    /\ MonthStart[0] <= StartDay

\* A rule has no list that the walk ignores: BYDAY is for weekly and BYMONTHDAY for
\* monthly ones.  That list is in order and names no day twice; a yearly rule repeats on
\* a day that its month always has.
InOrder ==
    \/ rule.freq = "daily" /\ rule.byDay = <<>> /\ rule.byMonthDay = <<>>
    \/ rule.freq = "weekly" /\ Increasing(rule.byDay) /\ rule.byMonthDay = <<>>
    \/ rule.freq = "monthly" /\ rule.byDay = <<>> /\ Increasing(rule.byMonthDay) /\ Calendar
    \/ /\ rule.freq = "yearly" /\ rule.byDay = <<>> /\ rule.byMonthDay = <<>> /\ Calendar
       /\ \A n \in Nat : DayOfMonth(StartDay) <= DaysIn(Month(StartDay) + 12 * rule.interval * n)

\* The day period n begins on, and the days it offers.
PeriodStart(n) ==
    CASE rule.freq = "weekly" -> WeekStart(n)
      [] rule.freq = "monthly" -> MonthStart[MonthIndex(n)]
      [] rule.freq = "yearly" -> MonthStart[Month(StartDay) + 12 * rule.interval * n]
      [] rule.freq = "daily" -> DailyDay(n)
CandidateDay(n, k) ==
    CASE rule.freq = "weekly" -> WeekStart(n) + Days[k]
      [] rule.freq = "monthly" -> MonthStart[MonthIndex(n)] + MDays[k] - 1
      [] rule.freq = "yearly" -> YearlyDay(n)
      [] rule.freq = "daily" -> DailyDay(n)
Real(n, k) == rule.freq = "monthly" => MDays[k] <= DaysIn(MonthIndex(n))

\* The longest walk leads out of the window.
LongWalk == windowEnd < PeriodStart(MaxOccurrences) * SlotsPerDay

\* What the theorems use of the inputs of a walk.
Asked == event.start \in Nat /\ from \in Nat /\ IsRule(rule)
Ordered == Asked /\ InOrder
-----------------------------------------------------------------------------
\* Arithmetic.
LEMMA Split ==
    ASSUME NEW t \in Nat, NEW s \in Nat \ {0}
    PROVE  /\ t \div s \in Nat /\ t % s \in 0..s - 1
           /\ t = (t \div s) * s + (t % s)
BY SMT

LEMMA Monotone ==
    ASSUME NEW a \in Nat, NEW b \in Nat, NEW k \in Nat, a <= b
    PROVE  a * k \in Nat /\ a * k <= b * k
BY SMT

LEMMA Strict ==
    ASSUME NEW a \in Nat, NEW b \in Nat, NEW k \in Nat \ {0}
    PROVE  a * k < b * k <=> a < b
BY SMT

\* A quotient is determined by what it leaves.
LEMMA Quotient ==
    ASSUME NEW d \in Nat, NEW s \in Nat \ {0}, NEW r \in 0..s - 1
    PROVE  (d * s + r) \div s = d /\ (d * s + r) % s = r
<1> DEFINE t == d * s + r
           q == t \div s
<1>1. t \in Nat
    BY SMT
<1>2. q \in Nat /\ t % s \in 0..s - 1 /\ t = q * s + (t % s)
    BY <1>1, Split
<1>3. q * s < (d + 1) * s /\ d * s < (q + 1) * s
    BY <1>2, SMT
<1>4. q < d + 1 /\ d < q + 1
    BY <1>2, <1>3, Strict
<1> QED
    BY <1>2, <1>4, SMT

LEMMA Multiple ==
    ASSUME NEW x \in Nat, NEW s \in Nat \ {0}
    PROVE  x % s = 0 <=> \E m \in Nat : x = m * s
<1>1. ASSUME x % s = 0 PROVE \E m \in Nat : x = m * s
    <2>1. x \div s \in Nat /\ x = (x \div s) * s
        BY <1>1, Split, SMT
    <2> QED
        BY <2>1
<1>2. ASSUME NEW m \in Nat, x = m * s PROVE x % s = 0
    <2>1. (m * s + 0) % s = 0
        BY Quotient, SMT
    <2> QED
        BY <1>2, <2>1, SMT
<1> QED
    BY <1>1, <1>2

\* Induction, as a fact about sets of numbers.
LEMMA LeastNumber ==
    ASSUME NEW T, T \subseteq Nat, T # {}
    PROVE  \E m \in T : \A n \in T : m <= n
<1>1. IsWellFoundedOn(OpToRel(<,Nat), Nat)
    BY NatLessThanWellFounded
<1>2. PICK m \in T : \A n \in T : ~ (<<n, m>> \in OpToRel(<,Nat))
    BY <1>1, WFMin
<1>3. \A n \in T : ~(n < m)
    BY <1>2 DEF OpToRel
<1> QED
    BY <1>3

LEMMA Induction ==
    ASSUME NEW T, 0 \in T, \A n \in Nat : n \in T => n + 1 \in T
    PROVE  Nat \subseteq T
<1> SUFFICES ASSUME NEW x \in Nat, x \notin T PROVE FALSE
    OBVIOUS
<1>1. PICK m \in Nat \ T : \A n \in Nat \ T : m <= n
    BY LeastNumber
<1>2. m - 1 \in Nat /\ m - 1 \in T
    BY <1>1
<1>3. (m - 1) + 1 \in T
    BY <1>2
<1> QED
    BY <1>1, <1>3

\* A list in order counts at least as far as its positions do.
LEMMA IncreasingBound ==
    ASSUME NEW b \in Nat, NEW s \in Seq(Nat), Increasing(s), \A k \in DOMAIN s : s[k] >= b
    PROVE  \A k \in DOMAIN s : s[k] >= b + k - 1
<1> DEFINE T == {n \in Nat : n + 1 \in DOMAIN s => s[n + 1] >= b + n}
<1>1. 0 \in T
    BY SMT
<1>2. ASSUME NEW n \in T PROVE n + 1 \in T
    <2> SUFFICES ASSUME n + 2 \in DOMAIN s PROVE s[n + 2] >= b + n + 1
        BY SMT
    <2>1. n + 1 \in DOMAIN s
        BY SMT
    <2>2. s[n + 1] < s[n + 2] /\ s[n + 1] >= b + n /\ s[n + 1] \in Nat /\ s[n + 2] \in Nat
        BY <2>1 DEF Increasing
    <2> QED
        BY <2>2
<1>3. Nat \subseteq T
    <2> HIDE DEF T
    <2> QED
        BY <1>1, <1>2, Induction
<1> SUFFICES ASSUME NEW k \in DOMAIN s PROVE s[k] >= b + k - 1
    OBVIOUS
<1>4. k - 1 \in Nat /\ (k - 1) + 1 = k
    OBVIOUS
<1>5. k - 1 \in T
    BY <1>3, <1>4
<1> QED
    BY <1>4, <1>5
-----------------------------------------------------------------------------
\* Slots and days.
LEMMA AskedInputs ==
    ASSUME Asked
    PROVE  /\ SlotsPerDay \in Nat \ {0} /\ MaxOccurrences \in Nat
           /\ windowEnd \in Nat /\ from \in Nat /\ event.start \in Nat
           /\ rule.interval \in Nat \ {0} /\ rule.count \in Nat
           /\ rule.until = None \/ rule.until \in Nat
           /\ StartDay \in Nat /\ TimeOfDay(event.start) \in 0..SlotsPerDay - 1
           /\ At(StartDay) = event.start
<1>1. SlotsPerDay \in Nat \ {0} /\ windowEnd \in Nat /\ MaxOccurrences \in Nat
    BY RecurrenceAssumption DEF Asked, windowEnd
<1>2. event.start \in Nat
    BY DEF Asked
<1>3. /\ event.start \div SlotsPerDay \in Nat /\ event.start % SlotsPerDay \in 0..SlotsPerDay - 1
      /\ event.start = (event.start \div SlotsPerDay) * SlotsPerDay + (event.start % SlotsPerDay)
    BY <1>1, <1>2, Split
<1> QED
    BY <1>1, <1>2, <1>3 DEF StartDay, Day, TimeOfDay, At, Asked, IsRule

LEMMA Inputs ==
    ASSUME Ordered
    PROVE  /\ SlotsPerDay \in Nat \ {0} /\ MaxOccurrences \in Nat
           /\ windowEnd \in Nat /\ from \in Nat /\ event.start \in Nat
           /\ rule.interval \in Nat \ {0} /\ rule.count \in Nat
           /\ rule.until = None \/ rule.until \in Nat
           /\ StartDay \in Nat /\ TimeOfDay(event.start) \in 0..SlotsPerDay - 1
           /\ At(StartDay) = event.start
BY AskedInputs DEF Ordered

\* On each day the series has one time, later days have later times, and the day of
\* a time is the day it is on.
LEMMA Times ==
    ASSUME Ordered, NEW d \in Nat, NEW e \in Nat
    PROVE  /\ At(d) \in Nat
           /\ Day(At(d)) = d
           /\ At(d) < At(e) <=> d < e
           /\ At(d) >= event.start <=> d >= StartDay
<1> DEFINE r == TimeOfDay(event.start)
<1> HIDE DEF r
<1>1. r \in Nat /\ r \in 0..SlotsPerDay - 1
    BY Inputs DEF r
<1>2. d * SlotsPerDay \in Nat /\ e * SlotsPerDay \in Nat /\ StartDay * SlotsPerDay \in Nat
    BY Inputs, Monotone
<1>3. At(d) = d * SlotsPerDay + r /\ At(e) = e * SlotsPerDay + r
    BY DEF At, r
<1>4. (d * SlotsPerDay + r) \div SlotsPerDay = d
    BY <1>1, Inputs, Quotient
<1>5. /\ d * SlotsPerDay < e * SlotsPerDay <=> d < e
      /\ d * SlotsPerDay < StartDay * SlotsPerDay <=> d < StartDay
    BY Inputs, Strict
<1>6. event.start = StartDay * SlotsPerDay + r
    BY Inputs DEF At, r
<1> QED
    BY <1>1, <1>2, <1>3, <1>4, <1>5, <1>6, Inputs DEF Day

\* A day that begins past the window has its time past the window.
LEMMA Past ==
    ASSUME Ordered, NEW d \in Nat, NEW e \in Nat, d <= e, windowEnd < d * SlotsPerDay
    PROVE  windowEnd < At(e)
<1> DEFINE r == TimeOfDay(event.start)
<1> HIDE DEF r
<1>1. r \in Nat
    BY Inputs DEF r
<1>2. d * SlotsPerDay <= e * SlotsPerDay /\ d * SlotsPerDay \in Nat /\ e * SlotsPerDay \in Nat
    BY Inputs, Monotone
<1>3. At(e) = e * SlotsPerDay + r
    BY DEF At, r
<1> QED
    BY <1>1, <1>2, <1>3, Inputs
-----------------------------------------------------------------------------
\* The calendar: months follow each other, and every day from the start of the
\* series on is in the month that Month finds.
LEMMA MonthsAscend ==
    ASSUME Calendar, NEW m \in Nat, NEW n \in Nat
    PROVE  /\ MonthStart[m] \in Nat
           /\ m < n => MonthStart[m + 1] <= MonthStart[n]
           /\ m <= n => MonthStart[m] <= MonthStart[n]
<1> DEFINE T == {k \in Nat : MonthStart[m] <= MonthStart[m + k]}
           U == {k \in Nat : MonthStart[m + 1] <= MonthStart[m + 1 + k]}
<1> USE DEF Calendar
<1>1. \A a \in Nat : MonthStart[a] \in Nat /\ MonthStart[a] < MonthStart[a + 1]
    OBVIOUS
<1>2. \A k \in Nat : k \in T => k + 1 \in T
    <2> SUFFICES ASSUME NEW k \in Nat, k \in T PROVE k + 1 \in T
        OBVIOUS
    <2>1. m + k \in Nat /\ (m + k) + 1 = m + (k + 1) /\ m + (k + 1) \in Nat
        OBVIOUS
    <2>2. MonthStart[m + k] < MonthStart[m + (k + 1)]
        BY <1>1, <2>1
    <2> QED
        BY <1>1, <2>1, <2>2
<1>3. \A k \in Nat : k \in U => k + 1 \in U
    <2> SUFFICES ASSUME NEW k \in Nat, k \in U PROVE k + 1 \in U
        OBVIOUS
    <2>1. /\ m + 1 + k \in Nat /\ (m + 1 + k) + 1 = m + 1 + (k + 1) /\ m + 1 + (k + 1) \in Nat
          /\ m + 1 \in Nat
        OBVIOUS
    <2>2. MonthStart[m + 1 + k] < MonthStart[m + 1 + (k + 1)]
        BY <1>1, <2>1
    <2> QED
        BY <1>1, <2>1, <2>2
<1>4. 0 \in T /\ 0 \in U
    BY <1>1
<1>5. Nat \subseteq T /\ Nat \subseteq U
    <2> HIDE DEF T, U
    <2> QED
        BY <1>2, <1>3, <1>4, Induction
<1>6. ASSUME m <= n PROVE MonthStart[m] <= MonthStart[n]
    <2>1. n - m \in Nat /\ m + (n - m) = n
        BY <1>6
    <2>2. n - m \in T
        BY <1>5, <2>1
    <2> QED
        BY <2>1, <2>2
<1>7. ASSUME m < n PROVE MonthStart[m + 1] <= MonthStart[n]
    <2>1. n - m - 1 \in Nat /\ m + 1 + (n - m - 1) = n
        BY <1>7
    <2>2. n - m - 1 \in U
        BY <1>5, <2>1
    <2> QED
        BY <2>1, <2>2
<1> QED
    BY <1>1, <1>6, <1>7

LEMMA MonthUnique ==
    ASSUME Calendar, NEW d \in Nat, NEW m \in Nat, MonthStart[m] <= d, d < MonthStart[m + 1]
    PROVE  Month(d) = m
<1>1. DOMAIN MonthStart = Nat
    BY DEF Calendar
<1>2. ASSUME NEW n \in Nat, MonthStart[n] <= d, d < MonthStart[n + 1]
      PROVE  n = m
    <2>1. /\ MonthStart[m] \in Nat /\ MonthStart[n] \in Nat
          /\ MonthStart[m + 1] \in Nat /\ MonthStart[n + 1] \in Nat
        BY MonthsAscend
    <2>2. m < n => MonthStart[m + 1] <= MonthStart[n]
        BY MonthsAscend
    <2>3. n < m => MonthStart[n + 1] <= MonthStart[m]
        BY MonthsAscend
    <2> QED
        BY <1>2, <2>1, <2>2, <2>3
<1>3. Month(d) = CHOOSE n \in Nat : MonthStart[n] <= d /\ d < MonthStart[n + 1]
    BY <1>1 DEF Month
<1> QED
    BY <1>2, <1>3

LEMMA MonthOf ==
    ASSUME Calendar, Asked, NEW d \in Nat, StartDay <= d
    PROVE  /\ Month(d) \in Nat /\ MonthStart[Month(d)] <= d /\ d < MonthStart[Month(d) + 1]
           /\ DayOfMonth(d) \in Nat \ {0}
           /\ d = MonthStart[Month(d)] + DayOfMonth(d) - 1
<1> DEFINE Later == {m \in Nat : d < MonthStart[m]}
           Grown == {m \in Nat : MonthStart[m] >= m}
<1>1. \A a \in Nat : MonthStart[a] \in Nat /\ MonthStart[a] < MonthStart[a + 1]
    BY DEF Calendar
<1>2. Nat \subseteq Grown
    <2>1. 0 \in Grown
        BY <1>1
    <2>2. \A n \in Nat : n \in Grown => n + 1 \in Grown
        <3> SUFFICES ASSUME NEW n \in Nat, n \in Grown PROVE n + 1 \in Grown
            OBVIOUS
        <3>1. MonthStart[n + 1] \in Nat /\ MonthStart[n] \in Nat /\ MonthStart[n] < MonthStart[n + 1]
            BY <1>1
        <3> QED
            BY <3>1
    <2> HIDE DEF Grown
    <2> QED
        BY <2>1, <2>2, Induction
<1>3. d + 1 \in Later
    BY <1>1, <1>2
<1>4. PICK m \in Later : \A n \in Later : m <= n
    <2> HIDE DEF Later
    <2>1. Later \subseteq Nat
        BY DEF Later
    <2> QED
        BY <1>3, <2>1, LeastNumber
<1>5. m # 0 /\ m - 1 \in Nat /\ m - 1 \notin Later
    BY <1>1, <1>4, AskedInputs DEF Calendar
<1>6. MonthStart[m - 1] <= d /\ d < MonthStart[(m - 1) + 1]
    BY <1>1, <1>4, <1>5
<1>7. Month(d) = m - 1
    BY <1>5, <1>6, MonthUnique
<1> QED
    BY <1>1, <1>5, <1>6, <1>7 DEF DayOfMonth

LEMMA MonthFound ==
    ASSUME Calendar, Ordered, NEW d \in Nat, StartDay <= d
    PROVE  /\ Month(d) \in Nat /\ MonthStart[Month(d)] <= d /\ d < MonthStart[Month(d) + 1]
           /\ DayOfMonth(d) \in Nat \ {0}
           /\ d = MonthStart[Month(d)] + DayOfMonth(d) - 1
BY MonthOf DEF Ordered

LEMMA MonthOrder ==
    ASSUME Calendar, Ordered, NEW d \in Nat, StartDay <= d
    PROVE  Month(StartDay) <= Month(d)
<1>1. /\ Month(d) \in Nat /\ d < MonthStart[Month(d) + 1]
      /\ Month(StartDay) \in Nat /\ MonthStart[Month(StartDay)] <= StartDay
    BY Inputs, MonthFound
<1>2. Month(d) < Month(StartDay) => MonthStart[Month(d) + 1] <= MonthStart[Month(StartDay)]
    BY <1>1, MonthsAscend
<1>3. MonthStart[Month(d) + 1] \in Nat /\ MonthStart[Month(StartDay)] \in Nat
    BY <1>1, MonthsAscend
<1> QED
    BY <1>1, <1>2, <1>3, Inputs
-----------------------------------------------------------------------------
\* What every kind of rule has in common: periods that follow each other, candidates
\* in order within each, which are the days the series matches, and a break of the
\* walk only where nothing to come is in the window.
Periods ==
    /\ PerPeriod \in Nat
    /\ \A m, n \in Nat : PeriodStart(n) \in Nat /\ (m <= n => PeriodStart(m) <= PeriodStart(n))
    /\ \A n \in Nat, k \in 1..PerPeriod :
          /\ CandidateDay(n, k) \in Nat
          /\ Real(n, k) => /\ PeriodStart(n) <= CandidateDay(n, k)
                           /\ CandidateDay(n, k) < PeriodStart(n + 1)
          /\ \A l \in 1..PerPeriod : l < k => CandidateDay(n, l) < CandidateDay(n, k)
    /\ \A d \in Nat : d >= StartDay =>
          (Matches(d) <=> \E n \in Nat, k \in 1..PerPeriod : Real(n, k) /\ d = CandidateDay(n, k))
    /\ \A n \in Nat : Over(n) =>
          \/ windowEnd < PeriodStart(n) * SlotsPerDay
          \/ PerPeriod = 1 /\ Real(n, 1) /\ windowEnd < Candidate(n, 1)

\* How many days, weeks or months, or years, period n is from the first.
Offset(n) == rule.interval * n

LEMMA Offsets ==
    ASSUME Ordered
    PROVE  /\ \A n \in Nat : Offset(n) \in Nat
           /\ \A m, n \in Nat : m <= n => Offset(m) <= Offset(n)
           /\ \A m, n \in Nat : m < n => Offset(m) < Offset(n)
           /\ Offset(0) = 0
BY Inputs, SMT DEF Offset

LEMMA OffsetMultiple ==
    ASSUME Ordered, NEW x \in Nat, NEW c \in Nat \ {0}
    PROVE  x % (c * rule.interval) = 0 <=> \E n \in Nat : x = c * Offset(n)
<1>1. c * rule.interval \in Nat \ {0}
    BY Inputs, SMT
<1>2. \A n \in Nat : n * (c * rule.interval) = c * Offset(n)
    BY Inputs, SMT DEF Offset
<1> QED
    <2>1. x % (c * rule.interval) = 0 <=> \E n \in Nat : x = n * (c * rule.interval)
        BY <1>1, Multiple
    <2> QED
        BY <1>2, <2>1, Zenon

LEMMA DailyPeriods == ASSUME Ordered, rule.freq = "daily" PROVE Periods
<1>1. PerPeriod = 1 /\ \A n, k : Real(n, k)
    BY DEF PerPeriod, Real
<1>2. \A n, k : CandidateDay(n, k) = StartDay + Offset(n) /\ PeriodStart(n) = StartDay + Offset(n)
    BY DEF CandidateDay, PeriodStart, DailyDay, Offset
<1>3. \A n \in Nat : Over(n) => windowEnd < Candidate(n, 1)
    <2>1. \A n \in Nat : Candidate(n, 1) = At(StartDay + Offset(n)) /\ StartDay + Offset(n) \in Nat
        BY Inputs, Offsets DEF Candidate, DailyDay, Offset
    <2>2. \A n \in Nat : Over(n) => Candidate(n, 1) > windowEnd
        BY DEF Over
    <2> QED
        BY <2>1, <2>2, Inputs, Times
<1>4. ASSUME NEW d \in Nat, d >= StartDay
      PROVE  Matches(d) <=> \E n \in Nat : d = StartDay + Offset(n)
    <2>1. Matches(d) <=> (d - StartDay) % rule.interval = 0
        BY DEF Matches, InPeriod, LikeFirst, Ordered, InOrder
    <2>2. d - StartDay \in Nat
        BY <1>4, Inputs
    <2>3. (d - StartDay) % (1 * rule.interval) = 0 <=> \E n \in Nat : d - StartDay = 1 * Offset(n)
        BY <2>2, OffsetMultiple
    <2>4. 1 * rule.interval = rule.interval
        BY Inputs
    <2>5. \A n \in Nat : d - StartDay = 1 * Offset(n) <=> d = StartDay + Offset(n)
        BY <2>2, Inputs, Offsets
    <2> QED
        BY <2>1, <2>3, <2>4, <2>5
<1>5. ASSUME NEW m \in Nat, NEW n \in Nat
      PROVE  /\ StartDay + Offset(n) \in Nat
             /\ m <= n => StartDay + Offset(m) <= StartDay + Offset(n)
             /\ StartDay + Offset(n) <= StartDay + Offset(n)
             /\ StartDay + Offset(n) < StartDay + Offset(n + 1)
    <2>1. n + 1 \in Nat /\ n < n + 1
        OBVIOUS
    <2>2. Offset(n) \in Nat /\ Offset(n + 1) \in Nat /\ Offset(n) < Offset(n + 1)
        BY <2>1, Offsets
    <2>3. Offset(m) \in Nat /\ (m <= n => Offset(m) <= Offset(n))
        BY Offsets
    <2> QED
        BY <2>2, <2>3, Inputs
<1>6. 1 \in 1..PerPeriod /\ \A k, l \in 1..PerPeriod : k = 1 /\ ~(l < k)
    BY <1>1
<1>7. \A m, n \in Nat : PeriodStart(n) \in Nat /\ (m <= n => PeriodStart(m) <= PeriodStart(n))
    BY <1>2, <1>5, Zenon
<1>8. ASSUME NEW n \in Nat, NEW k \in 1..PerPeriod
      PROVE  /\ CandidateDay(n, k) \in Nat
             /\ PeriodStart(n) <= CandidateDay(n, k) /\ CandidateDay(n, k) < PeriodStart(n + 1)
             /\ \A l \in 1..PerPeriod : ~(l < k)
    BY <1>2, <1>5, <1>6, Zenon
<1>9. \A d \in Nat : d >= StartDay =>
          (Matches(d) <=> \E n \in Nat, k \in 1..PerPeriod : Real(n, k) /\ d = CandidateDay(n, k))
    BY <1>1, <1>2, <1>4, <1>6, Zenon
<1>10. PerPeriod \in Nat
    BY <1>1
<1> QED
    BY <1>1, <1>3, <1>7, <1>8, <1>9, <1>10, Zenon DEF Periods

LEMMA Weeks ==
    ASSUME Ordered
    PROVE  /\ StartDay \div 7 \in Nat
           /\ StartOfWeek(StartDay) = 7 * (StartDay \div 7)
           /\ \A n \in Nat : WeekStart(n) = 7 * (StartDay \div 7 + Offset(n))
<1>1. /\ StartDay \div 7 \in Nat /\ StartDay % 7 \in 0..6
      /\ StartDay = 7 * (StartDay \div 7) + (StartDay % 7)
    <2>1. \A d \in Nat : d \div 7 \in Nat /\ d % 7 \in 0..6 /\ d = 7 * (d \div 7) + (d % 7)
        OBVIOUS
    <2> QED
        BY <2>1, Inputs
<1>2. ASSUME NEW n \in Nat PROVE WeekStart(n) = 7 * (StartDay \div 7 + Offset(n))
    <2>1. 7 * rule.interval * n = 7 * Offset(n)
        BY Inputs, SMT DEF Offset
    <2>2. Offset(n) \in Nat
        BY Offsets
    <2>3. WeekStart(n) = (StartDay - (StartDay % 7)) + 7 * Offset(n)
        BY <2>1 DEF WeekStart, StartOfWeek, Weekday
    <2> QED
        BY <1>1, <2>2, <2>3, Inputs
<1>3. StartOfWeek(StartDay) = 7 * (StartDay \div 7)
    BY <1>1, Inputs DEF Weekday, StartOfWeek
<1> QED
    BY <1>1, <1>2, <1>3

LEMMA WeekAndDay ==
    ASSUME NEW q \in Nat, NEW w \in Nat, NEW r \in 0..6, NEW s \in 0..6
    PROVE  q = w /\ s = r <=> 7 * q + r = 7 * w + s
OBVIOUS

LEMMA WeeklyPeriods == ASSUME Ordered, rule.freq = "weekly" PROVE Periods
<1> DEFINE W(n) == StartDay \div 7 + Offset(n)
<1>1. /\ Days \in Seq(0..6) /\ PerPeriod = Len(Days) /\ 1..PerPeriod = DOMAIN Days
      /\ \A n, k : Real(n, k)
    <2>1. rule.byDay \in Seq(0..6)
        BY DEF Ordered, Asked, IsRule
    <2>2. Weekday(StartDay) \in 0..6
        BY Inputs DEF Weekday
    <2>3. Days \in Seq(0..6)
        <3>1. <<Weekday(StartDay)>> \in Seq(0..6)
            BY <2>2
        <3> QED
            BY <2>1, <3>1, Zenon DEF Days
    <2>4. PerPeriod = Len(Days) /\ \A n, k : Real(n, k)
        BY DEF PerPeriod, Real
    <2> QED
        BY <2>3, <2>4
<1>2. Increasing(Days)
    <2>1. CASE rule.byDay = <<>>
        BY <2>1 DEF Days, Increasing
    <2>2. CASE rule.byDay # <<>>
        BY <2>2 DEF Days, Ordered, InOrder
    <2> QED
        BY <2>1, <2>2
<1>3. \A n \in Nat : PeriodStart(n) = 7 * W(n)
    BY Weeks DEF PeriodStart
<1>4. \A n \in Nat, k \in 1..PerPeriod : CandidateDay(n, k) = 7 * W(n) + Days[k] /\ Days[k] \in 0..6
    BY <1>1, Weeks DEF CandidateDay
<1>5. ASSUME NEW m \in Nat, NEW n \in Nat
      PROVE  W(n) \in Nat /\ (m <= n => W(m) <= W(n)) /\ W(n) + 1 <= W(n + 1)
    <2>1. n + 1 \in Nat /\ n < n + 1
        OBVIOUS
    <2>2. Offset(n) \in Nat /\ Offset(n + 1) \in Nat /\ Offset(n) < Offset(n + 1)
        BY <2>1, Offsets
    <2>3. Offset(m) \in Nat /\ (m <= n => Offset(m) <= Offset(n))
        BY Offsets
    <2> QED
        BY <2>2, <2>3, Weeks
<1>6. ASSUME NEW d \in Nat, d >= StartDay
      PROVE  Matches(d) <=> \E n \in Nat, k \in 1..PerPeriod : d = CandidateDay(n, k)
    <2>1. Matches(d) <=> /\ (StartOfWeek(d) - WeekStart(0)) % (7 * rule.interval) = 0
                         /\ \E k \in DOMAIN Days : Days[k] = Weekday(d)
        <3>1. rule.byMonthDay = <<>>
            BY DEF Ordered, InOrder
        <3>2. CASE rule.byDay = <<>>
            <4>1. Days = <<Weekday(StartDay)>>
                BY <3>2 DEF Days
            <4> QED
                BY <3>1, <3>2, <4>1 DEF Matches, InPeriod, LikeFirst
        <3>3. CASE rule.byDay # <<>>
            BY <3>1, <3>3 DEF Matches, InPeriod, OnLists, Listed, Days
        <3> QED
            BY <3>2, <3>3
    <2> DEFINE x == d \div 7 - StartDay \div 7
    <2>2. /\ x \in Nat /\ Weekday(d) \in 0..6 /\ d = 7 * (d \div 7) + Weekday(d)
          /\ d \div 7 \in Nat /\ StartDay \div 7 \in Nat
        BY <1>6, Inputs DEF Weekday
    <2>3. StartOfWeek(d) - WeekStart(0) = 7 * x
        <3>1. WeekStart(0) = 7 * (StartDay \div 7)
            BY Weeks, Offsets
        <3> QED
            BY <2>2, <3>1 DEF StartOfWeek
    <2>4. (7 * x) % (7 * rule.interval) = 0 <=> \E n \in Nat : 7 * x = 7 * Offset(n)
        <3>1. 7 * x \in Nat
            BY <2>2
        <3> HIDE DEF x
        <3> QED
            BY <3>1, OffsetMultiple
    <2>6. ASSUME NEW n \in Nat PROVE 7 * x = 7 * Offset(n) <=> d \div 7 = W(n)
        <3> DEFINE q == d \div 7
                   w == StartDay \div 7
        <3>1. Offset(n) \in Nat /\ q \in Nat /\ w \in Nat
            BY <2>2, Offsets
        <3> HIDE DEF q, w
        <3>2. 7 * (q - w) = 7 * Offset(n) <=> q = w + Offset(n)
            BY <3>1
        <3> QED
            BY <3>2, Zenon DEF q, w
    <2>7. ASSUME NEW n \in Nat, NEW k \in 1..PerPeriod
          PROVE  d \div 7 = W(n) /\ Days[k] = Weekday(d) <=> d = 7 * W(n) + Days[k]
        <3> DEFINE q == d \div 7
                   r == Weekday(d)
                   w == W(n)
                   l == Days[k]
        <3>1. q \in Nat /\ r \in 0..6 /\ w \in Nat /\ l \in 0..6 /\ d = 7 * q + r
            BY <1>4, <1>5, <2>2
        <3> HIDE DEF q, r, w, l
        <3>2. q = w /\ l = r <=> d = 7 * w + l
            BY <3>1, WeekAndDay
        <3> QED
            BY <3>2, Zenon DEF q, r, w, l
    <2>8. Matches(d) <=> /\ \E n \in Nat : d \div 7 = W(n)
                         /\ \E k \in DOMAIN Days : Days[k] = Weekday(d)
        BY <2>1, <2>3, <2>4, <2>6, Zenon
    <2>9. Matches(d) <=> \E n \in Nat, k \in 1..PerPeriod : d = 7 * W(n) + Days[k]
        <3> HIDE DEF W
        <3> QED
            BY <1>1, <2>7, <2>8, Zenon
    <2> HIDE DEF W
    <2> QED
        BY <1>4, <2>9, Zenon
<1>7. \A n \in Nat : Over(n) => windowEnd < PeriodStart(n) * SlotsPerDay
    <2> SUFFICES ASSUME NEW n \in Nat, Over(n) PROVE windowEnd < PeriodStart(n) * SlotsPerDay
        OBVIOUS
    <2>1. WeekStart(n) * SlotsPerDay > windowEnd /\ PeriodStart(n) = WeekStart(n)
        BY DEF Over, PeriodStart
    <2>2. WeekStart(n) \in Nat
        <3>1. W(n) \in Nat /\ WeekStart(n) = 7 * W(n)
            BY <1>5, Weeks
        <3> HIDE DEF W
        <3> QED
            BY <3>1
    <2>3. WeekStart(n) * SlotsPerDay \in Nat
        BY <2>2, Inputs, Monotone
    <2> QED
        BY <2>1, <2>3, Inputs
<1>8. ASSUME NEW n \in Nat, NEW k \in 1..PerPeriod
      PROVE  /\ CandidateDay(n, k) \in Nat
             /\ PeriodStart(n) <= CandidateDay(n, k) /\ CandidateDay(n, k) < PeriodStart(n + 1)
             /\ \A l \in 1..PerPeriod : l < k => CandidateDay(n, l) < CandidateDay(n, k)
    <2>1. W(n) \in Nat /\ W(n) + 1 <= W(n + 1) /\ W(n + 1) \in Nat
        BY <1>5
    <2>2. PeriodStart(n) = 7 * W(n) /\ PeriodStart(n + 1) = 7 * W(n + 1)
        BY <1>3
    <2> HIDE DEF W
    <2>3. ASSUME NEW l \in 1..PerPeriod, l < k PROVE Days[l] < Days[k]
        BY <1>1, <1>2, <2>3 DEF Increasing
    <2> QED
        BY <1>4, <2>1, <2>2, <2>3
<1>9. \A m, n \in Nat : PeriodStart(n) \in Nat /\ (m <= n => PeriodStart(m) <= PeriodStart(n))
    <2> SUFFICES ASSUME NEW m \in Nat, NEW n \in Nat
                 PROVE  PeriodStart(n) \in Nat /\ (m <= n => PeriodStart(m) <= PeriodStart(n))
        OBVIOUS
    <2>1. W(m) \in Nat /\ W(n) \in Nat /\ (m <= n => W(m) <= W(n))
        BY <1>5
    <2>2. PeriodStart(m) = 7 * W(m) /\ PeriodStart(n) = 7 * W(n)
        BY <1>3
    <2> HIDE DEF W
    <2> QED
        BY <2>1, <2>2
<1>10. PerPeriod \in Nat
    BY <1>1
<1> HIDE DEF W
<1> QED
    BY <1>1, <1>6, <1>7, <1>8, <1>9, <1>10, Zenon DEF Periods

\* A day of a month, by the month's number and the day's.
LEMMA MonthAndDay ==
    ASSUME Calendar, Ordered, NEW d \in Nat, StartDay <= d, NEW m \in Nat, NEW l \in Nat \ {0}
    PROVE  Month(d) = m /\ DayOfMonth(d) = l <=> d = MonthStart[m] + l - 1 /\ l <= DaysIn(m)
<1>1. MonthStart[m] \in Nat /\ MonthStart[m + 1] \in Nat
    BY MonthsAscend
<1>2. DaysIn(m) = MonthStart[m + 1] - MonthStart[m]
    BY DEF DaysIn
<1>3. ASSUME Month(d) = m, DayOfMonth(d) = l
      PROVE  d = MonthStart[m] + l - 1 /\ l <= DaysIn(m)
    <2>1. d = MonthStart[m] + l - 1 /\ d < MonthStart[m + 1]
        BY <1>3, MonthFound
    <2> QED
        BY <1>1, <1>2, <2>1
<1>4. ASSUME d = MonthStart[m] + l - 1, l <= DaysIn(m)
      PROVE  Month(d) = m /\ DayOfMonth(d) = l
    <2>1. MonthStart[m] <= d /\ d < MonthStart[m + 1]
        BY <1>1, <1>2, <1>4
    <2>2. Month(d) = m
        BY <2>1, MonthUnique
    <2>3. DayOfMonth(d) = d - MonthStart[m] + 1
        BY <2>2 DEF DayOfMonth
    <2> QED
        BY <1>1, <1>4, <2>2, <2>3
<1> QED
    BY <1>3, <1>4

\* Every c intervals of months, c being 1 or the months of a year.
LEMMA MonthSteps ==
    ASSUME Calendar, Ordered, NEW c \in Nat \ {0}, NEW m \in Nat, NEW n \in Nat
    PROVE  /\ Month(StartDay) \in Nat /\ Month(StartDay) + c * Offset(n) \in Nat
           /\ MonthStart[Month(StartDay) + c * Offset(n)] \in Nat
           /\ m <= n => MonthStart[Month(StartDay) + c * Offset(m)]
                          <= MonthStart[Month(StartDay) + c * Offset(n)]
<1>1. Month(StartDay) \in Nat
    BY Inputs, MonthFound
<1>2. Offset(m) \in Nat /\ Offset(n) \in Nat /\ (m <= n => Offset(m) <= Offset(n))
    BY Offsets
<1>3. c * Offset(m) \in Nat /\ c * Offset(n) \in Nat /\ (m <= n => c * Offset(m) <= c * Offset(n))
    BY <1>2, SMT
<1> DEFINE a == Month(StartDay) + c * Offset(m)
           b == Month(StartDay) + c * Offset(n)
<1>4. a \in Nat /\ b \in Nat /\ (m <= n => a <= b)
    BY <1>1, <1>3
<1> HIDE DEF a, b
<1>5. MonthStart[b] \in Nat /\ (a <= b => MonthStart[a] <= MonthStart[b])
    BY <1>4, MonthsAscend
<1> QED
    BY <1>1, <1>4, <1>5 DEF a, b

\* The month after one of them is not past the next of them.
LEMMA MonthStrides ==
    ASSUME Calendar, Ordered, NEW c \in Nat \ {0}, NEW m \in Nat, NEW n \in Nat, m < n
    PROVE  MonthStart[Month(StartDay) + c * Offset(m) + 1]
             <= MonthStart[Month(StartDay) + c * Offset(n)]
<1>1. Month(StartDay) \in Nat
    BY Inputs, MonthFound
<1>2. Offset(m) \in Nat /\ Offset(n) \in Nat /\ Offset(m) < Offset(n)
    BY Offsets
<1>3. c * Offset(m) \in Nat /\ c * Offset(n) \in Nat /\ c * Offset(m) < c * Offset(n)
    BY <1>2, SMT
<1> DEFINE b == Month(StartDay) + c * Offset(m)
           e == Month(StartDay) + c * Offset(n)
<1>4. b \in Nat /\ e \in Nat /\ b < e
    BY <1>1, <1>3
<1> HIDE DEF b, e
<1>5. MonthStart[b + 1] <= MonthStart[e]
    BY <1>4, MonthsAscend
<1> QED
    BY <1>5 DEF b, e

LEMMA MonthDays ==
    ASSUME NEW s \in Seq(1..31)
    PROVE  /\ Len(s) \in Nat /\ DOMAIN s = 1..Len(s)
           /\ \A k \in DOMAIN s : s[k] \in Nat \ {0}
<1> DEFINE D == 1..31
<1>1. s \in Seq(D)
    OBVIOUS
<1>2. \A x \in D : x \in Nat \ {0}
    OBVIOUS
<1> HIDE DEF D
<1>3. Len(s) \in Nat /\ DOMAIN s = 1..Len(s) /\ \A k \in DOMAIN s : s[k] \in D
    BY <1>1
<1> QED
    BY <1>2, <1>3

LEMMA MonthlyPeriods == ASSUME Ordered, rule.freq = "monthly" PROVE Periods
<1> DEFINE M(n) == Month(StartDay) + 1 * Offset(n)
<1>1. Calendar
    BY DEF Ordered, InOrder
<1>2. /\ \A k \in DOMAIN MDays : MDays[k] \in Nat \ {0}
      /\ PerPeriod = Len(MDays) /\ PerPeriod \in Nat /\ 1..PerPeriod = DOMAIN MDays
    <2>1. PerPeriod = Len(MDays)
        BY DEF PerPeriod
    <2>2. CASE rule.byMonthDay = <<>>
        <3>1. MDays = <<DayOfMonth(StartDay)>>
            BY <2>2 DEF MDays
        <3>2. DayOfMonth(StartDay) \in Nat \ {0}
            BY <1>1, Inputs, MonthFound
        <3> QED
            BY <2>1, <3>1, <3>2
    <2>3. CASE rule.byMonthDay # <<>>
        <3>1. MDays \in Seq(1..31)
            BY <2>3 DEF MDays, Ordered, Asked, IsRule
        <3>2. /\ Len(MDays) \in Nat /\ DOMAIN MDays = 1..Len(MDays)
              /\ \A k \in DOMAIN MDays : MDays[k] \in Nat \ {0}
            BY <3>1, MonthDays
        <3> QED
            BY <2>1, <3>2
    <2> QED
        BY <2>2, <2>3
<1>3. Increasing(MDays)
    <2>1. CASE rule.byMonthDay = <<>>
        BY <2>1 DEF MDays, Increasing
    <2>2. CASE rule.byMonthDay # <<>>
        BY <2>2 DEF MDays, Ordered, InOrder
    <2> QED
        BY <2>1, <2>2
<1>4. \A n \in Nat : MonthIndex(n) = M(n) /\ M(n) \in Nat
    <2> SUFFICES ASSUME NEW n \in Nat PROVE MonthIndex(n) = M(n) /\ M(n) \in Nat
        OBVIOUS
    <2>1. Offset(n) \in Nat /\ Month(StartDay) \in Nat
        BY <1>1, Offsets, Inputs, MonthFound
    <2>2. MonthIndex(n) = Month(StartDay) + Offset(n)
        BY DEF MonthIndex, Offset
    <2> QED
        BY <2>1, <2>2
<1>5. \A n \in Nat, k \in 1..PerPeriod :
          /\ PeriodStart(n) = MonthStart[M(n)]
          /\ CandidateDay(n, k) = MonthStart[M(n)] + MDays[k] - 1
          /\ Real(n, k) <=> MDays[k] <= DaysIn(M(n))
          /\ MDays[k] \in Nat \ {0}
    BY <1>2, <1>4 DEF PeriodStart, CandidateDay, Real
<1>6. \A n \in Nat : PeriodStart(n) = MonthStart[M(n)]
    BY <1>4 DEF PeriodStart
<1>7. ASSUME NEW m \in Nat, NEW n \in Nat
      PROVE  PeriodStart(n) \in Nat /\ (m <= n => PeriodStart(m) <= PeriodStart(n))
    <2>1. /\ MonthStart[M(n)] \in Nat
          /\ m <= n => MonthStart[M(m)] <= MonthStart[M(n)]
        <3>1. 1 \in Nat \ {0}
            OBVIOUS
        <3> QED
            BY <1>1, <3>1, MonthSteps
    <2>2. PeriodStart(m) = MonthStart[M(m)] /\ PeriodStart(n) = MonthStart[M(n)]
        BY <1>6
    <2> HIDE DEF M
    <2> QED
        BY <2>1, <2>2
<1>8. ASSUME NEW n \in Nat, NEW k \in 1..PerPeriod
      PROVE  /\ CandidateDay(n, k) \in Nat
             /\ Real(n, k) => /\ PeriodStart(n) <= CandidateDay(n, k)
                              /\ CandidateDay(n, k) < PeriodStart(n + 1)
             /\ \A l \in 1..PerPeriod : l < k => CandidateDay(n, l) < CandidateDay(n, k)
    <2>1. /\ MonthStart[M(n)] \in Nat /\ MonthStart[M(n) + 1] \in Nat
          /\ MonthStart[M(n) + 1] <= PeriodStart(n + 1)
        <3>2. n + 1 \in Nat /\ n < n + 1 /\ 1 \in Nat \ {0}
            OBVIOUS
        <3>1. MonthStart[M(n) + 1] <= MonthStart[M(n + 1)] /\ M(n) \in Nat
            <4>1. MonthStart[M(n) + 1] <= MonthStart[M(n + 1)]
                BY <1>1, <3>2, MonthStrides
            <4>2. M(n) \in Nat
                BY <1>1, <3>2, MonthSteps
            <4> QED
                BY <4>1, <4>2
        <3>3. MonthStart[M(n) + 1] <= PeriodStart(n + 1)
            BY <1>6, <3>1, <3>2
        <3> HIDE DEF M
        <3> QED
            BY <1>1, <3>1, <3>3, MonthsAscend
    <2>2. PeriodStart(n + 1) \in Nat
        BY <1>7
    <2>3. ASSUME NEW l \in 1..PerPeriod, l < k
          PROVE  MDays[l] < MDays[k] /\ MDays[l] \in Nat /\ CandidateDay(n, l) = MonthStart[M(n)] + MDays[l] - 1
        BY <1>2, <1>3, <1>5, <2>3 DEF Increasing
    <2>4. /\ MDays[k] \in Nat \ {0}
          /\ CandidateDay(n, k) = MonthStart[M(n)] + MDays[k] - 1
          /\ PeriodStart(n) = MonthStart[M(n)]
          /\ Real(n, k) => MDays[k] <= MonthStart[M(n) + 1] - MonthStart[M(n)]
        BY <1>5 DEF DaysIn
    <2> HIDE DEF M
    <2> QED
        BY <2>1, <2>2, <2>3, <2>4
<1>9. ASSUME NEW d \in Nat, d >= StartDay
      PROVE  Matches(d) <=> \E n \in Nat, k \in 1..PerPeriod : Real(n, k) /\ d = CandidateDay(n, k)
    <2>1. Matches(d) <=> /\ (Month(d) - Month(StartDay)) % rule.interval = 0
                         /\ \E k \in DOMAIN MDays : MDays[k] = DayOfMonth(d)
        <3>1. rule.byDay = <<>>
            BY DEF Ordered, InOrder
        <3>2. CASE rule.byMonthDay = <<>>
            <4>1. MDays = <<DayOfMonth(StartDay)>>
                BY <3>2 DEF MDays
            <4> QED
                BY <3>1, <3>2, <4>1 DEF Matches, InPeriod, LikeFirst
        <3>3. CASE rule.byMonthDay # <<>>
            BY <3>1, <3>3 DEF Matches, InPeriod, OnLists, Listed, MDays
        <3> QED
            BY <3>2, <3>3
    <2> DEFINE x == Month(d) - Month(StartDay)
    <2>2. x \in Nat /\ Month(d) \in Nat /\ Month(StartDay) \in Nat
        BY <1>1, <1>9, Inputs, MonthFound, MonthOrder
    <2>3. x % rule.interval = 0 <=> \E n \in Nat : x = 1 * Offset(n)
        <3> HIDE DEF x
        <3>1. 1 * rule.interval = rule.interval /\ 1 \in Nat \ {0}
            BY Inputs
        <3>2. x % (1 * rule.interval) = 0 <=> \E n \in Nat : x = 1 * Offset(n)
            BY <2>2, <3>1, OffsetMultiple
        <3> QED
            BY <3>1, <3>2
    <2>4. \A n \in Nat : x = 1 * Offset(n) <=> Month(d) = M(n)
        BY <2>2, Offsets
    <2>5. \A n \in Nat, k \in 1..PerPeriod :
              Month(d) = M(n) /\ DayOfMonth(d) = MDays[k]
                <=> Real(n, k) /\ d = CandidateDay(n, k)
        <3> SUFFICES ASSUME NEW n \in Nat, NEW k \in 1..PerPeriod
                     PROVE  Month(d) = M(n) /\ DayOfMonth(d) = MDays[k]
                              <=> Real(n, k) /\ d = CandidateDay(n, k)
            OBVIOUS
        <3>1. M(n) \in Nat /\ MDays[k] \in Nat \ {0}
            BY <1>4, <1>5
        <3>2. Month(d) = M(n) /\ DayOfMonth(d) = MDays[k]
                <=> d = MonthStart[M(n)] + MDays[k] - 1 /\ MDays[k] <= DaysIn(M(n))
            <4> HIDE DEF M
            <4>1. StartDay <= d
                BY <1>9, Inputs
            <4> QED
                BY <1>1, <1>9, <3>1, <4>1, MonthAndDay
        <3> QED
            BY <1>5, <3>2, Zenon
    <2> HIDE DEF M, x
    <2>6. Matches(d) <=> /\ \E n \in Nat : Month(d) = M(n)
                         /\ \E k \in 1..PerPeriod : DayOfMonth(d) = MDays[k]
        BY <1>2, <2>1, <2>3, <2>4, Zenon DEF x
    <2> QED
        BY <2>5, <2>6, Zenon
<1>10. \A n \in Nat : Over(n) => windowEnd < PeriodStart(n) * SlotsPerDay
    <2> SUFFICES ASSUME NEW n \in Nat, Over(n) PROVE windowEnd < PeriodStart(n) * SlotsPerDay
        OBVIOUS
    <2>1. PeriodStart(n) * SlotsPerDay > windowEnd
        BY DEF Over, PeriodStart
    <2>2. PeriodStart(n) * SlotsPerDay \in Nat
        BY <1>7, Inputs, Monotone
    <2> QED
        BY <2>1, <2>2, Inputs
<1> HIDE DEF M
<1> QED
    BY <1>2, <1>7, <1>8, <1>9, <1>10, Zenon DEF Periods


\* Of two months a whole number of years apart, so are the Januaries.
LEMMA SameMonth ==
    ASSUME NEW m \in Nat, NEW n \in Nat, (n - m) % 12 = 0
    PROVE  January(n) - January(m) = n - m
<1>1. n % 12 = m % 12
    BY SMT
<1> QED
    BY <1>1 DEF January

LEMMA YearlyPeriods == ASSUME Ordered, rule.freq = "yearly" PROVE Periods
<1> DEFINE M(n) == Month(StartDay) + 12 * Offset(n)
           l == DayOfMonth(StartDay)
<1>1. Calendar
    BY DEF Ordered, InOrder
<1>2. PerPeriod = 1 /\ \A n, k : Real(n, k)
    BY DEF PerPeriod, Real
<1>3. \A n \in Nat : 12 * rule.interval * n = 12 * Offset(n)
    BY Inputs, SMT DEF Offset
<1>4. \A n \in Nat, k \in 1..PerPeriod :
          /\ PeriodStart(n) = MonthStart[M(n)]
          /\ CandidateDay(n, k) = MonthStart[M(n)] + l - 1
          /\ YearlyDay(n) = MonthStart[M(n)] + l - 1
    BY <1>3, Zenon DEF PeriodStart, CandidateDay, YearlyDay
<1>5. \A n \in Nat : PeriodStart(n) = MonthStart[M(n)] /\ M(n) \in Nat
    <2>1. \A n \in Nat : PeriodStart(n) = MonthStart[M(n)]
        BY <1>3 DEF PeriodStart
    <2> QED
        BY <1>1, <2>1, MonthSteps
<1>6. \A n \in Nat : l <= DaysIn(M(n)) /\ l \in Nat \ {0}
    <2>1. \A n \in Nat : l <= DaysIn(M(n))
        BY <1>3, Zenon DEF Ordered, InOrder
    <2> QED
        BY <1>1, <2>1, Inputs, MonthFound
<1>7. ASSUME NEW m \in Nat, NEW n \in Nat
      PROVE  PeriodStart(n) \in Nat /\ (m <= n => PeriodStart(m) <= PeriodStart(n))
    <2>1. /\ MonthStart[M(n)] \in Nat
          /\ m <= n => MonthStart[M(m)] <= MonthStart[M(n)]
        <3>1. 12 \in Nat \ {0}
            OBVIOUS
        <3> QED
            BY <1>1, <3>1, MonthSteps
    <2>2. PeriodStart(m) = MonthStart[M(m)] /\ PeriodStart(n) = MonthStart[M(n)]
        BY <1>5
    <2> HIDE DEF M
    <2> QED
        BY <2>1, <2>2
<1>8. \A k, j1 \in 1..PerPeriod : ~(j1 < k)
    BY <1>2
<1>9. ASSUME NEW n \in Nat, NEW k \in 1..PerPeriod
      PROVE  /\ CandidateDay(n, k) \in Nat
             /\ PeriodStart(n) <= CandidateDay(n, k) /\ CandidateDay(n, k) < PeriodStart(n + 1)
    <2>1. /\ MonthStart[M(n)] \in Nat /\ MonthStart[M(n) + 1] \in Nat
          /\ MonthStart[M(n) + 1] <= PeriodStart(n + 1)
        <3>2. n + 1 \in Nat /\ n < n + 1 /\ 12 \in Nat \ {0}
            OBVIOUS
        <3>1. MonthStart[M(n) + 1] <= MonthStart[M(n + 1)] /\ M(n) \in Nat
            <4>1. MonthStart[M(n) + 1] <= MonthStart[M(n + 1)]
                BY <1>1, <3>2, MonthStrides
            <4>2. M(n) \in Nat
                BY <1>1, <3>2, MonthSteps
            <4> QED
                BY <4>1, <4>2
        <3>3. MonthStart[M(n) + 1] <= PeriodStart(n + 1)
            BY <1>5, <3>1, <3>2
        <3> HIDE DEF M
        <3> QED
            BY <1>1, <3>1, <3>3, MonthsAscend
    <2>2. PeriodStart(n + 1) \in Nat
        BY <1>7
    <2>3. /\ CandidateDay(n, k) = MonthStart[M(n)] + l - 1 /\ PeriodStart(n) = MonthStart[M(n)]
          /\ l <= MonthStart[M(n) + 1] - MonthStart[M(n)] /\ l \in Nat \ {0}
        BY <1>4, <1>6 DEF DaysIn
    <2> HIDE DEF M, l
    <2> QED
        BY <2>1, <2>2, <2>3
<1>10. ASSUME NEW d \in Nat, d >= StartDay
      PROVE  Matches(d) <=> \E n \in Nat, k \in 1..PerPeriod : Real(n, k) /\ d = CandidateDay(n, k)
    <2> DEFINE x == Month(d) - Month(StartDay)
    <2>2. x \in Nat /\ Month(d) \in Nat /\ Month(StartDay) \in Nat
        BY <1>1, <1>10, Inputs, MonthFound, MonthOrder
    <2>3. x % (12 * rule.interval) = 0 <=> \E n \in Nat : x = 12 * Offset(n)
        <3> HIDE DEF x
        <3> QED
            BY <2>2, OffsetMultiple
    <2>1. Matches(d) <=> x % (12 * rule.interval) = 0 /\ DayOfMonth(d) = l
        <3>1. x % 12 = 0 => January(Month(d)) - January(Month(StartDay)) = x
            BY <2>2, SameMonth
        <3>2. x % (12 * rule.interval) = 0 => x % 12 = 0
            <4> SUFFICES ASSUME x % (12 * rule.interval) = 0 PROVE x % 12 = 0
                OBVIOUS
            <4>1. PICK n \in Nat : x = 12 * Offset(n)
                BY <2>3
            <4> QED
                BY <4>1, Offsets
        <3>3. rule.byDay = <<>> /\ rule.byMonthDay = <<>>
            BY DEF Ordered, InOrder
        <3> QED
            BY <3>1, <3>2, <3>3 DEF Matches, InPeriod, LikeFirst
    <2>4. \A n \in Nat : x = 12 * Offset(n) <=> Month(d) = M(n)
        BY <2>2, Offsets
    <2>5. \A n \in Nat : Month(d) = M(n) /\ DayOfMonth(d) = l <=> d = MonthStart[M(n)] + l - 1
        <3> SUFFICES ASSUME NEW n \in Nat
                     PROVE  Month(d) = M(n) /\ DayOfMonth(d) = l <=> d = MonthStart[M(n)] + l - 1
            OBVIOUS
        <3>1. M(n) \in Nat /\ l \in Nat \ {0} /\ l <= DaysIn(M(n)) /\ StartDay <= d
            BY <1>5, <1>6, <1>10, Inputs
        <3> HIDE DEF M, l
        <3>2. Month(d) = M(n) /\ DayOfMonth(d) = l
                <=> d = MonthStart[M(n)] + l - 1 /\ l <= DaysIn(M(n))
            BY <1>1, <1>10, <3>1, MonthAndDay
        <3> QED
            BY <3>1, <3>2
    <2> HIDE DEF M, x, l
    <2>6. Matches(d) <=> /\ \E n \in Nat : Month(d) = M(n)
                         /\ DayOfMonth(d) = l
        BY <2>1, <2>3, <2>4, Zenon DEF x
    <2>7. 1 \in 1..PerPeriod
        BY <1>2
    <2> QED
        BY <1>2, <1>4, <2>5, <2>6, <2>7, Zenon
<1>11. \A n \in Nat : Over(n) => windowEnd < Candidate(n, 1)
    <2> SUFFICES ASSUME NEW n \in Nat, Over(n) PROVE windowEnd < Candidate(n, 1)
        OBVIOUS
    <2>1. 1 \in 1..PerPeriod
        BY <1>2
    <2>2. Candidate(n, 1) = At(CandidateDay(n, 1))
        BY DEF Candidate, CandidateDay
    <2>3. Candidate(n, 1) \in Nat
        BY <1>9, <2>1, <2>2, Times
    <2>4. Candidate(n, 1) > windowEnd
        BY DEF Over
    <2> QED
        BY <2>3, <2>4, Inputs
<1>12. PerPeriod \in Nat
    BY <1>2
<1> HIDE DEF M, l
<1> QED
    BY <1>2, <1>7, <1>8, <1>9, <1>10, <1>11, <1>12, Zenon DEF Periods

LEMMA PeriodsHold == ASSUME Ordered PROVE Periods
BY DailyPeriods, WeeklyPeriods, MonthlyPeriods, YearlyPeriods DEF Ordered, InOrder
-----------------------------------------------------------------------------
\* The candidates of the walk and the instances of the series.
InstanceDay(x) == x \in Nat /\ x >= StartDay /\ Matches(x)
Offered(n, k) == Real(n, k) /\ CandidateDay(n, k) >= StartDay
Position(n, k) == n \in Nat /\ k \in 1..PerPeriod

\* The instances on the days before d.
Earlier(d) == {At(x) : x \in {y \in Nat : InstanceDay(y) /\ y < d}}

LEMMA Offers ==
    ASSUME Ordered, NEW n, NEW k, Position(n, k)
    PROVE  /\ CandidateDay(n, k) \in Nat
           /\ Candidate(n, k) = At(CandidateDay(n, k))
           /\ Exists(n, k) <=> Offered(n, k)
           /\ Offered(n, k) => InstanceDay(CandidateDay(n, k))
<1>1. n \in Nat /\ k \in 1..PerPeriod
    BY DEF Position
<1>2. /\ CandidateDay(n, k) \in Nat
      /\ \A d \in Nat : d >= StartDay =>
            (Matches(d) <=> \E m \in Nat, l \in 1..PerPeriod : Real(m, l) /\ d = CandidateDay(m, l))
    BY <1>1, PeriodsHold DEF Periods
<1>3. Candidate(n, k) = At(CandidateDay(n, k))
    BY DEF Candidate, CandidateDay, Ordered, Asked, IsRule
<1>4. Candidate(n, k) >= event.start <=> CandidateDay(n, k) >= StartDay
    BY <1>2, <1>3, Times
<1> QED
    BY <1>1, <1>2, <1>3, <1>4, Zenon DEF Exists, Offered, Real, InstanceDay

LEMMA InstanceOffered ==
    ASSUME Ordered, NEW x, InstanceDay(x)
    PROVE  \E n \in Nat, k \in 1..PerPeriod :
              Position(n, k) /\ Offered(n, k) /\ x = CandidateDay(n, k)
<1>1. PICK n \in Nat, k \in 1..PerPeriod : Real(n, k) /\ x = CandidateDay(n, k)
    BY PeriodsHold, Zenon DEF Periods, InstanceDay
<1> QED
    BY <1>1, Zenon DEF Offered, Position, InstanceDay

\* Candidates that the series has come in the order of their positions.
LEMMA InSequence ==
    ASSUME Ordered, NEW m, NEW l, NEW n, NEW k, Position(m, l), Position(n, k),
           Offered(m, l), Offered(n, k), m < n \/ (m = n /\ l < k)
    PROVE  CandidateDay(m, l) < CandidateDay(n, k)
<1>1. m \in Nat /\ n \in Nat /\ m + 1 \in Nat /\ l \in 1..PerPeriod /\ k \in 1..PerPeriod
    BY DEF Position
<1>2. /\ CandidateDay(m, l) \in Nat /\ CandidateDay(n, k) \in Nat
      /\ PeriodStart(m + 1) \in Nat /\ PeriodStart(n) \in Nat
    BY <1>1, PeriodsHold DEF Periods
<1>3. CASE m < n
    <2>1. m + 1 <= n
        BY <1>1, <1>3
    <2>2. PeriodStart(m + 1) <= PeriodStart(n)
        BY <1>1, <2>1, PeriodsHold DEF Periods
    <2>3. CandidateDay(m, l) < PeriodStart(m + 1) /\ PeriodStart(n) <= CandidateDay(n, k)
        BY <1>1, PeriodsHold, Zenon DEF Periods, Offered
    <2> QED
        BY <1>2, <2>2, <2>3
<1>4. CASE m = n /\ l < k
    BY <1>1, <1>4, PeriodsHold DEF Periods
<1> QED
    BY <1>3, <1>4

\* Once the walk may stop, nothing that it would still offer is in the window.
LEMMA NothingLeft ==
    ASSUME Ordered, LongWalk, NEW n \in Nat, n = MaxOccurrences \/ Over(n),
           NEW m, NEW l, Position(m, l), Offered(m, l), n <= m
    PROVE  windowEnd < At(CandidateDay(m, l))
<1>1. m \in Nat /\ l \in 1..PerPeriod /\ CandidateDay(m, l) \in Nat /\ PeriodStart(n) \in Nat
    BY Offers, PeriodsHold DEF Position, Periods
<1>2. CASE windowEnd < PeriodStart(n) * SlotsPerDay
    <2>1. PeriodStart(n) <= PeriodStart(m) /\ PeriodStart(m) \in Nat
        BY <1>1, PeriodsHold DEF Periods
    <2>2. PeriodStart(m) <= CandidateDay(m, l)
        BY <1>1, PeriodsHold, Zenon DEF Periods, Offered
    <2>3. PeriodStart(n) <= CandidateDay(m, l)
        BY <1>1, <2>1, <2>2
    <2> QED
        BY <1>1, <1>2, <2>3, Past
<1>3. CASE PerPeriod = 1 /\ Real(n, 1) /\ windowEnd < Candidate(n, 1)
    <2>1. Position(n, 1) /\ l = 1
        BY <1>1, <1>3 DEF Position
    <2>2. Candidate(n, 1) = At(CandidateDay(n, 1)) /\ CandidateDay(n, 1) \in Nat
        BY <2>1, Offers
    <2>3. At(CandidateDay(n, 1)) \in Nat /\ At(CandidateDay(m, l)) \in Nat
        BY <1>1, <2>2, Times
    <2>4. CASE m = n
        BY <1>3, <2>1, <2>2, <2>4
    <2>5. CASE n < m
        <3>1. n + 1 \in Nat /\ n + 1 <= m /\ PeriodStart(n + 1) \in Nat /\ PeriodStart(m) \in Nat
            BY <1>1, <2>5, PeriodsHold DEF Periods
        <3>2. CandidateDay(n, 1) < PeriodStart(n + 1)
            BY <1>3, <2>1, PeriodsHold, Zenon DEF Periods, Position
        <3>3. PeriodStart(n + 1) <= PeriodStart(m)
            BY <1>1, <3>1, PeriodsHold DEF Periods
        <3>4. PeriodStart(m) <= CandidateDay(m, l)
            BY <1>1, PeriodsHold, Zenon DEF Periods, Offered
        <3>5. CandidateDay(n, 1) < CandidateDay(m, l)
            BY <1>1, <2>2, <3>1, <3>2, <3>3, <3>4
        <3>6. At(CandidateDay(n, 1)) < At(CandidateDay(m, l))
            BY <1>1, <2>2, <3>5, Times
        <3> QED
            BY <1>3, <2>2, <2>3, <3>6, Inputs
    <2> QED
        BY <1>1, <2>4, <2>5
<1> QED
    BY <1>2, <1>3, PeriodsHold, Zenon DEF LongWalk, Periods
-----------------------------------------------------------------------------
\* Counting the instances of the series.
LEMMA EarlierFinite ==
    ASSUME Ordered, NEW d \in Nat
    PROVE  IsFiniteSet(Earlier(d)) /\ Cardinality(Earlier(d)) \in Nat
<1>1. Earlier(d) \in SUBSET Nat
    BY Times DEF Earlier
<1>2. At(d) \in Nat /\ \A t \in Earlier(d) : t <= At(d)
    <2>1. At(d) \in Nat /\ \A x \in Nat : x < d => At(x) < At(d) /\ At(x) \in Nat
        BY Times
    <2> QED
        BY <2>1 DEF Earlier
<1>3. IsFiniteSet(Earlier(d))
    BY <1>1, <1>2, FS_BoundedSetOfNaturals
<1> QED
    BY <1>3, FS_CardinalityType

LEMMA EarlierMember ==
    ASSUME Ordered, NEW d \in Nat, NEW x, InstanceDay(x)
    PROVE  At(x) \in Earlier(d) <=> x < d
<1>1. ASSUME NEW y \in Nat, At(y) = At(x) PROVE y = x
    <2>1. x \in Nat
        BY DEF InstanceDay
    <2>2. Day(At(y)) = y /\ Day(At(x)) = x
        BY <2>1, Times
    <2> QED
        BY <1>1, <2>2
<1> QED
    BY <1>1 DEF Earlier, InstanceDay

\* The next instance, on day e, is the only one between two cuts.
LEMMA OneMore ==
    ASSUME Ordered, NEW d \in Nat, NEW e, InstanceDay(e), d <= e,
           \A x : InstanceDay(x) /\ d <= x => e <= x
    PROVE  /\ Earlier(e + 1) = Earlier(d) \cup {At(e)}
           /\ At(e) \notin Earlier(d)
           /\ Cardinality(Earlier(e + 1)) = Cardinality(Earlier(d)) + 1
<1>1. e \in Nat
    BY DEF InstanceDay
<1>2. \A y \in Nat : InstanceDay(y) => (y < e + 1 <=> y < d \/ y = e)
    BY <1>1
<1>3. Earlier(e + 1) = Earlier(d) \cup {At(e)}
    BY <1>1, <1>2 DEF Earlier
<1>4. At(e) \notin Earlier(d)
    BY <1>1, EarlierMember
<1> QED
    BY <1>3, <1>4, EarlierFinite, FS_AddElement

LEMMA MoreLater ==
    ASSUME Ordered, NEW d \in Nat, NEW e \in Nat, d <= e
    PROVE  Cardinality(Earlier(d)) <= Cardinality(Earlier(e))
<1>1. Earlier(d) \in SUBSET Earlier(e)
    BY DEF Earlier
<1> QED
    BY <1>1, EarlierFinite, FS_Subset

\* COUNT and UNTIL, once they end the series, end it for good.
LEMMA EndsForGood ==
    ASSUME Ordered, NEW n \in Nat, NEW m \in Nat, NEW t \in Nat, NEW u \in Nat,
           n <= m, t <= u, Ended(n, t)
    PROVE  Ended(m, u)
BY Inputs DEF Ended

LEMMA DayMonotone ==
    ASSUME Ordered, NEW a \in Nat, NEW b \in Nat, a <= b
    PROVE  Day(a) \in Nat /\ Day(b) \in Nat /\ Day(a) <= Day(b)
<1> DEFINE p == a \div SlotsPerDay
           q == b \div SlotsPerDay
<1>1. /\ p \in Nat /\ a % SlotsPerDay \in 0..SlotsPerDay - 1 /\ a = p * SlotsPerDay + (a % SlotsPerDay)
      /\ q \in Nat /\ b % SlotsPerDay \in 0..SlotsPerDay - 1 /\ b = q * SlotsPerDay + (b % SlotsPerDay)
      /\ SlotsPerDay \in Nat \ {0}
    BY Inputs, Split
<1>2. (q + 1) * SlotsPerDay = q * SlotsPerDay + SlotsPerDay
    BY <1>1, SMT
<1>3. p * SlotsPerDay \in Nat /\ q * SlotsPerDay \in Nat
    BY <1>1, Monotone
<1> HIDE DEF p, q
<1>4. p * SlotsPerDay < (q + 1) * SlotsPerDay
    BY <1>1, <1>2, <1>3
<1>5. p < q + 1
    BY <1>1, <1>4, Strict
<1> QED
    BY <1>1, <1>5 DEF Day, p, q

\* The series of the reference: an instance in the window has the rank that the walk
\* gives it.
All == {At(d) : d \in {d \in StartDay..Day(windowEnd) : Matches(d)}}

LEMMA Rank ==
    ASSUME Ordered, NEW x, InstanceDay(x), At(x) <= windowEnd
    PROVE  At(x) \in All /\ {s \in All : s <= At(x)} = Earlier(x + 1)
<1>1. x \in Nat /\ x >= StartDay /\ Matches(x) /\ At(x) \in Nat
    BY Times DEF InstanceDay
<1>2. Day(windowEnd) \in Nat /\ x <= Day(windowEnd)
    <2>1. Day(At(x)) <= Day(windowEnd) /\ Day(windowEnd) \in Nat
        BY <1>1, Inputs, DayMonotone
    <2> QED
        BY <1>1, <2>1, Times
<1>3. At(x) \in All
    BY <1>1, <1>2, Inputs DEF All
<1>4. ASSUME NEW s \in All, s <= At(x) PROVE s \in Earlier(x + 1)
    <2>1. PICK y \in StartDay..Day(windowEnd) : Matches(y) /\ s = At(y)
        BY <1>4 DEF All
    <2>2. InstanceDay(y) /\ y \in Nat
        BY <1>2, <2>1, Inputs DEF InstanceDay
    <2>3. ~(At(x) < At(y))
        BY <1>1, <1>4, <2>1, <2>2, Times
    <2>4. y < x + 1
        BY <1>1, <2>2, <2>3, Times
    <2> QED
        BY <1>1, <2>1, <2>2, <2>4 DEF Earlier
<1>5. ASSUME NEW s \in Earlier(x + 1) PROVE s \in All /\ s <= At(x)
    <2>1. PICK y \in Nat : InstanceDay(y) /\ y < x + 1 /\ s = At(y)
        BY <1>5 DEF Earlier
    <2>2. y <= x /\ y >= StartDay /\ Matches(y)
        BY <1>1, <2>1 DEF InstanceDay
    <2>3. ~(At(x) < At(y)) /\ At(y) \in Nat
        BY <1>1, <2>1, <2>2, Times
    <2>4. y \in StartDay..Day(windowEnd)
        BY <1>1, <1>2, <2>1, <2>2, Inputs
    <2> QED
        BY <1>1, <2>1, <2>2, <2>3, <2>4 DEF All
<1> QED
    BY <1>3, <1>4, <1>5

\* In the window, the series is its instances up to COUNT and UNTIL.
LEMMA SeriesInWindow ==
    ASSUME Ordered, NEW t, InWindow(t)
    PROVE  t \in Series <=> \E x \in Nat : /\ InstanceDay(x) /\ t = At(x)
                                           /\ ~Ended(Cardinality(Earlier(x + 1)), t)
<1>1. t \in Series <=> t \in All /\ ~Ended(Cardinality({s \in All : s <= t}), t)
    BY DEF Series, All
<1>2. ASSUME t \in All
      PROVE  \E x \in Nat : InstanceDay(x) /\ t = At(x)
    <2>1. PICK y \in StartDay..Day(windowEnd) : Matches(y) /\ t = At(y)
        BY <1>2 DEF All
    <2>2. Day(windowEnd) \in Nat
        BY Inputs, DayMonotone
    <2> QED
        BY <2>1, <2>2, Inputs DEF InstanceDay
<1>3. ASSUME NEW x \in Nat, InstanceDay(x), t = At(x)
      PROVE  t \in All /\ {s \in All : s <= t} = Earlier(x + 1)
    BY <1>3, Rank DEF InWindow
<1> QED
    BY <1>1, <1>2, <1>3, Zenon
-----------------------------------------------------------------------------
\* The walk has emitted the instances on the days before d, none of which ended the
\* series: out has those that it keeps.
Kept(t) == InWindow(t) /\ ~Excluded(t)
Has(s, d) ==
    /\ \A x \in Nat : InstanceDay(x) /\ x < d => ~Ended(Cardinality(Earlier(x + 1)), At(x))
    /\ \A t : (\E k \in DOMAIN s : s[k] = t) <=> t \in Earlier(d) /\ Kept(t)
    /\ \A k, l \in DOMAIN s : k # l => s[k] # s[l]

\* The candidates before position (n, k) are those on the days before d.
Reached(d, n, k) ==
    \A m \in Nat, l \in 1..PerPeriod : Offered(m, l) =>
        (CandidateDay(m, l) < d <=> m < n \/ (m = n /\ l < k))

\* From day d on, the series has nothing more in the window.
Done(d) ==
    \A x \in Nat : InstanceDay(x) /\ d <= x /\ InWindow(At(x)) =>
        Ended(Cardinality(Earlier(x + 1)), At(x))

WalkInv ==
    /\ Ordered /\ LongWalk
    /\ i \in Nat /\ j \in 1..PerPeriod + 1 /\ count \in Nat /\ walking \in BOOLEAN
    /\ out \in Seq(Nat)
    /\ \E d \in Nat :
          /\ Has(out, d)
          /\ IF walking THEN Reached(d, i, j) /\ count = Cardinality(Earlier(d)) ELSE Done(d)

LEMMA FrameInputs ==
    ASSUME UNCHANGED inputs
    PROVE  Ordered' = Ordered /\ LongWalk' = LongWalk /\ PerPeriod' = PerPeriod
BY DEF inputs, Ordered, Asked, LongWalk, PerPeriod, rule, windowEnd, InOrder, Calendar, IsRule, StartDay,
       Day, DayOfMonth, DaysIn, Month, PeriodStart, WeekStart, StartOfWeek, Weekday, MonthIndex,
       DailyDay, Days, MDays, Increasing

LEMMA FrameSeries ==
    ASSUME UNCHANGED inputs
    PROVE  /\ \A t : Kept(t)' = Kept(t)
           /\ \A n, t : Ended(n, t)' = Ended(n, t)
           /\ \A x : InstanceDay(x)' = InstanceDay(x)
           /\ \A d : Earlier(d)' = Earlier(d)
BY DEF inputs, Kept, InWindow, Excluded, Ended, InstanceDay, Earlier, Matches, InPeriod, OnLists, LikeFirst, January, At, rule, windowEnd,
       StartDay, Day, TimeOfDay, DayOfMonth, Month, WeekStart, StartOfWeek, Weekday, Days, MDays,
       Listed

LEMMA FrameHas ==
    ASSUME UNCHANGED inputs, NEW d
    PROVE  Has(out, d)' = Has(out', d) /\ Done(d)' = Done(d)
BY DEF inputs, Has, Done, Kept, InWindow, Excluded, Ended, InstanceDay, Earlier, Matches, InPeriod, OnLists, LikeFirst, January, At, rule,
       windowEnd, StartDay, Day, TimeOfDay, DayOfMonth, Month, WeekStart, StartOfWeek, Weekday,
       Days, MDays, Listed

LEMMA FrameReached ==
    ASSUME UNCHANGED inputs, NEW d
    PROVE  /\ Reached(d, i, j)' = Reached(d, i', j')
           /\ Cardinality(Earlier(d))' = Cardinality(Earlier(d))
BY DEF inputs, Reached, Offered, Real, CandidateDay, PerPeriod, InstanceDay, Earlier, Matches, InPeriod, OnLists, LikeFirst, January, At,
       rule, StartDay, Day, TimeOfDay, DayOfMonth, DaysIn, Month, MonthIndex, WeekStart, DailyDay,
       YearlyDay, StartOfWeek, Weekday, Days, MDays, Listed

LEMMA WalkInit == Ordered /\ LongWalk /\ Init => WalkInv
<1> SUFFICES ASSUME Ordered, LongWalk, Init PROVE WalkInv
    OBVIOUS
<1>1. i = 0 /\ j = 1 /\ count = 0 /\ out = <<>> /\ walking = TRUE
    BY DEF Init
<1>2. PerPeriod \in Nat
    BY PeriodsHold DEF Periods
<1>3. Earlier(0) = {}
    BY Inputs DEF Earlier
<1>4. Has(out, 0)
    BY <1>1, <1>3 DEF Has
<1>5. Reached(0, i, j)
    <2> SUFFICES ASSUME NEW m \in Nat, NEW l \in 1..PerPeriod, Offered(m, l)
                 PROVE  ~(CandidateDay(m, l) < 0) /\ ~(m < 0 \/ (m = 0 /\ l < 1))
        BY <1>1 DEF Reached
    <2>1. CandidateDay(m, l) \in Nat
        BY Offers DEF Position
    <2> QED
        BY <1>2, <2>1
<1>6. count = Cardinality(Earlier(0))
    BY <1>1, <1>3, FS_EmptySet
<1>7. i \in Nat /\ j \in 1..PerPeriod + 1 /\ count \in Nat /\ out \in Seq(Nat)
    BY <1>1, <1>2
<1>8. walking /\ walking \in BOOLEAN /\ 0 \in Nat
    BY <1>1
<1> QED
    BY <1>4, <1>5, <1>6, <1>7, <1>8, Zenon DEF WalkInv

\* The candidate at a position is the next instance of the series.
LEMMA NextInstance ==
    ASSUME Ordered, NEW d \in Nat, NEW n, NEW k, Position(n, k), Offered(n, k), Reached(d, n, k)
    PROVE  /\ InstanceDay(CandidateDay(n, k))
           /\ d <= CandidateDay(n, k)
           /\ \A x : InstanceDay(x) /\ d <= x => CandidateDay(n, k) <= x
           /\ Reached(CandidateDay(n, k) + 1, n, k + 1)
<1> DEFINE e == CandidateDay(n, k)
<1>1. n \in Nat /\ k \in 1..PerPeriod /\ e \in Nat /\ InstanceDay(e)
    BY Offers DEF Position
<1>2. d <= e
    <2>1. CandidateDay(n, k) < d <=> n < n \/ (n = n /\ k < k)
        BY <1>1, Zenon DEF Reached
    <2> QED
        BY <1>1, <2>1
<1>3. ASSUME NEW m \in Nat, NEW l \in 1..PerPeriod, Offered(m, l)
      PROVE  /\ CandidateDay(m, l) \in Nat
             /\ CandidateDay(m, l) < d <=> m < n \/ (m = n /\ l < k)
             /\ (n < m \/ (n = m /\ k < l)) => e < CandidateDay(m, l)
    <2>1. Position(m, l)
        BY DEF Position
    <2>2. CandidateDay(m, l) \in Nat
        BY <2>1, Offers
    <2>3. CandidateDay(m, l) < d <=> m < n \/ (m = n /\ l < k)
        BY <1>3, Zenon DEF Reached
    <2>4. (n < m \/ (n = m /\ k < l)) => e < CandidateDay(m, l)
        BY <1>3, <2>1, InSequence
    <2> QED
        BY <2>2, <2>3, <2>4
<1>4. ASSUME NEW x, InstanceDay(x), d <= x PROVE e <= x
    <2>1. PICK m \in Nat, l \in 1..PerPeriod : Offered(m, l) /\ x = CandidateDay(m, l)
        BY <1>4, InstanceOffered
    <2>2. (m = n /\ l = k) \/ n < m \/ (n = m /\ k < l)
        BY <1>1, <1>3, <1>4, <2>1
    <2> QED
        BY <1>1, <1>3, <2>1, <2>2
<1>5. ASSUME NEW m \in Nat, NEW l \in 1..PerPeriod, Offered(m, l)
      PROVE  CandidateDay(m, l) < e + 1 <=> m < n \/ (m = n /\ l < k + 1)
    <2>1. CASE m < n \/ (m = n /\ l < k)
        BY <1>1, <1>2, <1>3, <1>5, <2>1
    <2>2. CASE m = n /\ l = k
        BY <1>1, <2>2
    <2>3. CASE n < m \/ (n = m /\ k < l)
        BY <1>1, <1>3, <1>5, <2>3
    <2> QED
        BY <1>1, <2>1, <2>2, <2>3
<1> QED
    BY <1>1, <1>2, <1>4, <1>5 DEF Reached

\* What emitting the instance on day e, the next one, does to out.
LEMMA EmitOne ==
    ASSUME Ordered, NEW d \in Nat, NEW e, InstanceDay(e), d <= e,
           \A x : InstanceDay(x) /\ d <= x => e <= x,
           NEW s \in Seq(Nat), Has(s, d), NEW r,
           ~Ended(Cardinality(Earlier(d)) + 1, At(e)),
           r = IF Kept(At(e)) THEN Append(s, At(e)) ELSE s
    PROVE  Has(r, e + 1) /\ r \in Seq(Nat)
<1>1. e \in Nat /\ At(e) \in Nat
    BY Times DEF InstanceDay
<1>2. /\ Earlier(e + 1) = Earlier(d) \cup {At(e)} /\ At(e) \notin Earlier(d)
      /\ Cardinality(Earlier(e + 1)) = Cardinality(Earlier(d)) + 1
    BY OneMore
<1>3. ASSUME NEW x \in Nat, InstanceDay(x), x < e + 1
      PROVE  ~Ended(Cardinality(Earlier(x + 1)), At(x))
    <2>1. CASE x < d
        BY <1>3, <2>1, Zenon DEF Has
    <2>2. CASE ~(x < d)
        <3>1. x = e
            BY <1>1, <1>3, <2>2
        <3> QED
            BY <1>2, <3>1, Zenon
    <2> QED
        BY <2>1, <2>2
<1>4. \A k \in DOMAIN s : s[k] # At(e)
    BY <1>2 DEF Has
<1>5. \A t : (\E k \in DOMAIN s : s[k] = t) <=> t \in Earlier(d) /\ Kept(t)
    BY Zenon DEF Has
<1>6. \A k, l \in DOMAIN s : k # l => s[k] # s[l]
    BY Zenon DEF Has
<1>7. /\ r \in Seq(Nat)
      /\ \A k, l \in DOMAIN r : k # l => r[k] # r[l]
      /\ \A t : (\E k \in DOMAIN r : r[k] = t) <=> t \in Earlier(e + 1) /\ Kept(t)
    <2>1. CASE Kept(At(e))
        <3>1. r = Append(s, At(e))
            BY <2>1
        <3>2. /\ DOMAIN r = DOMAIN s \cup {Len(s) + 1}
              /\ \A k \in DOMAIN s : r[k] = s[k]
              /\ r[Len(s) + 1] = At(e)
              /\ r \in Seq(Nat) /\ Len(s) + 1 \notin DOMAIN s
            BY <1>1, <3>1
        <3>3. \A k, l \in DOMAIN r : k # l => r[k] # r[l]
            BY <1>4, <1>6, <3>2
        <3>4. ASSUME NEW t
              PROVE  (\E k \in DOMAIN r : r[k] = t) <=> (\E k \in DOMAIN s : s[k] = t) \/ t = At(e)
            BY <3>2
        <3>5. \A t : (\E k \in DOMAIN r : r[k] = t) <=> t \in Earlier(e + 1) /\ Kept(t)
            BY <1>2, <1>5, <2>1, <3>4, Zenon
        <3> QED
            BY <3>2, <3>3, <3>5, Zenon
    <2>2. CASE ~Kept(At(e))
        <3>1. r = s
            BY <2>2
        <3>2. \A t : t \in Earlier(e + 1) /\ Kept(t) <=> t \in Earlier(d) /\ Kept(t)
            BY <1>2, <2>2, Zenon
        <3> QED
            BY <1>5, <1>6, <3>1, <3>2, Zenon
    <2> QED
        BY <2>1, <2>2
<1> QED
    BY <1>3, <1>7, Zenon DEF Has

\* An instance that ends the series leaves nothing after it.
LEMMA EndedDone ==
    ASSUME Ordered, NEW d \in Nat, NEW e, InstanceDay(e), d <= e,
           \A x : InstanceDay(x) /\ d <= x => e <= x,
           Ended(Cardinality(Earlier(d)) + 1, At(e))
    PROVE  Done(d)
<1>1. e \in Nat /\ e + 1 \in Nat /\ Cardinality(Earlier(e + 1)) = Cardinality(Earlier(d)) + 1
    BY OneMore DEF InstanceDay
<1> SUFFICES ASSUME NEW x \in Nat, InstanceDay(x), d <= x
             PROVE  Ended(Cardinality(Earlier(x + 1)), At(x))
    BY DEF Done
<1>2. e <= x /\ e + 1 <= x + 1 /\ x + 1 \in Nat
    BY <1>1
<1>3. /\ Cardinality(Earlier(e + 1)) <= Cardinality(Earlier(x + 1))
      /\ Cardinality(Earlier(e + 1)) \in Nat /\ Cardinality(Earlier(x + 1)) \in Nat
    BY <1>1, <1>2, MoreLater, EarlierFinite
<1>4. At(e) \in Nat /\ At(x) \in Nat /\ At(e) <= At(x)
    <2>1. At(e) \in Nat /\ At(x) \in Nat /\ (At(x) < At(e) <=> x < e)
        BY <1>1, Times
    <2> QED
        BY <1>1, <1>2, <2>1
<1> QED
    BY <1>1, <1>3, <1>4, EndsForGood

\* A walk that may stop has nothing left to emit.
LEMMA FinishDone ==
    ASSUME Ordered, LongWalk, NEW d \in Nat, NEW n \in Nat, NEW k \in Nat, Reached(d, n, k),
           n = MaxOccurrences \/ Over(n)
    PROVE  Done(d)
<1> SUFFICES ASSUME NEW x \in Nat, InstanceDay(x), d <= x, InWindow(At(x))
             PROVE  FALSE
    BY DEF Done
<1>1. PICK m \in Nat, l \in 1..PerPeriod :
          Position(m, l) /\ Offered(m, l) /\ x = CandidateDay(m, l)
    BY InstanceOffered
<1>2. ~(x < d)
    OBVIOUS
<1>3. n <= m
    BY <1>1, <1>2 DEF Reached
<1>4. windowEnd < At(x)
    BY <1>1, <1>3, NothingLeft
<1>5. At(x) \in Nat /\ windowEnd \in Nat /\ At(x) <= windowEnd
    BY Times, Inputs DEF InWindow
<1> QED
    BY <1>4, <1>5

LEMMA WalkStep == WalkInv /\ [Next]_vars => WalkInv'
<1> SUFFICES ASSUME WalkInv, [Next]_vars PROVE WalkInv'
    OBVIOUS
<1>1. /\ Ordered /\ LongWalk /\ i \in Nat /\ j \in 1..PerPeriod + 1 /\ count \in Nat
      /\ walking \in BOOLEAN /\ out \in Seq(Nat) /\ PerPeriod \in Nat
    BY PeriodsHold DEF WalkInv, Periods
<1>2. PICK d \in Nat : /\ Has(out, d)
                       /\ IF walking THEN Reached(d, i, j) /\ count = Cardinality(Earlier(d))
                                     ELSE Done(d)
    BY DEF WalkInv
<1>3. UNCHANGED inputs
    BY DEF Next, Emit, Skip, NextPeriod, Finish, vars
<1>4. Ordered' /\ LongWalk' /\ PerPeriod' = PerPeriod
    BY <1>1, <1>3, FrameInputs, Zenon
<1>5. SUFFICES /\ i' \in Nat /\ j' \in 1..PerPeriod + 1 /\ count' \in Nat
               /\ walking' \in BOOLEAN /\ out' \in Seq(Nat)
               /\ \E c \in Nat :
                     /\ Has(out', c)
                     /\ IF walking' THEN Reached(c, i', j') /\ count' = Cardinality(Earlier(c))
                                    ELSE Done(c)
    <2>1. PICK c \in Nat :
              /\ Has(out', c)
              /\ IF walking' THEN Reached(c, i', j') /\ count' = Cardinality(Earlier(c))
                             ELSE Done(c)
        BY <1>5
    <2>2. /\ Has(out, c)' = Has(out', c) /\ Done(c)' = Done(c)
          /\ Reached(c, i, j)' = Reached(c, i', j')
          /\ Cardinality(Earlier(c))' = Cardinality(Earlier(c))
        BY <1>3, FrameHas, FrameReached, Zenon
    <2>3. /\ Has(out, c)'
          /\ IF walking' THEN Reached(c, i, j)' /\ count' = Cardinality(Earlier(c))' ELSE Done(c)'
        BY <2>1, <2>2, Zenon
    <2> QED
        BY <1>4, <1>5, <2>3, Zenon DEF WalkInv
<1>6. CASE Emit
    <2> DEFINE e == CandidateDay(i, j)
    <2>1. /\ walking /\ j \in 1..PerPeriod /\ Exists(i, j)
          /\ j' = j + 1 /\ i' = i /\ count' = count + 1
        BY <1>1, <1>6 DEF Emit, Walks
    <2>2. Position(i, j)
        BY <1>1, <2>1 DEF Position
    <2>3. Candidate(i, j) = At(e) /\ Offered(i, j)
        BY <1>1, <2>1, <2>2, Offers
    <2>4. Reached(d, i, j) /\ count = Cardinality(Earlier(d)) /\ Has(out, d)
        BY <1>2, <2>1
    <2>5. /\ InstanceDay(e) /\ d <= e
          /\ \A x : InstanceDay(x) /\ d <= x => e <= x
          /\ Reached(e + 1, i, j + 1)
        BY <1>1, <2>2, <2>3, <2>4, NextInstance
    <2>6. \/ Ended(count + 1, At(e)) /\ walking' = FALSE /\ UNCHANGED out
          \/ /\ ~Ended(count + 1, At(e)) /\ walking' = walking
             /\ out' = IF Kept(At(e)) THEN Append(out, At(e)) ELSE out
        BY <1>6, <2>1, <2>3, Zenon DEF Emit, Kept
    <2>7. i' \in Nat /\ j' \in 1..PerPeriod + 1 /\ count' \in Nat
        BY <1>1, <2>1
    <2> HIDE DEF e
    <2>8. CASE Ended(count + 1, At(e)) /\ walking' = FALSE /\ UNCHANGED out
        <3>1. Done(d)
            BY <1>1, <2>4, <2>5, <2>8, EndedDone
        <3>2. Has(out', d) /\ out' \in Seq(Nat) /\ ~walking' /\ walking' \in BOOLEAN
            BY <1>1, <2>4, <2>8, Zenon
        <3> QED
            BY <2>7, <3>1, <3>2, Zenon
    <2>9. CASE /\ ~Ended(count + 1, At(e)) /\ walking' = walking
               /\ out' = IF Kept(At(e)) THEN Append(out, At(e)) ELSE out
        <3>1. Has(out', e + 1) /\ out' \in Seq(Nat)
            BY <1>1, <2>4, <2>5, <2>9, EmitOne
        <3>2. count' = Cardinality(Earlier(e + 1))
            BY <1>1, <2>1, <2>4, <2>5, OneMore
        <3>3. e + 1 \in Nat
            BY <2>5 DEF InstanceDay
        <3>4. Reached(e + 1, i', j')
            BY <2>1, <2>5
        <3>5. walking' /\ walking' \in BOOLEAN
            BY <1>1, <2>1, <2>9, Zenon
        <3> QED
            BY <2>7, <3>1, <3>2, <3>3, <3>4, <3>5, Zenon
    <2> QED
        BY <2>6, <2>8, <2>9
<1>7. CASE Skip
    <2>1. /\ walking /\ j \in 1..PerPeriod /\ ~Exists(i, j) /\ j' = j + 1
          /\ i' = i /\ count' = count /\ out' = out /\ walking' = walking
        BY <1>1, <1>7 DEF Skip, Walks
    <2>2. ~Offered(i, j)
        BY <1>1, <2>1, Offers DEF Position
    <2>3. ASSUME NEW m \in Nat, NEW l \in 1..PerPeriod, Offered(m, l)
          PROVE  CandidateDay(m, l) < d <=> m < i' \/ (m = i' /\ l < j')
        <3>1. CandidateDay(m, l) < d <=> m < i \/ (m = i /\ l < j)
            BY <1>2, <2>1, <2>3, Zenon DEF Reached
        <3>2. ~(m = i /\ l = j)
            BY <2>2, <2>3
        <3>3. m = i => (l < j <=> l < j + 1)
            BY <1>1, <2>1, <3>2
        <3> QED
            BY <2>1, <3>1, <3>3
    <2>4. Reached(d, i', j')
        BY <2>3 DEF Reached
    <2>5. j' \in 1..PerPeriod + 1
        BY <1>1, <2>1
    <2> QED
        BY <1>1, <1>2, <2>1, <2>4, <2>5, Zenon
<1>8. CASE NextPeriod
    <2>1. /\ walking /\ j = PerPeriod + 1 /\ i' = i + 1 /\ j' = 1
          /\ count' = count /\ out' = out /\ walking' = walking
        BY <1>1, <1>8 DEF NextPeriod, Walks
    <2>2. ASSUME NEW m \in Nat, NEW l \in 1..PerPeriod
          PROVE  (m < i \/ (m = i /\ l < j)) <=> m < i' \/ (m = i' /\ l < j')
        BY <1>1, <2>1
    <2>3. Reached(d, i', j')
        BY <1>2, <2>1, <2>2, Zenon DEF Reached
    <2>4. i' \in Nat /\ j' \in 1..PerPeriod + 1
        BY <1>1, <2>1
    <2> QED
        BY <1>1, <1>2, <2>1, <2>3, <2>4, Zenon
<1>9. CASE Finish
    <2>1. /\ walking /\ walking' = FALSE /\ UNCHANGED <<i, j, count, out>>
          /\ i = MaxOccurrences \/ Over(i)
        BY <1>9 DEF Finish
    <2>2. Done(d)
        BY <1>1, <1>2, <2>1, FinishDone
    <2>3. Has(out', d) /\ ~walking' /\ walking' \in BOOLEAN
        BY <1>2, <2>1, Zenon
    <2> QED
        BY <1>1, <2>1, <2>2, <2>3
<1>10. CASE UNCHANGED vars
    BY <1>1, <1>2, <1>10 DEF vars
<1> QED
    BY <1>6, <1>7, <1>8, <1>9, <1>10 DEF Next

\* What the walk has emitted when nothing is to come is what is left of the series.
LEMMA WalkExact == WalkInv => Exact
<1> SUFFICES ASSUME WalkInv, ~walking PROVE Exact
    BY DEF Exact
<1>1. Ordered
    BY DEF WalkInv
<1>2. PICK d \in Nat : Has(out, d) /\ Done(d)
    BY DEF WalkInv
<1>3. ASSUME NEW t
      PROVE  (\E k \in DOMAIN out : out[k] = t) <=> t \in Remaining /\ InWindow(t)
    <2>1. t \in Remaining /\ InWindow(t) <=> t \in Series /\ Kept(t)
        BY DEF Remaining, Excluded, Kept
    <2>2. (\E k \in DOMAIN out : out[k] = t) <=> t \in Earlier(d) /\ Kept(t)
        BY <1>2, Zenon DEF Has
    <2>3. InWindow(t) =>
             (t \in Series <=> \E x \in Nat : /\ InstanceDay(x) /\ t = At(x)
                                              /\ ~Ended(Cardinality(Earlier(x + 1)), t))
        BY <1>1, SeriesInWindow
    <2>4. ASSUME NEW x \in Nat, InstanceDay(x), t = At(x), InWindow(t)
          PROVE  t \in Earlier(d) <=> ~Ended(Cardinality(Earlier(x + 1)), t)
        <3>1. t \in Earlier(d) <=> x < d
            BY <1>1, <2>4, EarlierMember
        <3>2. x < d => ~Ended(Cardinality(Earlier(x + 1)), t)
            BY <1>2, <2>4, Zenon DEF Has
        <3>3. d <= x => Ended(Cardinality(Earlier(x + 1)), t)
            BY <1>2, <2>4, Zenon DEF Done
        <3> QED
            BY <3>1, <3>2, <3>3
    <2>5. t \in Earlier(d) => \E x \in Nat : InstanceDay(x) /\ t = At(x)
        BY DEF Earlier
    <2> QED
        BY <2>1, <2>2, <2>3, <2>4, <2>5, Zenon DEF Kept
<1>4. \A k, l \in DOMAIN out : k # l => out[k] # out[l]
    BY <1>2, Zenon DEF Has
<1>5. {out[k] : k \in DOMAIN out} = {t \in Remaining : InWindow(t)}
    BY <1>3
<1> QED
    BY <1>4, <1>5 DEF Exact

\* An instance of the series is a time.
LEMMA RemainingTimes == Ordered => Remaining \subseteq Nat
<1> SUFFICES ASSUME Ordered, NEW t \in Remaining PROVE t \in Nat
    OBVIOUS
<1>1. PICK y \in StartDay..Day(windowEnd) : t = At(y)
    BY DEF Remaining, Series
<1>2. y \in Nat
    BY <1>1, Inputs, DayMonotone
<1> QED
    BY <1>1, <1>2, Times

\* The agenda is made of what between returns and of the override.
LEMMA ExactShows == Ordered /\ Exact => ShowsSeries
<1> SUFFICES ASSUME Ordered, Exact, ~walking
             PROVE  /\ Occurrences \subseteq Effective
                    /\ {o \in Effective : Overlaps(o) /\ o.start >= from} \subseteq Occurrences
    BY DEF ShowsSeries
<1>1. {out[k] : k \in DOMAIN out} = {t \in Remaining : InWindow(t)}
    BY DEF Exact
<1>2. ASSUME NEW o \in Occurrences PROVE o \in Effective
    <2>1. CASE o \in Replacement
        BY <2>1 DEF Effective
    <2>2. ASSUME NEW k \in DOMAIN out, o = Span(out[k], out[k] + event.dur) PROVE o \in Effective
        BY <1>1, <2>2 DEF Effective
    <2> QED
        BY <2>1, <2>2 DEF Occurrences
<1>3. ASSUME NEW o \in Effective, Overlaps(o), o.start >= from
      PROVE  o \in Occurrences
    <2>1. CASE o \in Replacement
        BY <1>3, <2>1 DEF Occurrences
    <2>2. ASSUME NEW t \in Remaining, o = Span(t, t + event.dur) PROVE o \in Occurrences
        <3>1. t \in Nat /\ windowEnd \in Nat /\ from \in Nat
            BY RemainingTimes, Inputs
        <3>2. o.start = t
            BY <2>2 DEF Span
        <3>3. InWindow(t)
            BY <1>3, <3>1, <3>2 DEF Overlaps, InWindow
        <3>4. PICK k \in DOMAIN out : out[k] = t
            BY <1>1, <3>3
        <3> QED
            BY <1>3, <2>2, <3>4 DEF Occurrences
    <2> QED
        BY <2>1, <2>2 DEF Effective
<1> QED
    BY <1>2, <1>3
-----------------------------------------------------------------------------
\* What Init takes from the agendas.
LEMMA InitOrdered == InOrder /\ Init => Ordered
<1> SUFFICES ASSUME InOrder, Init PROVE Ordered
    OBVIOUS
<1>1. PICK a \in Agendas : event = a.event /\ from = a.from
    BY DEF Init
<1> QED
    BY <1>1, RecurrenceAssumption DEF Ordered, Asked, rule

\* between finds, once each, the instances of the series that start in the window and
\* are neither excluded nor replaced, for rules of each frequency that have no list but
\* the one the walk reads, in order (InOrder): none is lost to the order in which COUNT,
\* UNTIL, the exclusions and the window are applied, or to the tests that break the walk,
\* as long as maxOccurrences does not (LongWalk).
THEOREM WalksExactly == InOrder /\ LongWalk /\ Spec => []Exact
<1>1. InOrder /\ LongWalk /\ Init => WalkInv
    BY InitOrdered, WalkInit
<1>2. WalkInv /\ [Next]_vars => WalkInv'
    BY WalkStep
<1>3. WalkInv => Exact
    BY WalkExact
<1> QED
    BY <1>1, <1>2, <1>3, PTL DEF Spec

\* The agenda shows the series: an instance that an override moves or cancels is not
\* there, the override is, and every instance that starts in the window is, for the same
\* rules and under the same bound.
THEOREM ShowsAll == InOrder /\ LongWalk /\ Spec => []ShowsSeries
<1>1. InOrder /\ LongWalk /\ Init => WalkInv
    BY InitOrdered, WalkInit
<1>2. WalkInv /\ [Next]_vars => WalkInv'
    BY WalkStep
<1>3. WalkInv => ShowsSeries
    BY WalkExact, ExactShows DEF WalkInv
<1> QED
    BY <1>1, <1>2, <1>3, PTL DEF Spec
-----------------------------------------------------------------------------
\* Types, for a rule with its lists in any order.
Dated == rule.freq \in {"monthly", "yearly"} => Calendar

LEMMA PerPeriodNat == ASSUME Asked PROVE PerPeriod \in Nat
<1>1. Len(Days) \in Nat
    BY DEF Asked, IsRule, Days
<1>2. Len(MDays) \in Nat
    BY DEF Asked, IsRule, MDays
<1> QED
    BY <1>1, <1>2 DEF PerPeriod

LEMMA AtTime == ASSUME Asked, NEW x \in Int PROVE At(x) \in Int
<1>1. TimeOfDay(event.start) \in Int /\ SlotsPerDay \in Int
    BY AskedInputs
<1>2. x * SlotsPerDay \in Int
    BY <1>1
<1> QED
    BY <1>1, <1>2 DEF At

LEMMA CandidateTime ==
    ASSUME Asked, Dated, NEW n \in Nat, NEW k \in 1..PerPeriod
    PROVE  Candidate(n, k) \in Int
<1>1. StartDay \in Nat /\ rule.interval \in Nat
    BY AskedInputs
<1>2. rule.interval * n \in Nat /\ 7 * rule.interval * n \in Nat /\ 12 * rule.interval * n \in Nat
    BY <1>1, SMT
<1>3. CASE rule.freq = "daily"
    BY <1>1, <1>2, <1>3, AtTime DEF Candidate, DailyDay
<1>4. CASE rule.freq = "weekly"
    <2>1. k \in DOMAIN Days
        BY <1>4 DEF PerPeriod, Days, Asked, IsRule
    <2>2. Days[k] \in Int
        <3>1. CASE rule.byDay = <<>>
            BY <1>1, <2>1, <3>1 DEF Days, Weekday
        <3>2. CASE rule.byDay # <<>>
            <4> DEFINE D == 0..6
            <4>1. Days \in Seq(D) /\ \A x \in D : x \in Int
                BY <3>2 DEF Days, Asked, IsRule
            <4> HIDE DEF D
            <4> QED
                BY <2>1, <4>1
        <3> QED
            BY <3>1, <3>2
    <2>3. WeekStart(n) \in Int
        BY <1>1, <1>2 DEF WeekStart, StartOfWeek, Weekday
    <2> QED
        BY <1>4, <2>2, <2>3, AtTime DEF Candidate
<1>5. CASE rule.freq \in {"monthly", "yearly"}
    <2>1. Calendar
        BY <1>5 DEF Dated
    <2>2. Month(StartDay) \in Nat /\ DayOfMonth(StartDay) \in Nat
        BY <1>1, <2>1, MonthOf
    <2>3. /\ MonthIndex(n) \in Nat /\ MonthStart[MonthIndex(n)] \in Nat
          /\ MonthStart[Month(StartDay) + 12 * rule.interval * n] \in Nat
        BY <1>2, <2>1, <2>2 DEF Calendar, MonthIndex
    <2>4. CASE rule.freq = "yearly"
        BY <2>2, <2>3, <2>4, AtTime DEF Candidate, YearlyDay
    <2>5. CASE rule.freq = "monthly"
        <3>1. MDays[k] \in Int
            <4>1. CASE rule.byMonthDay = <<>>
                BY <2>2, <2>5, <4>1 DEF MDays, PerPeriod
            <4>2. CASE rule.byMonthDay # <<>>
                <5>1. MDays \in Seq(1..31)
                    BY <4>2 DEF MDays, Asked, IsRule
                <5>2. k \in 1..Len(MDays)
                    BY <2>5 DEF PerPeriod
                <5> QED
                    BY <5>1, <5>2, MonthDays
            <4> QED
                BY <4>1, <4>2
        <3> QED
            BY <2>3, <2>5, <3>1, AtTime DEF Candidate
    <2> QED
        BY <1>5, <2>4, <2>5
<1> QED
    BY <1>3, <1>4, <1>5 DEF Asked, IsRule

LEMMA TypeInit == Init => TypeOK
<1> SUFFICES ASSUME Init PROVE TypeOK
    OBVIOUS
<1>1. PICK a \in Agendas : event = a.event /\ override = a.override /\ from = a.from
    BY DEF Init
<1>2. [event |-> event, override |-> override, from |-> from] \in Agendas
    BY <1>1, RecurrenceAssumption
<1>3. Asked
    BY <1>1, RecurrenceAssumption DEF Asked, rule
<1>4. PerPeriod \in Nat
    BY <1>3, PerPeriodNat
<1> QED
    BY <1>2, <1>3, <1>4, RecurrenceAssumption DEF Init, TypeOK, Asked

LEMMA TypeAsked == TypeOK => Asked
BY RecurrenceAssumption DEF TypeOK, Asked, rule

LEMMA TypeStep == TypeOK /\ Dated /\ [Next]_vars => TypeOK' /\ Dated'
<1> SUFFICES ASSUME TypeOK, Dated, [Next]_vars PROVE TypeOK' /\ Dated'
    OBVIOUS
<1>1. UNCHANGED inputs
    BY DEF Next, Emit, Skip, NextPeriod, Finish, vars
<1>2. Dated' /\ PerPeriod' = PerPeriod /\ windowEnd' = windowEnd /\ IsRule(rule)'
    BY <1>1 DEF inputs, Dated, Calendar, TypeOK, IsRule, PerPeriod, rule, windowEnd, StartDay, Day, Days,
           MDays, Weekday, DayOfMonth, Month
<1>3. PerPeriod \in Nat /\ MaxOccurrences \in Nat
    BY TypeAsked, PerPeriodNat, RecurrenceAssumption
<1>4. /\ i' \in 0..MaxOccurrences /\ j' \in 1..PerPeriod + 1 /\ count' \in Nat
      /\ walking' \in BOOLEAN
    <2> USE DEF TypeOK
    <2>1. CASE Emit
        <3>1. i' \in 0..MaxOccurrences /\ j' \in 1..PerPeriod + 1 /\ count' \in Nat
            BY <1>3, <2>1 DEF Emit
        <3>2. walking' \in BOOLEAN
            BY <2>1, Zenon DEF Emit, Walks
        <3> QED
            BY <3>1, <3>2
    <2>2. CASE Skip
        BY <1>3, <2>2 DEF Skip, Walks
    <2>3. CASE NextPeriod
        BY <1>3, <2>3 DEF NextPeriod, Walks
    <2>4. CASE Finish
        BY <1>3, <2>4 DEF Finish
    <2>5. CASE UNCHANGED vars
        BY <2>5 DEF vars
    <2> QED
        BY <2>1, <2>2, <2>3, <2>4, <2>5 DEF Next
<1>5. out' \in Seq(from..windowEnd)
    <2>1. out \in Seq(from..windowEnd)
        BY DEF TypeOK
    <2>2. CASE Emit
        <3>1. Candidate(i, j) \in Int
            <4>1. i \in Nat /\ j \in 1..PerPeriod
                BY <1>3, <2>2 DEF Emit, TypeOK
            <4> QED
                BY <4>1, TypeAsked, CandidateTime
        <3>2. from \in Int /\ windowEnd \in Int
            BY TypeAsked, AskedInputs
        <3>3. InWindow(Candidate(i, j)) => Candidate(i, j) \in from..windowEnd
            BY <3>1, <3>2 DEF InWindow
        <3>4. \/ out' = out
              \/ InWindow(Candidate(i, j)) /\ out' = Append(out, Candidate(i, j))
            BY <2>2, Zenon DEF Emit
        <3> DEFINE D == from..windowEnd
        <3>5. out \in Seq(D) /\ (InWindow(Candidate(i, j)) => Candidate(i, j) \in D)
            BY <2>1, <3>3
        <3> HIDE DEF D
        <3>6. out' \in Seq(D)
            BY <3>4, <3>5
        <3> QED
            BY <3>6 DEF D
    <2>3. CASE Skip \/ NextPeriod \/ Finish \/ UNCHANGED vars
        BY <2>1, <2>3 DEF Skip, NextPeriod, Finish, vars
    <2> QED
        BY <2>2, <2>3 DEF Next
<1>6. [event |-> event, override |-> override, from |-> from]' \in Agendas /\ UNCHANGED from
    BY <1>1 DEF inputs, TypeOK
<1> QED
    BY <1>2, <1>4, <1>5, <1>6 DEF TypeOK

\* The walk never counts past maxOccurrences or past the days of a period, and what it
\* returns are times in the window, whatever the order of a rule's lists.
THEOREM TypesHold == Dated /\ Spec => []TypeOK
<1>1. Init => TypeOK
    BY TypeInit
<1>2. TypeOK /\ Dated /\ [Next]_vars => (TypeOK /\ Dated)'
    BY TypeStep
<1> QED
    BY <1>1, <1>2, PTL DEF Spec
=============================================================================
