-------------------------- MODULE DashboardProofs --------------------------
(***************************************************************************)
(* Pictures are right for every set of pages, every zone, every title and  *)
(* every reply that PageAssumption and AgendaAssumption admit.             *)
(*                                                                         *)
(* The grid comes first, for pages of any size.  The loops of the cards    *)
(* are folds: FoldExists and Chain turn a fold into the sequence of states *)
(* it goes through, and Induction carries what a step preserves to its     *)
(* last state.  From it come, card by card, what each one says and where   *)
(* it draws: the order of events and Upcoming, the wrapping of titles      *)
(* (WrapIs), the rows of the agenda (AgendaIs), the month (MonthIs), the   *)
(* chart and the summary of the rain (RainKeeps, WettestIs, AheadIs).      *)
(* Drawn is the inductive invariant: which cards are drawn at each pc, so  *)
(* that what holds of every card holds of every picture.                   *)
(***************************************************************************)
EXTENDS Dashboard, FiniteSetTheorems, SequenceTheorems, TLAPS

\* A page with room for the margins, the bands and the gutters.
HasRoom(sheet, cols, rows) ==
    /\ sheet.w >= 2 * SideMargin + (cols - 1) * Gutter
    /\ sheet.h >= 2 * Band + (rows - 1) * Gutter

\* A cell that NewGrid's grid of cols by rows has.
OnGrid(col, row, w, h, cols, rows) == col + w <= cols /\ row + h <= rows

LEMMA Division ==
    ASSUME NEW a \in Int, NEW k \in Nat \ {0}
    PROVE  /\ a \div k \in Int
           /\ k * (a \div k) <= a
           /\ a >= 0 => a \div k >= 0
BY SMT

LEMMA Scale ==
    ASSUME NEW a \in Nat, NEW b \in Nat, NEW k \in Nat, a <= b
    PROVE  a * k <= b * k
BY SMT

\* The extent of spans of a row of cells: n spans from a on end where the cells of
\* size s and their gutters end, and a later span begins a gutter behind them.
Span(a, n, s) == a * (s + Gutter) + n * s + (n - 1) * Gutter

LEMMA SpanEnds ==
    ASSUME NEW a \in Nat, NEW n \in Nat, NEW b \in Nat, NEW s \in Nat, a + n <= b
    PROVE  /\ Span(a, n, s) <= b * s + (b - 1) * Gutter
           /\ Span(a, n, s) + Gutter <= b * (s + Gutter)
<1>1. (a + n) * (s + Gutter) <= b * (s + Gutter)
    BY Scale DEF Gutter
<1>2. Span(a, n, s) + Gutter = (a + n) * (s + Gutter)
    BY SMT DEF Span, Gutter
<1>3. b * (s + Gutter) = b * s + (b - 1) * Gutter + Gutter
    BY SMT DEF Gutter
<1> QED
    BY <1>1, <1>2, <1>3, SMT DEF Span, Gutter

\* A grid begins at the margin or to the right of it, ends as far from the other one,
\* and reaches down to where the footer begins.
LEMMA GridBounds ==
    ASSUME NEW sheet \in [w : Nat, h : Nat], NEW cols \in Nat \ {0}, NEW rows \in Nat \ {0},
           HasRoom(sheet, cols, rows)
    PROVE  LET g == NewGrid(sheet, cols, rows) IN
           /\ g.cellW \in Nat /\ g.cellH \in Nat /\ g.x \in Int
           /\ g.x >= SideMargin
           /\ g.x + cols * g.cellW + (cols - 1) * Gutter <= sheet.w - SideMargin
           /\ g.y + rows * g.cellH + (rows - 1) * Gutter <= sheet.h - Band
<1> DEFINE across == sheet.w - 2 * SideMargin - (cols - 1) * Gutter
           down   == sheet.h - 2 * Band - (rows - 1) * Gutter
           left   == sheet.w - (cols * (across \div cols) + (cols - 1) * Gutter)
<1>1. across \in Nat /\ down \in Nat
    BY DEF HasRoom, SideMargin, Band, Gutter
<1>2. /\ across \div cols \in Nat /\ cols * (across \div cols) <= across
      /\ down \div rows \in Nat /\ rows * (down \div rows) <= down
    BY <1>1, Division
<1>3. cols * (across \div cols) \in Nat /\ rows * (down \div rows) \in Nat
    BY <1>2, SMT
<1>4. left \in Int /\ left >= 2 * SideMargin
    BY <1>2, <1>3 DEF SideMargin, Gutter
<1>5. left \div 2 >= SideMargin /\ left \div 2 <= left - SideMargin
    BY <1>4, SMT DEF SideMargin
<1>6. /\ NewGrid(sheet, cols, rows).cellW = across \div cols
      /\ NewGrid(sheet, cols, rows).cellH = down \div rows
      /\ NewGrid(sheet, cols, rows).x = left \div 2
      /\ NewGrid(sheet, cols, rows).y = Band
    BY DEF NewGrid
<1> HIDE DEF across, down
<1> QED
    BY <1>1, <1>2, <1>3, <1>4, <1>5, <1>6, SMT DEF Band, Gutter, SideMargin, down

\* Every cell, of whatever span, lies between the margins, below the header and
\* above the footer.
THEOREM CellsOnPage ==
    ASSUME NEW sheet \in [w : Nat, h : Nat], NEW cols \in Nat \ {0}, NEW rows \in Nat \ {0},
           HasRoom(sheet, cols, rows),
           NEW col \in Nat, NEW row \in Nat, NEW w \in Nat, NEW h \in Nat,
           OnGrid(col, row, w, h, cols, rows)
    PROVE  LET g == NewGrid(sheet, cols, rows)
               cell == CellRect(g, col, row, w, h)
           IN  /\ SideMargin <= cell.x0 /\ cell.x1 <= sheet.w - SideMargin
               /\ HeaderRect(g).y1 <= cell.y0 /\ cell.y1 <= FooterRect(g).y0
               /\ FooterRect(g).y0 <= sheet.h - Band
<1> DEFINE g == NewGrid(sheet, cols, rows)
           cell == CellRect(g, col, row, w, h)
<1>1. /\ g.cellW \in Nat /\ g.cellH \in Nat /\ g.x \in Int
      /\ g.x >= SideMargin
      /\ g.x + cols * g.cellW + (cols - 1) * Gutter <= sheet.w - SideMargin
      /\ g.y + rows * g.cellH + (rows - 1) * Gutter <= sheet.h - Band
    BY GridBounds
<1>2. g.y = Band /\ g.rows = rows /\ g.h = sheet.h
    BY DEF NewGrid
<1>3. /\ Span(col, w, g.cellW) <= cols * g.cellW + (cols - 1) * Gutter
      /\ Span(row, h, g.cellH) <= rows * g.cellH + (rows - 1) * Gutter
    BY <1>1, SpanEnds DEF OnGrid
<1>4. /\ cell.x0 = g.x + col * (g.cellW + Gutter) /\ cell.x1 = g.x + Span(col, w, g.cellW)
      /\ cell.y0 = g.y + row * (g.cellH + Gutter) /\ cell.y1 = g.y + Span(row, h, g.cellH)
    BY <1>1, <1>2, SMT DEF CellRect, Rect, Span, Gutter, Band
<1>5. col * (g.cellW + Gutter) \in Nat /\ row * (g.cellH + Gutter) \in Nat
    BY <1>1, SMT DEF Gutter
<1>6. /\ HeaderRect(g).y1 = g.y
      /\ FooterRect(g).y0 = g.y + rows * g.cellH + (rows - 1) * Gutter
    BY <1>2 DEF HeaderRect, FooterRect, Rect
<1>7. /\ Span(col, w, g.cellW) \in Int /\ Span(row, h, g.cellH) \in Int
      /\ cols * g.cellW \in Int /\ rows * g.cellH \in Int
    BY <1>1, SMT DEF Span, Gutter
<1> HIDE DEF g, cell
<1>8. SideMargin <= cell.x0 /\ cell.x1 <= sheet.w - SideMargin
    BY <1>1, <1>3, <1>4, <1>5, <1>7, SMT DEF SideMargin, Gutter
<1>9. HeaderRect(g).y1 <= cell.y0 /\ cell.y1 <= FooterRect(g).y0
    BY <1>1, <1>2, <1>3, <1>4, <1>5, <1>6, <1>7, SMT DEF Band, Gutter
<1>10. FooterRect(g).y0 <= sheet.h - Band
    BY <1>1, <1>6
<1> QED
    BY <1>8, <1>9, <1>10 DEF g, cell

\* Cells of different columns or rows have no pixel in common, whatever they span.
THEOREM CellsApart ==
    ASSUME NEW sheet \in [w : Nat, h : Nat], NEW cols \in Nat \ {0}, NEW rows \in Nat \ {0},
           HasRoom(sheet, cols, rows),
           NEW col \in Nat, NEW row \in Nat, NEW w \in Nat, NEW h \in Nat,
           NEW col2 \in Nat, NEW row2 \in Nat, NEW w2 \in Nat, NEW h2 \in Nat,
           col + w <= col2 \/ row + h <= row2
    PROVE  LET g == NewGrid(sheet, cols, rows) IN
           Apart(CellRect(g, col, row, w, h), CellRect(g, col2, row2, w2, h2))
<1> DEFINE g == NewGrid(sheet, cols, rows)
           one == CellRect(g, col, row, w, h)
           two == CellRect(g, col2, row2, w2, h2)
<1>1. g.cellW \in Nat /\ g.cellH \in Nat /\ g.x \in Int /\ g.y \in Int
    BY GridBounds DEF NewGrid, Band
<1>2. /\ one.x1 = g.x + Span(col, w, g.cellW) /\ two.x0 = g.x + col2 * (g.cellW + Gutter)
      /\ one.y1 = g.y + Span(row, h, g.cellH) /\ two.y0 = g.y + row2 * (g.cellH + Gutter)
    BY <1>1, SMT DEF CellRect, Rect, Span, Gutter
<1>3. /\ Span(col, w, g.cellW) \in Int /\ col2 * (g.cellW + Gutter) \in Int
      /\ Span(row, h, g.cellH) \in Int /\ row2 * (g.cellH + Gutter) \in Int
    BY <1>1, SMT DEF Span, Gutter
<1> HIDE DEF g, one, two
<1>4. CASE col + w <= col2
    <2>1. Span(col, w, g.cellW) + Gutter <= col2 * (g.cellW + Gutter)
        BY <1>1, <1>4, SpanEnds
    <2>2. one.x1 <= two.x0
        BY <1>1, <1>2, <1>3, <2>1, SMT DEF Gutter
    <2> QED
        BY <2>2 DEF Apart, one, two, g
<1>5. CASE row + h <= row2
    <2>1. Span(row, h, g.cellH) + Gutter <= row2 * (g.cellH + Gutter)
        BY <1>1, <1>5, SpanEnds
    <2>2. one.y1 <= two.y0
        BY <1>1, <1>2, <1>3, <2>1, SMT DEF Gutter
    <2> QED
        BY <2>2 DEF Apart, one, two, g
<1> QED
    BY <1>4, <1>5

\* Induction, as a fact about sets of numbers.
LEMMA LeastNumber ==
    ASSUME NEW T, T \subseteq Nat, T # {}
    PROVE  \E m \in T : \A n \in T : m <= n
<1>1. IsWellFoundedOn(OpToRel(<,Nat), Nat)
    BY NatLessThanWellFounded
<1>2. PICK m \in T : \A n \in T : ~ (<<n, m>> \in OpToRel(<,Nat))
    BY <1>1, WFMin
<1>3. \A n \in T : ~(n < m)
    BY <1>2 DEF OpToRel
<1> QED
    BY <1>3

LEMMA Induction ==
    ASSUME NEW T, 0 \in T, \A n \in Nat : n \in T => n + 1 \in T
    PROVE  Nat \subseteq T
<1> SUFFICES ASSUME NEW x \in Nat, x \notin T PROVE FALSE
    OBVIOUS
<1>1. PICK m \in Nat \ T : \A n \in Nat \ T : m <= n
    BY LeastNumber
<1>2. m - 1 \in Nat /\ m - 1 \in T
    BY <1>1
<1>3. (m - 1) + 1 \in T
    BY <1>2
<1> QED
    BY <1>1, <1>3
-----------------------------------------------------------------------------
\* Folds.
LEMMA MaxOf ==
    ASSUME NEW n \in Nat, NEW t \in SUBSET (1..n), t # {}
    PROVE  Max(t) \in t /\ \A x \in t : x <= Max(t)
<1> DEFINE T == {n - x : x \in t}
<1>1. T \subseteq Nat /\ T # {}
    <2>1. \A x \in t : x \in 1..n
        OBVIOUS
    <2>2. \A x \in t : n - x \in Nat
        BY <2>1
    <2> QED
        BY <2>2
<1>2. PICK m \in T : \A k \in T : m <= k
    <2> HIDE DEF T
    <2> QED
        BY <1>1, LeastNumber
<1>3. PICK x \in t : m = n - x
    BY <1>2
<1>4. \A y \in t : x >= y
    <2> SUFFICES ASSUME NEW y \in t PROVE x >= y
        OBVIOUS
    <2>1. n - y \in T
        OBVIOUS
    <2>2. n - x <= n - y
        BY <1>2, <1>3, <2>1
    <2> QED
        BY <2>2
<1>5. Max(t) \in t /\ \A y \in t : Max(t) >= y
    BY <1>4 DEF Max
<1> QED
    BY <1>5

LEMMA MaxOfInitial ==
    ASSUME NEW n \in Nat, NEW m \in 1..n
    PROVE  1..m \in SUBSET (1..n) /\ 1..m # {} /\ Max(1..m) = m /\ (1..m) \ {m} = 1..m - 1
<1>1. 1..m \in SUBSET (1..n) /\ 1..m # {} /\ m \in 1..m /\ (1..m) \ {m} = 1..m - 1
    OBVIOUS
<1>2. Max(1..m) \in 1..m /\ \A x \in 1..m : x <= Max(1..m)
    BY <1>1, MaxOf
<1>3. Max(1..m) = m
    BY <1>1, <1>2
<1> QED
    BY <1>1, <1>3

\* A function on the sets of indices up to n that steps as FoldLeft does.
FoldsAs(g, A, base, n, step) ==
    /\ g \in [SUBSET (1..n) -> A]
    /\ \A t \in SUBSET (1..n) :
          g[t] = IF t = {} THEN base ELSE step[<<g[t \ {Max(t)}], Max(t)>>]

LEMMA FoldExists ==
    ASSUME NEW A, NEW base \in A, NEW n \in Nat, NEW step \in [A \X (1..n) -> A]
    PROVE  \E g : FoldsAs(g, A, base, n, step)
<1> DEFINE Small(k) == {t \in SUBSET (1..n) : t \subseteq 1..k}
           Fold(g, k) == /\ g \in [Small(k) -> A]
                         /\ \A t \in Small(k) :
                               g[t] = IF t = {} THEN base ELSE step[<<g[t \ {Max(t)}], Max(t)>>]
           T == {k \in Nat : \E g : Fold(g, k)}
<1>1. 0 \in T
    <2> DEFINE g == [t \in Small(0) |-> base]
    <2>1. \A t \in Small(0) : t = {}
        OBVIOUS
    <2>2. Fold(g, 0)
        BY <2>1
    <2> QED
        BY <2>2
<1>2. ASSUME NEW k \in Nat, k \in T PROVE k + 1 \in T
    <2>1. PICK g : Fold(g, k)
        BY <1>2
    <2> DEFINE h == [t \in Small(k + 1) |->
                        IF t \in Small(k) THEN g[t] ELSE step[<<g[t \ {Max(t)}], Max(t)>>]]
    <2>2. ASSUME NEW t \in Small(k + 1)
          PROVE  /\ t # {} => Max(t) \in 1..n /\ t \ {Max(t)} \in Small(k)
                 /\ {} \in Small(k)
        <3>1. CASE t = {}
            BY <3>1
        <3>2. CASE t # {}
            <4>1. Max(t) \in t /\ \A x \in t : x <= Max(t)
                BY <3>2, MaxOf
            <4>2. t \subseteq 1..k + 1 /\ t \subseteq 1..n
                OBVIOUS
            <4>3. ASSUME NEW x \in t, x # Max(t) PROVE x \in 1..k
                <5>1. x \in 1..n /\ x \in 1..k + 1 /\ Max(t) \in 1..n /\ Max(t) \in 1..k + 1
                    BY <4>1, <4>2
                <5>2. x <= Max(t) /\ x # Max(t)
                    BY <4>1, <4>3
                <5> HIDE DEF h, Small
                <5> QED
                    BY <5>1, <5>2
            <4> HIDE DEF h
            <4>4. t \ {Max(t)} \subseteq 1..k
                BY <4>3
            <4> QED
                BY <4>1, <4>2, <4>4
        <3> QED
            BY <3>1, <3>2
    <2>3. \A t \in Small(k) : t \in Small(k + 1)
        OBVIOUS
    <2>4. h \in [Small(k + 1) -> A]
        <3> SUFFICES ASSUME NEW t \in Small(k + 1)
                     PROVE  (IF t \in Small(k) THEN g[t] ELSE step[<<g[t \ {Max(t)}], Max(t)>>]) \in A
            OBVIOUS
        <3>1. CASE t \in Small(k)
            BY <2>1, <3>1
        <3>2. CASE t \notin Small(k)
            <4>1. t # {}
                BY <2>2, <3>2
            <4>2. g[t \ {Max(t)}] \in A /\ Max(t) \in 1..n
                BY <2>1, <2>2, <4>1
            <4> HIDE DEF Small, h
            <4> QED
                BY <3>2, <4>2
        <3> QED
            BY <3>1, <3>2
    <2>5. ASSUME NEW t \in Small(k + 1)
          PROVE  h[t] = IF t = {} THEN base ELSE step[<<h[t \ {Max(t)}], Max(t)>>]
        <3>1. CASE t = {}
            <4>1. t \in Small(k)
                BY <2>2, <3>1
            <4>2. g[t] = base
                BY <2>1, <3>1, <4>1
            <4> HIDE DEF Small
            <4> QED
                BY <3>1, <4>1, <4>2
        <3>2. CASE t # {}
            <4>1. t \ {Max(t)} \in Small(k)
                BY <2>2, <3>2
            <4>2. h[t \ {Max(t)}] = g[t \ {Max(t)}]
                <5> HIDE DEF Small
                <5> QED
                    BY <2>3, <4>1
            <4>3. t \in Small(k) => g[t] = step[<<g[t \ {Max(t)}], Max(t)>>]
                <5> HIDE DEF Small, h
                <5> QED
                    BY <2>1, <3>2, Zenon
            <4>4. h[t] = IF t \in Small(k) THEN g[t] ELSE step[<<g[t \ {Max(t)}], Max(t)>>]
                OBVIOUS
            <4> HIDE DEF Small, h
            <4> QED
                BY <3>2, <4>2, <4>3, <4>4
        <3> QED
            BY <3>1, <3>2
    <2> HIDE DEF h, Small
    <2>6. Fold(h, k + 1)
        BY <2>4, <2>5
    <2> HIDE DEF Fold
    <2>7. k + 1 \in Nat /\ \E f : Fold(f, k + 1)
        BY <2>6
    <2> QED
        BY <2>7
<1>3. n \in T
    <2> HIDE DEF T
    <2> QED
        BY <1>1, <1>2, Induction
<1>4. PICK g : Fold(g, n)
    BY <1>3
<1>5. Small(n) = SUBSET (1..n)
    OBVIOUS
<1>6. /\ g \in [SUBSET (1..n) -> A]
      /\ \A t \in SUBSET (1..n) :
            g[t] = IF t = {} THEN base ELSE step[<<g[t \ {Max(t)}], Max(t)>>]
    <2> HIDE DEF Small
    <2> QED
        BY <1>4, <1>5
<1> QED
    BY <1>6 DEF FoldsAs

\* The states such a function goes through on the initial segments.
Steps(F, A, base, n, step) ==
    /\ F \in [0..n -> A]
    /\ F[0] = base
    /\ \A m \in 1..n : F[m] = step[<<F[m - 1], m>>]

Reaches(x, A, base, n, step) == \E F : Steps(F, A, base, n, step) /\ F[n] = x

\* A function that does so as long as it stays in A.
Follows(h, A, base, n, step) ==
    /\ h[{}] = base
    /\ \A t \in SUBSET (1..n) : t # {} /\ h[t \ {Max(t)}] \in A =>
          h[t] = step[<<h[t \ {Max(t)}], Max(t)>>]

LEMMA Chain ==
    ASSUME NEW A, NEW base \in A, NEW n \in Nat, NEW step \in [A \X (1..n) -> A],
           NEW h, Follows(h, A, base, n, step)
    PROVE  Reaches(h[1..n], A, base, n, step)
<1> DEFINE F == [m \in 0..n |-> h[1..m]]
           T == {m \in Nat : m \in 0..n => F[m] \in A}
<1>1. F[0] = base
    <2>1. 0 \in 0..n /\ 1..0 = {}
        OBVIOUS
    <2> QED
        BY <2>1 DEF Follows
<1>2. ASSUME NEW m \in 1..n, F[m - 1] \in A
      PROVE  F[m] = step[<<F[m - 1], m>>] /\ F[m] \in A
    <2>1. m \in 0..n /\ m - 1 \in 0..n
        OBVIOUS
    <2>2. F[m] = h[1..m] /\ F[m - 1] = h[1..m - 1]
        BY <2>1
    <2>3. 1..m \in SUBSET (1..n) /\ 1..m # {} /\ Max(1..m) = m /\ (1..m) \ {m} = 1..m - 1
        BY MaxOfInitial
    <2> HIDE DEF F
    <2>4. F[m] = step[<<F[m - 1], m>>]
        BY <1>2, <2>2, <2>3 DEF Follows
    <2>5. <<F[m - 1], m>> \in A \X (1..n)
        BY <1>2
    <2> QED
        BY <2>4, <2>5
<1>3. n \in 0..n /\ 0 \in 0..n
    OBVIOUS
<1>4. F = [m \in 0..n |-> F[m]] /\ F[n] = h[1..n]
    BY <1>3
<1> HIDE DEF F
<1>5. 0 \in T
    BY <1>1
<1>6. ASSUME NEW m \in Nat, m \in T PROVE m + 1 \in T
    <2> SUFFICES ASSUME m + 1 \in 0..n PROVE F[m + 1] \in A
        OBVIOUS
    <2>1. m + 1 \in 1..n /\ (m + 1) - 1 = m /\ m \in 0..n
        OBVIOUS
    <2> QED
        BY <1>2, <1>6, <2>1
<1>7. Nat \subseteq T
    <2> HIDE DEF T
    <2> QED
        BY <1>5, <1>6, Induction
<1>8. \A m \in 0..n : F[m] \in A
    BY <1>7
<1>9. \A m \in 1..n : F[m] = step[<<F[m - 1], m>>]
    <2> SUFFICES ASSUME NEW m \in 1..n PROVE F[m] = step[<<F[m - 1], m>>]
        OBVIOUS
    <2>1. m - 1 \in 0..n
        OBVIOUS
    <2> QED
        BY <1>2, <1>8, <2>1
<1>10. F \in [0..n -> A]
    BY <1>4, <1>8
<1> QED
    BY <1>1, <1>4, <1>9, <1>10 DEF Steps, Reaches

\* The sum of a sequence.
LEMMA SumSteps ==
    ASSUME NEW seq \in Seq(Int)
    PROVE  \E F \in [0..Len(seq) -> Int] :
              /\ F[0] = 0
              /\ \A m \in 1..Len(seq) : F[m] = F[m - 1] + seq[m]
              /\ FoldLeft(+, 0, seq) = F[Len(seq)]
<1> DEFINE n == Len(seq)
           P(g) == g = [t \in SUBSET (1..n) |->
                          IF t = {} THEN 0 ELSE g[t \ {Max(t)}] + seq[Max(t)]]
           step == [p \in Int \X (1..n) |-> p[1] + seq[p[2]]]
           h == CHOOSE f : P(f)
<1>1. n \in Nat /\ DOMAIN seq = 1..n /\ \A i \in 1..n : seq[i] \in Int
    BY LenProperties, ElementOfSeq
<1>2. step \in [Int \X (1..n) -> Int]
    BY <1>1
<1>3. \A a \in Int, m \in 1..n : step[<<a, m>>] = a + seq[m]
    OBVIOUS
<1>4. ASSUME NEW t \in SUBSET (1..n), t # {}
      PROVE  Max(t) \in 1..n /\ t \ {Max(t)} \in SUBSET (1..n)
    <2> HIDE DEF n
    <2> QED
        BY <1>1, <1>4, MaxOf
<1>5. FoldLeft(+, 0, seq) = h[1..n]
    BY <1>1 DEF FoldLeft, MapThenFoldSet, Max
<1> HIDE DEF step, n
<1>6. PICK g : FoldsAs(g, Int, 0, n, step)
    <2> DEFINE A == Int
    <2>1. 0 \in A /\ step \in [A \X (1..n) -> A] /\ n \in Nat
        BY <1>1, <1>2
    <2> HIDE DEF A
    <2>2. \E g : FoldsAs(g, A, 0, n, step)
        BY <2>1, FoldExists
    <2> QED
        BY <2>2 DEF A
<1>7. P(g)
    <2>1. ASSUME NEW t \in SUBSET (1..n), t # {}
          PROVE  step[<<g[t \ {Max(t)}], Max(t)>>] = g[t \ {Max(t)}] + seq[Max(t)]
        BY <1>3, <1>4, <1>6, <2>1 DEF FoldsAs
    <2>2. g = [t \in SUBSET (1..n) |-> g[t]]
        BY <1>6 DEF FoldsAs
    <2> QED
        BY <1>6, <2>1, <2>2 DEF FoldsAs
<1>8. P(h)
    <2> HIDE DEF P
    <2> QED
        BY <1>7
<1> HIDE DEF h
<1>9. Follows(h, Int, 0, n, step)
    BY <1>3, <1>4, <1>8 DEF Follows
<1>10. PICK F : Steps(F, Int, 0, n, step) /\ F[n] = h[1..n]
    <2> DEFINE A == Int
    <2>1. 0 \in A /\ step \in [A \X (1..n) -> A]
        BY <1>2
    <2>2. Follows(h, A, 0, n, step)
        BY <1>9
    <2> HIDE DEF A
    <2>3. Reaches(h[1..n], A, 0, n, step)
        BY <1>1, <2>1, <2>2, Chain
    <2> QED
        BY <2>3 DEF A, Reaches
<1>11. ASSUME NEW m \in 1..n PROVE F[m] = F[m - 1] + seq[m]
    <2>1. m - 1 \in 0..n
        BY <1>1
    <2> QED
        BY <1>3, <1>10, <2>1 DEF Steps
<1> QED
    BY <1>5, <1>10, <1>11 DEF Steps, n
-----------------------------------------------------------------------------
\* The order of events, and a set of them in that order.
LEMMA Titles == DOMAIN Words \subseteq Int
BY AgendaAssumption

LEMMA PrecedesOrder ==
    ASSUME NEW a \in Event, NEW b \in Event, NEW c \in Event
    PROVE  /\ ~Precedes(a, a)
           /\ Precedes(a, b) /\ Precedes(b, c) => Precedes(a, c)
           /\ a = b \/ Precedes(a, b) \/ Precedes(b, a)
<1>1. /\ a.title \in Int /\ b.title \in Int /\ c.title \in Int
      /\ a.start \in Int /\ b.start \in Int /\ c.start \in Int
      /\ a.end \in Int /\ b.end \in Int /\ c.end \in Int
    BY Titles DEF Event
<1>2. a.start = b.start /\ a.end = b.end /\ a.title = b.title => a = b
    BY DEF Event
<1> QED
    BY <1>1, <1>2 DEF Precedes

\* How many events of a set come before one of them.
Rank(S, e) == Cardinality({f \in S : Precedes(f, e)})

LEMMA RankOrder ==
    ASSUME NEW S, IsFiniteSet(S), S \subseteq Event, NEW a \in S, NEW b \in S
    PROVE  /\ Rank(S, a) \in 0..Cardinality(S) - 1
           /\ Precedes(a, b) <=> Rank(S, a) < Rank(S, b)
<1> DEFINE Before(e) == {f \in S : Precedes(f, e)}
<1>1. ASSUME NEW e \in S
      PROVE  IsFiniteSet(Before(e)) /\ Rank(S, e) \in Nat /\ Rank(S, e) < Cardinality(S)
    <2>1. Before(e) \in SUBSET S /\ e \notin Before(e) /\ e \in Event
        BY PrecedesOrder
    <2>2. IsFiniteSet(Before(e)) /\ Cardinality(Before(e)) <= Cardinality(S)
          /\ (Cardinality(S) = Cardinality(Before(e)) => S = Before(e))
        BY <2>1, FS_Subset
    <2>3. Cardinality(Before(e)) \in Nat /\ Cardinality(S) \in Nat /\ S # Before(e)
        BY <2>1, <2>2, FS_CardinalityType
    <2> QED
        BY <2>2, <2>3 DEF Rank
<1>2. ASSUME NEW d \in S, NEW e \in S, Precedes(d, e)
      PROVE  Rank(S, d) < Rank(S, e)
    <2>1. Before(d) \in SUBSET Before(e) /\ d \in Before(e) /\ d \notin Before(d)
        BY <1>2, PrecedesOrder
    <2>2. Cardinality(Before(d)) <= Cardinality(Before(e))
          /\ (Cardinality(Before(e)) = Cardinality(Before(d)) => Before(e) = Before(d))
        BY <1>1, <2>1, FS_Subset
    <2>3. Rank(S, d) = Cardinality(Before(d)) /\ Rank(S, e) = Cardinality(Before(e))
        BY DEF Rank
    <2>4. Before(e) # Before(d)
        BY <2>1
    <2> HIDE DEF Before
    <2> QED
        BY <1>1, <2>2, <2>3, <2>4
<1>3. Cardinality(S) \in Nat
    BY FS_CardinalityType
<1> HIDE DEF Before
<1>4. a = b \/ Precedes(a, b) \/ Precedes(b, a)
    BY PrecedesOrder
<1>5. Rank(S, a) < Rank(S, b) => Precedes(a, b)
    BY <1>1, <1>2, <1>4
<1> QED
    BY <1>1, <1>2, <1>3, <1>5

LEMMA SortedIs ==
    ASSUME NEW S, IsFiniteSet(S), S \subseteq Event
    PROVE  /\ Sorted(S) \in Seq(S) /\ Len(Sorted(S)) = Cardinality(S) /\ Cardinality(S) \in Nat
           /\ \A i \in 1..Cardinality(S) : Rank(S, Sorted(S)[i]) = i - 1
           /\ \A e \in S : \E i \in 1..Cardinality(S) : Sorted(S)[i] = e
<1> DEFINE n == Cardinality(S)
           rank == [e \in S |-> Rank(S, e)]
<1>1. n \in Nat
    BY FS_CardinalityType
<1>2. rank \in Injection(S, 0..n - 1)
    <2>1. rank \in [S -> 0..n - 1]
        BY RankOrder
    <2>2. ASSUME NEW a \in S, NEW b \in S, Rank(S, a) = Rank(S, b) PROVE a = b
        <3>1. ~Precedes(a, b) /\ ~Precedes(b, a)
            <4>1. Rank(S, a) \in Int
                BY RankOrder
            <4> QED
                BY <2>2, <4>1, RankOrder
        <3> QED
            BY <3>1, PrecedesOrder
    <2> QED
        BY <2>1, <2>2 DEF Injection, IsInjective
<1>3. IsFiniteSet(0..n - 1) /\ Cardinality(0..n - 1) = n
    BY <1>1, FS_Interval
<1>4. rank \in Surjection(S, 0..n - 1)
    BY <1>2, <1>3, FS_Injection
<1>5. \A i \in 1..n : \E e \in S : Rank(S, e) = i - 1
    <2> SUFFICES ASSUME NEW i \in 1..n PROVE \E e \in S : Rank(S, e) = i - 1
        OBVIOUS
    <2>1. i - 1 \in 0..n - 1
        BY <1>1
    <2> QED
        BY <1>4, <2>1 DEF Surjection
<1>6. Sorted(S) = [i \in 1..n |-> CHOOSE e \in S : Rank(S, e) = i - 1]
    BY DEF Sorted, Rank
<1>7. \A i \in 1..n : Sorted(S)[i] \in S /\ Rank(S, Sorted(S)[i]) = i - 1
    BY <1>5, <1>6
<1>8. ASSUME NEW e \in S PROVE \E i \in 1..n : Sorted(S)[i] = e
    <2>1. Rank(S, e) \in 0..n - 1
        BY RankOrder
    <2>2. Rank(S, e) + 1 \in 1..n /\ (Rank(S, e) + 1) - 1 = Rank(S, e)
        BY <1>1, <2>1
    <2>3. Rank(S, Sorted(S)[Rank(S, e) + 1]) = Rank(S, e) /\ Sorted(S)[Rank(S, e) + 1] \in S
        BY <1>7, <2>2
    <2>4. Sorted(S)[Rank(S, e) + 1] = e
        BY <1>2, <2>3 DEF Injection, IsInjective
    <2> QED
        BY <2>2, <2>4
<1> HIDE DEF n
<1>9. Sorted(S) \in Seq(S) /\ Len(Sorted(S)) = n
    BY <1>1, <1>6, <1>7
<1> QED
    BY <1>1, <1>7, <1>8, <1>9 DEF n

\* Upcoming lists the first n of the events that have not ended.
Live(events, from) == {e \in events : ~Ended(e, from)}

LEMMA UpcomingIs ==
    ASSUME NEW E, IsFiniteSet(E), E \subseteq Event, NEW t \in Int, NEW n \in Nat
    PROVE  LET up == Upcoming(E, t, n)
               live == Live(E, t)
           IN  /\ up \in Seq(live) /\ Cardinality(live) \in Nat
               /\ Len(up) = IF n < Cardinality(live) THEN n ELSE Cardinality(live)
               /\ \A i \in DOMAIN up : Rank(live, up[i]) = i - 1
               /\ \A e \in live : Rank(live, e) < n => \E i \in DOMAIN up : up[i] = e
               /\ IsFiniteSet(live) /\ live \subseteq Event
<1> DEFINE live == Live(E, t)
           out == Sorted(live)
           m == IF n < Len(out) THEN n ELSE Len(out)
           up == Upcoming(E, t, n)
<1>1. live \in SUBSET E
    BY DEF Live
<1>2. IsFiniteSet(live) /\ live \subseteq Event
    BY <1>1, FS_Subset
<1>3. /\ out \in Seq(live) /\ Len(out) = Cardinality(live) /\ Cardinality(live) \in Nat
      /\ \A i \in 1..Cardinality(live) : Rank(live, out[i]) = i - 1
      /\ \A e \in live : \E i \in 1..Cardinality(live) : out[i] = e
    BY <1>2, SortedIs
<1>4. up = SubSeq(out, 1, m)
    BY DEF Upcoming, Live
<1> HIDE DEF live, out, up
<1>5. m \in Nat /\ m <= Len(out)
    BY <1>3
<1>6. up \in Seq(live) /\ Len(up) = m /\ \A i \in 1..m : up[i] = out[i]
    BY <1>3, <1>4, <1>5
<1>7. ASSUME NEW e \in live, Rank(live, e) < n
      PROVE  \E i \in DOMAIN up : up[i] = e
    <2>1. PICK i \in 1..Cardinality(live) : out[i] = e
        BY <1>3
    <2>2. i - 1 < n
        BY <1>3, <1>7, <2>1
    <2>3. i \in 1..m
        BY <1>3, <2>2
    <2> QED
        BY <1>6, <2>1, <2>3
<1>8. ASSUME NEW i \in DOMAIN up PROVE Rank(live, up[i]) = i - 1
    <2>1. i \in 1..m
        BY <1>6
    <2>2. i \in 1..Cardinality(live) /\ up[i] = out[i]
        BY <1>3, <1>5, <1>6, <2>1
    <2> QED
        BY <1>3, <2>2, Zenon
<1>9. Len(up) = IF n < Cardinality(live) THEN n ELSE Cardinality(live)
    BY <1>3, <1>6
<1> QED
    BY <1>2, <1>3, <1>6, <1>7, <1>8, <1>9 DEF live, up
-----------------------------------------------------------------------------
\* The words of a title on its lines.
LineType == [from : Int, to : Int, dots : BOOLEAN]
WrapState == [lines : Seq(LineType), cur : Seq(LineType), at : Int, full : BOOLEAN]
WrapStart == [lines |-> <<>>, cur |-> <<>>, at |-> 1, full |-> FALSE]

LEMMA PlaceType ==
    ASSUME NEW width \in Int, NEW st \in WrapState, NEW n \in Nat
    PROVE  Place(width, st, n) \in WrapState
<1> DEFINE word == Line(st.at, st.at + n - 1)
           try == IF st.cur = <<>> THEN word ELSE [st.cur[1] EXCEPT !.to = word.to]
<1>1. /\ st.lines \in Seq(LineType) /\ st.cur \in Seq(LineType) /\ st.at \in Int
      /\ st.full \in BOOLEAN
    BY DEF WrapState
<1>2. word \in LineType /\ word.to + 2 \in Int
    BY <1>1 DEF LineType, Line
<1>3. st.cur # <<>> => st.cur[1] \in LineType /\ st.cur[1].from \in Int
    <2>1. st.cur # <<>> => Len(st.cur) \in Nat \ {0} /\ 1 \in 1..Len(st.cur)
        BY <1>1, EmptySeq
    <2>2. st.cur # <<>> => st.cur[1] \in LineType
        BY <1>1, <2>1, ElementOfSeq
    <2> QED
        BY <2>2 DEF LineType
<1>4. try \in LineType
    <2>1. CASE st.cur = <<>>
        BY <1>2, <2>1
    <2>2. CASE st.cur # <<>>
        <3>1. word.to \in Int
            BY <1>2 DEF LineType
        <3> HIDE DEF word
        <3> QED
            BY <1>3, <2>2, <3>1 DEF LineType
    <2> QED
        BY <2>1, <2>2
<1>5. ASSUME NEW from \in Int PROVE Truncated(from, width) \in LineType
    BY DEF Truncated, LineType
<1>6. st.lines \o st.cur \in Seq(LineType) /\ Len(st.lines \o st.cur) \in Nat
    BY <1>1, ConcatProperties, LenProperties
<1> DEFINE cut == Append(st.lines, Truncated(st.cur[1].from, width))
           own == Append(st.lines \o st.cur, Truncated(st.at, width))
<1>7. st.cur # <<>> => cut \in Seq(LineType)
    BY <1>1, <1>3, <1>5
<1>8. own \in Seq(LineType)
    BY <1>1, <1>5, <1>6
<1>9. <<>> \in Seq(LineType) /\ <<try>> \in Seq(LineType) /\ <<word>> \in Seq(LineType)
    BY <1>2, <1>4
<1> HIDE DEF word, try, cut, own
<1>10. Place(width, st, n) =
          CASE st.full -> st
            [] ~st.full /\ Runes(try) <= width -> [st EXCEPT !.cur = <<try>>, !.at = word.to + 2]
            [] ~st.full /\ Runes(try) > width /\ st.cur # <<>>
                 /\ Len(st.lines \o st.cur) = MaxTitleLines ->
                  [st EXCEPT !.lines = cut, !.cur = <<>>, !.full = TRUE]
            [] ~st.full /\ Runes(try) > width /\ n <= width
                 /\ ~(st.cur # <<>> /\ Len(st.lines \o st.cur) = MaxTitleLines) ->
                  [st EXCEPT !.lines = st.lines \o st.cur, !.cur = <<word>>, !.at = word.to + 2]
            [] OTHER ->
                  [st EXCEPT !.lines = own, !.cur = <<>>, !.at = word.to + 2,
                             !.full = Len(st.lines \o st.cur) + 1 = MaxTitleLines]
    BY DEF Place, word, try, cut, own
<1> QED
    BY <1>1, <1>2, <1>6, <1>7, <1>8, <1>9, <1>10 DEF WrapState

LEMMA WrapSteps ==
    ASSUME NEW width \in Int, NEW words \in Seq(Nat \ {0}), words # <<>>
    PROVE  \E F \in [0..Len(words) -> WrapState] :
              /\ F[0] = WrapStart
              /\ \A m \in 1..Len(words) : F[m] = Place(width, F[m - 1], words[m])
              /\ WrapToWidth(words, width) = F[Len(words)].lines \o F[Len(words)].cur
<1> DEFINE n == Len(words)
           P(g) == g = [t \in SUBSET (1..n) |->
                          IF t = {} THEN WrapStart
                          ELSE Place(width, g[t \ {Max(t)}], words[Max(t)])]
           step == [p \in WrapState \X (1..n) |-> Place(width, p[1], words[p[2]])]
<1>1. n \in Nat /\ DOMAIN words = 1..n /\ \A i \in 1..n : words[i] \in Nat
    BY LenProperties, ElementOfSeq
<1>2. WrapStart \in WrapState
    BY EmptySeq DEF WrapStart, WrapState
<1>3. step \in [WrapState \X (1..n) -> WrapState]
    BY <1>1, PlaceType
<1>4. PICK g : FoldsAs(g, WrapState, WrapStart, n, step)
    <2> HIDE DEF step, n
    <2> QED
        BY <1>1, <1>2, <1>3, FoldExists
<1>5. P(g)
    <2>1. ASSUME NEW t \in SUBSET (1..n), t # {}
          PROVE  step[<<g[t \ {Max(t)}], Max(t)>>] = Place(width, g[t \ {Max(t)}], words[Max(t)])
        <3>1. Max(t) \in 1..n /\ t \ {Max(t)} \in SUBSET (1..n)
            <4> HIDE DEF n
            <4> QED
                BY <1>1, <2>1, MaxOf
        <3>2. g[t \ {Max(t)}] \in WrapState
            BY <1>4, <3>1 DEF FoldsAs
        <3>3. <<g[t \ {Max(t)}], Max(t)>> \in WrapState \X (1..n)
            BY <3>1, <3>2
        <3> HIDE DEF n
        <3> QED
            BY <3>3
    <2>2. g = [t \in SUBSET (1..n) |-> g[t]]
        BY <1>4 DEF FoldsAs
    <2> HIDE DEF step, n
    <2> QED
        BY <1>4, <2>1, <2>2 DEF FoldsAs
<1> DEFINE h == CHOOSE f : P(f)
<1>6. P(h)
    <2> HIDE DEF P
    <2> QED
        BY <1>5, SMTT(60)
<1>7. WrapToWidth(words, width) = h[1..n].lines \o h[1..n].cur
    BY <1>1 DEF WrapToWidth, FoldLeft, MapThenFoldSet, WrapStart, Max
<1> HIDE DEF h, n
<1>8. Follows(h, WrapState, WrapStart, n, step)
    <2>1. ASSUME NEW t \in SUBSET (1..n), t # {}, h[t \ {Max(t)}] \in WrapState
          PROVE  h[t] = step[<<h[t \ {Max(t)}], Max(t)>>]
        <3>1. Max(t) \in 1..n /\ t \ {Max(t)} \in SUBSET (1..n)
            BY <1>1, <2>1, MaxOf
        <3>2. <<h[t \ {Max(t)}], Max(t)>> \in WrapState \X (1..n)
            BY <2>1, <3>1
        <3> QED
            BY <1>6, <2>1, <3>2
    <2> HIDE DEF step
    <2> QED
        BY <1>6, <2>1 DEF Follows
<1>9. \A a \in WrapState, m \in 1..n : step[<<a, m>>] = Place(width, a, words[m])
    OBVIOUS
<1> HIDE DEF P, step
<1>10. PICK F : Steps(F, WrapState, WrapStart, n, step) /\ F[n] = h[1..n]
    <2>1. Reaches(h[1..n], WrapState, WrapStart, n, step)
        BY <1>1, <1>2, <1>3, <1>8, Chain
    <2> QED
        BY <2>1 DEF Reaches
<1>11. ASSUME NEW m \in 1..n PROVE F[m] = Place(width, F[m - 1], words[m])
    <2>1. m - 1 \in 0..n
        BY <1>1
    <2> QED
        BY <1>9, <1>10, <2>1 DEF Steps
<1> QED
    BY <1>7, <1>10, <1>11 DEF Steps, n

\* After m words of sum runes in all there is nothing, or a line that takes words, or
\* a cut line, or a line and one that takes words, or two lines the last of which is
\* cut.
Good(l, width) == l \in LineType /\ Runes(l) <= width
Joined(a, b, first) == b.from = 2 + IF a.dots THEN first ELSE a.to
Open(st, c, m, sum) ==
    /\ st.cur = <<c>> /\ st.full = FALSE /\ c.dots = FALSE
    /\ c.to = sum + m - 1 /\ st.at = sum + m + 1
Wrapped(st, width, m, sum, first) ==
    \/ m = 0 /\ sum = 0 /\ st = WrapStart
    \/ m > 0 /\ \E c : /\ st.lines = <<>> /\ Open(st, c, m, sum)
                       /\ c.from = 1 /\ Good(c, width)
    \/ m > 0 /\ \E a : /\ st.lines = <<a>> /\ st.cur = <<>> /\ st.full = FALSE
                       /\ st.at = sum + m + 1 /\ st.at = first + 2
                       /\ a.from = 1 /\ a.dots = TRUE /\ Good(a, width)
    \/ m > 0 /\ \E a, c : /\ st.lines = <<a>> /\ Open(st, c, m, sum)
                          /\ a.from = 1 /\ Joined(a, c, first) /\ Good(a, width) /\ Good(c, width)
    \/ m > 0 /\ \E a, b : /\ st.lines = <<a, b>> /\ st.cur = <<>> /\ st.full = TRUE
                          /\ a.from = 1 /\ Joined(a, b, first) /\ b.dots = TRUE
                          /\ Good(a, width) /\ Good(b, width)

LEMMA ShortSequences ==
    ASSUME NEW a, NEW b
    PROVE  /\ <<>> \o <<>> = <<>> /\ Len(<<>>) = 0
           /\ <<>> \o <<a>> = <<a>> /\ Len(<<a>>) = 1 /\ <<a>> \o <<>> = <<a>>
           /\ <<a>> \o <<b>> = <<a, b>> /\ Len(<<a, b>>) = 2 /\ <<a, b>> \o <<>> = <<a, b>>
           /\ Append(<<>>, a) = <<a>> /\ Append(<<a>>, b) = <<a, b>>
           /\ <<a>> # <<>> /\ <<a, b>> # <<>>
<1> DEFINE S == {a, b}
<1>1. <<>> \in Seq(S) /\ <<a>> \in Seq(S) /\ <<b>> \in Seq(S) /\ <<a, b>> \in Seq(S)
    OBVIOUS
<1>2. Len(<<>>) = 0 /\ Len(<<a>>) = 1 /\ Len(<<a, b>>) = 2
    OBVIOUS
<1>3. <<>> \o <<>> = <<>> /\ <<>> \o <<a>> = <<a>> /\ <<a>> \o <<>> = <<a>> /\ <<a, b>> \o <<>> = <<a, b>>
    BY <1>1, ConcatEmptySeq
<1>4. Append(<<a>>, b) = <<a, b>>
    <2> DEFINE s == Append(<<a>>, b)
    <2>1. <<a>> \in Seq(S) /\ b \in S
        BY <1>1
    <2>2. s \in Seq(S) /\ Len(s) = 2 /\ s[1] = a /\ s[2] = b
        <3>1. Append(<<a>>, b) \in Seq(S)
            BY <2>1, AppendProperties
        <3>2. Len(Append(<<a>>, b)) = Len(<<a>>) + 1
            BY <2>1, AppendProperties
        <3>3. Append(<<a>>, b)[Len(<<a>>) + 1] = b
            BY <2>1, AppendProperties
        <3>4. \A i \in 1..Len(<<a>>) : Append(<<a>>, b)[i] = <<a>>[i]
            BY <2>1, AppendProperties
        <3>5. 1 \in 1..1
            OBVIOUS
        <3> QED
            BY <1>2, <3>1, <3>2, <3>3, <3>4, <3>5
    <2> HIDE DEF s
    <2>3. \A i \in 1..2 : s[i] = <<a, b>>[i]
        BY <2>2
    <2> QED
        BY <1>1, <1>2, <2>2, <2>3, SeqEqual DEF s
<1>5. Append(<<>>, a) = <<a>>
    OBVIOUS
<1>6. Append(<<a>>, b) = <<a>> \o <<b>>
    BY <1>1, AppendIsConcat
<1>7. <<a>> # <<>> /\ <<a, b>> # <<>>
    BY <1>2
<1> QED
    BY <1>2, <1>3, <1>4, <1>5, <1>6, <1>7

LEMMA CutIsGood ==
    ASSUME NEW width \in Int, NEW from \in Int
    PROVE  /\ Good(Truncated(from, width), width) /\ Truncated(from, width).dots = TRUE
           /\ Truncated(from, width).from = from
BY DEF Good, Truncated, Runes, LineType

LEMMA PlaceKeeps ==
    ASSUME NEW width \in Int, NEW st \in WrapState, NEW m \in Nat, NEW sum \in Nat,
           NEW n \in Nat \ {0}, NEW first \in Nat, m = 0 => n = first,
           Wrapped(st, width, m, sum, first)
    PROVE  Wrapped(Place(width, st, n), width, m + 1, sum + n, first)
<1> DEFINE word == Line(st.at, st.at + n - 1)
           try == IF st.cur = <<>> THEN word ELSE [st.cur[1] EXCEPT !.to = word.to]
           next == Place(width, st, n)
           at == sum + m + 1
<1>1. /\ DOMAIN st = {"lines", "cur", "at", "full"} /\ st.at \in Int
      /\ next \in WrapState /\ DOMAIN next = {"lines", "cur", "at", "full"}
    BY PlaceType DEF WrapState
<1>2. /\ word \in LineType /\ word.from = st.at /\ word.dots = FALSE
      /\ word.to = st.at + n - 1 /\ Runes(word) = n
    BY <1>1 DEF Line, LineType, Runes
<1>3. ASSUME st.full = FALSE, Runes(try) <= width, ~(Runes(try) > width)
      PROVE  next = [st EXCEPT !.cur = <<try>>, !.at = word.to + 2]
    BY <1>3 DEF Place
<1>11. ASSUME st.full = FALSE, Runes(try) > width, ~(Runes(try) <= width),
              st.cur # <<>>, Len(st.lines \o st.cur) = 2
       PROVE  next = [st EXCEPT !.lines = Append(st.lines, Truncated(st.cur[1].from, width)),
                                !.cur = <<>>, !.full = TRUE]
    BY <1>11 DEF Place, MaxTitleLines
<1>12. ASSUME st.full = FALSE, Runes(try) > width, ~(Runes(try) <= width), n <= width,
              st.cur = <<>> \/ Len(st.lines \o st.cur) # 2
       PROVE  next = [st EXCEPT !.lines = st.lines \o st.cur, !.cur = <<word>>, !.at = word.to + 2]
    BY <1>12 DEF Place, MaxTitleLines
<1>13. ASSUME st.full = FALSE, ~(Runes(try) <= width), ~(n <= width),
              st.cur = <<>> \/ Len(st.lines \o st.cur) # 2
       PROVE  next = [st EXCEPT !.lines = Append(st.lines \o st.cur, Truncated(st.at, width)),
                                !.cur = <<>>, !.at = word.to + 2,
                                !.full = Len(st.lines \o st.cur) + 1 = 2]
    BY <1>13 DEF Place, MaxTitleLines
<1>14. st.full = TRUE => next = st
    BY DEF Place
<1>4. ASSUME NEW c \in LineType
      PROVE  LET t == [c EXCEPT !.to = word.to] IN
             /\ t \in LineType /\ t.from = c.from /\ t.to = word.to /\ t.dots = c.dots
             /\ Runes(t) \in Int
    <2>1. word.to \in Int
        BY <1>2 DEF LineType
    <2> HIDE DEF word
    <2> QED
        BY <2>1 DEF LineType, Runes
<1> HIDE DEF word, next
<1>5. m + 1 > 0 /\ sum + n \in Nat
    OBVIOUS
<1>6. CASE m = 0 /\ sum = 0 /\ st = WrapStart
    <2>1. st.full = FALSE /\ st.cur = <<>> /\ st.lines = <<>> /\ st.at = 1 /\ try = word
        BY <1>6 DEF WrapStart
    <2>2. CASE n <= width
        <3>1. next = [st EXCEPT !.cur = <<word>>, !.at = word.to + 2]
            <4>1. Runes(try) <= width /\ ~(Runes(try) > width)
                BY <1>2, <2>1, <2>2
            <4> HIDE DEF try
            <4> QED
                BY <1>3, <2>1, <4>1
        <3>2. next.lines = <<>> /\ Open(next, word, m + 1, sum + n)
            BY <1>1, <1>2, <1>6, <2>1, <3>1 DEF Open
        <3>3. word.from = 1 /\ Good(word, width)
            BY <1>2, <2>1, <2>2 DEF Good
        <3> QED
            BY <1>5, <3>2, <3>3 DEF Wrapped, next
    <2>3. CASE ~(n <= width)
        <3> DEFINE cut == Truncated(st.at, width)
        <3>1. next = [st EXCEPT !.lines = <<cut>>, !.cur = <<>>, !.at = word.to + 2, !.full = FALSE]
            <4>1. ~(Runes(try) <= width) /\ ~(n <= width)
                BY <1>2, <2>1, <2>3
            <4>2. Append(st.lines \o st.cur, cut) = <<cut>> /\ (Len(st.lines \o st.cur) + 1 = 2) = FALSE
                BY <2>1, ShortSequences
            <4> HIDE DEF try
            <4>3. next = [st EXCEPT !.lines = Append(st.lines \o st.cur, cut),
                                    !.cur = <<>>, !.at = word.to + 2,
                                    !.full = Len(st.lines \o st.cur) + 1 = 2]
                BY <1>13, <2>1, <4>1
            <4> HIDE DEF cut
            <4> QED
                BY <4>2, <4>3
        <3>2. /\ next.lines = <<cut>> /\ next.cur = <<>> /\ next.full = FALSE
              /\ next.at = (sum + n) + (m + 1) + 1 /\ next.at = first + 2
            BY <1>1, <1>2, <1>6, <2>1, <3>1
        <3>3. cut.from = 1 /\ cut.dots = TRUE /\ Good(cut, width)
            BY <1>1, <2>1, CutIsGood
        <3> HIDE DEF cut
        <3> QED
            BY <1>5, <3>2, <3>3 DEF Wrapped, next
    <2> QED
        BY <2>2, <2>3
<1>7. CASE m > 0 /\ \E c : st.lines = <<>> /\ Open(st, c, m, sum) /\ c.from = 1 /\ Good(c, width)
    <2>1. PICK c : st.lines = <<>> /\ Open(st, c, m, sum) /\ c.from = 1 /\ Good(c, width)
        BY <1>7
    <2> DEFINE t == [c EXCEPT !.to = word.to]
    <2>2. /\ st.cur = <<c>> /\ st.full = FALSE /\ c.dots = FALSE /\ c.to = sum + m - 1
          /\ st.at = sum + m + 1 /\ c \in LineType
        BY <2>1 DEF Open, Good
    <2>3. st.cur # <<>> /\ try = t /\ st.lines \o st.cur = <<c>> /\ Len(<<c>>) = 1
        BY <2>1, <2>2, ShortSequences
    <2>4. t \in LineType /\ t.from = 1 /\ t.to = word.to /\ t.dots = FALSE /\ Runes(t) \in Int
        BY <1>4, <2>1, <2>2
    <2> HIDE DEF t, try
    <2>5. CASE Runes(t) <= width
        <3>1. next = [st EXCEPT !.cur = <<t>>, !.at = word.to + 2]
            <4>1. Runes(try) <= width /\ ~(Runes(try) > width)
                BY <2>3, <2>4, <2>5
            <4> QED
                BY <1>3, <2>2, <2>3, <4>1
        <3>2. next.lines = <<>> /\ Open(next, t, m + 1, sum + n)
            <4>1. /\ next.lines = <<>> /\ next.cur = <<t>> /\ next.full = FALSE
                  /\ next.at = word.to + 2
                BY <1>1, <2>1, <2>2, <3>1
            <4>2. word.to = (sum + n) + (m + 1) - 1
                BY <1>2, <2>2
            <4> QED
                BY <2>4, <4>1, <4>2 DEF Open
        <3>3. Good(t, width)
            BY <2>4, <2>5 DEF Good
        <3> QED
            BY <1>5, <2>4, <3>2, <3>3 DEF Wrapped, next
    <2>6. CASE Runes(t) > width /\ n <= width
        <3>1. next = [st EXCEPT !.lines = <<c>>, !.cur = <<word>>, !.at = word.to + 2]
            <4>1. Runes(try) > width /\ ~(Runes(try) <= width) /\ n <= width
                BY <2>3, <2>4, <2>6
            <4>2. Len(st.lines \o st.cur) # 2
                BY <2>3
            <4>3. next = [st EXCEPT !.lines = st.lines \o st.cur, !.cur = <<word>>, !.at = word.to + 2]
                BY <1>12, <2>2, <4>1, <4>2
            <4> QED
                BY <2>3, <4>3
        <3>2. next.lines = <<c>> /\ Open(next, word, m + 1, sum + n)
            BY <1>1, <1>2, <2>2, <3>1 DEF Open
        <3>3. Joined(c, word, first) /\ Good(word, width)
            BY <1>2, <2>2, <2>6 DEF Joined, Good
        <3> QED
            BY <1>5, <2>1, <3>2, <3>3 DEF Wrapped, next
    <2>7. CASE Runes(t) > width /\ ~(n <= width)
        <3> DEFINE cut == Truncated(st.at, width)
        <3>1. next = [st EXCEPT !.lines = <<c, cut>>, !.cur = <<>>, !.at = word.to + 2, !.full = TRUE]
            <4>1. ~(Runes(try) <= width) /\ ~(n <= width)
                BY <2>3, <2>4, <2>7
            <4>2. Append(st.lines \o st.cur, cut) = <<c, cut>> /\ (Len(st.lines \o st.cur) + 1 = 2) = TRUE
                  /\ Len(st.lines \o st.cur) # 2
                <5> HIDE DEF cut
                <5>1. Append(<<c>>, cut) = <<c, cut>>
                    BY ShortSequences
                <5>2. (Len(<<c>>) + 1 = 2) = TRUE /\ Len(<<c>>) # 2
                    BY <2>3
                <5> QED
                    BY <2>3, <5>1, <5>2, Zenon
            <4>3. next = [st EXCEPT !.lines = Append(st.lines \o st.cur, cut),
                                    !.cur = <<>>, !.at = word.to + 2,
                                    !.full = Len(st.lines \o st.cur) + 1 = 2]
                BY <1>13, <2>2, <4>1, <4>2
            <4> HIDE DEF cut
            <4> QED
                BY <4>2, <4>3
        <3>2. next.lines = <<c, cut>> /\ next.cur = <<>> /\ next.full = TRUE
            BY <1>1, <3>1
        <3>3. cut.from = st.at /\ cut.dots = TRUE /\ Good(cut, width)
            BY <1>1, CutIsGood
        <3>4. Joined(c, cut, first)
            <4> HIDE DEF cut
            <4> QED
                BY <2>2, <3>3 DEF Joined
        <3> HIDE DEF cut
        <3> QED
            BY <1>5, <2>1, <3>2, <3>3, <3>4 DEF Wrapped, next
    <2> QED
        BY <2>4, <2>5, <2>6, <2>7
<1>8. CASE m > 0 /\ \E a : /\ st.lines = <<a>> /\ st.cur = <<>> /\ st.full = FALSE
                           /\ st.at = sum + m + 1 /\ st.at = first + 2
                           /\ a.from = 1 /\ a.dots = TRUE /\ Good(a, width)
    <2>1. PICK a : /\ st.lines = <<a>> /\ st.cur = <<>> /\ st.full = FALSE
                   /\ st.at = sum + m + 1 /\ st.at = first + 2
                   /\ a.from = 1 /\ a.dots = TRUE /\ Good(a, width)
        BY <1>8
    <2>2. try = word /\ st.lines \o st.cur = <<a>> /\ Len(<<a>>) = 1
        BY <2>1, ShortSequences
    <2>3. CASE n <= width
        <3>1. next = [st EXCEPT !.cur = <<word>>, !.at = word.to + 2]
            <4>1. Runes(try) <= width /\ ~(Runes(try) > width)
                BY <1>2, <2>2, <2>3
            <4> HIDE DEF try
            <4> QED
                BY <1>3, <2>1, <2>2, <4>1
        <3>2. next.lines = <<a>> /\ Open(next, word, m + 1, sum + n)
            BY <1>1, <1>2, <2>1, <3>1 DEF Open
        <3>3. Joined(a, word, first) /\ Good(word, width)
            BY <1>2, <2>1, <2>3 DEF Joined, Good
        <3> QED
            BY <1>5, <2>1, <3>2, <3>3 DEF Wrapped, next
    <2>4. CASE ~(n <= width)
        <3> DEFINE cut == Truncated(st.at, width)
        <3>1. next = [st EXCEPT !.lines = <<a, cut>>, !.cur = <<>>, !.at = word.to + 2, !.full = TRUE]
            <4>1. ~(Runes(try) <= width) /\ ~(n <= width)
                BY <1>2, <2>2, <2>4
            <4>2. Append(st.lines \o st.cur, cut) = <<a, cut>> /\ (Len(st.lines \o st.cur) + 1 = 2) = TRUE
                <5> HIDE DEF cut
                <5>1. Append(<<a>>, cut) = <<a, cut>>
                    BY ShortSequences
                <5>2. (Len(<<a>>) + 1 = 2) = TRUE /\ Len(<<a>>) # 2
                    BY <2>2
                <5> QED
                    BY <2>2, <5>1, <5>2, Zenon
            <4> HIDE DEF try
            <4>3. next = [st EXCEPT !.lines = Append(st.lines \o st.cur, cut),
                                    !.cur = <<>>, !.at = word.to + 2,
                                    !.full = Len(st.lines \o st.cur) + 1 = 2]
                BY <1>13, <2>1, <4>1
            <4> HIDE DEF cut
            <4> QED
                BY <4>2, <4>3
        <3>2. next.lines = <<a, cut>> /\ next.cur = <<>> /\ next.full = TRUE
            BY <1>1, <3>1
        <3>3. cut.dots = TRUE /\ cut.from = st.at /\ Good(cut, width)
            BY <1>1, CutIsGood
        <3> HIDE DEF cut
        <3>4. Joined(a, cut, first)
            BY <2>1, <3>3 DEF Joined
        <3> QED
            BY <1>5, <2>1, <3>2, <3>3, <3>4 DEF Wrapped, next
    <2> QED
        BY <2>3, <2>4
<1>9. CASE m > 0 /\ \E a, c : /\ st.lines = <<a>> /\ Open(st, c, m, sum)
                              /\ a.from = 1 /\ Joined(a, c, first) /\ Good(a, width) /\ Good(c, width)
    <2>1. PICK a, c : /\ st.lines = <<a>> /\ Open(st, c, m, sum)
                      /\ a.from = 1 /\ Joined(a, c, first) /\ Good(a, width) /\ Good(c, width)
        BY <1>9
    <2> DEFINE t == [c EXCEPT !.to = word.to]
    <2>2. /\ st.cur = <<c>> /\ st.full = FALSE /\ c.dots = FALSE /\ c.to = sum + m - 1
          /\ st.at = sum + m + 1 /\ c \in LineType
        BY <2>1 DEF Open, Good
    <2>3. /\ st.cur # <<>> /\ try = t /\ st.lines \o st.cur = <<a, c>> /\ Len(<<a, c>>) = 2
          /\ st.cur[1] = c
        BY <2>1, <2>2, ShortSequences
    <2>4. t \in LineType /\ t.from = c.from /\ t.to = word.to /\ t.dots = FALSE /\ Runes(t) \in Int
        BY <1>4, <2>2
    <2> HIDE DEF t, try
    <2>5. CASE Runes(t) <= width
        <3>1. next = [st EXCEPT !.cur = <<t>>, !.at = word.to + 2]
            <4>1. Runes(try) <= width /\ ~(Runes(try) > width)
                BY <2>3, <2>4, <2>5
            <4> QED
                BY <1>3, <2>2, <2>3, <4>1
        <3>2. next.lines = <<a>> /\ Open(next, t, m + 1, sum + n)
            BY <1>1, <1>2, <2>1, <2>2, <2>4, <3>1 DEF Open
        <3>3. Good(t, width) /\ Joined(a, t, first)
            BY <2>1, <2>4, <2>5 DEF Good, Joined
        <3> QED
            BY <1>5, <2>1, <3>2, <3>3 DEF Wrapped, next
    <2>6. CASE Runes(t) > width
        <3> DEFINE cut == Truncated(c.from, width)
        <3>1. next = [st EXCEPT !.lines = <<a, cut>>, !.cur = <<>>, !.full = TRUE]
            <4>1. Runes(try) > width /\ ~(Runes(try) <= width)
                BY <2>3, <2>4, <2>6
            <4>2. Append(st.lines, cut) = <<a, cut>> /\ cut = Truncated(st.cur[1].from, width)
                BY <2>1, <2>3, ShortSequences
            <4>3. next = [st EXCEPT !.lines = Append(st.lines, Truncated(st.cur[1].from, width)),
                                    !.cur = <<>>, !.full = TRUE]
                BY <1>11, <2>2, <2>3, <4>1
            <4> HIDE DEF cut
            <4> QED
                BY <4>2, <4>3
        <3>2. next.lines = <<a, cut>> /\ next.cur = <<>> /\ next.full = TRUE
            BY <1>1, <3>1
        <3>3. c.from \in Int
            BY <2>2 DEF LineType
        <3>4. cut.from = c.from /\ cut.dots = TRUE /\ Good(cut, width)
            BY <3>3, CutIsGood
        <3>5. Joined(a, cut, first)
            <4> HIDE DEF cut
            <4> QED
                BY <2>1, <3>4 DEF Joined
        <3> HIDE DEF cut
        <3> QED
            BY <1>5, <2>1, <3>2, <3>4, <3>5 DEF Wrapped, next
    <2> QED
        BY <2>4, <2>5, <2>6
<1>10. CASE m > 0 /\ \E a, b : /\ st.lines = <<a, b>> /\ st.cur = <<>> /\ st.full = TRUE
                               /\ a.from = 1 /\ Joined(a, b, first) /\ b.dots = TRUE
                               /\ Good(a, width) /\ Good(b, width)
    <2>1. next = st
        BY <1>10, <1>14
    <2> QED
        BY <1>5, <1>10, <2>1 DEF Wrapped, next
<1> QED
    BY <1>6, <1>7, <1>8, <1>9, <1>10 DEF Wrapped

LEMMA GlyphsLeft ==
    ASSUME NEW title \in DOMAIN Words
    PROVE  Sanitized(title) \in Seq(Nat \ {0})
<1> DEFINE seq == Words[title]
           n == Len(seq)
           A == Seq(Nat \ {0})
           P(g) == g = [t \in SUBSET (1..n) |->
                          IF t = {} THEN <<>> ELSE WithGlyphs(g[t \ {Max(t)}], seq[Max(t)])]
           step == [p \in A \X (1..n) |-> WithGlyphs(p[1], seq[p[2]])]
           h == CHOOSE f : P(f)
<1>1. n \in Nat /\ DOMAIN seq = 1..n /\ \A i \in 1..n : seq[i] \in Nat
    <2>1. DOMAIN Words = 1..Len(Words) /\ Words \in Seq(Seq(Nat))
        BY AgendaAssumption, LenProperties
    <2>2. seq \in Seq(Nat)
        BY <2>1, ElementOfSeq
    <2> QED
        BY <2>2, LenProperties, ElementOfSeq
<1>2. ASSUME NEW words \in A, NEW k \in Nat PROVE WithGlyphs(words, k) \in A
    <2>1. k > 0 => k \in Nat \ {0}
        OBVIOUS
    <2>2. k > 0 => Append(words, k) \in A
        BY <2>1, AppendProperties
    <2> QED
        BY <2>2 DEF WithGlyphs
<1>3. <<>> \in A
    BY EmptySeq
<1>4. step \in [A \X (1..n) -> A]
    <2> HIDE DEF A
    <2> QED
        BY <1>1, <1>2
<1>5. \A a \in A, m \in 1..n : step[<<a, m>>] = WithGlyphs(a, seq[m])
    OBVIOUS
<1>6. ASSUME NEW t \in SUBSET (1..n), t # {}
      PROVE  Max(t) \in 1..n /\ t \ {Max(t)} \in SUBSET (1..n)
    <2> HIDE DEF n
    <2> QED
        BY <1>1, <1>6, MaxOf
<1>7. Sanitized(title) = h[1..n]
    BY <1>1 DEF Sanitized, FoldLeft, MapThenFoldSet, Max
<1> HIDE DEF step, n, A
<1>8. PICK g : FoldsAs(g, A, <<>>, n, step)
    BY <1>1, <1>3, <1>4, FoldExists
<1>9. P(g)
    <2>1. ASSUME NEW t \in SUBSET (1..n), t # {}
          PROVE  step[<<g[t \ {Max(t)}], Max(t)>>] = WithGlyphs(g[t \ {Max(t)}], seq[Max(t)])
        BY <1>5, <1>6, <1>8, <2>1 DEF FoldsAs
    <2>2. g = [t \in SUBSET (1..n) |-> g[t]]
        BY <1>8 DEF FoldsAs
    <2> HIDE DEF seq
    <2> QED
        BY <1>8, <2>1, <2>2 DEF FoldsAs
<1>10. P(h)
    <2> HIDE DEF P
    <2> QED
        BY <1>9
<1> HIDE DEF h, seq
<1>11. Follows(h, A, <<>>, n, step)
    BY <1>5, <1>6, <1>10 DEF Follows
<1>12. Reaches(h[1..n], A, <<>>, n, step)
    BY <1>1, <1>3, <1>4, <1>11, Chain
<1>13. n \in 0..n
    BY <1>1
<1>14. h[1..n] \in A
    BY <1>12, <1>13 DEF Reaches, Steps
<1> QED
    BY <1>7, <1>14 DEF A

\* The lines of a title of words say what there is room for.
Length(words) == FoldLeft(+, 0, words) + Len(words) - 1
Readable(lines, words, width) ==
    /\ lines \in Seq(LineType) /\ Len(lines) \in 1..2
    /\ \A k \in 1..Len(lines) : Runes(lines[k]) <= width
    /\ lines[1].from = 1
    /\ \A k \in 1..Len(lines) - 1 :
          lines[k + 1].from = 2 + IF lines[k].dots THEN words[1] ELSE lines[k].to
    /\ words # <<>> /\ ~lines[Len(lines)].dots => lines[Len(lines)].to = Length(words)

LEMMA OneLine ==
    ASSUME NEW width \in Int, NEW words, NEW c \in LineType, c.from = 1, Runes(c) <= width,
           words # <<>> /\ ~c.dots => c.to = Length(words)
    PROVE  Readable(<<c>>, words, width)
<1>1. /\ Len(<<c>>) = 1 /\ <<c>>[1] = c /\ <<c>> \in Seq(LineType) /\ 1..1 = {1}
      /\ 1..1 - 1 = {}
    OBVIOUS
<1> QED
    BY <1>1 DEF Readable

LEMMA TwoLines ==
    ASSUME NEW width \in Int, NEW words, NEW a \in LineType, NEW c \in LineType, a.from = 1,
           Runes(a) <= width, Runes(c) <= width, Joined(a, c, words[1]),
           words # <<>> /\ ~c.dots => c.to = Length(words)
    PROVE  Readable(<<a, c>>, words, width)
<1>1. /\ Len(<<a, c>>) = 2 /\ <<a, c>>[1] = a /\ <<a, c>>[2] = c
      /\ <<a, c>> \in Seq(LineType) /\ 1..2 = {1, 2} /\ 1..2 - 1 = {1} /\ 1 + 1 = 2
    OBVIOUS
<1> QED
    BY <1>1 DEF Readable, Joined

LEMMA WrapIs ==
    ASSUME NEW width \in Nat, NEW words \in Seq(Nat \ {0})
    PROVE  Readable(WrapToWidth(words, width), words, width)
<1> DEFINE n == Len(words)
           lines == WrapToWidth(words, width)
<1>1. CASE words = <<>>
    <2>1. lines = <<Line(1, 0)>>
        BY <1>1 DEF WrapToWidth
    <2>2. Line(1, 0) \in LineType /\ Line(1, 0).from = 1 /\ Runes(Line(1, 0)) = 0
        BY DEF Line, LineType, Runes
    <2> HIDE DEF lines
    <2>3. Readable(lines, words, width)
        BY <1>1, <2>1, <2>2, OneLine
    <2> QED
        BY <2>3 DEF lines
<1>2. CASE words # <<>>
    <2>1. n \in Nat /\ n > 0 /\ n # 0 /\ \A i \in 1..n : words[i] \in Nat \ {0}
        BY <1>2, LenProperties, ElementOfSeq, EmptySeq
    <2>2. PICK F \in [0..n -> WrapState] :
              /\ F[0] = WrapStart
              /\ \A m \in 1..n : F[m] = Place(width, F[m - 1], words[m])
              /\ lines = F[n].lines \o F[n].cur
        <3>1. width \in Int
            OBVIOUS
        <3> QED
            BY <1>2, <3>1, WrapSteps
    <2>3. words \in Seq(Int)
        BY <2>1, LenProperties, IsASeq
    <2>4. PICK S \in [0..n -> Int] :
              /\ S[0] = 0
              /\ \A m \in 1..n : S[m] = S[m - 1] + words[m]
              /\ FoldLeft(+, 0, words) = S[n]
        BY <2>3, SumSteps
    <2> HIDE DEF n, lines
    <2> DEFINE T == {m \in Nat : m \in 0..n => S[m] \in Nat /\ Wrapped(F[m], width, m, S[m], words[1])}
    <2>5. 0 \in T
        <3>1. Wrapped(F[0], width, 0, 0, words[1])
            BY <2>2 DEF Wrapped
        <3>2. S[0] = 0
            BY <2>4
        <3>3. Wrapped(F[0], width, 0, S[0], words[1])
            BY <3>1, <3>2, Zenon
        <3> QED
            BY <3>2, <3>3
    <2>6. ASSUME NEW m \in Nat, m \in T PROVE m + 1 \in T
        <3> SUFFICES ASSUME m + 1 \in 0..n
                     PROVE  S[m + 1] \in Nat /\ Wrapped(F[m + 1], width, m + 1, S[m + 1], words[1])
            OBVIOUS
        <3>1. m + 1 \in 1..n /\ (m + 1) - 1 = m /\ m \in 0..n
            BY <2>1
        <3>2. /\ S[m] \in Nat /\ Wrapped(F[m], width, m, S[m], words[1]) /\ F[m] \in WrapState
              /\ words[m + 1] \in Nat \ {0}
            BY <2>1, <2>2, <2>6, <3>1
        <3>3. F[m + 1] = Place(width, F[m], words[m + 1]) /\ S[m + 1] = S[m] + words[m + 1]
            BY <2>2, <2>4, <3>1
        <3>4. width \in Int /\ words[1] \in Nat /\ (m = 0 => words[m + 1] = words[1])
            BY <2>1, <3>1
        <3>5. Wrapped(Place(width, F[m], words[m + 1]), width, m + 1, S[m] + words[m + 1], words[1])
            BY <3>2, <3>4, PlaceKeeps
        <3> QED
            BY <3>2, <3>3, <3>5
    <2>7. n \in T
        <3> HIDE DEF T
        <3>1. Nat \subseteq T
            BY <2>5, <2>6, Induction
        <3> QED
            BY <2>1, <3>1
    <2>8. S[n] \in Nat /\ Wrapped(F[n], width, n, S[n], words[1])
        BY <2>1, <2>7
    <2> DEFINE length == S[n] + n - 1
    <2>9. \/ \E c : /\ lines = <<c>> /\ c.from = 1 /\ Good(c, width)
                    /\ (~c.dots => c.to = length)
          \/ \E a, c : /\ lines = <<a, c>> /\ a.from = 1 /\ Good(a, width) /\ Good(c, width)
                       /\ Joined(a, c, words[1]) /\ (~c.dots => c.to = length)
        <3>1. CASE \E c : /\ F[n].lines = <<>> /\ Open(F[n], c, n, S[n])
                          /\ c.from = 1 /\ Good(c, width)
            <4>1. PICK c : F[n].lines = <<>> /\ F[n].cur = <<c>> /\ c.to = length
                           /\ c.from = 1 /\ Good(c, width)
                BY <3>1 DEF Open
            <4>2. lines = <<c>>
                BY <2>2, <4>1, ShortSequences
            <4> QED
                BY <4>1, <4>2
        <3>2. CASE \E a : /\ F[n].lines = <<a>> /\ F[n].cur = <<>>
                          /\ a.from = 1 /\ a.dots = TRUE /\ Good(a, width)
            <4>1. PICK a : /\ F[n].lines = <<a>> /\ F[n].cur = <<>>
                           /\ a.from = 1 /\ a.dots = TRUE /\ Good(a, width)
                BY <3>2
            <4>2. lines = <<a>>
                BY <2>2, <4>1, ShortSequences
            <4> QED
                BY <4>1, <4>2
        <3>3. CASE \E a, c : /\ F[n].lines = <<a>> /\ Open(F[n], c, n, S[n])
                             /\ a.from = 1 /\ Joined(a, c, words[1]) /\ Good(a, width) /\ Good(c, width)
            <4>1. PICK a, c : /\ F[n].lines = <<a>> /\ F[n].cur = <<c>> /\ c.to = length
                              /\ a.from = 1 /\ Joined(a, c, words[1]) /\ Good(a, width) /\ Good(c, width)
                BY <3>3 DEF Open
            <4>2. lines = <<a, c>>
                BY <2>2, <4>1, ShortSequences
            <4> QED
                BY <4>1, <4>2
        <3>4. CASE \E a, b : /\ F[n].lines = <<a, b>> /\ F[n].cur = <<>>
                             /\ a.from = 1 /\ Joined(a, b, words[1]) /\ b.dots = TRUE
                             /\ Good(a, width) /\ Good(b, width)
            <4>1. PICK a, b : /\ F[n].lines = <<a, b>> /\ F[n].cur = <<>>
                              /\ a.from = 1 /\ Joined(a, b, words[1]) /\ b.dots = TRUE
                              /\ Good(a, width) /\ Good(b, width)
                BY <3>4
            <4>2. lines = <<a, b>>
                BY <2>2, <4>1, ShortSequences
            <4> QED
                BY <4>1, <4>2
        <3> HIDE DEF length
        <3> QED
            BY <2>1, <2>8, <3>1, <3>2, <3>3, <3>4, Zenon DEF Wrapped
    <2>10. length = Length(words)
        BY <2>4 DEF n, Length
    <2> HIDE DEF length
    <2>11. CASE \E c : /\ lines = <<c>> /\ c.from = 1 /\ Good(c, width)
                       /\ (~c.dots => c.to = length)
        BY <2>10, <2>11, OneLine DEF Good, lines
    <2>12. CASE \E a, c : /\ lines = <<a, c>> /\ a.from = 1 /\ Good(a, width) /\ Good(c, width)
                          /\ Joined(a, c, words[1]) /\ (~c.dots => c.to = length)
        BY <2>10, <2>12, TwoLines DEF Good, lines
    <2> QED
        BY <2>9, <2>11, <2>12
<1> QED
    BY <1>1, <1>2
-----------------------------------------------------------------------------
\* Where the cells are, in both orientations.
MonthAreas == {Rect(16, 84, 292, 392), Rect(16, 84, 392, 292)}
AgendaAreas == {Rect(308, 84, 584, 392), Rect(408, 84, 784, 292)}

LEMMA Cells ==
    \/ /\ G.w = 600 /\ G.h = 800
       /\ HeaderRect(G) = Rect(16, 0, 584, 84) /\ FooterRect(G) = Rect(16, 716, 584, 800)
       /\ Cell(0, 0) = Rect(16, 84, 292, 392) /\ Cell(1, 0) = Rect(308, 84, 584, 392)
       /\ Cell(0, 1) = Rect(16, 408, 292, 716) /\ Cell(1, 1) = Rect(308, 408, 584, 716)
       /\ WideCell(0) = Rect(16, 84, 584, 392) /\ WideCell(1) = Rect(16, 408, 584, 716)
    \/ /\ G.w = 800 /\ G.h = 600
       /\ HeaderRect(G) = Rect(16, 0, 784, 84) /\ FooterRect(G) = Rect(16, 516, 784, 600)
       /\ Cell(0, 0) = Rect(16, 84, 392, 292) /\ Cell(1, 0) = Rect(408, 84, 784, 292)
       /\ Cell(0, 1) = Rect(16, 308, 392, 516) /\ Cell(1, 1) = Rect(408, 308, 784, 516)
       /\ WideCell(0) = Rect(16, 84, 784, 292) /\ WideCell(1) = Rect(16, 308, 784, 516)
<1>1. Dims(Orientation) = [w |-> 600, h |-> 800] \/ Dims(Orientation) = [w |-> 800, h |-> 600]
    BY DEF Dims
<1>2. CASE Dims(Orientation) = [w |-> 600, h |-> 800]
    <2>1. G = [w |-> 600, h |-> 800, rows |-> 2, cellW |-> 276, cellH |-> 308, x |-> 16, y |-> 84]
        BY <1>2 DEF G, NewGrid, SideMargin, Gutter, Band
    <2> QED
        BY <2>1 DEF HeaderRect, FooterRect, Cell, WideCell, CellRect, SideMargin, Gutter, Rect
<1>3. CASE Dims(Orientation) = [w |-> 800, h |-> 600]
    <2>1. G = [w |-> 800, h |-> 600, rows |-> 2, cellW |-> 376, cellH |-> 208, x |-> 16, y |-> 84]
        BY <1>3 DEF G, NewGrid, SideMargin, Gutter, Band
    <2> QED
        BY <2>1 DEF HeaderRect, FooterRect, Cell, WideCell, CellRect, SideMargin, Gutter, Rect
<1> QED
    BY <1>1, <1>2, <1>3

\* How many runes there is room for on the agenda.
Room(area) == (Width(area) - 2 * Pad) \div Scaled(RuneWidth, area)

LEMMA RoomIs ==
    ASSUME NEW area \in AgendaAreas
    PROVE  Room(area) \in Nat
<1>1. RuneWidth \in Nat /\ RuneWidth >= 2
    BY AgendaAssumption
<1>2. ASSUME NEW x \in Nat, NEW d \in Nat \ {0} PROVE x \div d \in Nat
    OBVIOUS
<1>3. CASE area = Rect(308, 84, 584, 392)
    <2>1. Width(area) - 2 * Pad = 244 /\ Scaled(RuneWidth, area) = RuneWidth
        BY <1>3 DEF Width, Pad, Rect, Scaled, Height, RefCell
    <2> QED
        BY <1>1, <1>2, <2>1 DEF Room
<1>4. CASE area = Rect(408, 84, 784, 292)
    <2>1. Width(area) - 2 * Pad = 344 /\ Scaled(RuneWidth, area) = (RuneWidth * 208) \div 276
        BY <1>4 DEF Width, Pad, Rect, Scaled, Height, RefCell
    <2>2. (RuneWidth * 208) \div 276 \in Nat \ {0}
        BY <1>1
    <2> QED
        BY <1>2, <2>1, <2>2 DEF Room
<1> QED
    BY <1>3, <1>4 DEF AgendaAreas
-----------------------------------------------------------------------------
\* The rows of the agenda.
RowOf(area, next, now, i) ==
    [event |-> next[i], lines |-> WrapToWidth(Sanitized(next[i].title), Room(area)),
     runes |-> Room(area), day |-> DayLabel(now, next[i].start)]
RowState(area, next, now) ==
    [y : Int, rows : Seq({RowOf(area, next, now, k) : k \in 1..Len(next)}),
     marks : SUBSET Int, full : BOOLEAN]
Top(area) == area.y0 + Scaled(30, area) + Scaled(26, area)
RowStart(area) == [y |-> Top(area), rows |-> <<>>, marks |-> {}, full |-> FALSE]

\* The lengths of a row leave room for one of two lines.
Lengths(area, line, base, pad, half, rule, foot, top) ==
    /\ line \in Int /\ base \in Int /\ pad \in Int /\ half \in Int /\ rule \in Int
    /\ foot \in Int /\ top \in Int /\ area.y0 = 84 /\ area.y1 \in Int
    /\ 0 < line /\ 0 < half /\ 0 <= rule /\ half + rule < base /\ 0 <= pad /\ 0 < foot
    /\ 84 < top /\ top + 2 * line + base < area.y1

LEMMA LengthsAre ==
    ASSUME NEW area \in AgendaAreas
    PROVE  Lengths(area, Scaled(33, area), Scaled(30, area), Scaled(8, area), Scaled(24, area),
                   Scaled(2, area), Scaled(6, area), Top(area))
BY DEF AgendaAreas, Lengths, Top, Rect, Scaled, Height, RefCell

\* Where the rows of a state lie: below the top, their marks above the bottom.
RowsInArea(area, st, i) ==
    /\ st.y >= Top(area) /\ (i = 0 => st.y = Top(area))
    /\ \A m \in st.marks : area.y0 < m /\ m < area.y1

\* What they list: the first of the events, all of them unless the area is full.
RowsListed(area, next, now, st, i) ==
    /\ Len(st.rows) <= i /\ (~st.full => Len(st.rows) = i) /\ (i > 0 => Len(st.rows) > 0)
    /\ (i = 0 => ~st.full)
    /\ \A k \in 1..Len(st.rows) : st.rows[k] = RowOf(area, next, now, k)

LEMMA RowKeeps ==
    ASSUME NEW area \in AgendaAreas, NEW next \in Seq(Event), NEW now, NEW i \in 1..Len(next),
           NEW st \in RowState(area, next, now)
    PROVE  LET after == Row(area, next, now, st, i)
           IN  /\ after \in RowState(area, next, now)
               /\ RowsInArea(area, st, i - 1) => RowsInArea(area, after, i)
               /\ RowsListed(area, next, now, st, i - 1) => RowsListed(area, next, now, after, i)
<1> DEFINE lines == WrapToWidth(Sanitized(next[i].title), Room(area))
           n == Len(lines)
           line == Scaled(33, area)
           base == Scaled(30, area)
           pad == Scaled(8, area)
           half == Scaled(24, area)
           mark == Scaled(2, area)
           foot == Scaled(6, area)
           top == Top(area)
           bottom == area.y1 - foot
           text == n * line
           below == st.y + text + base
           rule == i < Len(next) /\ below + pad < bottom
           y == IF rule THEN below + pad ELSE below
           row == RowOf(area, next, now, i)
           marks == st.marks \cup {st.y + half + k * line : k \in 0..n - 1}
                             \cup {st.y + half + text + mark}
                             \cup (IF rule THEN {below} ELSE {})
           rows == {RowOf(area, next, now, k) : k \in 1..Len(next)}
           skipped == st.full \/ (i > 1 /\ ~Fits(st.y, below - st.y, bottom))
           after == Row(area, next, now, st, i)
<1>1. after = IF skipped THEN [st EXCEPT !.full = TRUE]
              ELSE [st EXCEPT !.y = y, !.rows = Append(st.rows, row), !.marks = marks]
    BY DEF Row, RowOf, Room
<1>2. n \in 1..2
    <2>1. next[i] \in Event
        BY ElementOfSeq
    <2>2. next[i].title \in DOMAIN Words
        BY <2>1 DEF Event
    <2>3. Readable(lines, Sanitized(next[i].title), Room(area))
        BY <2>2, GlyphsLeft, RoomIs, WrapIs
    <2> QED
        BY <2>3 DEF Readable
<1>3. /\ st.y \in Int /\ st.rows \in Seq(rows) /\ st.marks \subseteq Int /\ st.full \in BOOLEAN
      /\ DOMAIN st = {"y", "rows", "marks", "full"} /\ row \in rows
    BY DEF RowState
<1>4. Lengths(area, line, base, pad, half, mark, foot, top)
    BY LengthsAre
<1> HIDE DEF lines, n, line, base, pad, half, mark, foot, top
<1>12. /\ line \in Int /\ base \in Int /\ pad \in Int /\ half \in Int /\ mark \in Int
       /\ foot \in Int /\ top \in Int /\ area.y1 \in Int /\ st.y \in Int
       /\ 0 < line /\ 0 < half /\ 0 <= mark /\ half + mark < base /\ 0 < base
       /\ 0 <= pad /\ 0 < foot /\ 84 < top /\ area.y0 = 84 /\ top + 2 * line + base < area.y1
    BY <1>3, <1>4 DEF Lengths
<1>5. text \in Int /\ line <= text /\ text <= 2 * line
    <2>1. n = 1 \/ n = 2
        BY <1>2
    <2>2. text = line \/ text = 2 * line
        BY <1>12, <2>1
    <2> HIDE DEF text
    <2> QED
        BY <1>12, <2>2
<1>6. /\ (rule => below + pad < bottom)
      /\ below \in Int /\ bottom \in Int /\ y \in Int /\ y >= st.y
      /\ below = st.y + text + base /\ bottom < area.y1
    <2> HIDE DEF text
    <2>1. below \in Int /\ bottom \in Int /\ below >= st.y /\ bottom < area.y1
        BY <1>5, <1>12
    <2> HIDE DEF below, bottom
    <2>2. y \in Int /\ y >= st.y
        BY <1>12, <2>1
    <2> QED
        BY <2>1, <2>2 DEF below
<1>7. ASSUME NEW m \in marks
      PROVE  \/ m \in st.marks
             \/ m = st.y + half
             \/ m = st.y + half + line
             \/ m = st.y + half + text + mark
             \/ rule /\ m = below
    <2>1. CASE \E k \in 0..n - 1 : m = st.y + half + k * line
        <3>1. PICK k \in 0..n - 1 : m = st.y + half + k * line
            BY <2>1
        <3>2. k = 0 \/ (n = 2 /\ k = 1)
            <4>1. n = 1 \/ n = 2
                BY <1>2
            <4>2. n = 1 => k = 0
                OBVIOUS
            <4>3. n = 2 => k = 0 \/ k = 1
                OBVIOUS
            <4> QED
                BY <4>1, <4>2, <4>3
        <3>3. 0 * line = 0 /\ 1 * line = line
            BY <1>12
        <3>4. k = 0 => m = st.y + half + 0
            BY <3>1, <3>3
        <3>5. k = 1 => m = st.y + half + line
            BY <3>1, <3>3
        <3>6. st.y + half + 0 = st.y + half
            BY <1>12
        <3> QED
            BY <3>2, <3>4, <3>5, <3>6
    <2>2. CASE m \in IF rule THEN {below} ELSE {}
        <3> HIDE DEF rule, below
        <3> QED
            BY <2>2
    <2>3. \/ m \in st.marks
          \/ m = st.y + half + text + mark
          \/ m \in IF rule THEN {below} ELSE {}
          \/ \E k \in 0..n - 1 : m = st.y + half + k * line
        <3> HIDE DEF rule, below, text, n
        <3> QED
            OBVIOUS
    <2> HIDE DEF rule, below, text, n
    <2> QED
        BY <2>1, <2>2, <2>3
<1> HIDE DEF marks, y, rule, below, bottom, text, n, row, rows, skipped, after
<1>8. ASSUME NEW m \in marks
      PROVE  /\ m \in Int
             /\ m \in st.marks \/ (st.y < m /\ m <= below)
    <2>1. CASE m \in st.marks
        BY <1>3, <2>1
    <2>2. CASE m = st.y + half
        BY <1>5, <1>6, <1>12, <2>2, SMTT(60)
    <2>3. CASE m = st.y + half + line
        BY <1>5, <1>6, <1>12, <2>3, SMTT(60)
    <2>4. CASE m = st.y + half + text + mark
        BY <1>5, <1>6, <1>12, <2>4, SMTT(60)
    <2>5. CASE m = below
        BY <1>5, <1>6, <1>12, <2>5
    <2> QED
        BY <1>7, <2>1, <2>2, <2>3, <2>4, <2>5
<1>9. after \in RowState(area, next, now)
    <2>1. Append(st.rows, row) \in Seq(rows)
        BY <1>3, AppendProperties
    <2> QED
        BY <1>1, <1>3, <1>6, <1>8, <2>1 DEF RowState, rows
<1>10. ASSUME RowsInArea(area, st, i - 1) PROVE RowsInArea(area, after, i)
    <2>1. CASE skipped
        <3>1. after.y = st.y /\ after.marks = st.marks /\ i # 0
            BY <1>1, <1>3, <2>1
        <3> QED
            BY <1>10, <3>1 DEF RowsInArea
    <2>2. CASE ~skipped
        <3>1. after.y = y /\ after.marks = marks /\ i # 0
            BY <1>1, <1>3, <2>2
        <3>2. st.y >= top
            BY <1>10 DEF RowsInArea, top
        <3>3. below < area.y1
            <4>1. CASE i = 1
                <5>1. st.y = top
                    BY <1>10, <4>1 DEF RowsInArea, top
                <5> QED
                    BY <1>5, <1>6, <1>12, <5>1
            <4>2. CASE i > 1
                <5>1. ~skipped => st.y + (below - st.y) <= bottom
                    BY <4>2 DEF skipped, Fits
                <5>2. st.y + (below - st.y) = below
                    BY <1>6, <1>12
                <5>3. below <= bottom /\ below + 0 = below
                    BY <1>6, <2>2, <5>1, <5>2
                <5> QED
                    BY <1>6, <1>12, <5>3
            <4> QED
                BY <4>1, <4>2
        <3>4. ASSUME NEW m \in marks PROVE area.y0 < m /\ m < area.y1
            <4>1. CASE m \in st.marks
                BY <1>10, <4>1 DEF RowsInArea
            <4>2. CASE st.y < m /\ m <= below
                <5>1. m \in Int
                    BY <1>8
                <5> QED
                    BY <1>6, <1>12, <3>2, <3>3, <4>2, <5>1
            <4> QED
                BY <1>8, <4>1, <4>2
        <3>5. y >= top
            BY <1>6, <1>12, <3>2
        <3> QED
            BY <3>1, <3>2, <3>4, <3>5 DEF RowsInArea, top
    <2> QED
        BY <2>1, <2>2
<1>11. ASSUME RowsListed(area, next, now, st, i - 1) PROVE RowsListed(area, next, now, after, i)
    <2>1. CASE skipped
        <3>1. after.rows = st.rows /\ after.full = TRUE
            BY <1>1, <1>3, <2>1
        <3>2. i > 1
            <4>1. i = 1 => ~skipped
                BY <1>11 DEF skipped, RowsListed
            <4> QED
                BY <2>1, <4>1
        <3>3. Len(st.rows) \in Nat
            BY <1>3, LenProperties
        <3> QED
            BY <1>11, <3>1, <3>2, <3>3 DEF RowsListed
    <2>2. CASE ~skipped
        <3>1. after.rows = Append(st.rows, row) /\ after.full = st.full /\ st.full = FALSE
            BY <1>1, <1>3, <2>2 DEF skipped
        <3>2. Len(st.rows) = i - 1
            BY <1>11, <3>1 DEF RowsListed
        <3>3. /\ Len(after.rows) = i /\ after.rows[i] = row
              /\ \A k \in 1..i - 1 : after.rows[k] = st.rows[k]
            BY <1>3, <3>1, <3>2, AppendProperties
        <3>4. ASSUME NEW k \in 1..i PROVE after.rows[k] = RowOf(area, next, now, k)
            <4>1. CASE k = i
                BY <3>3, <4>1 DEF row
            <4>2. CASE k # i
                <5>1. k \in 1..i - 1
                    BY <4>2
                <5> QED
                    BY <1>11, <3>2, <3>3, <5>1 DEF RowsListed
            <4> QED
                BY <4>1, <4>2
        <3> QED
            BY <3>1, <3>3, <3>4 DEF RowsListed
    <2> QED
        BY <2>1, <2>2
<1> QED
    BY <1>9, <1>10, <1>11 DEF after

\* The agenda lists the first of the events to come, in its area.
Agenda(card, area, next, now) ==
    /\ card.name = "agenda" /\ card.area = area /\ card.boxes = {}
    /\ Len(card.rows) \in 0..Len(next) /\ DOMAIN card.rows = 1..Len(card.rows)
    /\ Len(next) > 0 => Len(card.rows) > 0
    /\ \A k \in 1..Len(card.rows) : card.rows[k] = RowOf(area, next, now, k)
    /\ \A m \in card.marks : area.y0 < m /\ m < area.y1

LEMMA AgendaIs ==
    ASSUME NEW area \in AgendaAreas, NEW E, IsFiniteSet(E), E \subseteq Event, NEW now \in Int
    PROVE  Agenda(AgendaCard(area, E, now), area, Upcoming(E, now, AgendaEvents), now)
<1> DEFINE next == Upcoming(E, now, AgendaEvents)
           n == Len(next)
           seq == [i \in DOMAIN next |-> i]
           A == RowState(area, next, now)
           P(g) == g = [t \in SUBSET (1..n) |->
                          IF t = {} THEN RowStart(area)
                          ELSE Row(area, next, now, g[t \ {Max(t)}], seq[Max(t)])]
           step == [p \in A \X (1..n) |-> Row(area, next, now, p[1], p[2])]
           h == CHOOSE f : P(f)
           card == AgendaCard(area, E, now)
           Below(st, i) == Row(area, next, now, st, i)
           flow == FoldLeft(Below, RowStart(area), seq)
<1>1. next \in Seq(Event) /\ n \in Nat /\ DOMAIN next = 1..n
    <2>1. AgendaEvents \in Nat
        BY DEF AgendaEvents
    <2>2. next \in Seq(Live(E, now)) /\ Live(E, now) \subseteq Event
        BY <2>1, UpcomingIs
    <2> HIDE DEF next
    <2>3. next \in Seq(Event)
        BY <2>2, SeqMonotonic
    <2> QED
        BY <2>3, LenProperties
<1>2. RowStart(area) \in A /\ RowsInArea(area, RowStart(area), 0)
      /\ RowsListed(area, next, now, RowStart(area), 0)
    <2> HIDE DEF next
    <2>1. Top(area) \in Int
        BY LengthsAre DEF Lengths
    <2>2. RowStart(area) \in A
        BY <2>1, EmptySeq DEF RowState, RowStart
    <2>3. RowStart(area).rows = <<>> /\ RowStart(area).full = FALSE /\ RowStart(area).marks = {}
          /\ RowStart(area).y = Top(area) /\ Len(<<>>) = 0 /\ 1..0 = {}
        BY DEF RowStart
    <2> QED
        BY <2>1, <2>2, <2>3 DEF RowsInArea, RowsListed
<1>3. ASSUME NEW st \in A, NEW i \in 1..n
      PROVE  LET after == Row(area, next, now, st, i)
             IN  /\ after \in A
                 /\ RowsInArea(area, st, i - 1) => RowsInArea(area, after, i)
                 /\ RowsListed(area, next, now, st, i - 1) => RowsListed(area, next, now, after, i)
    <2> HIDE DEF next
    <2> QED
        BY <1>1, RowKeeps
<1>4. step \in [A \X (1..n) -> A]
    <2> HIDE DEF A, n, next
    <2> QED
        BY <1>3
<1>5. \A a \in A, i \in 1..n : step[<<a, i>>] = Row(area, next, now, a, i)
    OBVIOUS
<1>6. ASSUME NEW t \in SUBSET (1..n), t # {}
      PROVE  Max(t) \in 1..n /\ t \ {Max(t)} \in SUBSET (1..n)
    <2> HIDE DEF n
    <2> QED
        BY <1>1, <1>6, MaxOf
<1>7. /\ card.name = "agenda" /\ card.area = area /\ card.boxes = {}
      /\ card.rows = h[1..n].rows
      /\ card.marks = {area.y0 + Scaled(30, area), area.y0 + Scaled(30, area) + Scaled(10, area)}
                         \cup (IF next = <<>> THEN {Top(area) + Scaled(28, area)} ELSE h[1..n].marks)
    <2>1. /\ card.name = "agenda" /\ card.area = area /\ card.boxes = {}
          /\ card.rows = flow.rows
          /\ card.marks = {area.y0 + Scaled(30, area), area.y0 + Scaled(30, area) + Scaled(10, area)}
                              \cup (IF next = <<>> THEN {Top(area) + Scaled(28, area)} ELSE flow.marks)
        BY DEF AgendaCard, RowStart, Top
    <2>2. DOMAIN seq = 1..n
        BY <1>1
    <2> HIDE DEF seq, next, n
    <2>3. flow = h[1..n]
        BY <2>2 DEF FoldLeft, MapThenFoldSet, Max
    <2> HIDE DEF flow, h, card
    <2> QED
        BY <2>1, <2>3
<1>8. \A i \in 1..n : seq[i] = i
    BY <1>1
<1> HIDE DEF step, n, A, h, next, seq, card
<1>9. PICK g : FoldsAs(g, A, RowStart(area), n, step)
    BY <1>1, <1>2, <1>4, FoldExists
<1>10. P(g)
    <2>1. ASSUME NEW t \in SUBSET (1..n), t # {}
          PROVE  step[<<g[t \ {Max(t)}], Max(t)>>] = Row(area, next, now, g[t \ {Max(t)}], seq[Max(t)])
        BY <1>5, <1>6, <1>8, <1>9, <2>1 DEF FoldsAs
    <2>2. g = [t \in SUBSET (1..n) |-> g[t]]
        BY <1>9 DEF FoldsAs
    <2> QED
        BY <1>9, <2>1, <2>2 DEF FoldsAs
<1>11. P(h)
    <2> HIDE DEF P
    <2> QED
        BY <1>10 DEF h
<1>12. Follows(h, A, RowStart(area), n, step)
    <2>1. ASSUME NEW t \in SUBSET (1..n), t # {}, h[t \ {Max(t)}] \in A
          PROVE  h[t] = step[<<h[t \ {Max(t)}], Max(t)>>]
        <3>1. Max(t) \in 1..n /\ seq[Max(t)] = Max(t)
            BY <1>6, <1>8, <2>1
        <3>2. h[t] = Row(area, next, now, h[t \ {Max(t)}], seq[Max(t)])
            BY <1>11, <2>1
        <3> QED
            BY <1>5, <2>1, <3>1, <3>2
    <2>2. h[{}] = RowStart(area)
        BY <1>11
    <2> QED
        BY <2>1, <2>2 DEF Follows
<1>13. PICK F : Steps(F, A, RowStart(area), n, step) /\ F[n] = h[1..n]
    <2>1. Reaches(h[1..n], A, RowStart(area), n, step)
        BY <1>1, <1>2, <1>4, <1>12, Chain
    <2> QED
        BY <2>1 DEF Reaches
<1> DEFINE T == {m \in Nat : m \in 0..n => /\ RowsInArea(area, F[m], m)
                                          /\ RowsListed(area, next, now, F[m], m)}
<1>14. 0 \in T
    <2>1. F[0] = RowStart(area)
        BY <1>13 DEF Steps
    <2> QED
        BY <1>2, <2>1
<1>15. ASSUME NEW m \in Nat, m \in T PROVE m + 1 \in T
    <2> SUFFICES ASSUME m + 1 \in 0..n
                 PROVE  RowsInArea(area, F[m + 1], m + 1) /\ RowsListed(area, next, now, F[m + 1], m + 1)
        OBVIOUS
    <2>1. m + 1 \in 1..n /\ (m + 1) - 1 = m /\ m \in 0..n
        BY <1>1
    <2>2. F[m] \in A /\ F[m + 1] = Row(area, next, now, F[m], m + 1)
        BY <1>5, <1>13, <2>1 DEF Steps
    <2>3. RowsInArea(area, F[m], m) /\ RowsListed(area, next, now, F[m], m)
        BY <1>15, <2>1
    <2> QED
        BY <1>3, <2>1, <2>2, <2>3
<1>16. F[n] \in A /\ RowsInArea(area, F[n], n) /\ RowsListed(area, next, now, F[n], n)
    <2>1. n \in 0..n
        BY <1>1
    <2>2. n \in T
        <3> HIDE DEF T
        <3>1. Nat \subseteq T
            BY <1>14, <1>15, Induction
        <3> QED
            BY <1>1, <3>1
    <2> QED
        BY <1>13, <2>1, <2>2 DEF Steps
<1>17. /\ Len(card.rows) \in 0..n /\ DOMAIN card.rows = 1..Len(card.rows)
       /\ n > 0 => Len(card.rows) > 0
       /\ \A k \in 1..Len(card.rows) : card.rows[k] = RowOf(area, next, now, k)
    <2>1. card.rows \in Seq({RowOf(area, next, now, k) : k \in 1..Len(next)})
        BY <1>7, <1>13, <1>16 DEF A, RowState
    <2> DEFINE S == {RowOf(area, next, now, k) : k \in 1..Len(next)}
    <2>2. Len(card.rows) \in Nat /\ DOMAIN card.rows = 1..Len(card.rows)
        <3> HIDE DEF S
        <3> QED
            BY <2>1, LenProperties DEF S
    <2> QED
        BY <1>1, <1>7, <1>13, <1>16, <2>2 DEF RowsListed
<1>18. ASSUME NEW m \in card.marks PROVE area.y0 < m /\ m < area.y1
    <2>1. /\ area.y0 < area.y0 + Scaled(30, area) /\ area.y0 + Scaled(30, area) < area.y1
          /\ area.y0 < area.y0 + Scaled(30, area) + Scaled(10, area)
          /\ area.y0 + Scaled(30, area) + Scaled(10, area) < area.y1
          /\ area.y0 < Top(area) + Scaled(28, area) /\ Top(area) + Scaled(28, area) < area.y1
        BY DEF AgendaAreas, Top, Rect, Scaled, Height, RefCell
    <2>2. m \in h[1..n].marks => area.y0 < m /\ m < area.y1
        BY <1>13, <1>16 DEF RowsInArea
    <2> QED
        BY <1>7, <1>18, <2>1, <2>2
<1> QED
    BY <1>7, <1>17, <1>18 DEF Agenda, card, next, n
-----------------------------------------------------------------------------
\* The month card.
LaterOK(later, live) ==
    /\ later \in Seq(live) /\ Len(later) \in 0..2
    /\ \A i \in 1..Len(later) : Rank(live, later[i]) = i + 2
    /\ \A e \in live : Rank(live, e) \in 3..4 => \E i \in 1..Len(later) : later[i] = e

LEMMA LaterIs ==
    ASSUME NEW E, IsFiniteSet(E), E \subseteq Event, NEW now \in Int
    PROVE  LaterOK(LaterEvents(E, now), Live(E, now))
<1> DEFINE up == Upcoming(E, now, 5)
           live == Live(E, now)
           later == LaterEvents(E, now)
<1>1. /\ up \in Seq(live) /\ Len(up) \in 0..5
      /\ \A i \in 1..Len(up) : Rank(live, up[i]) = i - 1
      /\ \A e \in live : Rank(live, e) < 5 => \E i \in 1..Len(up) : up[i] = e
    <2>1. /\ up \in Seq(live) /\ Cardinality(live) \in Nat
          /\ Len(up) = IF 5 < Cardinality(live) THEN 5 ELSE Cardinality(live)
          /\ \A i \in DOMAIN up : Rank(live, up[i]) = i - 1
          /\ \A e \in live : Rank(live, e) < 5 => \E i \in DOMAIN up : up[i] = e
        <3> DEFINE n == 5
        <3>1. n \in Nat
            OBVIOUS
        <3> HIDE DEF n
        <3>2. LET u == Upcoming(E, now, n) IN
              /\ u \in Seq(live) /\ Cardinality(live) \in Nat
              /\ Len(u) = IF n < Cardinality(live) THEN n ELSE Cardinality(live)
              /\ \A i \in DOMAIN u : Rank(live, u[i]) = i - 1
              /\ \A e \in live : Rank(live, e) < n => \E i \in DOMAIN u : u[i] = e
            BY <3>1, UpcomingIs
        <3> QED
            BY <3>2 DEF n
    <2> HIDE DEF up, live
    <2>2. DOMAIN up = 1..Len(up)
        BY <2>1, LenProperties
    <2>3. Len(up) \in 0..5
        BY <2>1
    <2> QED
        BY <2>1, <2>2, <2>3
<1>2. later = SubSeq(up, 4, Len(up))
    BY DEF LaterEvents, AgendaEvents, FooterMax
<1> HIDE DEF up, live, later
<1>3. /\ later \in Seq(live) /\ Len(later) = (IF 4 <= Len(up) THEN Len(up) - 3 ELSE 0)
      /\ \A i \in 1..Len(later) : later[i] = up[i + 3]
    BY <1>1, <1>2
<1>4. ASSUME NEW i \in 1..Len(later) PROVE Rank(live, later[i]) = i + 2
    <2>1. i + 3 \in 1..Len(up) /\ (i + 3) - 1 = i + 2
        BY <1>1, <1>3
    <2> QED
        BY <1>1, <1>3, <2>1
<1>5. ASSUME NEW e \in live, Rank(live, e) \in 3..4
      PROVE  \E i \in 1..Len(later) : later[i] = e
    <2>1. Rank(live, e) < 5
        BY <1>5
    <2>2. PICK j \in 1..Len(up) : up[j] = e
        BY <1>1, <2>1
    <2>3. j - 1 \in 3..4
        BY <1>1, <1>5, <2>2
    <2>4. j - 3 \in 1..Len(later) /\ (j - 3) + 3 = j
        BY <1>1, <1>3, <2>3
    <2> QED
        BY <1>3, <2>2, <2>4
<1>6. Len(later) \in 0..2
    BY <1>1, <1>3
<1>7. LaterOK(later, live)
    BY <1>3, <1>4, <1>5, <1>6 DEF LaterOK
<1> QED
    BY <1>7 DEF later, live

Month(card, area, E, now) ==
    LET today == Reads(DayOf(now))
        later == LaterEvents(E, now)
        Day(i) == AddDate(MondayOf(today), i)
    IN  /\ card.name = "month" /\ card.area = area
        /\ Len(card.later) = Len(later) /\ DOMAIN card.later = 1..Len(later)
        /\ \A i \in 1..Len(later) :
              card.later[i] = [event |-> later[i], day |-> DayLabel(now, later[i].start)]
        /\ DOMAIN card.days = 0..27
        /\ \A i \in 0..27 :
              /\ card.days[i].day = DateOf(Day(i))
              /\ card.days[i].dot = (Day(i) \in {Reads(DayOf(e.start)) : e \in E} /\ Day(i) # today)
              /\ card.days[i].tone = IF Day(i) = today THEN "today"
                                     ELSE IF Day(i) < today THEN "past" ELSE "ahead"

LEMMA MonthIs ==
    ASSUME NEW area, NEW E, IsFiniteSet(E), E \subseteq Event, NEW now \in Int
    PROVE  Month(MonthCard(area, E, now), area, E, now)
<1> DEFINE card == MonthCard(area, E, now)
           later == LaterEvents(E, now)
           today == Reads(DayOf(now))
           Day(i) == AddDate(MondayOf(today), i)
<1>1. DOMAIN later = 1..Len(later) /\ Len(later) \in Nat
    <2> HIDE DEF later
    <2>1. later \in Seq(Live(E, now))
        BY LaterIs DEF LaterOK, later
    <2> QED
        BY <2>1, LenProperties
<1>2. /\ card.name = "month" /\ card.area = area
      /\ card.later = [i \in DOMAIN later |->
                          [event |-> later[i], day |-> DayLabel(now, later[i].start)]]
    BY DEF MonthCard
<1>3. /\ DOMAIN card.days = 0..27
      /\ \A i \in 0..27 :
            /\ card.days[i].day = DateOf(Day(i))
            /\ card.days[i].dot = (Day(i) \in {Reads(DayOf(e.start)) : e \in E} /\ Day(i) # today)
            /\ card.days[i].tone = IF Day(i) = today THEN "today"
                                   ELSE IF Day(i) < today THEN "past" ELSE "ahead"
    <2> DEFINE S(v) == Scaled(v, area)
               top == area.y0 + S(30) + S(34) + S(8)
               bottom == area.y1 - (IF later = <<>> THEN 0 ELSE S(20) + Len(later) * S(24)) - S(6)
               marked == {Reads(DayOf(e.start)) : e \in E}
               day(i) == MonthDay(area, top, (bottom - top) \div 4, today, marked, i)
    <2>1. card.days = [i \in 0..27 |-> [day |-> day(i).day, dot |-> day(i).dot, tone |-> day(i).tone]]
        <3> HIDE DEF later, today, marked
        <3> QED
            BY DEF MonthCard, Weeks, later, today, marked
    <2>2. \A i \in 0..27 : day(i).day = DateOf(Day(i)) /\ day(i).dot = (Day(i) \in marked /\ Day(i) # today)
             /\ day(i).tone = IF Day(i) = today THEN "today"
                              ELSE IF Day(i) < today THEN "past" ELSE "ahead"
        <3> HIDE DEF today, marked, top, bottom
        <3> QED
            BY DEF MonthDay
    <2> HIDE DEF day, card, today, marked, Day
    <2>3. DOMAIN card.days = 0..27
        BY <2>1
    <2>4. ASSUME NEW i \in 0..27
          PROVE  /\ card.days[i].day = DateOf(Day(i))
                 /\ card.days[i].dot = (Day(i) \in marked /\ Day(i) # today)
                 /\ card.days[i].tone = IF Day(i) = today THEN "today"
                                        ELSE IF Day(i) < today THEN "past" ELSE "ahead"
        <3>1. card.days[i] = [day |-> day(i).day, dot |-> day(i).dot, tone |-> day(i).tone]
            BY <2>1
        <3>2. card.days[i].day = day(i).day /\ card.days[i].dot = day(i).dot
              /\ card.days[i].tone = day(i).tone
            BY <3>1
        <3> QED
            BY <2>2, <3>2, Zenon
    <2> QED
        BY <2>3, <2>4, Zenon DEF marked
<1> HIDE DEF later, card
<1>4. Len(card.later) = Len(later) /\ DOMAIN card.later = 1..Len(later)
    BY <1>1, <1>2
<1> QED
    BY <1>1, <1>2, <1>3, <1>4 DEF Month, later, card
-----------------------------------------------------------------------------
\* Days: how long a span of them is, and what a rounded span says.
LEMMA MidnightGrows ==
    ASSUME NEW d \in DOMAIN Midnight, NEW n \in Nat, d + n \in DOMAIN Midnight
    PROVE  /\ Midnight[d] \in Int /\ Midnight[d + n] \in Int
           /\ 92 * n <= Midnight[d + n] - Midnight[d] /\ Midnight[d + n] - Midnight[d] <= 100 * n
<1> DEFINE T == {k \in Nat : d + k \in DOMAIN Midnight =>
                                /\ 92 * k <= Midnight[d + k] - Midnight[d]
                                /\ Midnight[d + k] - Midnight[d] <= 100 * k}
<1>1. \A e \in DOMAIN Midnight : e \in Int /\ Midnight[e] \in Int
    BY AgendaAssumption
<1>2. 0 \in T
    <2>1. d + 0 = d /\ 92 * 0 = 0 /\ 100 * 0 = 0 /\ Midnight[d] - Midnight[d] = 0
        BY <1>1
    <2> QED
        BY <2>1
<1>3. ASSUME NEW k \in Nat, k \in T PROVE k + 1 \in T
    <2> SUFFICES ASSUME d + (k + 1) \in DOMAIN Midnight
                 PROVE  /\ 92 * (k + 1) <= Midnight[d + (k + 1)] - Midnight[d]
                        /\ Midnight[d + (k + 1)] - Midnight[d] <= 100 * (k + 1)
        OBVIOUS
    <2>1. d \in Int
        BY <1>1
    <2>2. d + k \in d..d + (k + 1) /\ (d + k) + 1 = d + (k + 1)
        BY <2>1
    <2>3. d + k \in DOMAIN Midnight
        BY <2>2, AgendaAssumption
    <2>4. 92 * k <= Midnight[d + k] - Midnight[d] /\ Midnight[d + k] - Midnight[d] <= 100 * k
        BY <1>3, <2>3
    <2>5. Midnight[(d + k) + 1] - Midnight[d + k] \in {92, 96, 100}
        BY <2>2, <2>3, AgendaAssumption
    <2>6. /\ Midnight[d] \in Int /\ Midnight[d + k] \in Int /\ Midnight[(d + k) + 1] \in Int
        BY <1>1, <2>2, <2>3
    <2> QED
        BY <2>2, <2>4, <2>5, <2>6
<1>4. n \in T
    <2> HIDE DEF T
    <2> QED
        BY <1>2, <1>3, Induction
<1> QED
    BY <1>1, <1>4

LEMMA DayIs ==
    ASSUME NEW t, Dated(t)
    PROVE  DayOf(t) \in DOMAIN Midnight /\ DayOf(t) \in Int
BY AgendaAssumption DEF Dated, DayOf

\* What goes for a midnight is at most an hour from it.
LEMMA NearMidnight ==
    ASSUME NEW d \in DOMAIN Midnight
    PROVE  /\ Midnight[d] \in Int /\ DateOnly(d) \in Int
           /\ -4 <= DateOnly(d) - Midnight[d] /\ DateOnly(d) - Midnight[d] <= 4
BY AgendaAssumption DEF DateOnly

LEMMA LabelIs ==
    ASSUME NEW now, Dated(now), NEW t, Dated(t)
    PROVE  DayLabel(now, t) = DayName(DayOf(t) - DayOf(now))
<1> DEFINE d == DayOf(now)
           e == DayOf(t)
           span == DateOnly(e) - DateOnly(d) + 48
           diff == IF span >= 0 THEN span \div 96 ELSE -((-span) \div 96)
           Name(n) == CASE n <= 0 -> "today" [] n = 1 -> "tomorrow"
                        [] n \in 2..6 -> "weekday" [] OTHER -> "date"
<1>1. d \in DOMAIN Midnight /\ d \in Int /\ e \in DOMAIN Midnight /\ e \in Int
    BY DayIs
<1>2. DayLabel(now, t) = Name(diff)
    <2>1. Hours(24) = 96 /\ Hours(12) = 48
        BY DEF Hours
    <2> QED
        BY <2>1 DEF DayLabel
<1>3. DayName(DayOf(t) - DayOf(now)) = Name(e - d)
    BY DEF DayName
<1> HIDE DEF d, e
<1>4. /\ Midnight[d] \in Int /\ Midnight[e] \in Int
      /\ DateOnly(d) \in Int /\ -4 <= DateOnly(d) - Midnight[d] /\ DateOnly(d) - Midnight[d] <= 4
      /\ DateOnly(e) \in Int /\ -4 <= DateOnly(e) - Midnight[e] /\ DateOnly(e) - Midnight[e] <= 4
    BY <1>1, NearMidnight
<1>5. CASE e >= d
    <2>1. PICK n \in Nat : n = e - d /\ e = d + n
        BY <1>1, <1>5
    <2>2. 92 * n + 40 <= span /\ span <= 100 * n + 56 /\ span \in Int
        <3>1. 92 * n <= Midnight[d + n] - Midnight[d] /\ Midnight[d + n] - Midnight[d] <= 100 * n
            BY <1>1, <2>1, MidnightGrows
        <3> QED
            BY <1>4, <2>1, <3>1
    <2> HIDE DEF span
    <2>3. diff = span \div 96 /\ diff \in Nat
        BY <2>2
    <2>4. n <= 6 => diff = n
        BY <2>2, <2>3
    <2>5. n >= 7 => diff >= 7
        BY <2>2, <2>3
    <2> HIDE DEF diff
    <2>6. Name(diff) = Name(n)
        BY <2>3, <2>4, <2>5
    <2> QED
        BY <1>2, <1>3, <2>1, <2>6
<1>6. CASE e < d
    <2>1. PICK n \in Nat : n = d - e /\ d = e + n /\ n >= 1
        BY <1>1, <1>6
    <2>2. span <= 56 - 92 * n /\ span \in Int
        <3>1. 92 * n <= Midnight[e + n] - Midnight[e]
            BY <1>1, <2>1, MidnightGrows
        <3> QED
            BY <1>4, <2>1, <3>1
    <2> HIDE DEF span
    <2>3. diff \in Int /\ diff <= 0
        BY <2>1, <2>2
    <2>4. e - d \in Int /\ e - d <= 0
        BY <1>1, <1>6
    <2> HIDE DEF diff
    <2>5. Name(diff) = "today" /\ Name(e - d) = "today"
        BY <2>3, <2>4, SMTT(60)
    <2> QED
        BY <1>2, <1>3, <2>5
<1> QED
    BY <1>1, <1>5, <1>6

\* Where a day has a midnight its time reads midnight, and AddDate goes from midnight to
\* midnight; the time of a day without one reads no midnight at all.
LEMMA Readings ==
    ASSUME NEW d \in Int
    PROVE  /\ d \notin Skipped => Reads(d) = 96 * d
           /\ Reads(d) \in Int
           /\ \A c \in Int : Reads(d) = 96 * c => c = d
           /\ \A n \in Int : d + n \notin Skipped => AddDate(96 * d, n) = 96 * (d + n)
           /\ DateOf(96 * d) = d
<1>1. Hours(24) = 96
    BY DEF Hours
<1>2. ASSUME NEW c \in Int
      PROVE  /\ DateOf(96 * c) = c
             /\ TimeDate(96 * c) = 96 * c \/ TimeDate(96 * c) = 96 * c - 4 \/ TimeDate(96 * c) = 96 * c + 4
             /\ c \notin Skipped => TimeDate(96 * c) = 96 * c
    <2>1. (96 * c) \div 96 = c
        OBVIOUS
    <2>2. SkippedTo = -4 \/ SkippedTo = 4
        BY AgendaAssumption
    <2> QED
        BY <1>1, <2>1, <2>2 DEF TimeDate, DateOf
<1>3. Reads(d) = TimeDate(96 * d)
    BY <1>1 DEF Reads
<1>4. ASSUME NEW c \in Int, Reads(d) = 96 * c PROVE c = d
    <2>1. 96 * c = 96 * d \/ 96 * c = 96 * d - 4 \/ 96 * c = 96 * d + 4
        BY <1>2, <1>3, <1>4
    <2> QED
        BY <2>1
<1>5. ASSUME NEW n \in Int, d + n \notin Skipped PROVE AddDate(96 * d, n) = 96 * (d + n)
    <2>1. d + n \in Int /\ 96 * d + 96 * n = 96 * (d + n)
        OBVIOUS
    <2> QED
        BY <1>1, <1>2, <1>5, <2>1 DEF AddDate
<1> QED
    BY <1>2, <1>3, <1>4, <1>5

\* What the month card says of the days, if none of its four weeks lacks a midnight.
FirstDay(today) == today - ((today - Monday) % 7)
GridRight(m, E, now) ==
    LET today == DayOf(now)
        first == FirstDay(today)
    IN  \A i \in DOMAIN m.days :
           /\ m.days[i].day = first + i
           /\ m.days[i].tone = "today" <=> first + i = today
           /\ m.days[i].dot <=> first + i # today /\ \E e \in E : DayOf(e.start) = first + i

LEMMA MonthDays ==
    ASSUME NEW area, NEW E, IsFiniteSet(E), E \subseteq Event, \A e \in E : Dated(e.start),
           NEW now, Dated(now),
           (FirstDay(DayOf(now))..FirstDay(DayOf(now)) + 27) \cap Skipped = {}
    PROVE  GridRight(MonthCard(area, E, now), E, now)
<1> DEFINE m == MonthCard(area, E, now)
           today == DayOf(now)
           first == FirstDay(today)
           marked == {Reads(DayOf(e.start)) : e \in E}
           Day(i) == AddDate(MondayOf(Reads(today)), i)
<1>1. now \in Int /\ today \in Int /\ Monday \in Int
    BY DayIs, AgendaAssumption DEF Dated
<1>2. Month(m, area, E, now)
    BY <1>1, MonthIs
<1>3. /\ DOMAIN m.days = 0..27
      /\ \A i \in 0..27 :
            /\ m.days[i].day = DateOf(Day(i))
            /\ m.days[i].dot = (Day(i) \in marked /\ Day(i) # Reads(today))
            /\ m.days[i].tone = IF Day(i) = Reads(today) THEN "today"
                                ELSE IF Day(i) < Reads(today) THEN "past" ELSE "ahead"
    BY <1>2 DEF Month
<1>4. \A i \in 0..27 : first \in Int /\ first + i \in first..first + 27 /\ first + i \notin Skipped
    BY <1>1 DEF FirstDay
<1> HIDE DEF m, today
<1>5. first \in Int /\ today - first \in 0..6
    BY <1>1 DEF FirstDay
<1>6. Reads(today) = 96 * today /\ MondayOf(Reads(today)) = 96 * first
    <2> DEFINE back == -((today - Monday) % 7)
    <2>1. back \in Int /\ today + back = first
        BY <1>1 DEF FirstDay
    <2> HIDE DEF back, first
    <2>2. first + 0 = first /\ first + (today - first) = today
        BY <1>1, <1>5
    <2>3. first \notin Skipped /\ today \notin Skipped
        BY <1>4, <1>5, <2>2
    <2>4. /\ Reads(today) = 96 * today /\ DateOf(96 * today) = today
          /\ AddDate(96 * today, back) = 96 * first
        BY <1>1, <2>1, <2>3, Readings
    <2> QED
        BY <2>4 DEF MondayOf, back
<1> HIDE DEF first
<1>7. ASSUME NEW i \in 0..27
      PROVE  Day(i) = 96 * (first + i) /\ DateOf(Day(i)) = first + i
    <2>1. first + i \in Int /\ i \in Int
        BY <1>5
    <2>2. AddDate(96 * first, i) = 96 * (first + i) /\ DateOf(96 * (first + i)) = first + i
        BY <1>4, <1>5, <2>1, Readings
    <2> QED
        BY <1>6, <2>2
<1>8. ASSUME NEW i \in 0..27
      PROVE  96 * (first + i) \in marked <=> \E e \in E : DayOf(e.start) = first + i
    <2>1. ASSUME NEW e \in E
          PROVE  Reads(DayOf(e.start)) = 96 * (first + i) <=> DayOf(e.start) = first + i
        <3>1. DayOf(e.start) \in Int /\ first + i \in Int /\ first + i \notin Skipped
            BY <1>4, <1>5, DayIs
        <3>2. Reads(DayOf(e.start)) = 96 * (first + i) => first + i = DayOf(e.start)
            BY <3>1, Readings
        <3>3. DayOf(e.start) = first + i => Reads(DayOf(e.start)) = 96 * (first + i)
            BY <3>1, Readings
        <3> QED
            BY <3>2, <3>3
    <2> QED
        BY <2>1
<1> HIDE DEF Day, marked
<1>9. ASSUME NEW i \in 0..27
      PROVE  /\ m.days[i].day = first + i
             /\ m.days[i].tone = "today" <=> first + i = today
             /\ m.days[i].dot <=> first + i # today /\ \E e \in E : DayOf(e.start) = first + i
    <2>1. m.days[i].day = first + i
        BY <1>3, <1>7
    <2>2. Day(i) = Reads(today) <=> first + i = today
        BY <1>1, <1>5, <1>6, <1>7
    <2>3. m.days[i].tone = "today" <=> first + i = today
        BY <1>3, <2>2
    <2>4. m.days[i].dot = (Day(i) \in marked /\ Day(i) # Reads(today))
        BY <1>3, Zenon
    <2>5. Day(i) \in marked <=> \E e \in E : DayOf(e.start) = first + i
        BY <1>7, <1>8
    <2> QED
        BY <2>1, <2>2, <2>3, <2>4, <2>5, Zenon
<1> QED
    BY <1>3, <1>9, Zenon DEF m, today, first, GridRight

\* What both cards call the events they list.
Called(shown, now) == shown.day = DayName(DayOf(shown.event.start) - DayOf(now))
AllCalled(shown, now) == \A i \in DOMAIN shown : Called(shown[i], now)

LEMMA NamesRight ==
    ASSUME NEW area \in AgendaAreas, NEW side, NEW now, Dated(now),
           NEW E, IsFiniteSet(E), E \subseteq Event, \A e \in E : Dated(e.start)
    PROVE  /\ AllCalled(AgendaCard(area, E, now).rows, now)
           /\ AllCalled(MonthCard(side, E, now).later, now)
<1> DEFINE a == AgendaCard(area, E, now)
           m == MonthCard(side, E, now)
           next == Upcoming(E, now, AgendaEvents)
           later == LaterEvents(E, now)
<1>1. now \in Int /\ AgendaEvents \in Nat
    BY DEF Dated, AgendaEvents
<1>2. Agenda(a, area, next, now) /\ Month(m, side, E, now)
    BY <1>1, AgendaIs, MonthIs
<1>3. next \in Seq(Live(E, now)) /\ later \in Seq(Live(E, now)) /\ Live(E, now) \subseteq E
    BY <1>1, UpcomingIs, LaterIs DEF LaterOK, Live
<1> HIDE DEF a, m, next, later
<1>4. ASSUME NEW i \in DOMAIN a.rows PROVE Called(a.rows[i], now)
    <2>1. i \in 1..Len(a.rows) /\ Len(a.rows) \in 0..Len(next)
        BY <1>2 DEF Agenda
    <2>2. i \in 1..Len(next) /\ a.rows[i] = RowOf(area, next, now, i)
        BY <1>2, <1>3, <2>1, LenProperties DEF Agenda
    <2>3. next[i] \in E
        BY <1>3, <2>2, ElementOfSeq
    <2>4. a.rows[i].event = next[i] /\ a.rows[i].day = DayLabel(now, next[i].start)
        BY <2>2 DEF RowOf
    <2> QED
        BY <2>3, <2>4, LabelIs DEF Called
<1>5. ASSUME NEW i \in DOMAIN m.later PROVE Called(m.later[i], now)
    <2>1. /\ i \in 1..Len(later)
          /\ m.later[i] = [event |-> later[i], day |-> DayLabel(now, later[i].start)]
        BY <1>2 DEF Month, later
    <2>2. later[i] \in E
        BY <1>3, <2>1, ElementOfSeq
    <2> QED
        BY <2>1, <2>2, LabelIs DEF Called
<1> QED
    BY <1>4, <1>5 DEF a, m, AllCalled

\* What the titles of the agenda look like.
LEMMA TitlesFit ==
    ASSUME NEW area \in AgendaAreas, NEW now \in Int, NEW E, IsFiniteSet(E), E \subseteq Event
    PROVE  LET a == AgendaCard(area, E, now)
           IN  \A i \in DOMAIN a.rows :
                  Readable(a.rows[i].lines, Sanitized(a.rows[i].event.title), a.rows[i].runes)
<1> DEFINE a == AgendaCard(area, E, now)
           next == Upcoming(E, now, AgendaEvents)
<1>1. AgendaEvents \in Nat
    BY DEF AgendaEvents
<1>2. Agenda(a, area, next, now)
    BY AgendaIs
<1>3. next \in Seq(Live(E, now)) /\ Live(E, now) \subseteq Event
    BY <1>1, UpcomingIs
<1> HIDE DEF a, next
<1>4. ASSUME NEW i \in DOMAIN a.rows
      PROVE  Readable(a.rows[i].lines, Sanitized(a.rows[i].event.title), a.rows[i].runes)
    <2>1. i \in 1..Len(a.rows) /\ Len(a.rows) \in 0..Len(next)
        BY <1>2 DEF Agenda
    <2>2. i \in 1..Len(next) /\ a.rows[i] = RowOf(area, next, now, i)
        BY <1>2, <1>3, <2>1, LenProperties DEF Agenda
    <2>3. next[i].title \in DOMAIN Words
        <3>1. next[i] \in Event
            BY <1>3, <2>2, ElementOfSeq
        <3> QED
            BY <3>1 DEF Event
    <2>4. /\ a.rows[i].event = next[i] /\ a.rows[i].runes = Room(area)
          /\ a.rows[i].lines = WrapToWidth(Sanitized(next[i].title), Room(area))
        BY <2>2 DEF RowOf
    <2> QED
        BY <2>3, <2>4, GlyphsLeft, RoomIs, WrapIs
<1> QED
    BY <1>4 DEF a

\* The agenda and the footer of the month card share the events to come.
Complement(a, m, E, now) ==
    LET shown == [i \in DOMAIN a.rows |-> a.rows[i].event]
                    \o [i \in DOMAIN m.later |-> m.later[i].event]
        live == {e \in E : e.end > now}
    IN  /\ \A i \in DOMAIN shown : shown[i] \in live
        /\ \A i, j \in DOMAIN shown : i < j => Precedes(shown[i], shown[j])
        /\ live # {} => shown # <<>>
        /\ \A e \in live \ ToSet(shown) :
              (\E i \in DOMAIN shown : Precedes(e, shown[i])) => Len(a.rows) < AgendaEvents

LEMMA TilesShare ==
    ASSUME NEW area \in AgendaAreas, NEW side, NEW now \in Int,
           NEW E, IsFiniteSet(E), E \subseteq Event
    PROVE  Complement(AgendaCard(area, E, now), MonthCard(side, E, now), E, now)
<1> DEFINE a == AgendaCard(area, E, now)
           m == MonthCard(side, E, now)
           next == Upcoming(E, now, AgendaEvents)
           later == LaterEvents(E, now)
           first == [i \in DOMAIN a.rows |-> a.rows[i].event]
           second == [i \in DOMAIN m.later |-> m.later[i].event]
           shown == first \o second
           live == {e \in E : e.end > now}
           r == Len(a.rows)
           q == Len(later)
<1>1. AgendaEvents = 3 /\ AgendaEvents \in Nat
    BY DEF AgendaEvents
<1>2. Agenda(a, area, next, now) /\ Month(m, side, E, now)
    BY AgendaIs, MonthIs
<1>3. live = Live(E, now)
    BY DEF Live, Ended, Event
<1>4. /\ next \in Seq(live) /\ Cardinality(live) \in Nat
      /\ Len(next) = IF AgendaEvents < Cardinality(live) THEN AgendaEvents ELSE Cardinality(live)
      /\ \A i \in DOMAIN next : Rank(live, next[i]) = i - 1
      /\ \A e \in live : Rank(live, e) < AgendaEvents => \E i \in DOMAIN next : next[i] = e
      /\ IsFiniteSet(live) /\ live \subseteq Event
    <2> DEFINE mine == Live(E, now)
    <2>1. /\ next \in Seq(mine) /\ Cardinality(mine) \in Nat
          /\ Len(next) = IF AgendaEvents < Cardinality(mine) THEN AgendaEvents ELSE Cardinality(mine)
          /\ \A i \in DOMAIN next : Rank(mine, next[i]) = i - 1
          /\ \A e \in mine : Rank(mine, e) < AgendaEvents => \E i \in DOMAIN next : next[i] = e
          /\ IsFiniteSet(mine) /\ mine \subseteq Event
        <3> HIDE DEF a, m, later, first, second, shown, live, r, q
        <3> DEFINE n == AgendaEvents
        <3>1. n \in Nat
            BY <1>1
        <3> HIDE DEF n
        <3>2. LET u == Upcoming(E, now, n) IN
              /\ u \in Seq(mine) /\ Cardinality(mine) \in Nat
              /\ Len(u) = IF n < Cardinality(mine) THEN n ELSE Cardinality(mine)
              /\ \A i \in DOMAIN u : Rank(mine, u[i]) = i - 1
              /\ \A e \in mine : Rank(mine, e) < n => \E i \in DOMAIN u : u[i] = e
              /\ IsFiniteSet(mine) /\ mine \subseteq Event
            BY <3>1, UpcomingIs
        <3> QED
            BY <3>2 DEF n
    <2>2. live = mine
        BY <1>3
    <2> HIDE DEF live, mine, next
    <2> QED
        BY <2>1, <2>2
<1>5. LaterOK(later, live)
    <2> HIDE DEF live, later
    <2> QED
        BY <1>3, LaterIs DEF later
<1> HIDE DEF live, next
<1>6. /\ Len(next) \in 0..3 /\ DOMAIN next = 1..Len(next)
      /\ r \in 0..Len(next) /\ (Len(next) > 0 => r > 0)
      /\ \A i \in 1..r : next[i] \in live /\ Rank(live, next[i]) = i - 1
      /\ \A e \in live : Rank(live, e) < 3 => \E i \in 1..Len(next) : next[i] = e
    <2>1. DOMAIN next = 1..Len(next) /\ Len(next) \in 0..3
        <3>1. DOMAIN next = 1..Len(next)
            BY <1>4, LenProperties
        <3>2. Len(next) = IF 3 < Cardinality(live) THEN 3 ELSE Cardinality(live)
            BY <1>1, <1>4
        <3>3. Len(next) \in 0..3
            BY <1>4, <3>2
        <3> QED
            BY <3>1, <3>3
    <2>2. r \in 0..Len(next) /\ (Len(next) > 0 => r > 0)
        BY <1>2 DEF Agenda
    <2> HIDE DEF r
    <2>3. \A i \in 1..r : i \in 1..Len(next)
        BY <2>1, <2>2
    <2> QED
        BY <1>1, <1>4, <2>1, <2>2, <2>3, ElementOfSeq
<1>7. /\ q \in 0..2 /\ \A i \in 1..q : later[i] \in live /\ Rank(live, later[i]) = i + 2
      /\ \A e \in live : Rank(live, e) \in 3..4 => \E i \in 1..q : later[i] = e
    BY <1>5, ElementOfSeq DEF LaterOK
<1>8. first = [i \in 1..r |-> next[i]] /\ DOMAIN a.rows = 1..r
    <2> HIDE DEF a, r
    <2>1. DOMAIN a.rows = 1..r
        BY <1>2 DEF Agenda, r
    <2>2. ASSUME NEW i \in 1..r PROVE a.rows[i].event = next[i]
        <3>1. a.rows[i] = RowOf(area, next, now, i)
            BY <1>2 DEF Agenda, r
        <3> QED
            BY <3>1 DEF RowOf
    <2> QED
        BY <2>1, <2>2
<1>9. second = [i \in 1..q |-> later[i]]
    <2> HIDE DEF m, q
    <2>1. DOMAIN m.later = 1..q
        BY <1>2 DEF Month, later, q
    <2>2. ASSUME NEW i \in 1..q PROVE m.later[i].event = later[i]
        <3>1. m.later[i] = [event |-> later[i], day |-> DayLabel(now, later[i].start)]
            BY <1>2 DEF Month, later, q
        <3> QED
            BY <3>1
    <2> QED
        BY <2>1, <2>2
<1> HIDE DEF first, second, a, m, later, r, q
<1>10. first \in Seq(live) /\ second \in Seq(live) /\ Len(first) = r /\ Len(second) = q
       /\ r \in 0..3 /\ q \in 0..2
    <2> HIDE DEF shown
    <2>1. r \in 0..3 /\ q \in 0..2
        <3>1. Len(next) \in 0..3 /\ r \in 0..Len(next)
            BY <1>6
        <3>2. q \in 0..2
            BY <1>7
        <3>3. \A l \in 0..3 : \A x \in 0..l : x \in 0..3
            OBVIOUS
        <3> QED
            BY <3>1, <3>2, <3>3, Zenon
    <2>2. \A i \in 1..r : next[i] \in live
        BY <1>6
    <2>3. \A i \in 1..q : later[i] \in live
        BY <1>7
    <2>4. first \in Seq(live) /\ Len(first) = r
        BY <1>8, <2>1, <2>2
    <2>5. second \in Seq(live) /\ Len(second) = q
        BY <1>9, <2>1, <2>3
    <2> QED
        BY <2>1, <2>4, <2>5
<1>11. /\ Len(shown) = r + q /\ DOMAIN shown = 1..r + q
       /\ \A i \in 1..r : shown[i] = next[i]
       /\ \A i \in 1..q : shown[r + i] = later[i]
    <2>1. /\ shown \in Seq(live) /\ Len(shown) = r + q
          /\ \A i \in 1..Len(first) + Len(second) :
                shown[i] = IF i <= Len(first) THEN first[i] ELSE second[i - Len(first)]
        BY <1>10, ConcatProperties
    <2> HIDE DEF shown
    <2>2. DOMAIN shown = 1..r + q
        BY <2>1, LenProperties
    <2>3. ASSUME NEW i \in 1..r PROVE shown[i] = next[i]
        <3>1. i \in 1..r + q /\ i <= r
            BY <1>10
        <3> QED
            BY <1>8, <1>10, <2>1, <3>1
    <2>4. ASSUME NEW i \in 1..q PROVE shown[r + i] = later[i]
        <3>1. r + i \in 1..r + q /\ ~(r + i <= r) /\ (r + i) - r = i
            BY <1>10
        <3> QED
            BY <1>9, <1>10, <2>1, <3>1
    <2> QED
        BY <2>1, <2>2, <2>3, <2>4
<1> HIDE DEF shown
<1> DEFINE At(i) == IF i <= r THEN i - 1 ELSE i - r + 2
<1>12. ASSUME NEW i \in 1..r + q
       PROVE  shown[i] \in live /\ Rank(live, shown[i]) = At(i)
    <2>1. CASE i <= r
        <3>1. i \in 1..r
            BY <1>10, <2>1
        <3> QED
            BY <1>6, <1>11, <2>1, <3>1
    <2>2. CASE ~(i <= r)
        <3>1. i - r \in 1..q /\ r + (i - r) = i /\ (i - r) + 2 = At(i)
            BY <1>10, <2>2
        <3>2. shown[r + (i - r)] = later[i - r]
            BY <1>11, <3>1
        <3>3. shown[i] = later[i - r]
            BY <3>1, <3>2
        <3>4. Rank(live, later[i - r]) = (i - r) + 2 /\ later[i - r] \in live
            BY <1>7, <3>1
        <3> QED
            BY <3>1, <3>3, <3>4
    <2> QED
        BY <2>1, <2>2
<1>13. ASSUME NEW i \in 1..r + q, NEW j \in 1..r + q, i < j
       PROVE  Precedes(shown[i], shown[j])
    <2>1. At(i) < At(j)
        BY <1>10, <1>13
    <2>2. Rank(live, shown[i]) < Rank(live, shown[j])
        BY <1>12, <2>1
    <2> QED
        BY <1>4, <1>12, <2>2, RankOrder
<1>14. live # {} => shown # <<>>
    <2>1. ASSUME NEW e \in live PROVE Len(next) > 0
        <3>1. Cardinality(live) # 0
            BY <1>4, FS_EmptySet
        <3> QED
            BY <1>1, <1>4, <3>1
    <2>2. Len(next) > 0 => Len(shown) > 0
        BY <1>6, <1>10, <1>11
    <2>3. Len(<<>>) = 0
        OBVIOUS
    <2> QED
        BY <2>1, <2>2, <2>3
<1>15. ASSUME NEW e \in live, e \notin ToSet(shown), NEW i \in 1..r + q, Precedes(e, shown[i])
       PROVE  r < 3
    <2> SUFFICES ASSUME r = 3 PROVE FALSE
        BY <1>10
    <2>1. Rank(live, e) < Rank(live, shown[i]) /\ Rank(live, e) \in Nat
        <3>1. Rank(live, e) \in 0..Cardinality(live) - 1
              /\ (Precedes(e, shown[i]) <=> Rank(live, e) < Rank(live, shown[i]))
            BY <1>4, <1>12, RankOrder
        <3> QED
            BY <1>4, <1>15, <3>1
    <2>2. Rank(live, e) \in 0..4
        <3>1. At(i) <= 4
            BY <1>10
        <3> QED
            BY <1>12, <2>1, <3>1
    <2>3. \E j \in 1..r + q : shown[j] = e
        <3>1. CASE Rank(live, e) < 3
            <4>1. PICK j \in 1..Len(next) : next[j] = e
                BY <1>6, <3>1
            <4>2. Len(next) \in 0..3 /\ r \in 0..Len(next) /\ q \in 0..2
                BY <1>6, <1>10
            <4>3. j \in 1..r /\ j \in 1..r + q
                BY <4>1, <4>2
            <4> QED
                BY <1>11, <4>1, <4>3
        <3>2. CASE ~(Rank(live, e) < 3)
            <4>1. Rank(live, e) \in 3..4
                BY <2>2, <3>2
            <4>2. PICK j \in 1..q : later[j] = e
                BY <1>7, <4>1
            <4>3. r + j \in 1..r + q
                BY <1>10
            <4> QED
                BY <1>11, <4>2, <4>3
        <3> QED
            BY <3>1, <3>2
    <2> QED
        BY <1>11, <1>15, <2>3 DEF ToSet
<1> QED
    BY <1>1, <1>11, <1>12, <1>13, <1>14, <1>15 DEF Complement, shown, first, second, live, a, m, r
-----------------------------------------------------------------------------
\* The cards of a picture.
Header == HeaderCard(HeaderRect(G), model # None, ParseBattery(page.query.batt, page.query.plug))
Credit == FooterCard(FooterRect(G))
Apology == UnavailableCard(WideCell(1))
TodayIs == TodayCard(Cell(0, 1), model)
DaysAhead == ForecastCard(Cell(1, 1), model)
RainStrip == RainCard(FooterRect(G), model.hourly)
RainAbove == RainCard(WideCell(0), model.hourly)
MonthSeen == MonthCard(Cell(0, 0), page.events, page.now)
AgendaSeen == AgendaCard(Cell(1, 0), page.events, page.now)

\* The answer of the weather provider.
Answer ==
    CASE page.weather.kind = "demo" -> DemoModel(page.now)
      [] page.weather.kind = "reply" /\ Decodes(page.weather.reply) -> ToForecast(page.weather.reply)
      [] OTHER -> None

\* The cards drawn when a picture is finished, without weather and with it.
Sorry == <<Header>> \o (CalendarCards \o <<Apology, Credit>>)
Started == <<Header>> \o <<TodayIs, DaysAhead>>
WithStrip == Started \o (<<RainStrip>> \o CalendarCards)
WithCard == Started \o <<RainAbove, Credit>>

\* How far a picture has got.
Drawn ==
    /\ page \in Pages
    /\ model = IF pc = "weather" THEN None ELSE Answer
    /\ \/ pc \in {"weather", "header"} /\ cards = <<>>
       \/ pc = "unavailable" /\ model = None /\ cards = <<Header>>
       \/ pc = "today" /\ model # None /\ cards = <<Header>>
       \/ pc = "rain" /\ model # None /\ cards = Started
       \/ pc = "panic" /\ model # None /\ model.hourly = <<>> /\ cards = Started
       \/ pc = "done" /\ model = None /\ cards = Sorry
       \/ pc = "done" /\ model # None /\ model.hourly # <<>> /\ cards = WithStrip
       \/ pc = "done" /\ model # None /\ model.hourly # <<>> /\ cards = WithCard

LEMMA Unmoved ==
    ASSUME page' = page, model' = model
    PROVE  /\ Header' = Header /\ Started' = Started /\ Sorry' = Sorry
           /\ WithStrip' = WithStrip /\ WithCard' = WithCard /\ Answer' = Answer
<1>1. G' = G
    BY DEF G, Orientation
<1>2. Header' = Header /\ Credit' = Credit /\ Apology' = Apology /\ RainStrip' = RainStrip
    BY <1>1, Zenon DEF Header, Credit, Apology, RainStrip, WideCell
<1>3. /\ TodayIs' = TodayIs /\ DaysAhead' = DaysAhead /\ RainAbove' = RainAbove
      /\ CalendarCards' = CalendarCards
    BY <1>1, Zenon DEF TodayIs, DaysAhead, RainAbove, CalendarCards, Cell, WideCell
<1>4. Started' = Started
    BY <1>2, <1>3, Zenon DEF Started
<1>5. Sorry' = Sorry /\ WithStrip' = WithStrip /\ WithCard' = WithCard
    BY <1>2, <1>3, <1>4, Zenon DEF Sorry, WithStrip, WithCard
<1>6. Answer' = Answer
    BY Zenon DEF Answer
<1> QED
    BY <1>2, <1>4, <1>5, <1>6

LEMMA DrawnHolds == Spec => []Drawn
<1>1. Init => Drawn
    BY DEF Init, Drawn
<1>2. ASSUME Drawn, [Next]_vars PROVE Drawn'
    <2>1. CASE GetWeather
        <3>1. /\ pc = "weather" /\ pc' = "header" /\ page' = page /\ cards' = cards
              /\ model' = Answer
            BY <2>1 DEF GetWeather, Answer
        <3>2. Answer' = Answer
            BY <3>1, Zenon DEF Answer
        <3>3. cards = <<>> /\ page \in Pages
            BY <1>2, <3>1 DEF Drawn
        <3> QED
            BY <3>1, <3>2, <3>3 DEF Drawn
    <2>2. CASE DrawHeader
        <3>1. /\ pc = "header" /\ pc' = (IF model = None THEN "unavailable" ELSE "today")
              /\ cards' = cards \o <<Header>> /\ page' = page /\ model' = model
            BY <2>2 DEF DrawHeader, Draw, Header
        <3>2. cards = <<>> /\ page \in Pages /\ model = Answer
            BY <1>2, <3>1 DEF Drawn
        <3>3. cards' = <<Header>>
            BY <3>1, <3>2
        <3> QED
            BY <3>1, <3>2, <3>3, Unmoved DEF Drawn
    <2>3. CASE DrawUnavailable
        <3>1. /\ pc = "unavailable" /\ pc' = "done" /\ page' = page /\ model' = model
              /\ cards' = cards \o (CalendarCards \o <<Apology, Credit>>)
            BY <2>3 DEF DrawUnavailable, Draw, Apology, Credit
        <3>2. cards = <<Header>> /\ page \in Pages /\ model = Answer /\ model = None
            BY <1>2, <3>1 DEF Drawn
        <3>3. cards' = Sorry
            BY <3>1, <3>2, Zenon DEF Sorry
        <3> QED
            BY <3>1, <3>2, <3>3, Unmoved DEF Drawn
    <2>4. CASE DrawWeather
        <3>1. /\ pc = "today" /\ pc' = "rain" /\ page' = page /\ model' = model
              /\ cards' = cards \o <<TodayIs, DaysAhead>>
            BY <2>4 DEF DrawWeather, Draw, TodayIs, DaysAhead
        <3>2. cards = <<Header>> /\ page \in Pages /\ model = Answer /\ model # None
            BY <1>2, <3>1 DEF Drawn
        <3>3. cards' = Started
            BY <3>1, <3>2, Zenon DEF Started
        <3> QED
            BY <3>1, <3>2, <3>3, Unmoved DEF Drawn
    <2>5. CASE RainPanics
        <3>1. /\ pc = "rain" /\ pc' = "panic" /\ page' = page /\ model' = model
              /\ cards' = cards \o <<>> /\ model.hourly = <<>>
            BY <2>5 DEF RainPanics, Draw
        <3>2. cards = Started /\ page \in Pages /\ model = Answer /\ model # None
            BY <1>2, <3>1 DEF Drawn
        <3>3. Started \o <<>> = Started
            <4> DEFINE a == Header
                       b == TodayIs
                       c == DaysAhead
            <4>1. Started = <<a>> \o <<b, c>>
                BY DEF Started
            <4> HIDE DEF a, b, c
            <4>2. <<a>> \in Seq({a, b, c}) /\ <<b, c>> \in Seq({a, b, c})
                OBVIOUS
            <4>3. <<a>> \o <<b, c>> \in Seq({a, b, c})
                BY <4>2, ConcatProperties
            <4> QED
                BY <4>1, <4>3, ConcatEmptySeq
        <3>4. cards' = Started
            BY <3>1, <3>2, <3>3
        <3> QED
            BY <3>1, <3>2, <3>4, Unmoved DEF Drawn
    <2>6. CASE DrawRainStrip
        <3>1. /\ pc = "rain" /\ pc' = "done" /\ page' = page /\ model' = model
              /\ cards' = cards \o (<<RainStrip>> \o CalendarCards) /\ model.hourly # <<>>
            BY <2>6 DEF DrawRainStrip, Draw, RainStrip
        <3>2. cards = Started /\ page \in Pages /\ model = Answer /\ model # None
            BY <1>2, <3>1 DEF Drawn
        <3>3. cards' = WithStrip
            BY <3>1, <3>2, Zenon DEF WithStrip
        <3> QED
            BY <3>1, <3>2, <3>3, Unmoved DEF Drawn
    <2>7. CASE DrawRainCard
        <3>1. /\ pc = "rain" /\ pc' = "done" /\ page' = page /\ model' = model
              /\ cards' = cards \o <<RainAbove, Credit>> /\ model.hourly # <<>>
            BY <2>7 DEF DrawRainCard, Draw, RainAbove, Credit
        <3>2. cards = Started /\ page \in Pages /\ model = Answer /\ model # None
            BY <1>2, <3>1 DEF Drawn
        <3>3. cards' = WithCard
            BY <3>1, <3>2, Zenon DEF WithCard
        <3> QED
            BY <3>1, <3>2, <3>3, Unmoved DEF Drawn
    <2>8. CASE UNCHANGED vars
        <3>1. page' = page /\ model' = model /\ pc' = pc /\ cards' = cards
            BY <2>8 DEF vars
        <3> QED
            BY <1>2, <3>1, Unmoved DEF Drawn
    <2> QED
        BY <1>2, <2>1, <2>2, <2>3, <2>4, <2>5, <2>6, <2>7, <2>8 DEF Next
<1> QED
    BY <1>1, <1>2, PTL DEF Spec
-----------------------------------------------------------------------------
\* Which cards a picture may have, and when.
CalendarSeen == IF page.events = None THEN {} ELSE {MonthSeen, AgendaSeen}
RainSeen == IF model.hourly = <<>> THEN {} ELSE {RainStrip, RainAbove}
WeatherSeen == IF model = None THEN {Apology} ELSE {TodayIs, DaysAhead} \cup RainSeen
Shown == {Header, Credit} \cup CalendarSeen \cup WeatherSeen

LEMMA CardsShown ==
    ASSUME Drawn
    PROVE  cards \in Seq(Shown)
<1>1. Header \in Shown /\ Credit \in Shown
    BY DEF Shown
<1>2. CalendarCards \in Seq(Shown)
    <2>1. CASE page.events = None
        BY <2>1, EmptySeq DEF CalendarCards
    <2>2. CASE page.events # None
        <3>1. MonthSeen \in Shown /\ AgendaSeen \in Shown
            BY <2>2 DEF Shown, CalendarSeen
        <3>2. CalendarCards = <<MonthSeen, AgendaSeen>>
            BY <2>2 DEF CalendarCards, MonthSeen, AgendaSeen
        <3> QED
            BY <3>1, <3>2
    <2> QED
        BY <2>1, <2>2
<1>3. <<Header>> \in Seq(Shown) /\ <<>> \in Seq(Shown)
    BY <1>1, EmptySeq
<1>4. ASSUME model = None PROVE Sorry \in Seq(Shown)
    <2>1. Apology \in Shown
        BY <1>4 DEF Shown, WeatherSeen
    <2>2. <<Apology, Credit>> \in Seq(Shown)
        BY <1>1, <2>1
    <2>3. CalendarCards \o <<Apology, Credit>> \in Seq(Shown)
        BY <1>2, <2>2, ConcatProperties
    <2> QED
        BY <1>3, <2>3, ConcatProperties DEF Sorry
<1>5. ASSUME model # None PROVE Started \in Seq(Shown)
    <2>1. TodayIs \in Shown /\ DaysAhead \in Shown
        BY <1>5 DEF Shown, WeatherSeen
    <2>2. <<TodayIs, DaysAhead>> \in Seq(Shown)
        BY <2>1
    <2> QED
        BY <1>3, <2>2, ConcatProperties DEF Started
<1>6. ASSUME model # None, model.hourly # <<>>
      PROVE  WithStrip \in Seq(Shown) /\ WithCard \in Seq(Shown)
    <2>1. RainStrip \in Shown /\ RainAbove \in Shown
        BY <1>6 DEF Shown, WeatherSeen, RainSeen
    <2>2. <<RainStrip>> \in Seq(Shown) /\ <<RainAbove, Credit>> \in Seq(Shown)
        BY <1>1, <2>1
    <2>3. <<RainStrip>> \o CalendarCards \in Seq(Shown)
        BY <1>2, <2>2, ConcatProperties
    <2> QED
        BY <1>5, <1>6, <2>2, <2>3, ConcatProperties DEF WithStrip, WithCard
<1> QED
    BY <1>3, <1>4, <1>5, <1>6, Zenon DEF Drawn

\* What is known of a page.
LEMMA PageIs ==
    ASSUME Drawn
    PROVE  /\ Dated(page.now) /\ page.now \in Int /\ page.query.batt \subseteq Int
           /\ page.weather.kind \in {"down", "demo", "reply"}
           /\ page.weather.kind = "reply" => ReplyOK(page.weather.reply)
           /\ page.events # None =>
                 /\ IsFiniteSet(page.events) /\ page.events \subseteq Event
                 /\ \A e \in page.events : Dated(e.start)
BY PageAssumption DEF Drawn, Dated

\* The cards by their names.
LEMMA CardNames ==
    ASSUME Drawn
    PROVE  /\ Header.name = "header" /\ Credit.name = "credit" /\ Apology.name = "unavailable"
           /\ TodayIs.name = "today" /\ DaysAhead.name = "forecast"
           /\ RainStrip.name = "rain" /\ RainAbove.name = "rain"
           /\ page.events # None => MonthSeen.name = "month" /\ AgendaSeen.name = "agenda"
<1>1. Header.name = "header" /\ Credit.name = "credit" /\ Apology.name = "unavailable"
    BY DEF Header, HeaderCard, Credit, FooterCard, Apology, UnavailableCard
<1>2. TodayIs.name = "today" /\ DaysAhead.name = "forecast"
    BY DEF TodayIs, TodayCard, DaysAhead, ForecastCard
<1>3. RainStrip.name = "rain" /\ RainAbove.name = "rain"
    BY DEF RainStrip, RainAbove, RainCard
<1>4. ASSUME page.events # None PROVE MonthSeen.name = "month" /\ AgendaSeen.name = "agenda"
    <2>1. Cell(1, 0) \in AgendaAreas
        BY Cells DEF AgendaAreas
    <2>2. IsFiniteSet(page.events) /\ page.events \subseteq Event /\ page.now \in Int
        BY <1>4, PageIs
    <2>3. Agenda(AgendaSeen, Cell(1, 0), Upcoming(page.events, page.now, AgendaEvents), page.now)
        BY <2>1, <2>2, AgendaIs DEF AgendaSeen
    <2>4. Month(MonthSeen, Cell(0, 0), page.events, page.now)
        BY <2>2, MonthIs DEF MonthSeen
    <2> QED
        BY <2>3, <2>4 DEF Agenda, Month
<1> QED
    BY <1>1, <1>2, <1>3, <1>4

LEMMA ByName ==
    ASSUME Drawn
    PROVE  /\ \A c \in Named("agenda") : c = AgendaSeen /\ page.events # None
           /\ \A c \in Named("month") : c = MonthSeen /\ page.events # None
           /\ \A c \in Named("header") : c = Header
           /\ \A c \in Named("rain") :
                 c \in {RainStrip, RainAbove} /\ model # None /\ model.hourly # <<>>
<1>1. ASSUME NEW name, NEW c \in Named(name) PROVE c \in Shown /\ c.name = name
    <2>1. PICK i \in DOMAIN cards : cards[i] = c /\ cards[i].name = name
        BY <1>1 DEF Named
    <2> QED
        BY <2>1, CardsShown, ElementOfSeq, LenProperties
<1>2. \A c \in Shown :
         \/ c = Header \/ c = Credit \/ c = Apology \/ c = TodayIs \/ c = DaysAhead
         \/ c \in {RainStrip, RainAbove} /\ model # None /\ model.hourly # <<>>
         \/ c = MonthSeen /\ page.events # None
         \/ c = AgendaSeen /\ page.events # None
    BY DEF Shown, WeatherSeen, RainSeen, CalendarSeen
<1>3. ASSUME NEW c \in Named("agenda") PROVE c = AgendaSeen /\ page.events # None
    BY <1>1, <1>2, <1>3, CardNames
<1>4. ASSUME NEW c \in Named("month") PROVE c = MonthSeen /\ page.events # None
    BY <1>1, <1>2, <1>4, CardNames
<1>5. ASSUME NEW c \in Named("header") PROVE c = Header
    BY <1>1, <1>2, <1>5, CardNames
<1>6. ASSUME NEW c \in Named("rain")
      PROVE  c \in {RainStrip, RainAbove} /\ model # None /\ model.hourly # <<>>
    BY <1>1, <1>2, <1>6, CardNames
<1> QED
    BY <1>3, <1>4, <1>5, <1>6

\* The calendar cards, where there is a calendar.
LEMMA CalendarIs ==
    ASSUME Drawn, page.events # None
    PROVE  /\ AgendaSeen = AgendaCard(Cell(1, 0), page.events, page.now)
           /\ MonthSeen = MonthCard(Cell(0, 0), page.events, page.now)
           /\ Cell(1, 0) \in AgendaAreas /\ Cell(0, 0) \in MonthAreas
           /\ IsFiniteSet(page.events) /\ page.events \subseteq Event
           /\ \A e \in page.events : Dated(e.start)
           /\ page.now \in Int /\ Dated(page.now)
<1>1. Cell(1, 0) \in AgendaAreas /\ Cell(0, 0) \in MonthAreas
    BY Cells DEF AgendaAreas, MonthAreas
<1> QED
    BY <1>1, PageIs DEF AgendaSeen, MonthSeen

\* In every picture and every zone the agenda and the month's footer call an event after
\* the number of days it is ahead, be they of 23, 24 or 25 hours: dayLabel rounds by half a
\* day, and what goes for a midnight is at most an hour from it.  In four weeks that have
\* all their midnights the month grid shows the days from this week's Monday, highlights
\* today and no other, and of the others marks those that an event begins on.
THEOREM DaysTrue == Spec => []DaysRight
<1>1. ASSUME Drawn PROVE DaysRight
    <2> DEFINE first == FirstDay(DayOf(page.now))
    <2>1. ASSUME NEW m \in Named("month"), (first..first + 27) \cap Skipped = {}
          PROVE  GridRight(m, page.events, page.now)
        <3>1. page.events # None /\ m = MonthSeen
            BY <1>1, ByName
        <3>2. /\ IsFiniteSet(page.events) /\ page.events \subseteq Event /\ Dated(page.now)
              /\ \A e \in page.events : Dated(e.start)
              /\ m = MonthCard(Cell(0, 0), page.events, page.now)
            BY <1>1, <3>1, CalendarIs
        <3> QED
            BY <2>1, <3>2, MonthDays
    <2>2. ASSUME NEW c \in Named("agenda") \cup Named("month")
          PROVE  AllCalled(Listed(c), page.now)
        <3>1. page.events # None /\ (c = AgendaSeen \/ c = MonthSeen)
            BY <1>1, ByName
        <3>2. AllCalled(AgendaSeen.rows, page.now) /\ AllCalled(MonthSeen.later, page.now)
            <4> DEFINE E == page.events
                       now == page.now
                       area == Cell(1, 0)
                       side == Cell(0, 0)
            <4>1. /\ area \in AgendaAreas /\ Dated(now) /\ IsFiniteSet(E) /\ E \subseteq Event
                  /\ \A e \in E : Dated(e.start)
                  /\ AgendaSeen = AgendaCard(area, E, now) /\ MonthSeen = MonthCard(side, E, now)
                BY <1>1, <3>1, CalendarIs
            <4> HIDE DEF E, now, area, side
            <4>2. AllCalled(AgendaSeen.rows, now) /\ AllCalled(MonthSeen.later, now)
                BY <4>1, NamesRight
            <4> QED
                BY <4>2 DEF now
        <3>3. Listed(AgendaSeen) = AgendaSeen.rows /\ Listed(MonthSeen) = MonthSeen.later
            BY <1>1, <3>1, CardNames DEF Listed
        <3> QED
            BY <3>1, <3>2, <3>3
    <2> QED
        BY <2>1, <2>2, Zenon DEF DaysRight, GridRight, FirstDay, AllCalled, Called
<1> QED
    BY <1>1, DrawnHolds, PTL

\* In every picture the agenda and the footer of the month card, which cut the one list
\* of Upcoming in code that is apart, show no event twice and none that has ended, in
\* order, and pass over one only where the agenda lacks the room.
THEOREM TilesTogether == Spec => []TilesComplement
<1>1. ASSUME Drawn PROVE TilesComplement
    <2> SUFFICES ASSUME NEW a \in Named("agenda"), NEW m \in Named("month")
                 PROVE  Complement(a, m, page.events, page.now)
        BY DEF TilesComplement, Complement
    <2>1. page.events # None /\ a = AgendaSeen /\ m = MonthSeen
        BY <1>1, ByName
    <2>2. /\ IsFiniteSet(page.events) /\ page.events \subseteq Event /\ page.now \in Int
          /\ Cell(1, 0) \in AgendaAreas
          /\ a = AgendaCard(Cell(1, 0), page.events, page.now)
          /\ m = MonthCard(Cell(0, 0), page.events, page.now)
        BY <1>1, <2>1, CalendarIs
    <2> QED
        BY <2>2, TilesShare
<1> QED
    BY <1>1, DrawnHolds, PTL

\* A row of the agenda with a readable title.
ReadableRow(row) ==
    LET lines == row.lines
        words == Sanitized(row.event.title)
        length == FoldLeft(+, 0, words) + Len(words) - 1
        last == lines[Len(lines)]
    IN  /\ Len(lines) \in 1..MaxTitleLines
        /\ \A k \in DOMAIN lines : Runes(lines[k]) <= row.runes
        /\ lines[1].from = 1
        /\ \A k \in 1..Len(lines) - 1 :
              lines[k + 1].from = 2 + IF lines[k].dots THEN words[1] ELSE lines[k].to
        /\ words # <<>> /\ ~last.dots => last.to = length

\* Every title is wrapped by wrapToWidth to one or two lines no wider than the card,
\* which follow each other from its first rune, and what they leave out is marked by
\* an ellipsis: for titles of any words, and any width left for them.
THEOREM TitlesFitWell == Spec => []TitlesReadable
<1>1. ASSUME Drawn PROVE TitlesReadable
    <2> SUFFICES ASSUME NEW a \in Named("agenda"), NEW i \in DOMAIN a.rows
                 PROVE  ReadableRow(a.rows[i])
        BY Zenon DEF TitlesReadable, ReadableRow
    <2>1. page.events # None /\ a = AgendaSeen
        BY <1>1, ByName
    <2>2. /\ IsFiniteSet(page.events) /\ page.events \subseteq Event /\ page.now \in Int
          /\ Cell(1, 0) \in AgendaAreas
          /\ a = AgendaCard(Cell(1, 0), page.events, page.now)
        BY <1>1, <2>1, CalendarIs
    <2>3. Readable(a.rows[i].lines, Sanitized(a.rows[i].event.title), a.rows[i].runes)
        BY <2>2, TitlesFit
    <2>4. DOMAIN a.rows[i].lines = 1..Len(a.rows[i].lines)
        BY <2>3, LenProperties DEF Readable
    <2> QED
        BY <2>3, <2>4, Zenon DEF Readable, ReadableRow, Length, MaxTitleLines
<1> QED
    BY <1>1, DrawnHolds, PTL
-----------------------------------------------------------------------------
\* The weather as the cards get it.
Hour == [at : Int, chance : 0..100, mm : Int]
ModelOK(m) == m.now \in Int /\ m.hourly \in Seq(Hour) /\ Len(m.days) \in Nat \ {0}

LEMMA MinOf ==
    ASSUME NEW t, t \subseteq Nat, t # {}
    PROVE  Min(t) \in t /\ \A x \in t : Min(t) <= x
<1>1. \E m \in t : \A x \in t : m <= x
    BY LeastNumber
<1> QED
    BY <1>1 DEF Min

LEMMA MaxOfTwo ==
    ASSUME NEW a \in Int, NEW b \in Int
    PROVE  Max({a, b}) = IF a < b THEN b ELSE a
<1>1. \E x \in {a, b} : \A y \in {a, b} : x >= y
    BY SMT
<1>2. Max({a, b}) \in {a, b} /\ \A y \in {a, b} : Max({a, b}) >= y
    BY <1>1 DEF Max
<1> QED
    BY <1>2

LEMMA DemoIs ==
    ASSUME NEW now \in Int
    PROVE  ModelOK(DemoModel(now)) /\ Len(DemoModel(now).hourly) = 24
<1> DEFINE chances == <<5, 5, 0, 0, 0, 10, 20, 35, 55, 70, 80, 75,
                        60, 40, 25, 15, 10, 10, 5, 5, 0, 0, 0, 5>>
           tenths  == <<0, 0, 0, 0, 0, 0, 1, 3, 8, 14, 21, 17, 10, 5, 2, 1, 0, 0, 0, 0, 0, 0, 0, 0>>
           first == TruncatedTo(now, Hours(1))
           m == DemoModel(now)
<1>1. first \in Int
    BY DEF TruncatedTo, Hours
<1>2. m.now = now /\ Len(m.days) = 3
    BY DEF DemoModel
<1>3. m.hourly = [i \in 1..24 |-> [at |-> first + Hours(i - 1), chance |-> chances[i], mm |-> tenths[i]]]
    BY DEF DemoModel
<1>4. chances \in Seq(0..100) /\ tenths \in Seq(Int) /\ Len(chances) = 24 /\ Len(tenths) = 24
    OBVIOUS
<1> HIDE DEF chances, tenths, first, m
<1>5. ASSUME NEW i \in 1..24
      PROVE  [at |-> first + Hours(i - 1), chance |-> chances[i], mm |-> tenths[i]] \in Hour
    <2>1. chances[i] \in 0..100 /\ tenths[i] \in Int
        BY <1>4, ElementOfSeq
    <2>2. first + Hours(i - 1) \in Int
        BY <1>1 DEF Hours
    <2> QED
        BY <2>1, <2>2 DEF Hour
<1>6. m.hourly \in Seq(Hour) /\ Len(m.hourly) = 24
    BY <1>3, <1>5
<1> QED
    BY <1>2, <1>6 DEF ModelOK, m

\* The readings handed on: those of the interval from the first that is not over.
Coming(seq, now) == {i \in DOMAIN seq : seq[i].at >= now}
Sliced(s, seq, now) ==
    /\ s \in Seq(Hour) /\ Len(s) <= SliceHours
    /\ Coming(seq, now) = {} => s = <<>>
    /\ Coming(seq, now) # {} => s # <<>> /\ \E m \in Coming(seq, now) :
          /\ \A i \in Coming(seq, now) : m <= i
          /\ Len(s) = Smaller(SliceHours, Len(seq) - m + 1)
          /\ \A k \in 1..Len(s) : s[k] = seq[m + k - 1]

LEMMA SliceIs ==
    ASSUME NEW seq \in Seq(Hour), NEW now \in Int
    PROVE  Sliced(SliceNext(seq, now), seq, now)
<1> DEFINE coming == Coming(seq, now)
           s == SliceNext(seq, now)
           m == Min(coming)
           n == Smaller(m + SliceHours - 1, Len(seq))
<1>1. DOMAIN seq = 1..Len(seq) /\ Len(seq) \in Nat /\ SliceHours \in Nat /\ SliceHours > 0
    BY LenProperties, SliceAssumption
<1>2. coming \subseteq 1..Len(seq)
    BY <1>1 DEF Coming
<1>3. ASSUME coming = {} PROVE Sliced(s, seq, now)
    <2>1. s = <<>>
        BY <1>3 DEF SliceNext, Coming
    <2>2. s \in Seq(Hour) /\ Len(s) = 0
        BY <2>1, EmptySeq
    <2> HIDE DEF s
    <2> QED
        BY <1>1, <1>3, <2>1, <2>2 DEF Sliced, coming
<1>4. ASSUME coming # {} PROVE Sliced(s, seq, now)
    <2>1. s = SubSeq(seq, m, n)
        BY <1>4 DEF SliceNext, Coming
    <2>2. m \in coming /\ \A i \in coming : m <= i
        <3>1. coming \subseteq Nat
            BY <1>1, <1>2
        <3> HIDE DEF coming
        <3> QED
            BY <1>4, <3>1, MinOf
    <2> HIDE DEF s, m, coming
    <2>3. m \in 1..Len(seq)
        BY <1>2, <2>2
    <2>4. n \in m..Len(seq) /\ (n - m) + 1 = Smaller(SliceHours, Len(seq) - m + 1)
          /\ (n - m) + 1 <= SliceHours
        BY <1>1, <2>3 DEF Smaller
    <2> HIDE DEF n
    <2>5. s \in Seq(Hour) /\ Len(s) = (n - m) + 1 /\ \A k \in 1..(n - m) + 1 : s[k] = seq[m + k - 1]
        BY <1>1, <2>1, <2>3, <2>4, SubSeqProperties
    <2>6. s # <<>>
        BY <2>3, <2>4, <2>5
    <2> QED
        BY <1>4, <2>2, <2>4, <2>5, <2>6 DEF Sliced, coming
<1> QED
    BY <1>3, <1>4 DEF s

LEMMA EntryIs ==
    ASSUME NEW A, NEW s \in Seq(A), NEW i, 0 \in A
    PROVE  Entry(s, i) \in A
BY LenProperties, ElementOfSeq DEF Entry

\* A reply that decodes.
LEMMA ReplyIs ==
    ASSUME NEW r, ReplyOK(r), Decodes(r)
    PROVE  LET hourly == BuildHourly(r.hourly, r.offset) IN
           /\ ModelOK(ToForecast(r))
           /\ hourly \in Seq(Hour) /\ Len(hourly) = Len(r.hourly.time) /\ r.now - r.offset \in Int
           /\ Sliced(ToForecast(r).hourly, hourly, r.now - r.offset)
<1> DEFINE hourly == BuildHourly(r.hourly, r.offset)
           n == Len(r.hourly.time)
           d == Len(r.daily.time)
           now == r.now - r.offset
           s == SliceNext(hourly, now)
<1>1. /\ r.offset \in Int /\ r.now \in Reading /\ r.now # Bad
      /\ r.hourly.time \in Seq(Reading) /\ r.hourly.chance \in Seq(0..100) /\ r.hourly.mm \in Seq(Int)
      /\ \A i \in DOMAIN r.hourly.time : r.hourly.time[i] # Bad
      /\ r.daily.time \in Seq(Reading) /\ r.daily.time # <<>>
    BY Zenon DEF ReplyOK, Decodes
<1>2. now \in Int
    BY <1>1 DEF Reading
<1>3. DOMAIN r.hourly.time = 1..n /\ n \in Nat
    BY <1>1, LenProperties
<1>4. DOMAIN r.daily.time = 1..d /\ d \in Nat \ {0}
    BY <1>1, LenProperties, EmptySeq
<1>5. hourly = [i \in 1..n |-> [at |-> r.hourly.time[i] - r.offset,
                                chance |-> Entry(r.hourly.chance, i), mm |-> Entry(r.hourly.mm, i)]]
    BY <1>3 DEF BuildHourly
<1> HIDE DEF hourly, n, d
<1>6. ASSUME NEW i \in 1..n
      PROVE  [at |-> r.hourly.time[i] - r.offset,
              chance |-> Entry(r.hourly.chance, i), mm |-> Entry(r.hourly.mm, i)] \in Hour
    <2>1. r.hourly.time[i] \in Reading
        BY <1>1, <1>3, ElementOfSeq DEF n
    <2>2. r.hourly.time[i] - r.offset \in Int
        BY <1>1, <1>3, <2>1 DEF Reading
    <2>3. Entry(r.hourly.chance, i) \in 0..100
        <3> DEFINE A == 0..100
        <3>1. r.hourly.chance \in Seq(A) /\ 0 \in A
            BY <1>1
        <3> HIDE DEF A
        <3>2. Entry(r.hourly.chance, i) \in A
            BY <3>1, EntryIs
        <3> QED
            BY <3>2 DEF A
    <2>4. Entry(r.hourly.mm, i) \in Int
        <3> DEFINE A == Int
        <3>1. r.hourly.mm \in Seq(A) /\ 0 \in A
            BY <1>1
        <3> HIDE DEF A
        <3>2. Entry(r.hourly.mm, i) \in A
            BY <3>1, EntryIs
        <3> QED
            BY <3>2 DEF A
    <2> QED
        BY <2>2, <2>3, <2>4 DEF Hour
<1>7. hourly \in Seq(Hour) /\ Len(hourly) = n
    BY <1>3, <1>5, <1>6
<1>8. Len(BuildDaily(r.daily, r.offset)) = d
    BY <1>4 DEF BuildDaily
<1>9. /\ ToForecast(r).now = now /\ ToForecast(r).hourly = s
      /\ ToForecast(r).days = BuildDaily(r.daily, r.offset)
    BY DEF ToForecast, hourly
<1>10. Sliced(s, hourly, now)
    BY <1>2, <1>7, SliceIs
<1> HIDE DEF now, s
<1>11. ModelOK(ToForecast(r))
    BY <1>2, <1>4, <1>8, <1>9, <1>10 DEF ModelOK, Sliced
<1> QED
    BY <1>2, <1>7, <1>9, <1>10, <1>11 DEF hourly, n, now

\* The model, once there is one.
LEMMA ModelIs ==
    ASSUME Drawn, model # None
    PROVE  /\ ModelOK(model)
           /\ Len(model.hourly) <= IF page.weather.kind = "demo" THEN 24 ELSE SliceHours
           /\ page.weather.kind = "reply" =>
                 /\ ReplyOK(page.weather.reply) /\ Decodes(page.weather.reply)
                 /\ model = ToForecast(page.weather.reply)
<1>1. model = Answer
    BY DEF Drawn
<1>2. CASE page.weather.kind = "demo"
    <2>1. model = DemoModel(page.now)
        BY <1>1, <1>2 DEF Answer
    <2>2. page.now \in Int
        BY PageIs
    <2>3. ModelOK(model) /\ Len(model.hourly) = 24
        BY <2>1, <2>2, DemoIs
    <2> QED
        BY <1>2, <2>3
<1>3. CASE page.weather.kind # "demo"
    <2>1. /\ page.weather.kind = "reply" /\ Decodes(page.weather.reply)
          /\ model = ToForecast(page.weather.reply)
        BY <1>1, <1>3 DEF Answer
    <2>2. ReplyOK(page.weather.reply)
        BY <2>1, PageIs
    <2>3. ModelOK(model) /\ Len(model.hourly) <= SliceHours
        BY <2>1, <2>2, ReplyIs DEF Sliced
    <2> QED
        BY <1>3, <2>1, <2>2, <2>3
<1> QED
    BY <1>2, <1>3

\* Pictures keep their types: the model the providers hand to the cards has at least
\* one day and no more hours than it should, with chances of 0 to 100.
THEOREM TypesHold == Spec => []TypeOK
<1>1. ASSUME Drawn PROVE TypeOK
    <2>1. pc \in {"weather", "header", "unavailable", "today", "rain", "panic", "done"}
        BY <1>1 DEF Drawn
    <2>2. ASSUME model # None
          PROVE  /\ model.now \in Int
                 /\ Len(model.hourly) <= IF page.weather.kind = "demo" THEN 24 ELSE SliceHours
                 /\ \A i \in DOMAIN model.hourly : model.hourly[i].chance \in 0..100
                 /\ model.days # <<>>
        <3>1. /\ model.now \in Int /\ model.hourly \in Seq(Hour) /\ Len(model.days) \in Nat \ {0}
              /\ Len(model.hourly) <= IF page.weather.kind = "demo" THEN 24 ELSE SliceHours
            BY <1>1, <2>2, ModelIs DEF ModelOK
        <3>2. ASSUME NEW i \in DOMAIN model.hourly PROVE model.hourly[i].chance \in 0..100
            <4>1. model.hourly[i] \in Hour
                BY <3>1, LenProperties, ElementOfSeq
            <4> QED
                BY <4>1 DEF Hour
        <3>3. model.days # <<>>
            BY <3>1, EmptySeq
        <3> QED
            BY <3>1, <3>2, <3>3
    <2> QED
        BY <2>1, <2>2 DEF TypeOK
<1> QED
    BY <1>1, DrawnHolds, PTL
-----------------------------------------------------------------------------
\* Every card draws inside its area.
Keeps(c, area) ==
    /\ c.area = area
    /\ \A b \in c.boxes : Inside(b, area)
    /\ \A y \in c.marks : area.y0 < y /\ y < area.y1

HeaderAreas == {Rect(16, 0, 584, 84), Rect(16, 0, 784, 84)}
FooterAreas == {Rect(16, 716, 584, 800), Rect(16, 516, 784, 600)}
AboveAreas == {Rect(16, 84, 584, 392), Rect(16, 84, 784, 292)}
BelowAreas == {Rect(16, 408, 584, 716), Rect(16, 308, 784, 516)}
TodayAreas == {Rect(16, 408, 292, 716), Rect(16, 308, 392, 516)}
DaysAreas == {Rect(308, 408, 584, 716), Rect(408, 308, 784, 516)}

LEMMA AreasAre ==
    /\ HeaderRect(G) \in HeaderAreas /\ FooterRect(G) \in FooterAreas
    /\ Cell(0, 0) \in MonthAreas /\ Cell(1, 0) \in AgendaAreas
    /\ Cell(0, 1) \in TodayAreas /\ Cell(1, 1) \in DaysAreas
    /\ WideCell(0) \in AboveAreas /\ WideCell(1) \in BelowAreas
BY Cells DEF HeaderAreas, FooterAreas, MonthAreas, AgendaAreas, TodayAreas, DaysAreas,
             AboveAreas, BelowAreas

LEMMA CreditKeeps ==
    ASSUME NEW area \in FooterAreas
    PROVE  Keeps(FooterCard(area), area)
BY DEF FooterAreas, FooterCard, Keeps, Rect

LEMMA ApologyKeeps ==
    ASSUME NEW area \in BelowAreas
    PROVE  Keeps(UnavailableCard(area), area)
BY DEF BelowAreas, UnavailableCard, Keeps, Rect

LEMMA TodayKeeps ==
    ASSUME NEW area \in TodayAreas, NEW m
    PROVE  Keeps(TodayCard(area, m), area)
<1>1. /\ TodayCard(area, m).area = area /\ TodayCard(area, m).boxes = {}
      /\ TodayCard(area, m).marks =
            {area.y0 + Scaled(30, area), (area.y0 + Scaled(30, area)) + Scaled(10, area),
             area.y0 + Scaled(130, area), area.y0 + Scaled(172, area), area.y0 + Scaled(214, area),
             area.y0 + Scaled(250, area)}
    BY DEF TodayCard
<1>2. CASE area = Rect(16, 408, 292, 716)
    BY <1>1, <1>2 DEF Keeps, Rect, Scaled, Height, RefCell
<1>3. CASE area = Rect(16, 308, 392, 516)
    BY <1>1, <1>3 DEF Keeps, Rect, Scaled, Height, RefCell
<1> QED
    BY <1>2, <1>3 DEF TodayAreas

LEMMA DaysKeep ==
    ASSUME NEW area \in DaysAreas, NEW m, Len(m.days) \in Nat
    PROVE  Keeps(ForecastCard(area, m), area)
<1> DEFINE n == Smaller(3, Len(m.days))
           c == ForecastCard(area, m)
<1>1. n \in 0..3
    <2>1. \A k \in Nat : Smaller(3, k) \in 0..3
        BY DEF Smaller
    <2> QED
        BY <2>1
<1>2. /\ c.area = area /\ c.boxes = {}
      /\ c.marks = {area.y0 + Scaled(30, area), area.y0 + Scaled(30, area) + Scaled(10, area)}
                     \cup (UNION {{area.y0 + Scaled(30, area) + Scaled(26, area)
                                     + (i - 1) * Scaled(64, area) + Scaled(26, area),
                                  area.y0 + Scaled(30, area) + Scaled(26, area)
                                     + (i - 1) * Scaled(64, area) + Scaled(50, area)} : i \in 1..n})
                     \cup {area.y0 + Scaled(30, area) + Scaled(26, area)
                              + (i - 1) * Scaled(64, area) + Scaled(64, area)
                              - Scaled(4, area) : i \in 1..n - 1}
    BY DEF ForecastCard
<1> HIDE DEF n, c
<1>3. ASSUME NEW y \in c.marks
      PROVE  \/ y = area.y0 + Scaled(30, area)
             \/ y = area.y0 + Scaled(30, area) + Scaled(10, area)
             \/ \E i \in 1..3 :
                   \/ y = area.y0 + Scaled(30, area) + Scaled(26, area)
                             + (i - 1) * Scaled(64, area) + Scaled(26, area)
                   \/ y = area.y0 + Scaled(30, area) + Scaled(26, area)
                             + (i - 1) * Scaled(64, area) + Scaled(50, area)
                   \/ y = area.y0 + Scaled(30, area) + Scaled(26, area)
                             + (i - 1) * Scaled(64, area) + Scaled(64, area) - Scaled(4, area)
    <2>1. \A i \in 1..n : i \in 1..3
        BY <1>1
    <2>2. \A i \in 1..n - 1 : i \in 1..3
        BY <1>1
    <2> DEFINE Row1(i) == area.y0 + Scaled(30, area) + Scaled(26, area) + (i - 1) * Scaled(64, area)
    <2>3. CASE y \in {area.y0 + Scaled(30, area), area.y0 + Scaled(30, area) + Scaled(10, area)}
        BY <2>3, Zenon
    <2>4. ASSUME NEW i \in 1..n,
                 y \in {Row1(i) + Scaled(26, area), Row1(i) + Scaled(50, area)}
          PROVE  \E k \in 1..3 : y = Row1(k) + Scaled(26, area) \/ y = Row1(k) + Scaled(50, area)
        BY <2>1, <2>4, Zenon
    <2>5. ASSUME NEW i \in 1..n - 1, y = Row1(i) + Scaled(64, area) - Scaled(4, area)
          PROVE  \E k \in 1..3 : y = Row1(k) + Scaled(64, area) - Scaled(4, area)
        BY <2>2, <2>5, Zenon
    <2>6. \/ y \in {area.y0 + Scaled(30, area), area.y0 + Scaled(30, area) + Scaled(10, area)}
          \/ \E i \in 1..n : y \in {Row1(i) + Scaled(26, area), Row1(i) + Scaled(50, area)}
          \/ \E i \in 1..n - 1 : y = Row1(i) + Scaled(64, area) - Scaled(4, area)
        BY <1>2
    <2> QED
        BY <2>3, <2>4, <2>5, <2>6, Zenon
<1>4. CASE area = Rect(308, 408, 584, 716)
    <2>1. /\ Scaled(30, area) = 30 /\ Scaled(26, area) = 26 /\ Scaled(64, area) = 64
          /\ Scaled(50, area) = 50 /\ Scaled(10, area) = 10 /\ Scaled(4, area) = 4
          /\ area.y0 = 408 /\ area.y1 = 716
        BY <1>4 DEF Rect, Scaled, Height, RefCell
    <2>2. ASSUME NEW y \in c.marks PROVE 408 < y /\ y < 716
        <3>1. CASE y = 408 + 30 \/ y = 408 + 30 + 10
            BY <3>1
        <3>2. ASSUME NEW i \in 1..3,
                     \/ y = 408 + 30 + 26 + (i - 1) * 64 + 26
                     \/ y = 408 + 30 + 26 + (i - 1) * 64 + 50
                     \/ y = 408 + 30 + 26 + (i - 1) * 64 + 64 - 4
              PROVE  408 < y /\ y < 716
            BY <3>2
        <3> QED
            BY <1>3, <2>1, <3>1, <3>2, SMTT(60)
    <2> QED
        BY <1>2, <2>1, <2>2 DEF Keeps, c
<1>5. CASE area = Rect(408, 308, 784, 516)
    <2>1. /\ Scaled(30, area) = 22 /\ Scaled(26, area) = 19 /\ Scaled(64, area) = 48
          /\ Scaled(50, area) = 37 /\ Scaled(10, area) = 7 /\ Scaled(4, area) = 3
          /\ area.y0 = 308 /\ area.y1 = 516
        BY <1>5 DEF Rect, Scaled, Height, RefCell
    <2>2. ASSUME NEW y \in c.marks PROVE 308 < y /\ y < 516
        <3>1. CASE y = 308 + 22 \/ y = 308 + 22 + 7
            BY <3>1
        <3>2. ASSUME NEW i \in 1..3,
                     \/ y = 308 + 22 + 19 + (i - 1) * 48 + 19
                     \/ y = 308 + 22 + 19 + (i - 1) * 48 + 37
                     \/ y = 308 + 22 + 19 + (i - 1) * 48 + 48 - 3
              PROVE  308 < y /\ y < 516
            BY <3>2
        <3> QED
            BY <1>3, <2>1, <3>1, <3>2, SMTT(30)
    <2> QED
        BY <1>2, <2>1, <2>2 DEF Keeps, c
<1> QED
    BY <1>4, <1>5 DEF DaysAreas
BatteryIn(b, area) ==
    /\ Inside(b.body, area) /\ Inside(b.notch, area) /\ Inside(b.bar, area)
    /\ \A r \in b.bolt : Inside(r, area)
    /\ Inside(b.bar, b.body) /\ b.bar.x0 <= b.bar.x1

LEMMA BatteryKeeps ==
    ASSUME NEW x1 \in {584, 784}, NEW level \in 0..100, NEW charging \in BOOLEAN
    PROVE  BatteryIn(Battery(Rect(0, 26, x1, 54), level, charging), Rect(16, 0, x1, 84))
<1> DEFINE digits == IF level = 100 THEN 3 ELSE IF level >= 10 THEN 2 ELSE 1
           right == x1 - (digits + 1) * DigitWidth - 8 - IF charging THEN 18 ELSE 0
           fill == (42 * level) \div 100
           b == Battery(Rect(0, 26, x1, 54), level, charging)
<1>1. fill \in 0..42
    OBVIOUS
<1>2. right \in Int /\ right >= 158 /\ right <= x1 - 8 /\ (charging => right <= x1 - 26)
    <2>1. DigitWidth \in Int /\ 0 <= DigitWidth /\ DigitWidth <= 100
        BY DigitAssumption
    <2>2. digits = 3 \/ digits = 2 \/ digits = 1
        OBVIOUS
    <2>3. ASSUME NEW w \in Int, w = (digits + 1) * DigitWidth
          PROVE  0 <= w /\ w <= 400
        BY <2>1, <2>2, <2>3
    <2>4. (digits + 1) * DigitWidth \in Int
        BY <2>1, <2>2
    <2> DEFINE w == (digits + 1) * DigitWidth
    <2>5. w \in Int /\ 0 <= w /\ w <= 400
        BY <2>3, <2>4
    <2>6. right = x1 - w - 8 - IF charging THEN 18 ELSE 0
        OBVIOUS
    <2> HIDE DEF w, digits, right
    <2>7. CASE charging
        BY <2>5, <2>6, <2>7
    <2>8. CASE ~charging
        BY <2>5, <2>6, <2>8
    <2> QED
        BY <2>7, <2>8
<1>3. /\ b.body = Rect(right - 52, 32, right - 4, 56)
      /\ b.notch = Rect(right - 4, 39, right, 49)
      /\ b.bar = Rect((right - 52) + 3, 35, (right - 52) + 3 + fill, 53)
      /\ b.bolt = IF charging THEN {Rect(right + 5, 34, right + 15, 55)} ELSE {}
    <2>1. Rect(0, 26, x1, 54).x1 = x1 /\ Rect(0, 26, x1, 54).y1 = 54
        BY DEF Rect
    <2> DEFINE area == Rect(0, 26, x1, 54)
               at == area.x1 - (digits + 1) * DigitWidth - 8 - IF charging THEN 18 ELSE 0
               low == area.y1 - 10 - 12
               body == Rect(at - 52, low, at - 4, low + 24)
               bolt == at + 18 \div 2 + 1 - 5
    <2>2. b = [body |-> body, notch |-> Rect(body.x1, low + 7, body.x1 + 4, low + 17),
               bar |-> Rect(body.x0 + 3, body.y0 + 3, body.x0 + 3 + fill, body.y1 - 3),
               bolt |-> IF charging THEN {Rect(bolt, low + 12 - 10, bolt + 10, low + 12 + 11)}
                                    ELSE {}]
        BY DEF Battery
    <2>7. at = right /\ low = 32
        <3> HIDE DEF digits
        <3> QED
            BY <2>1
    <2> HIDE DEF b, at, low, area, fill, right, digits
    <2>3. body.x0 = right - 52 /\ body.y0 = 32 /\ body.x1 = right - 4 /\ body.y1 = 56
        BY <2>7 DEF Rect
    <2>8. bolt = right + 5 /\ bolt + 10 = right + 15
        BY <1>2, <2>7
    <2>4. /\ b.body = Rect(right - 52, 32, right - 4, 56)
          /\ b.notch = Rect(right - 4, 39, right, 49)
        <3>1. body = Rect(right - 52, 32, right - 4, 56)
            BY <2>7
        <3>2. body.x1 + 4 = right
            BY <1>2, <2>3
        <3> HIDE DEF body, bolt
        <3>3. b.body = body /\ b.notch = Rect(body.x1, low + 7, body.x1 + 4, low + 17)
            BY <2>2
        <3> QED
            BY <2>3, <2>7, <3>1, <3>2, <3>3
    <2> HIDE DEF body, bolt
    <2>5. b.bar = Rect((right - 52) + 3, 35, (right - 52) + 3 + fill, 53)
        <3>1. b.bar = Rect(body.x0 + 3, body.y0 + 3, body.x0 + 3 + fill, body.y1 - 3)
            BY <2>2
        <3> QED
            BY <2>3, <3>1
    <2>6. b.bolt = IF charging THEN {Rect(right + 5, 34, right + 15, 55)} ELSE {}
        <3>1. b.bolt = IF charging THEN {Rect(bolt, low + 12 - 10, bolt + 10, low + 12 + 11)} ELSE {}
            BY <2>2
        <3> QED
            BY <2>7, <2>8, <3>1
    <2> QED
        BY <2>4, <2>5, <2>6
<1> HIDE DEF b, right, fill
<1>4. Inside(b.body, Rect(16, 0, x1, 84)) /\ Inside(b.notch, Rect(16, 0, x1, 84))
    BY <1>2, <1>3 DEF Inside, Rect
<1>5. Inside(b.bar, Rect(16, 0, x1, 84)) /\ Inside(b.bar, b.body) /\ b.bar.x0 <= b.bar.x1
    BY <1>1, <1>2, <1>3 DEF Inside, Rect
<1>6. ASSUME NEW r \in b.bolt PROVE Inside(r, Rect(16, 0, x1, 84))
    <2>1. charging /\ r = Rect(right + 5, 34, right + 15, 55)
        BY <1>3
    <2> QED
        BY <1>2, <2>1 DEF Inside, Rect
<1> QED
    BY <1>4, <1>5, <1>6 DEF b, BatteryIn

LEMMA HeaderKeeps ==
    ASSUME NEW area \in HeaderAreas, NEW warm, NEW battery, battery.level \in Int,
           battery.charging \in BOOLEAN
    PROVE  LET c == HeaderCard(area, warm, battery) IN
           Keeps(c, area) /\ Inside(c.bar, c.body) /\ c.bar.x0 <= c.bar.x1
<1> DEFINE c == HeaderCard(area, warm, battery)
           level == Clamped(battery.level)
           b == Battery(Rect(0, 26, area.x1, 54), level, battery.charging)
<1>1. level \in 0..100
    <2>1. Smaller(battery.level, 100) \in Int /\ Smaller(battery.level, 100) <= 100
        BY DEF Smaller
    <2>2. 0 \in Int
        OBVIOUS
    <2> DEFINE x == Smaller(battery.level, 100)
               zero == 0
    <2>3. x \in Int /\ zero \in Int
        BY <2>1, <2>2
    <2> HIDE DEF x, zero
    <2>4. Max({x, zero}) = IF x < zero THEN zero ELSE x
        BY <2>3, MaxOfTwo
    <2>5. level = IF x < 0 THEN 0 ELSE x
        BY <2>4 DEF Clamped, x, zero
    <2> HIDE DEF level
    <2> QED
        BY <2>1, <2>5 DEF x
<1>2. area.x1 \in {584, 784} /\ area = Rect(16, 0, area.x1, 84)
    BY DEF HeaderAreas, Rect
<1>3. (area.y0 + area.y1) \div 2 + 12 = 54
    BY <1>2 DEF Rect
<1> HIDE DEF level
<1>4. /\ c.area = area /\ c.marks = {54}
      /\ c.boxes = IF battery.known THEN {b.body, b.notch, b.bar} \cup b.bolt ELSE {}
      /\ c.bar = IF battery.known THEN b.bar ELSE Rect(0, 0, 0, 0)
      /\ c.body = IF battery.known THEN b.body ELSE Rect(0, 0, 0, 0)
    <2> DEFINE y == (area.y0 + area.y1) \div 2 + 12
    <2>1. /\ c.area = area /\ c.marks = {y}
          /\ c.boxes = IF battery.known
                       THEN {Battery(Rect(0, y - 28, area.x1, y), level, battery.charging).body,
                             Battery(Rect(0, y - 28, area.x1, y), level, battery.charging).notch,
                             Battery(Rect(0, y - 28, area.x1, y), level, battery.charging).bar}
                              \cup Battery(Rect(0, y - 28, area.x1, y), level, battery.charging).bolt
                       ELSE {}
          /\ c.bar = IF battery.known
                     THEN Battery(Rect(0, y - 28, area.x1, y), level, battery.charging).bar
                     ELSE Rect(0, 0, 0, 0)
          /\ c.body = IF battery.known
                      THEN Battery(Rect(0, y - 28, area.x1, y), level, battery.charging).body
                      ELSE Rect(0, 0, 0, 0)
        BY DEF HeaderCard, level
    <2>2. y = 54 /\ y - 28 = 26
        BY <1>3
    <2> HIDE DEF y, c
    <2> QED
        BY <2>1, <2>2
<1>5. /\ Inside(b.body, area) /\ Inside(b.notch, area) /\ Inside(b.bar, area)
      /\ \A r \in b.bolt : Inside(r, area)
      /\ Inside(b.bar, b.body) /\ b.bar.x0 <= b.bar.x1
    <2> DEFINE x1 == area.x1
               charging == battery.charging
    <2>1. x1 \in {584, 784} /\ charging \in BOOLEAN
        BY <1>2
    <2> HIDE DEF x1, charging, c
    <2>2. BatteryIn(Battery(Rect(0, 26, x1, 54), level, charging), Rect(16, 0, x1, 84))
        BY <1>1, <2>1, BatteryKeeps
    <2>3. Rect(16, 0, x1, 84) = area
        BY <1>2 DEF x1
    <2> QED
        BY <2>2, <2>3 DEF x1, charging, BatteryIn
<1> HIDE DEF b, c
<1>6. Inside(c.bar, c.body) /\ c.bar.x0 <= c.bar.x1
    <2>1. Inside(Rect(0, 0, 0, 0), Rect(0, 0, 0, 0)) /\ Rect(0, 0, 0, 0).x0 <= Rect(0, 0, 0, 0).x1
        BY DEF Inside, Rect
    <2> QED
        BY <1>4, <1>5, <2>1
<1>7. area.y0 < 54 /\ 54 < area.y1
    BY <1>2 DEF Rect
<1> QED
    BY <1>4, <1>5, <1>6, <1>7 DEF Keeps, c

\* The rain: bars from left to right on a chart of a width and a height.
LEMMA BarFits ==
    ASSUME NEW W \in Nat, NEW n \in Nat \ {0}, NEW k \in 0..n - 1
    PROVE  /\ (k * W) \div n \in Nat /\ W \div n \in Nat
           /\ (k * W) \div n + W \div n <= W
<1> DEFINE q == (k * W) \div n
           p == W \div n
<1>1. k * W \in Nat
    BY SMT
<1>2. q \in Nat /\ n * q <= k * W
    BY <1>1, SMT
<1>3. p \in Nat /\ n * p <= W
    BY SMT
<1> HIDE DEF q, p
<1>4. (k + 1) * W <= n * W
    BY SMT
<1>5. n * (q + p) <= n * W
    BY <1>2, <1>3, <1>4, SMT
<1>6. q + p <= W
    <2> SUFFICES ASSUME q + p >= W + 1 PROVE FALSE
        BY <1>2, <1>3
    <2>1. n * (q + p) >= n * (W + 1)
        BY <1>2, <1>3, SMT
    <2>2. n * (W + 1) = n * W + n
        BY SMT
    <2> QED
        BY <1>2, <1>3, <1>5, <2>1, <2>2, SMT
<1> QED
    BY <1>2, <1>3, <1>6 DEF q, p

LEMMA HeightFits ==
    ASSUME NEW H \in Nat, NEW p \in 0..100
    PROVE  (H * p) \div 100 \in 0..H
<1>1. H * p \in Nat /\ H * p <= H * 100
    BY SMT
<1> QED
    BY <1>1, SMT

\* The chart in an area.
Chart(area) == Rect(area.x0 + Margin, area.y0 + 28 + 14, area.x1 - Margin, area.y1 - 26)
Bar(area, hours, i) ==
    LET x0 == Chart(area).x0 + ((i - 1) * Width(Chart(area))) \div Len(hours)
        h  == Max({(Height(Chart(area)) * hours[i].chance) \div 100, 1})
    IN  Rect(x0, Chart(area).y1 - h,
             x0 + Max({Width(Chart(area)) \div Len(hours) - 2, 2}), Chart(area).y1)

LEMMA ChartIs ==
    ASSUME NEW area \in FooterAreas \cup AboveAreas
    PROVE  LET c == Chart(area) IN
           /\ c.x0 = area.x0 + 16 /\ c.y1 = area.y1 - 26 /\ Width(c) \in Nat /\ Height(c) \in Nat
           /\ c.x0 + Width(c) = area.x1 - 16 /\ c.y1 - Height(c) = area.y0 + 42 /\ Height(c) >= 1
           /\ area.x0 \in Int /\ area.x1 \in Int /\ area.y0 \in Int /\ area.y1 \in Int
<1> DEFINE c == Chart(area)
<1>1. /\ area.x0 \in Int /\ area.x1 \in Int /\ area.y0 \in Int /\ area.y1 \in Int
      /\ area.x1 - area.x0 >= 32 /\ area.y1 - area.y0 >= 69
    BY DEF FooterAreas, AboveAreas, Rect
<1>2. /\ c.x0 = area.x0 + 16 /\ c.x1 = area.x1 - 16
      /\ c.y0 = area.y0 + 28 + 14 /\ c.y1 = area.y1 - 26
    BY DEF Chart, Rect, Margin
<1>3. Width(c) = c.x1 - c.x0 /\ Height(c) = c.y1 - c.y0
    BY DEF Width, Height
<1> HIDE DEF c
<1>4. /\ c.x0 = area.x0 + 16 /\ c.y1 = area.y1 - 26 /\ Width(c) \in Nat /\ Height(c) \in Nat
      /\ c.x0 + Width(c) = area.x1 - 16 /\ c.y1 - Height(c) = area.y0 + 42 /\ Height(c) >= 1
    BY <1>1, <1>2, <1>3
<1> QED
    BY <1>1, <1>4 DEF c

LEMMA BarInside ==
    ASSUME NEW area \in FooterAreas \cup AboveAreas, NEW hours \in Seq(Hour),
           NEW i \in 1..Len(hours)
    PROVE  Inside(Bar(area, hours, i), area)
<1> DEFINE n == Len(hours)
           W == Width(Chart(area))
           H == Height(Chart(area))
           left == ((i - 1) * W) \div n
           wide == W \div n
           tall == (H * hours[i].chance) \div 100
           x0 == Chart(area).x0
           y1 == Chart(area).y1
<1>1. /\ x0 = area.x0 + 16 /\ y1 = area.y1 - 26 /\ W \in Nat /\ H \in Nat
      /\ x0 + W = area.x1 - 16 /\ y1 - H = area.y0 + 42 /\ H >= 1
      /\ area.x0 \in Int /\ area.x1 \in Int /\ area.y0 \in Int /\ area.y1 \in Int
    BY ChartIs
<1>2. n \in Nat \ {0} /\ i - 1 \in 0..n - 1
    BY LenProperties
<1>3. hours[i].chance \in 0..100
    <2>1. hours[i] \in Hour
        BY ElementOfSeq
    <2> QED
        BY <2>1 DEF Hour
<1> HIDE DEF n, W, H
<1>4. left \in Nat /\ wide \in Nat /\ left + wide <= W
    BY <1>1, <1>2, BarFits
<1>5. tall \in 0..H
    BY <1>1, <1>3, HeightFits
<1> HIDE DEF left, wide, tall, x0, y1
<1> DEFINE w == wide - 2
           one == 1
           two == 2
<1>6. w \in Int /\ tall \in Int /\ one \in Int /\ two \in Int
    BY <1>1, <1>4, <1>5
<1> HIDE DEF w, one, two
<1>7. Max({w, two}) = (IF w < two THEN two ELSE w) /\ Max({tall, one}) = (IF tall < one THEN one ELSE tall)
    BY <1>6, MaxOfTwo
<1>8. Bar(area, hours, i) = Rect(x0 + left, y1 - Max({tall, one}), (x0 + left) + Max({w, two}), y1)
    BY DEF Bar, x0, y1, left, tall, w, one, two, wide, n, W, H
<1> DEFINE a == Max({tall, one})
           b == Max({w, two})
<1>9. a \in Int /\ b \in Int /\ 1 <= a /\ a <= H /\ 2 <= b /\ b <= W + 4 /\ left + b <= W + 2
    <2>1. a = IF tall < 1 THEN 1 ELSE tall
        BY <1>7 DEF one
    <2>2. b = IF wide - 2 < 2 THEN 2 ELSE wide - 2
        BY <1>7 DEF w, two
    <2> HIDE DEF a, b
    <2>3. a \in Int /\ 1 <= a /\ a <= H
        BY <1>1, <1>5, <2>1
    <2>4. b \in Int /\ 2 <= b /\ b <= W + 4 /\ left + b <= W + 2
        BY <1>1, <1>4, <2>2, SMTT(60)
    <2> QED
        BY <2>3, <2>4
<1> HIDE DEF a, b
<1> DEFINE B == Bar(area, hours, i)
<1>10. B.x0 = x0 + left /\ B.x1 = (x0 + left) + b /\ B.y0 = y1 - a /\ B.y1 = y1
    BY <1>8 DEF Rect, a, b
<1> HIDE DEF B
<1>11. area.x0 <= B.x0 /\ B.x1 <= area.x1 /\ area.y0 <= B.y0 /\ B.y1 <= area.y1
    <2>1. area.x0 <= B.x0 /\ B.x1 <= area.x1
        <3>1. /\ x0 = area.x0 + 16 /\ x0 + W = area.x1 - 16 /\ area.x0 \in Int /\ area.x1 \in Int
              /\ W \in Int /\ left \in Int /\ b \in Int /\ left >= 0 /\ left + b <= W + 2
            BY <1>1, <1>4, <1>9
        <3> QED
            BY <1>10, <3>1, SMTT(60)
    <2>2. area.y0 <= B.y0 /\ B.y1 <= area.y1
        <3>1. /\ y1 = area.y1 - 26 /\ y1 - H = area.y0 + 42 /\ area.y0 \in Int /\ area.y1 \in Int
              /\ H \in Int /\ a \in Int /\ a <= H
            BY <1>1, <1>9
        <3> QED
            BY <1>10, <3>1
    <2> QED
        BY <2>1, <2>2
<1> QED
    BY <1>11 DEF Inside, B

LEMMA RainKeeps ==
    ASSUME NEW area \in FooterAreas \cup AboveAreas, NEW hours \in Seq(Hour)
    PROVE  Keeps(RainCard(area, hours), area)
<1> DEFINE c == RainCard(area, hours)
           charted == Len(hours) >= 2 /\ Height(Chart(area)) >= 8
<1>1. /\ c.area = area
      /\ c.boxes = IF charted THEN {Bar(area, hours, i) : i \in {j \in 1..Len(hours) : hours[j].chance > 0}}
                   ELSE {}
      /\ c.marks = {area.y0 + 28} \cup IF charted THEN {Chart(area).y1, Chart(area).y1 + 20} ELSE {}
    BY DEF RainCard, Chart, Bar
<1> HIDE DEF c, charted
<1>2. ASSUME NEW b \in c.boxes PROVE Inside(b, area)
    <2>1. \E i \in 1..Len(hours) : b = Bar(area, hours, i)
        BY <1>1
    <2> QED
        BY <2>1, BarInside
<1>3. Chart(area).y1 = area.y1 - 26
    BY DEF Chart, Rect
<1>4. /\ area.y0 < area.y0 + 28 /\ area.y0 + 28 < area.y1
      /\ area.y0 < area.y1 - 26 /\ (area.y1 - 26) + 20 < area.y1
      /\ area.y0 < (area.y1 - 26) + 20 /\ area.y1 - 26 < area.y1
    BY DEF FooterAreas, AboveAreas, Rect
<1>5. ASSUME NEW y \in c.marks PROVE area.y0 < y /\ y < area.y1
    <2>1. y = area.y0 + 28 \/ y = area.y1 - 26 \/ y = (area.y1 - 26) + 20
        BY <1>1, <1>3
    <2> QED
        BY <1>4, <2>1
<1> QED
    BY <1>1, <1>2, <1>5 DEF Keeps, c

\* The month: its grid lies between the names of the days and the footer.
MonthTop(area) == area.y0 + Scaled(30, area) + Scaled(34, area) + Scaled(8, area)
MonthBottom(area, n) ==
    area.y1 - (IF n = 0 THEN 0 ELSE Scaled(20, area) + n * Scaled(24, area)) - Scaled(6, area)
Measures(area, n, top, bottom, rowH, colW, half, number, dot, s4, s7, s19) ==
    /\ area.x0 \in Int /\ area.x1 \in Int /\ area.y0 \in Int /\ area.y1 \in Int
    /\ top \in Int /\ bottom \in Int /\ rowH \in Int /\ colW \in Nat /\ half \in Int
    /\ number \in Int /\ dot \in Int /\ s4 \in 3..4 /\ s7 \in Int /\ s19 \in Int
    /\ area.x0 + 7 * colW + 32 <= area.x1 /\ 0 <= half /\ half <= 16 /\ 0 < rowH
    /\ 0 < number /\ 0 <= s7 /\ number + s7 <= rowH /\ 2 <= dot /\ dot + s4 <= rowH
    /\ area.y0 < top - s19 /\ 0 <= s19 /\ top + 4 * rowH <= bottom /\ bottom < area.y1

LEMMA Portrait ==
    ASSUME NEW area, area = Rect(16, 84, 292, 392)
    PROVE  /\ \A v \in Int : Scaled(v, area) = v
           /\ area.x0 = 16 /\ area.x1 = 292 /\ area.y0 = 84 /\ area.y1 = 392
BY DEF Rect, Scaled, Height, RefCell

LEMMA Landscape ==
    ASSUME NEW area, area = Rect(16, 84, 392, 292)
    PROVE  /\ \A v \in Int : Scaled(v, area) = (v * 208) \div 276
           /\ area.x0 = 16 /\ area.x1 = 392 /\ area.y0 = 84 /\ area.y1 = 292
BY DEF Rect, Scaled, Height, RefCell

LEMMA MonthMeasures ==
    ASSUME NEW area \in MonthAreas, NEW n \in 0..2
    PROVE  LET rowH == (MonthBottom(area, n) - MonthTop(area)) \div 4 IN
           Measures(area, n, MonthTop(area), MonthBottom(area, n), rowH,
                    (Width(area) - 2 * Pad) \div 7, Scaled(26, area) \div 2,
                    (rowH * 52) \div 100, (rowH * 78) \div 100,
                    Scaled(4, area), Scaled(7, area), Scaled(19, area))
<1> DEFINE top == MonthTop(area)
           bottom == MonthBottom(area, n)
           rowH == (bottom - top) \div 4
           colW == (Width(area) - 2 * Pad) \div 7
<1>1. n = 0 \/ n = 1 \/ n = 2
    OBVIOUS
<1>2. CASE area = Rect(16, 84, 292, 392)
    <2>1. area.x0 = 16 /\ area.x1 = 292 /\ area.y0 = 84 /\ area.y1 = 392
        BY <1>2, Portrait
    <2>2. /\ Scaled(30, area) = 30 /\ Scaled(34, area) = 34 /\ Scaled(8, area) = 8
          /\ Scaled(20, area) = 20 /\ Scaled(24, area) = 24 /\ Scaled(6, area) = 6
          /\ Scaled(26, area) = 26 /\ Scaled(4, area) = 4 /\ Scaled(7, area) = 7
          /\ Scaled(19, area) = 19
        BY <1>2, Portrait
    <2>3. top = 156 /\ colW = 34
        BY <2>1, <2>2 DEF MonthTop, Width, Pad
    <2>4. \/ bottom = 386 /\ rowH = 57
          \/ bottom = 342 /\ rowH = 46
          \/ bottom = 318 /\ rowH = 40
        BY <1>1, <2>1, <2>2, <2>3 DEF MonthBottom
    <2> HIDE DEF top, bottom, colW, rowH
    <2>5. Measures(area, n, top, bottom, rowH, colW, Scaled(26, area) \div 2,
                   (rowH * 52) \div 100, (rowH * 78) \div 100,
                   Scaled(4, area), Scaled(7, area), Scaled(19, area))
        BY <2>1, <2>2, <2>3, <2>4 DEF Measures
    <2> QED
        BY <2>5 DEF top, bottom, colW, rowH
<1>3. CASE area = Rect(16, 84, 392, 292)
    <2>1. area.x0 = 16 /\ area.x1 = 392 /\ area.y0 = 84 /\ area.y1 = 292
        BY <1>3, Landscape
    <2>2. /\ Scaled(30, area) = 22 /\ Scaled(34, area) = 25 /\ Scaled(8, area) = 6
          /\ Scaled(20, area) = 15 /\ Scaled(24, area) = 18 /\ Scaled(6, area) = 4
          /\ Scaled(26, area) = 19 /\ Scaled(4, area) = 3 /\ Scaled(7, area) = 5
          /\ Scaled(19, area) = 14
        BY <1>3, Landscape
    <2>3. top = 137 /\ colW = 49
        BY <2>1, <2>2 DEF MonthTop, Width, Pad
    <2>4. \/ bottom = 288 /\ rowH = 37
          \/ bottom = 255 /\ rowH = 29
          \/ bottom = 237 /\ rowH = 25
        BY <1>1, <2>1, <2>2, <2>3 DEF MonthBottom
    <2> HIDE DEF top, bottom, colW, rowH
    <2>5. Measures(area, n, top, bottom, rowH, colW, Scaled(26, area) \div 2,
                   (rowH * 52) \div 100, (rowH * 78) \div 100,
                   Scaled(4, area), Scaled(7, area), Scaled(19, area))
        BY <2>1, <2>2, <2>3, <2>4 DEF Measures
    <2> QED
        BY <2>5 DEF top, bottom, colW, rowH
<1> QED
    BY <1>2, <1>3 DEF MonthAreas

LEMMA DayFits ==
    ASSUME NEW area \in MonthAreas, NEW n \in 0..2, NEW today, NEW marked,
           NEW i \in 0..27
    PROVE  LET rowH == (MonthBottom(area, n) - MonthTop(area)) \div 4
               d == MonthDay(area, MonthTop(area), rowH, today, marked, i)
           IN  /\ \A b \in d.boxes : Inside(b, area)
               /\ area.y0 < d.number /\ d.number < area.y1
<1> DEFINE top == MonthTop(area)
           bottom == MonthBottom(area, n)
           rowH == (bottom - top) \div 4
           colW == (Width(area) - 2 * Pad) \div 7
           half == Scaled(26, area) \div 2
           p == (rowH * 52) \div 100
           q == (rowH * 78) \div 100
           s4 == Scaled(4, area)
           s7 == Scaled(7, area)
           s19 == Scaled(19, area)
           d == MonthDay(area, top, rowH, today, marked, i)
           cx == area.x0 + 16 + (i % 7) * colW + colW \div 2
           cell == top + (i \div 7) * rowH
           dx == cx - s4 \div 2
           dy == cell + q - s4 \div 2
<1>1. Measures(area, n, top, bottom, rowH, colW, half, p, q, s4, s7, s19)
    BY MonthMeasures
<1>2. /\ d.number = cell + p
      /\ \A b \in d.boxes : \/ b = Rect(cx - half, (cell + p) - s19, cx + half, (cell + p) + s7)
                            \/ b = Rect(dx, dy, dx + s4, dy + s4)
    <2> HIDE DEF rowH, top, bottom
    <2> QED
        BY DEF MonthDay, Pad
<1> HIDE DEF top, bottom, rowH, colW, half, p, q, s4, s7, s19, d
<1>3. /\ area.x0 \in Int /\ area.x1 \in Int /\ area.y0 \in Int /\ area.y1 \in Int
      /\ top \in Int /\ bottom \in Int /\ rowH \in Int /\ colW \in Nat /\ half \in Int
      /\ p \in Int /\ q \in Int /\ s4 \in 3..4 /\ s7 \in Int /\ s19 \in Int
      /\ area.x0 + 7 * colW + 32 <= area.x1 /\ 0 <= half /\ half <= 16 /\ 0 < rowH
      /\ 0 < p /\ 0 <= s7 /\ p + s7 <= rowH /\ 2 <= q /\ q + s4 <= rowH
      /\ area.y0 < top - s19 /\ 0 <= s19 /\ top + 4 * rowH <= bottom /\ bottom < area.y1
    BY <1>1 DEF Measures
<1>4. i \div 7 \in 0..3 /\ i % 7 \in 0..6
    OBVIOUS
<1>5. /\ cx \in Int /\ area.x0 + 16 <= cx /\ cx + 16 <= area.x1
    <2> DEFINE k == i % 7
               m == colW \div 2
    <2>1. m \in Int /\ 0 <= m /\ m <= colW
        BY <1>3
    <2>2. k * colW \in Int /\ 0 <= k * colW /\ k * colW <= 6 * colW
        <3>1. k = 0 \/ k = 1 \/ k = 2 \/ k = 3 \/ k = 4 \/ k = 5 \/ k = 6
            BY <1>4
        <3> HIDE DEF k
        <3> QED
            BY <1>3, <3>1
    <2>3. cx = area.x0 + 16 + k * colW + m
        OBVIOUS
    <2> DEFINE w == k * colW
    <2>4. w \in Int /\ 0 <= w /\ w <= 6 * colW /\ cx = area.x0 + 16 + w + m
        BY <2>2, <2>3
    <2> HIDE DEF w, m, cx
    <2> QED
        BY <1>3, <2>1, <2>4
<1>6. cell \in Int /\ top <= cell /\ cell + rowH <= bottom
    <2> DEFINE k == i \div 7
    <2>1. k = 0 \/ k = 1 \/ k = 2 \/ k = 3
        BY <1>4
    <2>2. cell = top + k * rowH
        OBVIOUS
    <2> HIDE DEF k, cell
    <2>3. CASE k = 0
        BY <1>3, <2>2, <2>3
    <2>4. CASE k = 1
        BY <1>3, <2>2, <2>4
    <2>5. CASE k = 2
        BY <1>3, <2>2, <2>5
    <2>6. CASE k = 3
        BY <1>3, <2>2, <2>6
    <2> QED
        BY <2>1, <2>3, <2>4, <2>5, <2>6
<1> HIDE DEF cx, cell
<1>7. area.y0 < d.number /\ d.number < area.y1
    BY <1>2, <1>3, <1>6
<1>8. dx \in Int /\ area.x0 <= dx /\ dx + s4 <= area.x1
    <2>1. s4 \div 2 \in 0..2 /\ s4 \in Int /\ s4 <= 4
        BY <1>3
    <2> QED
        BY <1>3, <1>5, <2>1
<1>9. dy \in Int /\ area.y0 <= dy /\ dy + s4 <= area.y1
    <2>1. s4 \div 2 \in 0..2 /\ s4 \in Int
        BY <1>3
    <2> QED
        BY <1>3, <1>6, <2>1
<1> HIDE DEF dx, dy
<1>10. Inside(Rect(dx, dy, dx + s4, dy + s4), area)
    BY <1>8, <1>9 DEF Inside, Rect
<1>11. Inside(Rect(cx - half, (cell + p) - s19, cx + half, (cell + p) + s7), area)
    <2>1. area.x0 <= cx - half /\ cx + half <= area.x1
        BY <1>3, <1>5
    <2>2. area.y0 <= (cell + p) - s19 /\ (cell + p) + s7 <= area.y1
        BY <1>3, <1>6
    <2> QED
        BY <2>1, <2>2 DEF Inside, Rect
<1>12. /\ \A b \in d.boxes : Inside(b, area)
       /\ area.y0 < d.number /\ d.number < area.y1
    BY <1>2, <1>7, <1>10, <1>11
<1> QED
    BY <1>12 DEF d, rowH, bottom, top

LEMMA MonthKeeps ==
    ASSUME NEW area \in MonthAreas, NEW E, IsFiniteSet(E), E \subseteq Event, NEW now,
           Dated(now)
    PROVE  Keeps(MonthCard(area, E, now), area)
<1> DEFINE S(v) == Scaled(v, area)
           later == LaterEvents(E, now)
           n == Len(later)
           top == MonthTop(area)
           bottom == MonthBottom(area, n)
           rowH == (bottom - top) \div 4
           today == Reads(DayOf(now))
           marked == {Reads(DayOf(e.start)) : e \in E}
           Day(i) == MonthDay(area, top, rowH, today, marked, i)
           c == MonthCard(area, E, now)
<1>1. now \in Int
    BY DEF Dated
<1>2. /\ n \in 0..2 /\ DOMAIN later = 1..n /\ (later = <<>> <=> n = 0)
    <2>1. LaterOK(later, Live(E, now))
        BY <1>1, LaterIs
    <2> HIDE DEF later
    <2> QED
        BY <2>1, LenProperties, EmptySeq DEF LaterOK
<1>3. /\ c.area = area
      /\ c.boxes = UNION {Day(i).boxes : i \in 0..27}
      /\ c.marks = {area.y0 + S(30), (area.y0 + S(30)) + S(10), (area.y0 + S(30)) + S(34),
                    ((area.y0 + S(30)) + S(34)) - S(14), bottom}
                     \cup {Day(i).number : i \in 0..27}
                     \cup (IF later = <<>> THEN {} ELSE {bottom + S(4)})
                     \cup {bottom + S(22) + (i - 1) * S(24) : i \in DOMAIN later}
    <2> DEFINE foot == IF later = <<>> THEN 0 ELSE S(20) + n * S(24)
               low == area.y1 - foot - S(6)
               high == ((area.y0 + S(30)) + S(34)) + S(8)
               tall == (low - high) \div 4
               Each(i) == MonthDay(area, high, tall, today, marked, i)
               days == [i \in 0..27 |-> Each(i)]
    <2>1. foot = IF n = 0 THEN 0 ELSE S(20) + n * S(24)
        BY <1>2
    <2>2. low = bottom /\ high = top
        <3> HIDE DEF foot, n
        <3> QED
            BY <2>1 DEF MonthBottom, MonthTop
    <2>3. /\ c.area = area
          /\ c.boxes = UNION {days[i].boxes : i \in DOMAIN days}
          /\ c.marks = {area.y0 + S(30), (area.y0 + S(30)) + S(10), (area.y0 + S(30)) + S(34),
                        ((area.y0 + S(30)) + S(34)) - S(14), low}
                         \cup {days[i].number : i \in DOMAIN days}
                         \cup (IF later = <<>> THEN {} ELSE {low + S(4)})
                         \cup {low + S(22) + (i - 1) * S(24) : i \in DOMAIN later}
        <3> HIDE DEF later, today, marked
        <3> QED
            BY DEF MonthCard, Weeks, later, today, marked
    <2>4. DOMAIN days = 0..27 /\ \A i \in 0..27 : days[i] = Each(i)
        OBVIOUS
    <2>5. tall = rowH
        BY <2>2
    <2> HIDE DEF foot, low, high, tall, days, c, later, today, marked, top, bottom, rowH
    <2>6. \A i \in 0..27 : days[i] = Day(i)
        BY <2>2, <2>4, <2>5
    <2>7. {days[i].boxes : i \in DOMAIN days} = {Day(i).boxes : i \in 0..27}
        BY <2>4, <2>6, Zenon
    <2>8. {days[i].number : i \in DOMAIN days} = {Day(i).number : i \in 0..27}
        BY <2>4, <2>6, Zenon
    <2> HIDE DEF Day, S, Each
    <2>9. {low + S(22) + (i - 1) * S(24) : i \in DOMAIN later}
             = {bottom + S(22) + (i - 1) * S(24) : i \in DOMAIN later}
        BY <2>2, Zenon
    <2>10. {low + S(4)} = {bottom + S(4)}
        BY <2>2, Zenon
    <2>11. c.boxes = UNION {Day(i).boxes : i \in 0..27}
        BY <2>3, <2>7, Zenon
    <2>12. c.marks = {area.y0 + S(30), (area.y0 + S(30)) + S(10), (area.y0 + S(30)) + S(34),
                      ((area.y0 + S(30)) + S(34)) - S(14), bottom}
                       \cup {Day(i).number : i \in 0..27}
                       \cup (IF later = <<>> THEN {} ELSE {bottom + S(4)})
                       \cup {bottom + S(22) + (i - 1) * S(24) : i \in DOMAIN later}
        BY <2>2, <2>3, <2>8, <2>9, <2>10
    <2> QED
        BY <2>3, <2>11, <2>12, Zenon
<1>4. ASSUME NEW i \in 0..27
      PROVE  /\ \A b \in Day(i).boxes : Inside(b, area)
             /\ area.y0 < Day(i).number /\ Day(i).number < area.y1
    <2> HIDE DEF n, today, marked
    <2> QED
        BY <1>1, <1>2, DayFits
<1> HIDE DEF c, Day
<1>5. ASSUME NEW b \in c.boxes PROVE Inside(b, area)
    <2>1. \E i \in 0..27 : b \in Day(i).boxes
        BY <1>3
    <2> QED
        BY <1>4, <2>1
<1> HIDE DEF n
<1>6. /\ area.y0 < area.y0 + S(30) /\ area.y0 + S(30) < area.y1
      /\ area.y0 < (area.y0 + S(30)) + S(10) /\ (area.y0 + S(30)) + S(10) < area.y1
      /\ area.y0 < (area.y0 + S(30)) + S(34) /\ (area.y0 + S(30)) + S(34) < area.y1
      /\ area.y0 < ((area.y0 + S(30)) + S(34)) - S(14) /\ ((area.y0 + S(30)) + S(34)) - S(14) < area.y1
      /\ area.y0 < bottom /\ bottom < area.y1
      /\ n # 0 => area.y0 < bottom + S(4) /\ bottom + S(4) < area.y1
      /\ \A i \in 1..n : area.y0 < bottom + S(22) + (i - 1) * S(24)
                         /\ bottom + S(22) + (i - 1) * S(24) < area.y1
    <2>1. n = 0 \/ n = 1 \/ n = 2
        BY <1>2
    <2>2. CASE area = Rect(16, 84, 292, 392)
        <3>1. area.x0 = 16 /\ area.x1 = 292 /\ area.y0 = 84 /\ area.y1 = 392
            BY <2>2, Portrait
        <3>2. /\ S(30) = 30 /\ S(34) = 34 /\ S(20) = 20 /\ S(24) = 24 /\ S(6) = 6 /\ S(10) = 10
              /\ S(14) = 14 /\ S(22) = 22 /\ S(4) = 4
            BY <2>2, Portrait
        <3>3. bottom = (IF n = 0 THEN 386 ELSE IF n = 1 THEN 342 ELSE 318)
            BY <2>1, <3>1, <3>2 DEF MonthBottom
        <3> HIDE DEF bottom, S
        <3>4. \A i \in 1..n : i = 1 \/ (i = 2 /\ n = 2)
            BY <2>1
        <3> QED
            BY <2>1, <3>1, <3>2, <3>3, <3>4
    <2>3. CASE area = Rect(16, 84, 392, 292)
        <3>1. area.x0 = 16 /\ area.x1 = 392 /\ area.y0 = 84 /\ area.y1 = 292
            BY <2>3, Landscape
        <3>2. /\ S(30) = 22 /\ S(34) = 25 /\ S(20) = 15 /\ S(24) = 18 /\ S(6) = 4 /\ S(10) = 7
              /\ S(14) = 10 /\ S(22) = 16 /\ S(4) = 3
            BY <2>3, Landscape
        <3>3. bottom = (IF n = 0 THEN 288 ELSE IF n = 1 THEN 255 ELSE 237)
            BY <2>1, <3>1, <3>2 DEF MonthBottom
        <3> HIDE DEF bottom, S
        <3>4. \A i \in 1..n : i = 1 \/ (i = 2 /\ n = 2)
            BY <2>1
        <3> QED
            BY <2>1, <3>1, <3>2, <3>3, <3>4
    <2> QED
        BY <2>2, <2>3 DEF MonthAreas
<1> HIDE DEF S, bottom, later
<1>7. ASSUME NEW y \in c.marks PROVE area.y0 < y /\ y < area.y1
    <2>1. \/ y = area.y0 + S(30) \/ y = (area.y0 + S(30)) + S(10) \/ y = (area.y0 + S(30)) + S(34)
          \/ y = ((area.y0 + S(30)) + S(34)) - S(14) \/ y = bottom
          \/ \E i \in 0..27 : y = Day(i).number
          \/ (n # 0 /\ y = bottom + S(4))
          \/ \E i \in 1..n : y = bottom + S(22) + (i - 1) * S(24)
        BY <1>2, <1>3, Zenon
    <2> QED
        BY <1>4, <1>6, <2>1, Zenon
<1> QED
    BY <1>3, <1>5, <1>7 DEF Keeps, c
-----------------------------------------------------------------------------
\* The cards of a picture, each in its area.
LEMMA CardsKeep ==
    ASSUME Drawn
    PROVE  /\ Keeps(Header, HeaderRect(G)) /\ Inside(Header.bar, Header.body) /\ Header.bar.x0 <= Header.bar.x1
           /\ Keeps(Credit, FooterRect(G)) /\ Keeps(Apology, WideCell(1))
           /\ model # None => /\ Keeps(TodayIs, Cell(0, 1)) /\ Keeps(DaysAhead, Cell(1, 1))
                              /\ Keeps(RainStrip, FooterRect(G)) /\ Keeps(RainAbove, WideCell(0))
           /\ page.events # None => Keeps(MonthSeen, Cell(0, 0)) /\ Keeps(AgendaSeen, Cell(1, 0))
<1>1. /\ Keeps(Header, HeaderRect(G)) /\ Inside(Header.bar, Header.body) /\ Header.bar.x0 <= Header.bar.x1
    <2> DEFINE b == ParseBattery(page.query.batt, page.query.plug)
               warm == model # None
               area == HeaderRect(G)
    <2>1. b.level \in Int /\ b.charging \in BOOLEAN
        <3>1. page.query.batt \subseteq Int
            BY PageIs
        <3>2. page.query.batt = {} \/ (CHOOSE level \in page.query.batt : TRUE) \in page.query.batt
            OBVIOUS
        <3> QED
            BY <3>1, <3>2 DEF ParseBattery
    <2>2. area \in HeaderAreas
        BY AreasAre
    <2>3. Header = HeaderCard(area, warm, b)
        BY DEF Header
    <2> HIDE DEF b, warm, area
    <2>4. Keeps(Header, area) /\ Inside(Header.bar, Header.body) /\ Header.bar.x0 <= Header.bar.x1
        BY <2>1, <2>2, <2>3, HeaderKeeps
    <2> QED
        BY <2>4 DEF area
<1>2. Keeps(Credit, FooterRect(G)) /\ Keeps(Apology, WideCell(1))
    BY AreasAre, CreditKeeps, ApologyKeeps DEF Credit, Apology
<1>3. ASSUME model # None
      PROVE  /\ Keeps(TodayIs, Cell(0, 1)) /\ Keeps(DaysAhead, Cell(1, 1))
             /\ Keeps(RainStrip, FooterRect(G)) /\ Keeps(RainAbove, WideCell(0))
    <2>1. model.hourly \in Seq(Hour) /\ Len(model.days) \in Nat
        BY <1>3, ModelIs DEF ModelOK
    <2>2. Keeps(TodayIs, Cell(0, 1))
        BY AreasAre, TodayKeeps DEF TodayIs
    <2>3. Keeps(DaysAhead, Cell(1, 1))
        BY <2>1, AreasAre, DaysKeep DEF DaysAhead
    <2>4. Keeps(RainStrip, FooterRect(G)) /\ Keeps(RainAbove, WideCell(0))
        BY <2>1, AreasAre, RainKeeps DEF RainStrip, RainAbove
    <2> QED
        BY <2>2, <2>3, <2>4
<1>4. ASSUME page.events # None
      PROVE  Keeps(MonthSeen, Cell(0, 0)) /\ Keeps(AgendaSeen, Cell(1, 0))
    <2>1. /\ AgendaSeen = AgendaCard(Cell(1, 0), page.events, page.now)
          /\ MonthSeen = MonthCard(Cell(0, 0), page.events, page.now)
          /\ Cell(1, 0) \in AgendaAreas /\ Cell(0, 0) \in MonthAreas
          /\ IsFiniteSet(page.events) /\ page.events \subseteq Event
          /\ page.now \in Int /\ Dated(page.now)
        BY <1>4, CalendarIs
    <2>2. Keeps(MonthSeen, Cell(0, 0))
        BY <2>1, MonthKeeps
    <2>3. Agenda(AgendaSeen, Cell(1, 0), Upcoming(page.events, page.now, AgendaEvents), page.now)
        BY <2>1, AgendaIs
    <2> QED
        BY <2>2, <2>3 DEF Agenda, Keeps
<1> QED
    BY <1>1, <1>2, <1>3, <1>4

\* The areas that are given out together lie apart, on the page.
LEMMA AreasApart ==
    LET H == HeaderRect(G)
        F == FooterRect(G)
        TopLeft == Cell(0, 0)
        TopRight == Cell(1, 0)
        LowLeft == Cell(0, 1)
        LowRight == Cell(1, 1)
        High == WideCell(0)
        Low == WideCell(1)
    IN  /\ \A a \in {F, TopLeft, TopRight, LowLeft, LowRight, High, Low} : Apart(H, a)
        /\ \A a \in {TopLeft, TopRight, LowLeft, LowRight, High, Low} : Apart(F, a) /\ Apart(a, F)
        /\ \A a \in {TopLeft, TopRight, High} :
              Apart(LowLeft, a) /\ Apart(LowRight, a) /\ Apart(a, Low)
        /\ Apart(TopLeft, TopRight) /\ Apart(LowLeft, LowRight)
        /\ \A a \in {H, F, TopLeft, TopRight, LowLeft, LowRight, High, Low} : Inside(a, PageRect)
BY Cells DEF Apart, Inside, Rect, PageRect

Separate(s) == \A i, j \in DOMAIN s : i < j => Apart(s[i].area, s[j].area)

Clear(A, B) == \A a \in A, b \in B : Apart(a.area, b.area)

LEMMA Beside ==
    ASSUME NEW A, NEW B, NEW s \in Seq(A), NEW t \in Seq(B), Separate(s), Separate(t),
           Clear(A, B)
    PROVE  s \o t \in Seq(A \cup B) /\ Separate(s \o t)
<1> DEFINE m == Len(s)
           n == Len(t)
           st == s \o t
<1>1. s \in Seq(A \cup B) /\ t \in Seq(A \cup B)
    BY SeqMonotonic
<1>2. m \in Nat /\ n \in Nat /\ DOMAIN s = 1..m /\ DOMAIN t = 1..n
    BY LenProperties
<1>3. /\ st \in Seq(A \cup B) /\ Len(st) = m + n
      /\ \A i \in 1..m + n : st[i] = IF i <= m THEN s[i] ELSE t[i - m]
    BY <1>1, ConcatProperties
<1>4. DOMAIN st = 1..m + n
    BY <1>3, LenProperties
<1> HIDE DEF m, n, st
<1>5. ASSUME NEW i \in 1..m + n, NEW j \in 1..m + n, i < j
      PROVE  Apart(st[i].area, st[j].area)
    <2>1. CASE j <= m
        <3>1. i \in 1..m /\ j \in 1..m /\ st[i] = s[i] /\ st[j] = s[j]
            BY <1>2, <1>3, <1>5, <2>1
        <3> QED
            BY <1>2, <1>5, <3>1 DEF Separate
    <2>2. CASE ~(j <= m) /\ i <= m
        <3>1. i \in 1..m /\ j - m \in 1..n /\ st[i] = s[i] /\ st[j] = t[j - m]
            BY <1>2, <1>3, <1>5, <2>2
        <3>2. s[i] \in A /\ t[j - m] \in B
            BY <3>1, ElementOfSeq DEF m, n
        <3> QED
            BY <3>1, <3>2 DEF Clear
    <2>3. CASE ~(j <= m) /\ ~(i <= m)
        <3>1. /\ i - m \in 1..n /\ j - m \in 1..n /\ i - m < j - m
              /\ st[i] = t[i - m] /\ st[j] = t[j - m]
            <4>1. i - m \in 1..n /\ j - m \in 1..n /\ i - m < j - m
                BY <1>2, <1>5, <2>3
            <4>2. st[i] = t[i - m] /\ st[j] = t[j - m]
                BY <1>3, <2>3
            <4> QED
                BY <4>1, <4>2
        <3> QED
            BY <1>2, <3>1 DEF Separate
    <2> QED
        BY <2>1, <2>2, <2>3
<1> QED
    BY <1>3, <1>4, <1>5 DEF Separate, st

LEMMA Pair ==
    ASSUME NEW a, NEW b, Apart(a.area, b.area)
    PROVE  <<a, b>> \in Seq({a, b}) /\ Separate(<<a, b>>)
BY DEF Separate

LEMMA Single ==
    ASSUME NEW a
    PROVE  <<a>> \in Seq({a}) /\ Separate(<<a>>)
BY DEF Separate

LEMMA Nothing == <<>> \in Seq({}) /\ Separate(<<>>)
BY EmptySeq DEF Separate

LEMMA CardsApart ==
    ASSUME Drawn
    PROVE  Separate(cards)
<1>1. /\ Header.area = HeaderRect(G) /\ Credit.area = FooterRect(G) /\ Apology.area = WideCell(1)
      /\ model # None => /\ TodayIs.area = Cell(0, 1) /\ DaysAhead.area = Cell(1, 1)
                         /\ RainStrip.area = FooterRect(G) /\ RainAbove.area = WideCell(0)
      /\ page.events # None => MonthSeen.area = Cell(0, 0) /\ AgendaSeen.area = Cell(1, 0)
    BY CardsKeep DEF Keeps
<1>2. CalendarCards \in Seq(CalendarSeen) /\ Separate(CalendarCards)
    <2>1. CASE page.events = None
        <3>1. CalendarCards = <<>> /\ CalendarSeen = {}
            BY <2>1 DEF CalendarCards, CalendarSeen
        <3> QED
            BY <3>1, Nothing
    <2>2. CASE page.events # None
        <3>1. CalendarCards = <<MonthSeen, AgendaSeen>> /\ CalendarSeen = {MonthSeen, AgendaSeen}
            BY <2>2 DEF CalendarCards, CalendarSeen, MonthSeen, AgendaSeen
        <3>2. Apart(MonthSeen.area, AgendaSeen.area)
            BY <1>1, <2>2, AreasApart
        <3> QED
            BY <3>1, <3>2, Pair
    <2> QED
        BY <2>1, <2>2
<1>3. \A a \in CalendarSeen : a.area \in {Cell(0, 0), Cell(1, 0)}
    BY <1>1 DEF CalendarSeen
<1>4. <<Header>> \in Seq({Header}) /\ Separate(<<Header>>)
    BY Single
<1>5. Separate(Sorry)
    <2>1. <<Apology, Credit>> \in Seq({Apology, Credit}) /\ Separate(<<Apology, Credit>>)
        BY <1>1, AreasApart, Pair
    <2>2. Clear(CalendarSeen, {Apology, Credit})
        BY <1>1, <1>3, AreasApart DEF Clear
    <2>3. /\ CalendarCards \o <<Apology, Credit>> \in Seq(CalendarSeen \cup {Apology, Credit})
          /\ Separate(CalendarCards \o <<Apology, Credit>>)
        BY <1>2, <2>1, <2>2, Beside
    <2>4. Clear({Header}, CalendarSeen \cup {Apology, Credit})
        BY <1>1, <1>3, AreasApart DEF Clear
    <2> QED
        BY <1>4, <2>3, <2>4, Beside DEF Sorry
<1>6. ASSUME model # None
      PROVE  Started \in Seq({Header} \cup {TodayIs, DaysAhead}) /\ Separate(Started)
    <2>1. <<TodayIs, DaysAhead>> \in Seq({TodayIs, DaysAhead}) /\ Separate(<<TodayIs, DaysAhead>>)
        BY <1>1, <1>6, AreasApart, Pair
    <2>2. Clear({Header}, {TodayIs, DaysAhead})
        BY <1>1, <1>6, AreasApart DEF Clear
    <2> QED
        BY <1>4, <2>1, <2>2, Beside DEF Started
<1>7. ASSUME model # None PROVE Separate(WithStrip)
    <2>1. <<RainStrip>> \in Seq({RainStrip}) /\ Separate(<<RainStrip>>)
        BY Single
    <2>2. Clear({RainStrip}, CalendarSeen)
        BY <1>1, <1>3, <1>7, AreasApart DEF Clear
    <2>3. /\ <<RainStrip>> \o CalendarCards \in Seq({RainStrip} \cup CalendarSeen)
          /\ Separate(<<RainStrip>> \o CalendarCards)
        BY <1>2, <2>1, <2>2, Beside
    <2>4. Clear({Header} \cup {TodayIs, DaysAhead}, {RainStrip} \cup CalendarSeen)
        BY <1>1, <1>3, <1>7, AreasApart DEF Clear
    <2> QED
        BY <1>6, <1>7, <2>3, <2>4, Beside DEF WithStrip
<1>8. ASSUME model # None PROVE Separate(WithCard)
    <2>1. <<RainAbove, Credit>> \in Seq({RainAbove, Credit}) /\ Separate(<<RainAbove, Credit>>)
        BY <1>1, <1>8, AreasApart, Pair
    <2>2. Clear({Header} \cup {TodayIs, DaysAhead}, {RainAbove, Credit})
        BY <1>1, <1>8, AreasApart DEF Clear
    <2> QED
        BY <1>6, <1>8, <2>1, <2>2, Beside DEF WithCard
<1> QED
    BY <1>4, <1>5, <1>6, <1>7, <1>8, Nothing, Zenon DEF Drawn

\* Every card draws all its lines, rules, dots, bars and icons in the area it was given,
\* in both orientations, whatever the titles, the lists, the chances and the level of
\* the battery are; the areas lie apart on the page.  Nothing in the code clips a card.
THEOREM StaysInCells == Spec => []InCells
<1>1. ASSUME Drawn PROVE InCells
    <2>1. ASSUME NEW c \in Named("header") PROVE Inside(c.bar, c.body) /\ c.bar.x0 <= c.bar.x1
        BY <1>1, ByName, CardsKeep
    <2>2. \A i, j \in DOMAIN cards : i < j => Apart(cards[i].area, cards[j].area)
        BY <1>1, CardsApart DEF Separate
    <2>3. ASSUME NEW i \in DOMAIN cards
          PROVE  /\ Inside(cards[i].area, PageRect)
                 /\ \A b \in cards[i].boxes : Inside(b, cards[i].area)
                 /\ \A y \in cards[i].marks : cards[i].area.y0 < y /\ y < cards[i].area.y1
        <3>1. cards[i] \in Shown
            BY <1>1, CardsShown, ElementOfSeq, LenProperties
        <3>2. \E area \in {HeaderRect(G), FooterRect(G), Cell(0, 0), Cell(1, 0), Cell(0, 1),
                           Cell(1, 1), WideCell(0), WideCell(1)} : Keeps(cards[i], area)
            BY <1>1, <3>1, CardsKeep DEF Shown, CalendarSeen, WeatherSeen, RainSeen
        <3> QED
            BY <3>2, AreasApart DEF Keeps
    <2> QED
        BY <2>1, <2>2, <2>3, Zenon DEF InCells
<1> QED
    BY <1>1, DrawnHolds, PTL
-----------------------------------------------------------------------------
\* What the rain card says of a reply.
LEMMA MaxIs ==
    ASSUME NEW S, S \subseteq Int, NEW p \in S, \A y \in S : y <= p
    PROVE  Max(S) = p
<1>1. \E x \in S : \A y \in S : x >= y
    OBVIOUS
<1>2. Max(S) \in S /\ \A y \in S : Max(S) >= y
    BY <1>1, Zenon DEF Max
<1>3. Max(S) \in Int /\ p \in Int /\ Max(S) >= p /\ Max(S) <= p
    BY <1>2
<1> QED
    BY <1>3

LEMMA MinIs ==
    ASSUME NEW S, S \subseteq Int, NEW p \in S, \A y \in S : p <= y
    PROVE  Min(S) = p
<1>1. Min(S) \in S /\ \A y \in S : Min(S) <= y
    BY Zenon DEF Min
<1>2. Min(S) \in Int /\ p \in Int /\ Min(S) >= p /\ Min(S) <= p
    BY <1>1
<1> QED
    BY <1>2

\* Sums over sets of numbers up to n: in whatever order they are taken.
Totals(g, n, w) ==
    /\ g \in [SUBSET (1..n) -> Int] /\ g[{}] = 0
    /\ \A t \in SUBSET (1..n) : \A x \in t : g[t] = w[x] + g[t \ {x}]

LEMMA TotalsExist ==
    ASSUME NEW n \in Nat, NEW w, \A i \in 1..n : w[i] \in Int
    PROVE  \E g : Totals(g, n, w)
<1> DEFINE T == {k \in Nat : k <= n => \E g : Totals(g, k, w)}
<1>1. 0 \in T
    <2> DEFINE g == [t \in SUBSET (1..0) |-> 0]
    <2>1. \A t \in SUBSET (1..0) : t = {}
        OBVIOUS
    <2>2. Totals(g, 0, w)
        BY <2>1 DEF Totals
    <2> QED
        BY <2>2
<1>2. ASSUME NEW k \in Nat, k \in T PROVE k + 1 \in T
    <2> SUFFICES ASSUME k + 1 <= n PROVE \E g : Totals(g, k + 1, w)
        OBVIOUS
    <2>1. PICK g : Totals(g, k, w)
        BY <1>2
    <2> DEFINE h == [t \in SUBSET (1..k + 1) |->
                        IF k + 1 \in t THEN w[k + 1] + g[t \ {k + 1}] ELSE g[t]]
    <2>2. w[k + 1] \in Int
        OBVIOUS
    <2>3. ASSUME NEW t \in SUBSET (1..k + 1)
          PROVE  t \ {k + 1} \in SUBSET (1..k) /\ (k + 1 \notin t => t \in SUBSET (1..k))
        OBVIOUS
    <2>4. \A t \in SUBSET (1..k + 1) :
             h[t] = IF k + 1 \in t THEN w[k + 1] + g[t \ {k + 1}] ELSE g[t]
        OBVIOUS
    <2>5. h \in [SUBSET (1..k + 1) -> Int] /\ h[{}] = 0
        <3>1. \A t \in SUBSET (1..k + 1) : h[t] \in Int
            BY <2>1, <2>2, <2>3, <2>4 DEF Totals
        <3>2. h[{}] = 0
            BY <2>1, <2>4 DEF Totals
        <3> QED
            BY <3>1, <3>2
    <2> HIDE DEF h
    <2>6. ASSUME NEW t \in SUBSET (1..k + 1), NEW x \in t
          PROVE  h[t] = w[x] + h[t \ {x}]
        <3>1. x \in 1..n /\ w[x] \in Int /\ t \ {x} \in SUBSET (1..k + 1)
            OBVIOUS
        <3>2. CASE k + 1 \notin t
            <4>1. t \in SUBSET (1..k) /\ h[t] = g[t] /\ h[t \ {x}] = g[t \ {x}]
                BY <2>3, <2>4, <3>1, <3>2
            <4> QED
                BY <2>1, <4>1 DEF Totals
        <3>3. CASE x = k + 1
            <4>1. h[t] = w[k + 1] + g[t \ {k + 1}] /\ h[t \ {x}] = g[t \ {x}]
                BY <2>4, <3>1, <3>3
            <4> QED
                BY <3>3, <4>1
        <3>4. CASE k + 1 \in t /\ x # k + 1
            <4> DEFINE rest == t \ {k + 1}
            <4>1. rest \in SUBSET (1..k) /\ x \in rest /\ (t \ {x}) \ {k + 1} = rest \ {x}
                BY <2>3, <3>4
            <4>2. h[t] = w[k + 1] + g[rest] /\ h[t \ {x}] = w[k + 1] + g[rest \ {x}]
                BY <2>4, <3>1, <3>4, <4>1
            <4>3. g[rest] = w[x] + g[rest \ {x}] /\ g[rest \ {x}] \in Int
                BY <2>1, <4>1 DEF Totals
            <4> HIDE DEF rest
            <4> QED
                BY <2>2, <3>1, <4>2, <4>3
        <3> QED
            BY <3>2, <3>3, <3>4
    <2>7. Totals(h, k + 1, w)
        BY <2>5, <2>6, Zenon DEF Totals
    <2> QED
        BY <2>7, Zenon
<1>3. n \in T
    <2> HIDE DEF T
    <2> QED
        BY <1>1, <1>2, Induction
<1> QED
    BY <1>3

LEMMA SumOver ==
    ASSUME NEW n \in Nat, NEW mm \in Seq(Int), NEW S \in SUBSET (1..n), NEW g,
           Totals(g, n, [i \in 1..n |-> Entry(mm, i)])
    PROVE  MapThenSumSet(LAMBDA i : Entry(mm, i), S) = g[S]
<1> DEFINE w == [i \in 1..n |-> Entry(mm, i)]
           P(f) == f = [s \in SUBSET S |->
                          IF s = {} THEN 0
                          ELSE Entry(mm, CHOOSE x \in s : TRUE) + f[s \ {CHOOSE x \in s : TRUE}]]
           h == CHOOSE f : P(f)
<1>1. MapThenSumSet(LAMBDA i : Entry(mm, i), S) = h[S]
    BY DEF MapThenSumSet, MapThenFoldSet
<1>2. ASSUME NEW s \in SUBSET S, s # {}
      PROVE  LET x == CHOOSE y \in s : TRUE IN
             /\ x \in s /\ s \ {x} \in SUBSET S /\ s \in SUBSET (1..n)
             /\ g[s] = Entry(mm, x) + g[s \ {x}]
    <2> DEFINE x == CHOOSE y \in s : TRUE
    <2>1. x \in s
        BY <1>2
    <2> HIDE DEF x
    <2>2. s \in SUBSET (1..n) /\ s \ {x} \in SUBSET S /\ w[x] = Entry(mm, x)
        BY <2>1
    <2>3. g[s] = w[x] + g[s \ {x}]
        BY <2>1, <2>2 DEF Totals
    <2> QED
        BY <2>1, <2>2, <2>3 DEF x
<1>3. P([s \in SUBSET S |-> g[s]])
    <2> DEFINE f == [s \in SUBSET S |-> g[s]]
    <2>1. ASSUME NEW s \in SUBSET S
          PROVE  f[s] = IF s = {} THEN 0
                        ELSE Entry(mm, CHOOSE x \in s : TRUE) + f[s \ {CHOOSE x \in s : TRUE}]
        <3>1. f[s] = g[s]
            OBVIOUS
        <3>2. CASE s = {}
            BY <3>1, <3>2 DEF Totals
        <3>3. CASE s # {}
            <4> DEFINE x == CHOOSE y \in s : TRUE
            <4>1. s \ {x} \in SUBSET S /\ g[s] = Entry(mm, x) + g[s \ {x}]
                BY <1>2, <3>3
            <4>2. f[s \ {x}] = g[s \ {x}]
                BY <4>1
            <4> HIDE DEF f, x
            <4>3. f[s] = Entry(mm, x) + f[s \ {x}]
                BY <3>1, <4>1, <4>2
            <4> QED
                BY <3>3, <4>3 DEF x
        <3> QED
            BY <3>2, <3>3
    <2>2. f = [s \in SUBSET S |-> f[s]]
        OBVIOUS
    <2> HIDE DEF f
    <2> QED
        BY <2>1, <2>2 DEF f
<1>4. P(h)
    <2> HIDE DEF P
    <2> QED
        BY <1>3
<1> HIDE DEF h
<1>5. IsFiniteSet(S)
    <2>1. IsFiniteSet(1..n)
        BY FS_Interval
    <2> QED
        BY <2>1, FS_Subset
<1> DEFINE T == {c \in Nat : \A s \in SUBSET S : Cardinality(s) = c => h[s] = g[s]}
<1>6. 0 \in T
    <2>1. \A s \in SUBSET S : Cardinality(s) = 0 => s = {}
        BY <1>5, FS_Subset, FS_EmptySet
    <2>2. h[{}] = 0 /\ g[{}] = 0
        BY <1>4 DEF Totals
    <2> QED
        BY <2>1, <2>2
<1>7. ASSUME NEW c \in Nat, c \in T PROVE c + 1 \in T
    <2> SUFFICES ASSUME NEW s \in SUBSET S, Cardinality(s) = c + 1 PROVE h[s] = g[s]
        OBVIOUS
    <2> DEFINE x == CHOOSE y \in s : TRUE
    <2> HIDE DEF T, P, w
    <2>1. s # {} /\ IsFiniteSet(s)
        <3>1. IsFiniteSet(s)
            BY <1>5, FS_Subset, Zenon
        <3>2. Cardinality({}) = 0 /\ c + 1 # 0
            BY FS_EmptySet
        <3> QED
            BY <3>1, <3>2, Zenon
    <2>2. x \in s /\ s \ {x} \in SUBSET S /\ g[s] = Entry(mm, x) + g[s \ {x}]
        BY <1>2, <2>1
    <2>3. h[s] = Entry(mm, x) + h[s \ {x}]
        BY <1>4, <2>1 DEF P
    <2> HIDE DEF x
    <2>4. Cardinality(s \ {x}) = c
        <3>1. Cardinality(s \ {x}) = Cardinality(s) - 1
            BY <2>1, <2>2, FS_RemoveElement, Zenon
        <3> QED
            BY <3>1
    <2>5. h[s \ {x}] = g[s \ {x}]
        BY <1>7, <2>2, <2>4 DEF T
    <2> QED
        BY <2>2, <2>3, <2>5
<1>8. h[S] = g[S]
    <2>1. Cardinality(S) \in Nat
        BY <1>5, FS_CardinalityType
    <2>2. Cardinality(S) \in T
        <3> HIDE DEF T
        <3>1. Nat \subseteq T
            BY <1>6, <1>7, Induction
        <3> QED
            BY <2>1, <3>1
    <2> QED
        BY <2>2
<1> QED
    BY <1>1, <1>8
-----------------------------------------------------------------------------
\* The wettest hour of the first k.
ChanceOf(hours, b) == IF b = 0 THEN 0 ELSE hours[b].chance
Best(hours, b, k) ==
    /\ b \in 0..k /\ (b > 0 => hours[b].chance > 0)
    /\ \A j \in 1..k : hours[j].chance <= ChanceOf(hours, b)
    /\ \A j \in 1..k : j < b => hours[j].chance < ChanceOf(hours, b)

LEMMA ChanceIs ==
    ASSUME NEW x \in Hour
    PROVE  x.chance \in 0..100 /\ x.chance \in Int /\ x.mm \in Int
<1>1. x.chance \in 0..100 /\ x.mm \in Int
    BY DEF Hour
<1> QED
    BY <1>1

LEMMA WettestIs ==
    ASSUME NEW hours \in Seq(Hour)
    PROVE  \E b : /\ Best(hours, b, Len(hours))
                  /\ Summarise(hours).peak = ChanceOf(hours, b)
                  /\ b > 0 => Summarise(hours).at = hours[b].at
<1> DEFINE n == Len(hours)
           seq == [i \in DOMAIN hours |-> i]
           A == 0..n
           Wetter(best, i) == IF hours[i].chance > Entry([h \in DOMAIN hours |-> hours[h].chance], best)
                              THEN i ELSE best
           P(g) == g = [t \in SUBSET (1..n) |->
                          IF t = {} THEN 0 ELSE Wetter(g[t \ {Max(t)}], seq[Max(t)])]
           step == [p \in A \X (1..n) |-> Wetter(p[1], p[2])]
           h == CHOOSE f : P(f)
           found == FoldLeft(Wetter, 0, seq)
<1>1. n \in Nat /\ DOMAIN hours = 1..n /\ DOMAIN seq = 1..n
    BY LenProperties
<1>2. ASSUME NEW i \in 1..n PROVE hours[i].chance \in 0..100 /\ hours[i].chance \in Int
    <2>1. hours[i] \in Hour
        BY <1>1, ElementOfSeq
    <2> QED
        BY <2>1, ChanceIs, Zenon
<1>3. ASSUME NEW b \in 0..n, NEW i \in 1..n
      PROVE  Wetter(b, i) = (IF hours[i].chance > ChanceOf(hours, b) THEN i ELSE b)
    <2>1. Entry([k \in DOMAIN hours |-> hours[k].chance], b) = ChanceOf(hours, b)
        <3>1. CASE b = 0
            BY <1>1, <3>1 DEF Entry, ChanceOf
        <3>2. CASE b # 0
            <4>1. b \in DOMAIN hours
                BY <1>1, <3>2
            <4> QED
                BY <3>2, <4>1 DEF Entry, ChanceOf
        <3> QED
            BY <3>1, <3>2
    <2> QED
        BY <2>1
<1>4. /\ Summarise(hours).peak = ChanceOf(hours, found)
      /\ Summarise(hours).at = hours[IF found = 0 THEN 1 ELSE found].at
    BY DEF Summarise, ChanceOf
<1>5. found = h[1..n]
    <2> HIDE DEF Wetter, seq, n
    <2> QED
        BY <1>1 DEF FoldLeft, MapThenFoldSet, Max
<1>6. \A i \in 1..n : seq[i] = i
    BY <1>1
<1>7. \A a \in A, i \in 1..n : step[<<a, i>>] = Wetter(a, i)
    <2> HIDE DEF Wetter, A, n
    <2> QED
        OBVIOUS
<1>8. step \in [A \X (1..n) -> A] /\ 0 \in A
    <2>1. \A a \in A, i \in 1..n : Wetter(a, i) \in A
        <3> SUFFICES ASSUME NEW a \in A, NEW i \in 1..n PROVE Wetter(a, i) \in A
            OBVIOUS
        <3>1. i \in A
            BY <1>1
        <3> HIDE DEF A
        <3> QED
            BY <3>1
    <2>2. 0 \in A
        BY <1>1
    <2> HIDE DEF Wetter, A, n
    <2> QED
        BY <2>1, <2>2
<1>9. ASSUME NEW t \in SUBSET (1..n), t # {}
      PROVE  Max(t) \in 1..n /\ t \ {Max(t)} \in SUBSET (1..n)
    <2> HIDE DEF n
    <2> QED
        BY <1>1, <1>9, MaxOf
<1> HIDE DEF step, n, A, h, seq, found, Wetter
<1>10. PICK g : FoldsAs(g, A, 0, n, step)
    BY <1>1, <1>8, FoldExists
<1>11. P(g)
    <2>1. ASSUME NEW t \in SUBSET (1..n), t # {}
          PROVE  step[<<g[t \ {Max(t)}], Max(t)>>] = Wetter(g[t \ {Max(t)}], seq[Max(t)])
        BY <1>6, <1>7, <1>9, <1>10, <2>1 DEF FoldsAs
    <2>2. g = [t \in SUBSET (1..n) |-> g[t]]
        BY <1>10 DEF FoldsAs
    <2> QED
        BY <1>10, <2>1, <2>2 DEF FoldsAs
<1>12. P(h)
    <2> HIDE DEF P
    <2> QED
        BY <1>11 DEF h
<1>13. Follows(h, A, 0, n, step)
    <2>1. ASSUME NEW t \in SUBSET (1..n), t # {}, h[t \ {Max(t)}] \in A
          PROVE  h[t] = step[<<h[t \ {Max(t)}], Max(t)>>]
        <3>1. Max(t) \in 1..n /\ seq[Max(t)] = Max(t)
            BY <1>6, <1>9, <2>1
        <3>2. h[t] = Wetter(h[t \ {Max(t)}], seq[Max(t)])
            BY <1>12, <2>1
        <3> QED
            BY <1>7, <2>1, <3>1, <3>2
    <2>2. h[{}] = 0
        BY <1>12
    <2> QED
        BY <2>1, <2>2 DEF Follows
<1>14. PICK F : Steps(F, A, 0, n, step) /\ F[n] = h[1..n]
    <2>1. Reaches(h[1..n], A, 0, n, step)
        BY <1>1, <1>8, <1>13, Chain
    <2> QED
        BY <2>1 DEF Reaches
<1> DEFINE T == {m \in Nat : m \in 0..n => Best(hours, F[m], m)}
<1>15. 0 \in T
    <2>1. F[0] = 0
        BY <1>14 DEF Steps
    <2>2. Best(hours, 0, 0)
        BY DEF Best
    <2> QED
        BY <2>1, <2>2
<1>16. ASSUME NEW m \in Nat, m \in T PROVE m + 1 \in T
    <2> SUFFICES ASSUME m + 1 \in 0..n PROVE Best(hours, F[m + 1], m + 1)
        OBVIOUS
    <2>1. m + 1 \in 1..n /\ (m + 1) - 1 = m /\ m \in 0..n
        BY <1>1
    <2> DEFINE b == F[m]
    <2>2. Best(hours, b, m) /\ b \in A
        BY <1>14, <1>16, <2>1 DEF Steps
    <2>3. F[m + 1] = IF hours[m + 1].chance > ChanceOf(hours, b) THEN m + 1 ELSE b
        <3>1. F[m + 1] = step[<<b, m + 1>>]
            BY <1>14, <2>1 DEF Steps
        <3>2. F[m + 1] = Wetter(b, m + 1)
            BY <1>7, <2>1, <2>2, <3>1
        <3>3. b \in 0..n
            BY <2>2 DEF A
        <3> HIDE DEF b
        <3> QED
            BY <1>3, <2>1, <3>2, <3>3
    <2> HIDE DEF b, T, P
    <2>5. hours[m + 1].chance \in Int /\ \A j \in 1..m : hours[j].chance \in Int
        <3>1. \A j \in 1..m : j \in 1..n
            BY <1>1, <2>1
        <3> QED
            BY <1>2, <2>1, <3>1
    <2>4. b \in 0..m /\ ChanceOf(hours, b) \in Int /\ ChanceOf(hours, b) >= 0
        <3>1. b \in 0..m /\ (b > 0 => hours[b].chance > 0)
            BY <2>2 DEF Best
        <3>2. CASE b = 0
            BY <3>1, <3>2 DEF ChanceOf
        <3>3. CASE b # 0
            <4>1. b \in 1..m
                BY <3>1, <3>3
            <4>2. ChanceOf(hours, b) = hours[b].chance /\ hours[b].chance \in Int
                BY <2>5, <3>3, <4>1 DEF ChanceOf
            <4> QED
                BY <3>1, <4>1, <4>2
        <3> QED
            BY <3>2, <3>3
    <2>6. CASE hours[m + 1].chance > ChanceOf(hours, b)
        <3>1. F[m + 1] = m + 1 /\ ChanceOf(hours, m + 1) = hours[m + 1].chance
            BY <2>3, <2>6 DEF ChanceOf
        <3>2. \A j \in 1..m : hours[j].chance < hours[m + 1].chance
            BY <2>2, <2>4, <2>5, <2>6 DEF Best
        <3>3. Best(hours, m + 1, m + 1)
            BY <2>4, <2>5, <2>6, <3>1, <3>2 DEF Best
        <3> QED
            BY <3>1, <3>3
    <2>7. CASE ~(hours[m + 1].chance > ChanceOf(hours, b))
        <3>1. F[m + 1] = b /\ hours[m + 1].chance <= ChanceOf(hours, b)
            BY <2>3, <2>4, <2>5, <2>7
        <3>2. Best(hours, b, m + 1)
            BY <2>2, <2>4, <2>5, <3>1 DEF Best
        <3> QED
            BY <3>1, <3>2
    <2> QED
        BY <2>6, <2>7
<1>17. Best(hours, F[n], n)
    <2>1. n \in 0..n
        BY <1>1
    <2>2. n \in T
        <3> HIDE DEF T
        <3>1. Nat \subseteq T
            BY <1>15, <1>16, Induction
        <3> QED
            BY <1>1, <3>1
    <2> QED
        BY <2>1, <2>2
<1>18. found = F[n] /\ (found > 0 => found # 0)
    BY <1>5, <1>14
<1> QED
    BY <1>4, <1>17, <1>18 DEF n
-----------------------------------------------------------------------------
\* The hours of a reply that are to come, and those of them the card speaks of.
ComingIn(r) == {i \in DOMAIN r.hourly.time : r.hourly.time[i] >= r.now}
AheadIn(r) == {i \in ComingIn(r) : Cardinality({j \in ComingIn(r) : j < i}) < SliceHours}

\* What is handed on of a reply are its hours from the m-th: the ones ahead.
Window(r, hours, m) ==
    /\ hours \in Seq(Hour) /\ Len(hours) \in Nat \ {0}
    /\ m \in 1..Len(r.hourly.time) /\ m + Len(hours) - 1 <= Len(r.hourly.time)
    /\ AheadIn(r) = m..m + Len(hours) - 1
    /\ \A k \in 1..Len(hours) :
          hours[k] = [at |-> r.hourly.time[m + k - 1] - r.offset,
                      chance |-> Entry(r.hourly.chance, m + k - 1),
                      mm |-> Entry(r.hourly.mm, m + k - 1)]

LEMMA InOrder ==
    ASSUME NEW r, ReplyOK(r), Decodes(r)
    PROVE  /\ DOMAIN r.hourly.time = 1..Len(r.hourly.time) /\ Len(r.hourly.time) \in Nat
           /\ r.now \in Int /\ r.offset \in Int
           /\ \A i \in DOMAIN r.hourly.time : r.hourly.time[i] \in Int
           /\ \A i, j \in DOMAIN r.hourly.time : i < j => r.hourly.time[i] < r.hourly.time[j]
<1>1. /\ r.offset \in Int /\ r.now \in Reading /\ r.now # Bad /\ r.hourly.time \in Seq(Reading)
      /\ \A i \in DOMAIN r.hourly.time : r.hourly.time[i] # Bad
      /\ \A i, j \in DOMAIN r.hourly.time :
            i < j /\ Bad \notin {r.hourly.time[i], r.hourly.time[j]} =>
               r.hourly.time[i] < r.hourly.time[j]
    BY Zenon DEF ReplyOK, Decodes
<1>2. DOMAIN r.hourly.time = 1..Len(r.hourly.time) /\ Len(r.hourly.time) \in Nat
    BY <1>1, LenProperties
<1>3. ASSUME NEW i \in DOMAIN r.hourly.time PROVE r.hourly.time[i] \in Int
    <2>1. r.hourly.time[i] \in Reading
        BY <1>1, <1>2, ElementOfSeq
    <2> QED
        BY <1>1, <2>1 DEF Reading
<1>4. \A i, j \in DOMAIN r.hourly.time : i < j => r.hourly.time[i] < r.hourly.time[j]
    BY <1>1, Zenon
<1>5. r.now \in Int
    BY <1>1 DEF Reading
<1> QED
    BY <1>1, <1>2, <1>3, <1>4, <1>5

LEMMA AheadIs ==
    ASSUME NEW r, ReplyOK(r), Decodes(r)
    PROVE  /\ ToForecast(r).hourly = <<>> => ComingIn(r) = {}
           /\ ToForecast(r).hourly # <<>> => \E m : Window(r, ToForecast(r).hourly, m)
<1> DEFINE seq == BuildHourly(r.hourly, r.offset)
           now == r.now - r.offset
           n == Len(r.hourly.time)
           coming == Coming(seq, now)
           hours == ToForecast(r).hourly
<1>1. /\ DOMAIN r.hourly.time = 1..n /\ n \in Nat /\ r.now \in Int /\ r.offset \in Int
      /\ \A i \in 1..n : r.hourly.time[i] \in Int
      /\ \A i, j \in 1..n : i < j => r.hourly.time[i] < r.hourly.time[j]
    BY InOrder
<1>2. Sliced(hours, seq, now) /\ Len(seq) = n
    BY ReplyIs
<1>3. DOMAIN seq = 1..n
      /\ \A i \in 1..n : seq[i] = [at |-> r.hourly.time[i] - r.offset,
                                   chance |-> Entry(r.hourly.chance, i), mm |-> Entry(r.hourly.mm, i)]
    BY <1>1 DEF BuildHourly
<1> HIDE DEF seq, n, hours
<1>4. \A i \in 1..n : seq[i].at = r.hourly.time[i] - r.offset
    BY <1>3
<1>5. ASSUME NEW i \in 1..n PROVE seq[i].at >= now <=> r.hourly.time[i] >= r.now
    <2>1. seq[i].at = r.hourly.time[i] - r.offset /\ r.hourly.time[i] \in Int
        BY <1>1, <1>4
    <2> QED
        BY <1>1, <2>1
<1>6. coming = ComingIn(r)
    BY <1>1, <1>3, <1>5 DEF Coming, ComingIn
<1>7. hours = <<>> => ComingIn(r) = {}
    <2> HIDE DEF coming
    <2>1. coming # {} => hours # <<>>
        BY <1>2 DEF Sliced, coming
    <2> QED
        BY <1>6, <2>1
<1>8. ASSUME hours # <<>> PROVE \E m : Window(r, hours, m)
    <2>1. coming # {}
        BY <1>2, <1>8 DEF Sliced
    <2> HIDE DEF coming
    <2>2. PICK m \in coming : /\ \A i \in coming : m <= i
                              /\ Len(hours) = Smaller(SliceHours, n - m + 1)
                              /\ \A k \in 1..Len(hours) : hours[k] = seq[m + k - 1]
        BY <1>2, <2>1 DEF Sliced, coming
    <2>3. m \in 1..n /\ r.hourly.time[m] >= r.now
        BY <1>1, <1>6, <2>2 DEF ComingIn
    <2>4. ComingIn(r) = m..n
        <3>1. ASSUME NEW i \in m..n PROVE i \in 1..n /\ r.hourly.time[i] >= r.now
            <4>1. i \in 1..n /\ (i = m \/ m < i)
                BY <1>1, <2>3
            <4>2. r.hourly.time[i] \in Int /\ r.hourly.time[m] \in Int
                BY <1>1, <2>3, <4>1
            <4>3. m < i => r.hourly.time[m] < r.hourly.time[i]
                BY <1>1, <2>3, <4>1
            <4> QED
                BY <1>1, <2>3, <4>1, <4>2, <4>3
        <3>2. m..n \subseteq ComingIn(r)
            BY <1>1, <3>1 DEF ComingIn
        <3>3. ComingIn(r) \subseteq 1..n
            BY <1>1 DEF ComingIn
        <3>4. ASSUME NEW i \in ComingIn(r) PROVE i \in m..n
            <4>1. i \in 1..n /\ m <= i
                BY <1>6, <2>2, <3>3
            <4> QED
                BY <1>1, <2>3, <4>1
        <3> QED
            BY <3>2, <3>4
    <2>5. ASSUME NEW i \in m..n PROVE Cardinality({j \in ComingIn(r) : j < i}) = i - m
        <3> DEFINE before == {j \in ComingIn(r) : j < i}
        <3>1. before = m..i - 1
            BY <1>1, <2>3, <2>4
        <3> HIDE DEF before
        <3>2. Cardinality(m..i - 1) = IF m > i - 1 THEN 0 ELSE (i - 1) - m + 1
            <4> DEFINE k == i - 1
            <4>1. m \in Int /\ k \in Int
                BY <1>1, <2>3
            <4> HIDE DEF k
            <4>2. Cardinality(m..k) = IF m > k THEN 0 ELSE k - m + 1
                BY <4>1, FS_Interval
            <4> QED
                BY <4>2 DEF k
        <3>3. (IF m > i - 1 THEN 0 ELSE (i - 1) - m + 1) = i - m
            BY <1>1, <2>3
        <3> QED
            BY <3>1, <3>2, <3>3, Zenon DEF before
    <2>6. AheadIn(r) = {i \in m..n : i - m < SliceHours}
        BY <2>4, <2>5 DEF AheadIn
    <2>7. SliceHours \in Nat \ {0}
        BY SliceAssumption
    <2>8. Len(hours) \in Nat \ {0} /\ m + Len(hours) - 1 <= n
          /\ AheadIn(r) = m..m + Len(hours) - 1
        BY <1>1, <2>2, <2>3, <2>6, <2>7 DEF Smaller
    <2>9. ASSUME NEW k \in 1..Len(hours)
          PROVE  hours[k] = [at |-> r.hourly.time[m + k - 1] - r.offset,
                             chance |-> Entry(r.hourly.chance, m + k - 1),
                             mm |-> Entry(r.hourly.mm, m + k - 1)]
        <3>1. m + k - 1 \in 1..n
            BY <1>1, <2>3, <2>8
        <3>2. hours[k] = seq[m + k - 1]
            BY <2>2
        <3> QED
            BY <1>3, <3>1, <3>2
    <2>10. Window(r, hours, m)
        BY <1>2, <2>3, <2>8, <2>9 DEF Window, Sliced, n
    <2> QED
        BY <2>10
<1> QED
    BY <1>7, <1>8 DEF hours

\* Totals over the sets of indices, and the sums of a sequence.
TotalOf(mm, S) == MapThenSumSet(LAMBDA i : Entry(mm, i), S)
SumOf(seq) == FoldLeft(+, 0, seq)

Amounts(seq, mm, m, L) ==
    seq \in Seq(Int) /\ Len(seq) = L /\ \A k \in 1..L : seq[k] = Entry(mm, m + k - 1)

LEMMA SumAhead ==
    ASSUME NEW n \in Nat, NEW mm \in Seq(Int), NEW m \in 1..n, NEW L \in Nat, m + L - 1 <= n,
           NEW seq, Amounts(seq, mm, m, L)
    PROVE  SumOf(seq) = TotalOf(mm, m..m + L - 1)
<1> DEFINE w == [i \in 1..n |-> Entry(mm, i)]
           S == m..m + L - 1
<1>1. \A i \in 1..n : w[i] \in Int
    <2> DEFINE A == Int
    <2>1. mm \in Seq(A) /\ 0 \in A
        OBVIOUS
    <2> HIDE DEF A
    <2>2. \A i \in 1..n : Entry(mm, i) \in A
        BY <2>1, EntryIs
    <2> QED
        BY <2>2 DEF A
<1>2. PICK g : Totals(g, n, w)
    <2> HIDE DEF w
    <2> QED
        BY <1>1, TotalsExist
<1>3. S \in SUBSET (1..n)
    OBVIOUS
<1>4. TotalOf(mm, S) = g[S]
    <2> HIDE DEF S
    <2> QED
        BY <1>2, <1>3, SumOver DEF TotalOf
<1>5. PICK F \in [0..L -> Int] :
         /\ F[0] = 0 /\ \A k \in 1..L : F[k] = F[k - 1] + seq[k]
         /\ SumOf(seq) = F[L]
    <2>1. seq \in Seq(Int) /\ Len(seq) = L
        BY DEF Amounts
    <2> QED
        BY <2>1, SumSteps DEF SumOf
<1> DEFINE T == {k \in Nat : k <= L => g[m..m + k - 1] = F[k]}
<1>6. 0 \in T
    <2>1. m..m + 0 - 1 = {}
        OBVIOUS
    <2> QED
        BY <1>2, <1>5, <2>1 DEF Totals
<1>7. ASSUME NEW k \in Nat, k \in T PROVE k + 1 \in T
    <2> SUFFICES ASSUME k + 1 <= L PROVE g[m..m + (k + 1) - 1] = F[k + 1]
        OBVIOUS
    <2> DEFINE s == m..m + (k + 1) - 1
               x == m + (k + 1) - 1
    <2>1. s \in SUBSET (1..n) /\ x \in s /\ s \ {x} = m..m + k - 1 /\ x \in 1..n
        <3> HIDE DEF T, w, S
        <3>1. m \in Int /\ m + k \in Int /\ x = m + k /\ x \in 1..n
            OBVIOUS
        <3>2. \A i \in s : i \in 1..n
            OBVIOUS
        <3>3. x \in s /\ s \ {x} = m..m + k - 1
            BY <3>1, SMTT(60)
        <3> QED
            BY <3>1, <3>2, <3>3
    <2>2. w[x] = seq[k + 1]
        BY <2>1 DEF Amounts
    <2>3. k + 1 \in 1..L /\ (k + 1) - 1 = k
        OBVIOUS
    <2>4. F[k + 1] = F[k] + seq[k + 1]
        BY <1>5, <2>3
    <2>5. g[m..m + k - 1] = F[k] /\ k \in 0..L
        BY <1>7
    <2> HIDE DEF s, x, w, T, S
    <2>6. w[x] \in Int /\ F[k] \in Int
        BY <1>1, <1>5, <2>1, <2>5
    <2>7. g[s] = w[x] + g[s \ {x}]
        BY <1>2, <2>1 DEF Totals
    <2>8. g[s] = F[k + 1]
        <3>1. g[s \ {x}] = F[k]
            BY <2>1, <2>5, Zenon
        <3> QED
            BY <2>2, <2>4, <2>6, <2>7, <3>1
    <2> QED
        BY <2>8 DEF s
<1>8. L \in T
    <2> HIDE DEF T
    <2> QED
        BY <1>6, <1>7, Induction
<1>9. g[m..m + L - 1] = F[L]
    BY <1>8
<1> QED
    BY <1>4, <1>5, <1>9, Zenon DEF S

\* The card's summary is true of the hours ahead.
SummaryTrue(sum, r) ==
    /\ sum.peak = Max({0} \cup {Entry(r.hourly.chance, i) : i \in AheadIn(r)})
    /\ sum.peak > 0 =>
          sum.at + r.offset
            = Min({r.hourly.time[i] : i \in {j \in AheadIn(r) : Entry(r.hourly.chance, j) = sum.peak}})
    /\ sum.total = TotalOf(r.hourly.mm, AheadIn(r))

LEMMA SummaryIs ==
    ASSUME NEW r, ReplyOK(r), Decodes(r), NEW hours, NEW m, Window(r, hours, m)
    PROVE  SummaryTrue(Summarise(hours), r)
<1> DEFINE n == Len(r.hourly.time)
           L == Len(hours)
           ahead == AheadIn(r)
           Chance(i) == Entry(r.hourly.chance, i)
           sum == Summarise(hours)
<1>1. /\ n \in Nat /\ r.offset \in Int
      /\ \A i \in 1..n : r.hourly.time[i] \in Int
      /\ \A i, j \in 1..n : i < j => r.hourly.time[i] < r.hourly.time[j]
    BY InOrder
<1>2. /\ hours \in Seq(Hour) /\ L \in Nat \ {0} /\ m \in 1..n /\ m + L - 1 <= n
      /\ ahead = m..m + L - 1
      /\ \A k \in 1..L : /\ hours[k].at = r.hourly.time[m + k - 1] - r.offset
                         /\ hours[k].chance = Chance(m + k - 1)
                         /\ hours[k].mm = Entry(r.hourly.mm, m + k - 1)
    <2>1. /\ hours \in Seq(Hour) /\ L \in Nat \ {0} /\ m \in 1..n /\ m + L - 1 <= n
          /\ ahead = m..m + L - 1
        BY Zenon DEF Window
    <2>2. ASSUME NEW k \in 1..L
          PROVE  /\ hours[k].at = r.hourly.time[m + k - 1] - r.offset
                 /\ hours[k].chance = Chance(m + k - 1)
                 /\ hours[k].mm = Entry(r.hourly.mm, m + k - 1)
        <3>1. hours[k] = [at |-> r.hourly.time[m + k - 1] - r.offset,
                          chance |-> Chance(m + k - 1), mm |-> Entry(r.hourly.mm, m + k - 1)]
            BY Zenon DEF Window
        <3> HIDE DEF n, L, ahead, Chance, sum
        <3> QED
            BY <3>1
    <2> QED
        BY <2>1, <2>2, Zenon
<1>3. PICK b : /\ Best(hours, b, L) /\ sum.peak = ChanceOf(hours, b)
               /\ b > 0 => sum.at = hours[b].at
    BY <1>2, WettestIs
<1>4. DOMAIN hours = 1..L /\ \A k \in 1..L : hours[k] \in Hour
    BY <1>2, LenProperties, ElementOfSeq
<1>5. \A k \in 1..L : hours[k].chance \in Int /\ hours[k].chance \in 0..100
    BY <1>4, ChanceIs
<1>6. r.hourly.mm \in Seq(Int)
    BY Zenon DEF ReplyOK
<1> HIDE DEF n, L, ahead, sum, Chance
<1>7. ASSUME NEW i \in ahead
      PROVE  \E k \in 1..L : i = m + k - 1 /\ Chance(i) = hours[k].chance /\ i \in 1..n
                             /\ r.hourly.time[i] = hours[k].at + r.offset
    <2>1. i - m + 1 \in 1..L /\ i = m + (i - m + 1) - 1 /\ i \in 1..n
        BY <1>1, <1>2
    <2>2. hours[i - m + 1].at = r.hourly.time[i] - r.offset
          /\ hours[i - m + 1].chance = Chance(i)
        BY <1>2, <2>1
    <2>3. r.hourly.time[i] = hours[i - m + 1].at + r.offset
        BY <1>1, <2>1, <2>2
    <2> QED
        BY <2>1, <2>2, <2>3
<1>8. b \in 0..L /\ (b > 0 => b \in 1..L)
    BY <1>2, <1>3 DEF Best
<1>9. ASSUME NEW k \in 1..L
      PROVE  m + k - 1 \in ahead /\ m + k - 1 \in 1..n /\ Chance(m + k - 1) = hours[k].chance
    BY <1>1, <1>2
<1>10. sum.peak = Max({0} \cup {Chance(i) : i \in ahead})
    <2> DEFINE S == {0} \cup {Chance(i) : i \in ahead}
    <2>1. ASSUME NEW i \in ahead PROVE Chance(i) \in Int /\ Chance(i) <= sum.peak
        <3>1. PICK k \in 1..L : Chance(i) = hours[k].chance
            BY <1>7
        <3>2. hours[k].chance <= ChanceOf(hours, b)
            BY <1>3 DEF Best
        <3> QED
            BY <1>3, <1>5, <3>1, <3>2
    <2>2. sum.peak \in S /\ sum.peak >= 0 /\ sum.peak \in Int
        <3>1. CASE b = 0
            BY <1>3, <3>1 DEF ChanceOf
        <3>2. CASE b # 0
            <4>1. b \in 1..L /\ b > 0
                BY <1>8, <3>2
            <4>2. sum.peak = hours[b].chance
                BY <1>3, <3>2 DEF ChanceOf
            <4>3. sum.peak = Chance(m + b - 1) /\ m + b - 1 \in ahead
                BY <1>9, <4>1, <4>2
            <4>4. sum.peak \in S
                BY <4>3, Zenon
            <4> HIDE DEF S
            <4> QED
                BY <1>5, <4>1, <4>2, <4>4
        <3> QED
            BY <3>1, <3>2
    <2>3. S \subseteq Int /\ \A y \in S : y <= sum.peak
        BY <2>1, <2>2
    <2> HIDE DEF S
    <2>4. Max(S) = sum.peak
        BY <2>2, <2>3, MaxIs
    <2> QED
        BY <2>4 DEF S
<1>11. ASSUME sum.peak > 0
       PROVE  sum.at + r.offset
                = Min({r.hourly.time[i] : i \in {j \in ahead : Chance(j) = sum.peak}})
    <2> DEFINE peaks == {j \in ahead : Chance(j) = sum.peak}
               S == {r.hourly.time[i] : i \in peaks}
               p == m + b - 1
    <2>1. b \in 1..L /\ b > 0 /\ b # 0
        BY <1>3, <1>8, <1>11 DEF ChanceOf
    <2>2. sum.peak = hours[b].chance
        BY <1>3, <2>1 DEF ChanceOf
    <2>3. p \in peaks /\ p \in 1..n
        BY <1>9, <2>1, <2>2
    <2>4. sum.at + r.offset = r.hourly.time[p]
        BY <1>1, <1>2, <1>3, <2>1, <2>3
    <2>5. ASSUME NEW i \in peaks PROVE r.hourly.time[p] <= r.hourly.time[i] /\ r.hourly.time[i] \in Int
        <3>1. PICK k \in 1..L : i = m + k - 1 /\ Chance(i) = hours[k].chance /\ i \in 1..n
            BY <1>7
        <3>2. ~(k < b)
            <4>1. k < b => hours[k].chance < ChanceOf(hours, b)
                BY <1>3 DEF Best
            <4> QED
                BY <1>3, <1>5, <2>5, <3>1, <4>1
        <3>3. i = p \/ p < i
            BY <1>2, <2>1, <3>1, <3>2
        <3>4. r.hourly.time[p] \in Int /\ r.hourly.time[i] \in Int
            BY <1>1, <2>3, <3>1
        <3>5. p < i => r.hourly.time[p] < r.hourly.time[i]
            BY <1>1, <2>3, <3>1
        <3> HIDE DEF p
        <3> QED
            BY <3>3, <3>4, <3>5
    <2> HIDE DEF p
    <2>6. r.hourly.time[p] \in S /\ S \subseteq Int /\ \A y \in S : r.hourly.time[p] <= y
        BY <2>3, <2>5
    <2> HIDE DEF S
    <2>7. Min(S) = r.hourly.time[p]
        BY <2>6, MinIs
    <2> QED
        BY <2>4, <2>7 DEF S
<1>12. sum.total = TotalOf(r.hourly.mm, ahead)
    <2> DEFINE seq == [i \in DOMAIN hours |-> hours[i].mm]
               mm == r.hourly.mm
    <2>1. sum.total = SumOf(seq)
        BY DEF Summarise, sum, SumOf
    <2>2. ASSUME NEW k \in 1..L PROVE hours[k].mm \in Int
        BY <1>4, ChanceIs
    <2>3. seq \in Seq(Int) /\ Len(seq) = L
        <3>1. L \in Nat /\ DOMAIN hours = 1..L
            BY <1>2, <1>4
        <3>2. seq \in [1..L -> Int]
            BY <2>2, <3>1
        <3> HIDE DEF seq
        <3> QED
            BY <3>1, <3>2
    <2>6. \A k \in 1..L : seq[k] = Entry(mm, m + k - 1)
        BY <1>2, <1>4
    <2> HIDE DEF seq, mm
    <2>4. mm \in Seq(Int)
        BY <1>6 DEF mm
    <2>7. n \in Nat /\ m \in 1..n /\ L \in Nat /\ m + L - 1 <= n
        BY <1>1, <1>2
    <2>5. SumOf(seq) = TotalOf(mm, m..m + L - 1)
        <3>1. Amounts(seq, mm, m, L)
            BY <2>3, <2>6 DEF Amounts
        <3> QED
            BY <2>4, <2>7, <3>1, SumAhead
    <2> QED
        BY <1>2, <2>1, <2>5 DEF mm
<1> QED
    BY <1>10, <1>11, <1>12 DEF SummaryTrue, ahead, sum, Chance

\* What the rain card says of a reply is true of it: sliceNext24 hands on the hours to
\* come, and summarise finds the greatest chance, the first hour of it and the amount
\* that falls.  Only a reply without an hour to come makes summarise panic.
THEOREM RainIsTrue == Spec => []RainTrue
<1>1. ASSUME Drawn, page.weather.kind = "reply"
      PROVE  LET r == page.weather.reply IN
             /\ pc = "panic" => ComingIn(r) = {}
             /\ \A c \in Named("rain") : SummaryTrue(c.summary, r)
    <2> DEFINE r == page.weather.reply
    <2>1. model # None => ReplyOK(r) /\ Decodes(r) /\ model = ToForecast(r)
        BY <1>1, ModelIs
    <2>2. pc = "panic" => ComingIn(r) = {}
        <3>1. pc = "panic" => model # None /\ model.hourly = <<>>
            BY <1>1 DEF Drawn
        <3> QED
            BY <2>1, <3>1, AheadIs
    <2>3. ASSUME NEW c \in Named("rain") PROVE SummaryTrue(c.summary, r)
        <3>1. c \in {RainStrip, RainAbove} /\ model # None /\ model.hourly # <<>>
            BY <1>1, ByName
        <3>2. c.summary = Summarise(model.hourly)
            BY <3>1 DEF RainStrip, RainAbove, RainCard
        <3> HIDE DEF r
        <3>3. PICK m : Window(r, model.hourly, m)
            BY <2>1, <3>1, AheadIs
        <3> QED
            BY <2>1, <3>1, <3>2, <3>3, SummaryIs
    <2> QED
        BY <2>2, <2>3
<1>2. Drawn => RainTrue
    <2> SUFFICES ASSUME Drawn, page.weather.kind = "reply" PROVE RainTrue
        BY DEF RainTrue
    <2> QED
        BY <1>1 DEF RainTrue, SummaryTrue, AheadIn, ComingIn, TotalOf
<1> QED
    BY <1>2, DrawnHolds, PTL
=============================================================================
