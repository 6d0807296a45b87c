------------------------------- MODULE Layout -------------------------------
(***************************************************************************)
(* internal/render/grid.go: where the cells of the dashboard are.  Lengths *)
(* are pixels, y grows downwards, and a rectangle is half open, as those   *)
(* of package image are.  Grid and the widgets draw by this arithmetic     *)
(* alone: nothing clips a widget to the cell it was given.                 *)
(***************************************************************************)
EXTENDS Integers

SideMargin == 16
Gutter == 16
Band == 84      \* height of the header band

\* The panel, in the orientation it hangs in.
Dims(orientation) ==
    IF orientation = "landscape" THEN [w |-> 800, h |-> 600] ELSE [w |-> 600, h |-> 800]

Rect(x0, y0, x1, y1) == [x0 |-> x0, y0 |-> y0, x1 |-> x1, y1 |-> y1]
Width(r) == r.x1 - r.x0
Height(r) == r.y1 - r.y0

\* Cells of cols columns and rows rows between the margins and the bands of a page.
\* What a division leaves over goes to the sides and to the footer.
NewGrid(page, cols, rows) ==
    LET cellW == (page.w - 2 * SideMargin - (cols - 1) * Gutter) \div cols
        cellH == (page.h - 2 * Band - (rows - 1) * Gutter) \div rows
    IN  [w |-> page.w, h |-> page.h, rows |-> rows, cellW |-> cellW, cellH |-> cellH,
         x |-> (page.w - (cols * cellW + (cols - 1) * Gutter)) \div 2,
         y |-> Band]

\* The cell at col and row, spanning cols and rows cells.
CellRect(g, col, row, cols, rows) ==
    LET x0 == g.x + col * (g.cellW + Gutter)
        y0 == g.y + row * (g.cellH + Gutter)
    IN  Rect(x0, y0, x0 + cols * g.cellW + (cols - 1) * Gutter,
                     y0 + rows * g.cellH + (rows - 1) * Gutter)

HeaderRect(g) == Rect(SideMargin, 0, g.w - SideMargin, g.y)
FooterRect(g) ==
    Rect(SideMargin, g.y + g.rows * g.cellH + (g.rows - 1) * Gutter, g.w - SideMargin, g.h)

\* r lies in s; r and s have no pixel in common.
Inside(r, s) == s.x0 <= r.x0 /\ r.x1 <= s.x1 /\ s.y0 <= r.y0 /\ r.y1 <= s.y1
Apart(r, s) == r.x1 <= s.x0 \/ s.x1 <= r.x0 \/ r.y1 <= s.y0 \/ s.y1 <= r.y0

\* The card layouts are made for a cell of this height and shrunk to lower ones: a
\* length of the layout, in an area.
RefCell == 276
Scaled(v, area) == IF Height(area) < RefCell THEN (v * Height(area)) \div RefCell ELSE v
=============================================================================
