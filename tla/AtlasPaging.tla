------------------------------- MODULE AtlasPaging -------------------------------
(***************************************************************************)
(* From the rows of measureText to the cells of the atlas pages:           *)
(* atlas/metrics.py, marks.py and paging.py.  Lengths are whole pixels at  *)
(* the one size of the fast pass.                                          *)
(***************************************************************************)
EXTENDS Integers, Sequences, FiniteSets, SequencesExt, FiniteSetsExt

CONSTANTS
    SizePx,             \* FAST_RASTER_SIZE_PX
    Pad,                \* CELL_PAD_X_PX and CELL_PAD_Y_PX
    MaxDim,             \* MAX_CANVAS_DIMENSION_PX
    TargetBytes, MaxBytes,
    Row(_, _),          \* a glyph of a style: width, actual left and right, as the browser measures
    IsMark(_),          \* is_combining_mark
    Ascent, Descent     \* of the font

ASSUME LengthsAssumption ==
    /\ SizePx \in Nat /\ Pad \in Nat /\ Ascent \in Int /\ Descent \in Int
    /\ MaxDim \in Nat /\ TargetBytes \in Nat /\ MaxBytes \in Nat

\* regress_glyph_metrics: the left bound of the row is taken for the side bearing.
Regressed(s, cp) ==
    LET row == Row(s, cp) IN [advance |-> row.width, lsb |-> row.left, box |-> row.left + row.right]

MarkExtraLeft(r) == Max({0, -r.lsb})

MarkEffectiveAdvance(r) == Max({0, r.advance, r.lsb + r.box})

ExtraLeft(s, cp) == IF IsMark(cp) THEN MarkExtraLeft(Regressed(s, cp)) ELSE 0

PenLeft(extra) == Pad + extra

CellWidth(s, cp) ==
    LET r == Regressed(s, cp)
        advance == IF IsMark(cp) THEN MarkEffectiveAdvance(r) ELSE r.advance
    IN  Max({1, advance}) + ExtraLeft(s, cp) + 2 * Pad

CellHeight == Max({SizePx, Ascent + Descent}) + 2 * Pad

-----------------------------------------------------------------------------
(* plan_atlas_pages: cells on shelves, shelves on pages *)

Cell(cp, x, y, w, pen) == [cp |-> cp, x |-> x, y |-> y, w |-> w, pen |-> pen]

NoPage == [cells |-> {}, shelfX |-> 0, shelfY |-> 0, shelfH |-> 0, pageW |-> 0]

Fits(w, h) == w <= MaxDim /\ h <= MaxDim /\ w * h <= MaxBytes

\* Right of the last cell of the shelf.
OnShelf(page, cp, w, pen) ==
    [page EXCEPT !.cells = @ \cup {Cell(cp, page.shelfX, page.shelfY, w, pen)},
                 !.shelfX = @ + w,
                 !.shelfH = Max({@, CellHeight}),
                 !.pageW = Max({@, page.shelfX + w})]

\* On a shelf of its own; such a cell has the pen of a glyph that is no mark.
OnNewShelf(page, cp, w) ==
    LET y == page.shelfY + page.shelfH
    IN  [page EXCEPT !.cells = @ \cup {Cell(cp, 0, y, w, Pad)},
                     !.shelfX = w, !.shelfY = y, !.shelfH = CellHeight,
                     !.pageW = Max({@, w})]

FitsShelf(page, w) ==
    Fits(Max({page.pageW, page.shelfX + w}), page.shelfY + Max({page.shelfH, CellHeight}))

\* The slip of FitsNewShelf: the shelf that is open is not counted.
FitsNewShelf_Fault(page, w) ==
    Fits(Max({page.pageW, w}), page.shelfY + CellHeight)

FitsNewShelf(page, w) ==
    LET width == Max({page.pageW, w})
    IN  /\ Fits(width, page.shelfY + page.shelfH + CellHeight)
        /\ (page.shelfY + page.shelfH) * width <= TargetBytes

\* The last page of a plan is open, the others are closed.
Place(plan, cp, w, pen) ==
    LET page == Last(plan)
    IN  IF plan = <<>> THEN <<OnShelf(NoPage, cp, w, pen)>>
        ELSE IF FitsShelf(page, w) THEN [plan EXCEPT ![Len(plan)] = OnShelf(page, cp, w, pen)]
        ELSE IF FitsNewShelf(page, w) THEN [plan EXCEPT ![Len(plan)] = OnNewShelf(page, cp, w)]
        ELSE Append(plan, OnShelf(NoPage, cp, w, pen))

\* A cell too large for the canvas or for a page ends the run.
Plannable(s, cps) ==
    \A cp \in cps : CellWidth(s, cp) <= MaxDim /\ CellHeight <= MaxDim /\ CellWidth(s, cp) * CellHeight <= MaxBytes

PageHeight(page) == page.shelfY + page.shelfH

PageCps(page) == {c.cp : c \in page.cells}
=============================================================================
