------------------------------ MODULE AtlasProofs ------------------------------
(***************************************************************************)
(* The safety properties of Atlas.  The invariant follows a run of the     *)
(* pipeline stage by stage: what the checkpoint may hold, which glyphs are *)
(* on which list and which are left, what a page of the plan looks like,   *)
(* and what the files of the font cache say of each other.                 *)
(***************************************************************************)
EXTENDS Atlas, TLAPS, FiniteSetTheorems, WellFoundedInduction

Stages ==
    {"probe", "metrics", "place", "fetch", "cells", "save", "refine", "assemble", "persist", "done", "failed"}

\* The stages that work on the glyphs of an identity.
Working == {"metrics", "place", "fetch", "cells", "save", "refine", "assemble"}

CellT == [cp : Int, x : Int, y : Int, w : Int, pen : Int]

PageT == [cells : SUBSET CellT, shelfX : Int, shelfY : Int, shelfH : Int, pageW : Int]

FontT == [easy : SUBSET Int, refined : SUBSET Int]

EntryT == [ttf : FontT, ttfSum : FontT, otf : FontT, otfSum : FontT, report : FontT]

TypeOK ==
    /\ fonts \in [Styles -> EntryT]
    /\ delivered \in [Styles -> [ttf : FontT, otf : FontT]]
    /\ at \in 1..Len(StyleSeq) /\ pc \in Stages
    /\ font \in FontT /\ step \in 0..5
    /\ plan \in Seq(PageT) /\ todo \subseteq Nat
    /\ easy \subseteq Nat /\ refined \subseteq Nat
    /\ calm \in BOOLEAN /\ lost \in Nat

Memo(m, n) ==
    /\ m \in [id : {m.id}, frozen : SUBSET Nat, failed : SUBSET Nat, low : Seq(Nat)]
    /\ m.id = NoId => m = Fresh(NoId)
    /\ m.id # NoId =>
         /\ m.frozen \cup m.failed \cup Range(m.low) \subseteq m.id[2]
         /\ \A cp \in Range(m.low) : Kind(m.id[1], cp) = "low"
         /\ n = 0 => \A cp \in m.failed : Kind(m.id[1], cp) \in {"hard", "low", "bad"}

\* The checkpoint file, the glyph models and the checkpoint of the run.
MemoOK ==
    /\ Memo(ckpt, lost)
    /\ \A m \in models : Kind(m[1][1], m[2]) = "easy"
    /\ pc \in Working => Memo(state, lost) /\ state.id = id

IdOK == pc \in Working => id = <<Style, id[2]>> /\ id[2] \in Coverages(Style)

\* The glyphs of the pages from page k on.
Rest(p, k) == UNION {PageCps(p[i]) : i \in {j \in DOMAIN p : j >= k}}

\* The glyphs no list holds.
Left ==
    IF pc = "place" THEN todo \cup Rest(plan, 1)
    ELSE IF pc = "fetch" THEN Rest(plan, 1)
    ELSE IF pc \in {"cells", "save"} THEN todo \cup Rest(plan, 2)
    ELSE {}

\* Every glyph of the coverage is on one list, or left.
ListsOK ==
    /\ pc \in Working =>
         /\ easy \cap failed = {} /\ easy \cap excluded = {} /\ failed \cap excluded = {}
         /\ easy \cup failed \cup excluded \cup refined \cup Range(low) \subseteq id[2]
         /\ low \in Seq(Nat)
    /\ pc = "metrics" => excluded = {}
    /\ pc \in Working \ {"metrics", "assemble"} =>
         /\ easy \cup failed \cup excluded \cup Left = id[2]
         /\ (easy \cup failed \cup excluded) \cap Left = {}
         /\ refined \subseteq failed
    /\ pc \in Working \ {"refine", "assemble"} => refined = {}
    /\ pc = "refine" => todo \subseteq failed /\ refined \cap todo = {}
    /\ pc = "assemble" =>
         /\ easy \cup refined \cup failed \cup excluded = id[2]
         /\ refined \cap (easy \cup failed \cup excluded) = {}

\* What the geometry found of the glyphs of each list.
KindsOK ==
    pc \in Working =>
        /\ \A cp \in easy : Kind(Style, cp) = "easy"
        /\ \A cp \in excluded : Kind(Style, cp) = "zero"
        /\ \A cp \in Range(low) : Kind(Style, cp) = "low"
        /\ \A cp \in refined : Kind(Style, cp) = "low" => cp \in Range(low)
        /\ lost = 0 =>
             /\ pc # "assemble" => \A cp \in failed : Kind(Style, cp) \in {"hard", "low", "bad"}
             /\ \A cp \in refined : Kind(Style, cp) \in {"hard", "low"}
             /\ pc = "refine" => \A cp \in failed \ todo : cp \in refined \/ Kind(Style, cp) = "bad"
             /\ pc = "assemble" => \A cp \in failed : Kind(Style, cp) = "bad"
             /\ pc \in {"cells", "save"} => todo \subseteq arrived

\* A cell is left of the open shelf's end, or above the shelf.
CellOK(page, c) ==
    /\ c.x + c.w <= page.pageW /\ c.y + CellHeight <= PageHeight(page)
    /\ \/ c.y = page.shelfY /\ c.x + c.w <= page.shelfX
       \/ c.y + CellHeight <= page.shelfY

Apart(c, d) == c # d => c.cp # d.cp /\ ~CellsOverlap(c, d)

PageOK(page) ==
    /\ page \in PageT
    /\ Fits(page.pageW, PageHeight(page))
    /\ \A c \in page.cells : CellOK(page, c)
    /\ \A c, d \in page.cells : Apart(c, d)

PlanOK(p) ==
    /\ \A i \in DOMAIN p : PageOK(p[i])
    /\ \A i, j \in DOMAIN p : i # j => PageCps(p[i]) \cap PageCps(p[j]) = {}

PagesOK ==
    /\ pc \in {"place", "fetch", "cells", "save"} => PlanOK(plan)
    /\ pc = "place" => Plannable(Style, todo) /\ todo \cap Rest(plan, 1) = {}
    /\ pc \in {"fetch", "cells", "save"} => plan # <<>>
    /\ pc \in {"cells", "save"} => todo \subseteq PageCps(plan[1])

Sound(f) == f \notin {NoFont, Torn}

\* The files of a cached font; c is whether nothing on the disk was damaged.
EntryOK(f, c) ==
    /\ f.ttfSum # Torn /\ f.otfSum # Torn
    /\ f.report # NoFont => f.ttfSum # NoFont /\ f.otfSum # NoFont
    /\ c /\ f.report # NoFont =>
         Sound(f.ttf) /\ f.ttfSum = f.ttf /\ f.otf = f.ttf /\ f.otfSum = f.ttf /\ f.report = f.ttf

\* The files written so far of the font of the run.
Written(f) ==
    /\ step > 1 /\ calm => f.ttf = font
    /\ step > 2 => f.ttfSum = font
    /\ step > 3 /\ calm => f.otf = font
    /\ step > 4 => f.otfSum = font

FontsOK ==
    /\ \A s \in Styles : EntryOK(fonts[s], calm)
    /\ pc \in Working \cup {"persist"} /\ calm => fonts[Style].report = NoFont
    /\ pc = "persist" => Sound(font) /\ step \in 1..5 /\ Written(fonts[Style])

LInv == TypeOK /\ MemoOK /\ IdOK /\ ListsOK /\ KindsOK /\ PagesOK

IInv == LInv /\ FontsOK /\ HitIsWhole

-----------------------------------------------------------------------------
(* The least and the greatest of a set of numbers *)

UpTo(S, i) == {j \in S : j <= i}

LEMMA Smaller ==
    ASSUME NEW A, NEW B, NEW x, A \subseteq Nat, B \subseteq Nat, A \subseteq B, x \in B, x \notin A
    PROVE  <<A, B>> \in StrictSubsetOrdering(Nat)
<1>1. <<A, B>> \in (SUBSET Nat) \X (SUBSET Nat)
  OBVIOUS
<1>2. A # B
  OBVIOUS
<1> QED
  BY <1>1, <1>2, Zenon DEF StrictSubsetOrdering

LEMMA Least ==
    ASSUME NEW S, S \subseteq Nat, S # {}
    PROVE  \E i \in S : \A h \in S : i <= h
<1> DEFINE T == {UpTo(S, i) : i \in S}
<1>1. T \subseteq FiniteSubsetsOf(Nat)
  <2>1. ASSUME NEW i \in S PROVE UpTo(S, i) \subseteq Nat /\ IsFiniteSet(UpTo(S, i))
    <3>1. UpTo(S, i) \in SUBSET Nat /\ i \in Nat /\ \A h \in UpTo(S, i) : h <= i
      BY Zenon DEF UpTo
    <3> QED
      BY <3>1, FS_BoundedSetOfNaturals, Zenon
  <2> QED
    BY <2>1, Zenon DEF FiniteSubsetsOf
<1>2. T # {}
  BY Zenon
<1>3. \E x \in T : \A y \in T : ~(<<y, x>> \in StrictSubsetOrdering(Nat))
  <2>1. IsWellFoundedOn(StrictSubsetOrdering(Nat), FiniteSubsetsOf(Nat))
    BY FS_StrictSubsetOrderingWellFounded
  <2> HIDE DEF T
  <2> QED
    BY <1>1, <1>2, <2>1, WFMin, Zenon
<1>4. PICK i \in S : \A h \in S : ~(<<UpTo(S, h), UpTo(S, i)>> \in StrictSubsetOrdering(Nat))
  BY <1>3, Zenon
<1>5. ASSUME NEW h \in S PROVE i <= h
  <2>1. SUFFICES ASSUME h < i PROVE FALSE
    OBVIOUS
  <2>2. UpTo(S, h) \subseteq UpTo(S, i) /\ i \in UpTo(S, i) /\ i \notin UpTo(S, h)
    <3>1. i \in Nat /\ h \in Nat
      BY Zenon
    <3>2. ASSUME NEW g \in Nat, g <= h PROVE g <= i
      BY <2>1, <3>1, <3>2
    <3>3. i <= i /\ ~(i <= h)
      BY <2>1, <3>1
    <3> QED
      BY <3>2, <3>3, Zenon DEF UpTo
  <2>3. UpTo(S, h) \subseteq Nat /\ UpTo(S, i) \subseteq Nat
    BY Zenon DEF UpTo
  <2>4. <<UpTo(S, h), UpTo(S, i)>> \in StrictSubsetOrdering(Nat)
    BY <2>2, <2>3, Smaller
  <2> QED
    BY <2>4, <1>4
<1> QED
  BY <1>5

\* The cursor is one of the glyphs to come.
LEMMA CursorIsToCome ==
    ASSUME todo \subseteq Nat, todo # {}
    PROVE  Cursor \in todo
<1>1. \E i \in todo : \A h \in todo : i <= h
  BY Least
<1> QED
  BY <1>1, Zenon DEF Cursor, Min

LEMMA GreaterOfTwo ==
    ASSUME NEW a \in Int, NEW b \in Int
    PROVE  Max({a, b}) \in Int /\ Max({a, b}) >= a /\ Max({a, b}) >= b
<1>1. \E x \in {a, b} : \A y \in {a, b} : x >= y
  <2>1. a >= b \/ b >= a
    OBVIOUS
  <2>2. a >= a /\ b >= b
    OBVIOUS
  <2> QED
    BY <2>1, <2>2, Zenon
<1>2. Max({a, b}) \in {a, b} /\ \A y \in {a, b} : Max({a, b}) >= y
  BY <1>1, Zenon DEF Max
<1> QED
  BY <1>2

LEMMA GreatestOfThree ==
    ASSUME NEW a \in Int, NEW b \in Int, NEW c \in Int
    PROVE  Max({a, b, c}) \in Int /\ Max({a, b, c}) >= a
<1>1. \E x \in {a, b, c} : \A y \in {a, b, c} : x >= y
  <2>1. PICK m \in {a, b} : m >= a /\ m >= b
    <3>1. a >= b \/ b >= a
      OBVIOUS
    <3>2. a >= a /\ b >= b
      OBVIOUS
    <3> QED
      BY <3>1, <3>2, Zenon
  <2>2. m \in Int /\ (m >= c \/ (c >= m /\ c >= a /\ c >= b)) /\ c >= c
    BY <2>1
  <2> QED
    BY <2>1, <2>2, Zenon
<1>2. Max({a, b, c}) \in {a, b, c} /\ \A y \in {a, b, c} : Max({a, b, c}) >= y
  BY <1>1, Zenon DEF Max
<1> QED
  BY <1>2

LEMMA GreaterIsOne ==
    ASSUME NEW a \in Int, NEW b \in Int, a >= b
    PROVE  Max({a, b}) = a /\ Max({b, a}) = a
<1>1. Max({a, b}) \in {a, b} /\ \A y \in {a, b} : Max({a, b}) >= y
  <2>1. \E x \in {a, b} : \A y \in {a, b} : x >= y
    <3>1. a >= a
      OBVIOUS
    <3> QED
      BY <3>1, Zenon
  <2> QED
    BY <2>1, Zenon DEF Max
<1>2. Max({a, b}) = a
  BY <1>1
<1>3. {a, b} = {b, a}
  OBVIOUS
<1> QED
  BY <1>2, <1>3

-----------------------------------------------------------------------------
(* The cells *)

LEMMA CellHeightType == CellHeight \in Nat
<1>1. SizePx \in Int /\ Ascent + Descent \in Int /\ Pad \in Nat /\ SizePx >= 0
  BY LengthsAssumption
<1>2. Max({SizePx, Ascent + Descent}) \in Int /\ Max({SizePx, Ascent + Descent}) >= SizePx
  BY <1>1, GreaterOfTwo
<1> QED
  BY <1>1, <1>2 DEF CellHeight

LEMMA CellWidthType ==
    ASSUME NEW s \in Styles, NEW coverage \in Coverages(s), NEW cp \in coverage
    PROVE  CellWidth(s, cp) \in Nat /\ PenLeft(ExtraLeft(s, cp)) \in Int
<1> DEFINE r == Regressed(s, cp)
           a == IF IsMark(cp) THEN MarkEffectiveAdvance(r) ELSE r.advance
<1>1. Row(s, cp) \in [width : Int, left : Int, right : Int]
  BY CoverageAssumption
<1>2. r.advance \in Int /\ r.lsb \in Int /\ r.box \in Int
  BY <1>1 DEF Regressed
<1> HIDE DEF r
<1>3. ExtraLeft(s, cp) \in Int /\ ExtraLeft(s, cp) >= 0
  <2>1. 0 \in Int /\ -r.lsb \in Int /\ 0 >= 0
    BY <1>2
  <2>2. MarkExtraLeft(r) \in Int /\ MarkExtraLeft(r) >= 0
    BY <2>1, GreaterOfTwo DEF MarkExtraLeft
  <2> QED
    BY <2>1, <2>2, Zenon DEF ExtraLeft, r
<1>4. a \in Int
  <2>1. 0 \in Int /\ r.advance \in Int /\ r.lsb + r.box \in Int
    BY <1>2
  <2>2. MarkEffectiveAdvance(r) \in Int
    BY <2>1, GreatestOfThree DEF MarkEffectiveAdvance
  <2> QED
    BY <2>1, <2>2, Zenon
<1>5. CellWidth(s, cp) = Max({1, a}) + ExtraLeft(s, cp) + 2 * Pad
  BY Zenon DEF CellWidth, r
<1> HIDE DEF a
<1>6. Max({1, a}) \in Int /\ Max({1, a}) >= 1
  <2>1. 1 \in Int
    OBVIOUS
  <2> QED
    BY <1>4, <2>1, GreaterOfTwo, Zenon
<1>7. Pad \in Nat
  BY LengthsAssumption
<1> QED
  BY <1>3, <1>5, <1>6, <1>7 DEF PenLeft

-----------------------------------------------------------------------------
(* A cell that is placed *)

\* The page a cell is placed on, and the cell, as numbers.
LEMMA CellIsPlaced ==
    ASSUME NEW page, NEW q, NEW c, PageOK(page), q \in PageT, c \in CellT,
           q.cells = page.cells \cup {c}, c.cp \notin PageCps(page),
           Fits(q.pageW, PageHeight(q)), q.pageW >= page.pageW,
           \A d \in page.cells : CellOK(q, d) /\ ~CellsOverlap(c, d) /\ ~CellsOverlap(d, c),
           CellOK(q, c)
    PROVE  PageOK(q) /\ PageCps(q) = PageCps(page) \cup {c.cp}
<1>1. \A d \in page.cells : c.cp # d.cp /\ d.cp # c.cp
  BY Zenon DEF PageCps
<1>2. \A d, f \in page.cells : Apart(d, f)
  BY Zenon DEF PageOK
<1>3. \A d \in page.cells : Apart(c, d) /\ Apart(d, c)
  BY <1>1, Zenon DEF Apart
<1>4. Apart(c, c)
  BY Zenon DEF Apart
<1>5. \A d, f \in q.cells : Apart(d, f)
  <2>1. TAKE d \in q.cells, f \in q.cells
  <2>2. d \in page.cells \/ d = c
    OBVIOUS
  <2>3. f \in page.cells \/ f = c
    OBVIOUS
  <2> QED
    BY <2>2, <2>3, <1>2, <1>3, <1>4, Zenon
<1>6. \A d \in q.cells : CellOK(q, d)
  <2>1. TAKE d \in q.cells
  <2>2. d \in page.cells \/ d = c
    OBVIOUS
  <2> QED
    BY <2>2, Zenon
<1>7. PageCps(q) = PageCps(page) \cup {c.cp}
  BY Zenon DEF PageCps
<1> QED
  BY <1>5, <1>6, <1>7, Zenon DEF PageOK

LEMMA NoPageOK == NoPage \in PageT /\ NoPage.cells = {} /\ PageCps(NoPage) = {}
BY DEF NoPage, PageT, PageCps

\* Right of the last cell of the shelf.
LEMMA OnShelfOK ==
    ASSUME NEW page, NEW cp \in Nat, NEW w \in Nat, NEW pen \in Int,
           PageOK(page), cp \notin PageCps(page), FitsShelf(page, w)
    PROVE  /\ PageOK(OnShelf(page, cp, w, pen))
           /\ PageCps(OnShelf(page, cp, w, pen)) = PageCps(page) \cup {cp}
<1> DEFINE q == OnShelf(page, cp, w, pen)
           c == Cell(cp, page.shelfX, page.shelfY, w, pen)
<1>1. /\ page \in PageT /\ page.shelfX \in Int /\ page.shelfY \in Int /\ page.shelfH \in Int
      /\ page.pageW \in Int
  BY DEF PageOK, PageT
<1>2. PICK h \in Int : h = Max({page.shelfH, CellHeight}) /\ h >= page.shelfH /\ h >= CellHeight
  <2>1. CellHeight \in Int
    BY CellHeightType
  <2> QED
    BY <1>1, <2>1, GreaterOfTwo, Zenon
<1>3. PICK width \in Int : /\ width = Max({page.pageW, page.shelfX + w})
                           /\ width >= page.pageW /\ width >= page.shelfX + w
  <2>1. page.shelfX + w \in Int
    BY <1>1
  <2> QED
    BY <1>1, <2>1, GreaterOfTwo
<1>4. c \in CellT /\ c.cp = cp /\ c.x = page.shelfX /\ c.y = page.shelfY /\ c.w = w
  <2>1. cp \in Int /\ w \in Int
    OBVIOUS
  <2> QED
    BY <1>1, <2>1 DEF Cell, CellT
<1>5. /\ q \in PageT /\ q.cells = page.cells \cup {c} /\ q.shelfX = page.shelfX + w
      /\ q.shelfY = page.shelfY /\ q.shelfH = h /\ q.pageW = width
  <2>1. page.shelfX + w \in Int
    BY <1>1
  <2>2. q = [page EXCEPT !.cells = @ \cup {c}, !.shelfX = @ + w, !.shelfH = h, !.pageW = width]
    BY <1>2, <1>3, Zenon DEF OnShelf
  <2> HIDE DEF q, c
  <2>3. page \in [cells : SUBSET CellT, shelfX : Int, shelfY : Int, shelfH : Int, pageW : Int]
    BY <1>1 DEF PageT
  <2> QED
    BY <1>2, <1>3, <1>4, <2>1, <2>2, <2>3 DEF PageT
<1>6. Fits(q.pageW, PageHeight(q))
  BY <1>2, <1>3, <1>5, Zenon DEF FitsShelf, PageHeight
<1> HIDE DEF q, c
<1>7. PICK H \in Nat : H = CellHeight
  BY CellHeightType
<1>8. CellOK(q, c)
  BY <1>1, <1>2, <1>3, <1>4, <1>5, <1>7 DEF CellOK, PageHeight
<1>9. ASSUME NEW d \in page.cells
      PROVE  CellOK(q, d) /\ ~CellsOverlap(c, d) /\ ~CellsOverlap(d, c)
  <2>1. d \in CellT /\ CellOK(page, d)
    BY <1>1 DEF PageOK, PageT
  <2>2. d.x \in Int /\ d.y \in Int /\ d.w \in Int
    BY <2>1 DEF CellT
  <2>3. /\ d.x + d.w <= page.pageW /\ d.y + H <= page.shelfY + page.shelfH
        /\ \/ d.y = page.shelfY /\ d.x + d.w <= page.shelfX
           \/ d.y + H <= page.shelfY
    BY <2>1, <1>7 DEF CellOK, PageHeight
  <2>4. CellOK(q, d)
    BY <2>2, <2>3, <1>1, <1>2, <1>3, <1>5, <1>7 DEF CellOK, PageHeight
  <2>5. ~(c.x < d.x + d.w) \/ ~(c.y < d.y + H)
    BY <2>2, <2>3, <1>1, <1>4, <1>7
  <2> QED
    BY <2>4, <2>5, <1>7, Zenon DEF CellsOverlap
<1>10. q.pageW >= page.pageW
  BY <1>3, <1>5
<1>11. PageOK(q) /\ PageCps(q) = PageCps(page) \cup {c.cp}
  BY <1>4, <1>5, <1>6, <1>8, <1>9, <1>10, CellIsPlaced, Zenon
<1> QED
  BY <1>4, <1>11, Zenon DEF q

LEMMA OnNewShelfOK ==
    ASSUME NEW page, NEW cp \in Nat, NEW w \in Nat,
           PageOK(page), cp \notin PageCps(page), FitsNewShelf(page, w)
    PROVE  /\ PageOK(OnNewShelf(page, cp, w))
           /\ PageCps(OnNewShelf(page, cp, w)) = PageCps(page) \cup {cp}
<1> DEFINE q == OnNewShelf(page, cp, w)
           y == page.shelfY + page.shelfH
           c == Cell(cp, 0, y, w, Pad)
<1>1. /\ page \in PageT /\ page.shelfX \in Int /\ page.shelfY \in Int /\ page.shelfH \in Int
      /\ page.pageW \in Int
  BY DEF PageOK, PageT
<1>2. PICK H \in Nat : H = CellHeight
  BY CellHeightType
<1>3. PICK width \in Int : width = Max({page.pageW, w}) /\ width >= page.pageW /\ width >= w
  <2>1. w \in Int
    OBVIOUS
  <2> QED
    BY <1>1, <2>1, GreaterOfTwo, Zenon
<1>4. c \in CellT /\ c.cp = cp /\ c.x = 0 /\ c.y = page.shelfY + page.shelfH /\ c.w = w
  <2>1. cp \in Int /\ w \in Int /\ y \in Int /\ Pad \in Int
    BY <1>1, LengthsAssumption
  <2> QED
    BY <1>1, <2>1 DEF Cell, CellT
<1>5. /\ q \in PageT /\ q.cells = page.cells \cup {c} /\ q.shelfX = w
      /\ q.shelfY = page.shelfY + page.shelfH /\ q.shelfH = H /\ q.pageW = width
  <2>1. w \in Int /\ H \in Int /\ y \in Int
    BY <1>1
  <2>2. q = [page EXCEPT !.cells = @ \cup {c}, !.shelfX = w, !.shelfY = y, !.shelfH = H, !.pageW = width]
    BY <1>2, <1>3, Zenon DEF OnNewShelf
  <2>3. y = page.shelfY + page.shelfH
    OBVIOUS
  <2> HIDE DEF q, c, y
  <2>4. page \in [cells : SUBSET CellT, shelfX : Int, shelfY : Int, shelfH : Int, pageW : Int]
    BY <1>1 DEF PageT
  <2> QED
    BY <1>3, <1>4, <2>1, <2>2, <2>3, <2>4 DEF PageT
<1>6. Fits(q.pageW, PageHeight(q))
  BY <1>2, <1>3, <1>5, Zenon DEF FitsNewShelf, PageHeight
<1> HIDE DEF q, c, y
<1>7. CellOK(q, c)
  BY <1>1, <1>2, <1>3, <1>4, <1>5 DEF CellOK, PageHeight
<1>8. ASSUME NEW d \in page.cells
      PROVE  CellOK(q, d) /\ ~CellsOverlap(c, d) /\ ~CellsOverlap(d, c)
  <2>1. d \in CellT /\ CellOK(page, d)
    BY <1>1 DEF PageOK, PageT
  <2>2. d.x \in Int /\ d.y \in Int /\ d.w \in Int
    BY <2>1 DEF CellT
  <2>3. d.x + d.w <= page.pageW /\ d.y + H <= page.shelfY + page.shelfH
    BY <2>1, <1>2 DEF CellOK, PageHeight
  <2>4. CellOK(q, d)
    BY <2>2, <2>3, <1>1, <1>2, <1>3, <1>5 DEF CellOK, PageHeight
  <2>5. ~(c.y < d.y + H)
    BY <2>2, <2>3, <1>1, <1>4, <1>2
  <2> QED
    BY <2>4, <2>5, <1>2, Zenon DEF CellsOverlap
<1>9. q.pageW >= page.pageW
  BY <1>3, <1>5
<1>10. PageOK(q) /\ PageCps(q) = PageCps(page) \cup {c.cp}
  BY <1>4, <1>5, <1>6, <1>7, <1>8, <1>9, CellIsPlaced, Zenon
<1> QED
  BY <1>4, <1>10, Zenon DEF q

\* A cell that no page refuses opens a page.
LEMMA FirstCellOK ==
    ASSUME NEW cp \in Nat, NEW w \in Nat, NEW pen \in Int, Fits(w, CellHeight)
    PROVE  /\ PageOK(OnShelf(NoPage, cp, w, pen))
           /\ PageCps(OnShelf(NoPage, cp, w, pen)) = {cp}
<1> DEFINE q == OnShelf(NoPage, cp, w, pen)
           c == Cell(cp, 0, 0, w, pen)
<1>1. PICK H \in Nat : H = CellHeight
  BY CellHeightType
<1>2. Max({0, H}) = H /\ Max({0, w}) = w /\ 0 + w = w
  <2>1. H \in Int /\ w \in Int /\ 0 \in Int /\ H >= 0 /\ w >= 0 /\ 0 + w = w
    OBVIOUS
  <2> QED
    BY <2>1, GreaterIsOne, Zenon
<1>3. q = [cells |-> {c}, shelfX |-> w, shelfY |-> 0, shelfH |-> H, pageW |-> w]
  <2>1. /\ NoPage.shelfX = 0 /\ NoPage.shelfY = 0 /\ NoPage.shelfH = 0 /\ NoPage.pageW = 0
        /\ NoPage.cells = {}
    BY DEF NoPage
  <2>2. q = [NoPage EXCEPT !.cells = @ \cup {c}, !.shelfX = @ + w,
                           !.shelfH = Max({@, CellHeight}), !.pageW = Max({@, 0 + w})]
    BY <2>1, Zenon DEF OnShelf
  <2>3. q = [NoPage EXCEPT !.cells = {c}, !.shelfX = w, !.shelfH = H, !.pageW = w]
    <3>1. {} \cup {c} = {c}
      OBVIOUS
    <3> HIDE DEF c, q
    <3> QED
      BY <2>1, <2>2, <3>1, <1>1, <1>2
  <2> HIDE DEF c, q
  <2> QED
    BY <2>3 DEF NoPage
<1>4. c \in CellT /\ c.cp = cp /\ c.x = 0 /\ c.y = 0 /\ c.w = w
  <2>1. cp \in Int /\ w \in Int /\ 0 \in Int
    OBVIOUS
  <2> QED
    BY <2>1 DEF Cell, CellT
<1> HIDE DEF q, c
<1>5. q \in PageT /\ q.cells = {c} /\ q.shelfX = w /\ q.shelfY = 0 /\ q.shelfH = H /\ q.pageW = w
  BY <1>3, <1>4 DEF PageT
<1>6. PageHeight(q) = CellHeight
  BY <1>1, <1>5 DEF PageHeight
<1>7. CellOK(q, c)
  BY <1>1, <1>4, <1>5, <1>6 DEF CellOK
<1>8. Apart(c, c)
  BY Zenon DEF Apart
<1>9. \A d \in q.cells : CellOK(q, d) /\ \A f \in q.cells : Apart(d, f)
  BY <1>5, <1>7, <1>8, Zenon
<1>10. PageCps(q) = {cp}
  BY <1>4, <1>5, Zenon DEF PageCps
<1> QED
  BY <1>5, <1>6, <1>9, <1>10, Zenon DEF PageOK, q

-----------------------------------------------------------------------------
(* The pages of a plan *)

LEMMA RestOfNone == Rest(<<>>, 1) = {} /\ PlanOK(<<>>) /\ <<>> \in Seq(PageT)
<1>1. DOMAIN <<>> = {}
  OBVIOUS
<1>2. <<>> \in Seq(PageT)
  OBVIOUS
<1> QED
  BY <1>1, <1>2, Zenon DEF Rest, PlanOK

LEMMA RestMember ==
    ASSUME NEW p, NEW k, NEW cp
    PROVE  cp \in Rest(p, k) <=> \E i \in DOMAIN p : i >= k /\ cp \in PageCps(p[i])
BY Zenon DEF Rest

\* In a sequence every page is a page from the first on.
LEMMA RestOfAll ==
    ASSUME NEW p \in Seq(PageT), NEW cp
    PROVE  cp \in Rest(p, 1) <=> \E i \in DOMAIN p : cp \in PageCps(p[i])
<1>1. \A i \in DOMAIN p : i >= 1
  OBVIOUS
<1> QED
  BY <1>1, RestMember, Zenon

LEMMA PageAdded ==
    ASSUME NEW p \in Seq(PageT), PlanOK(p), NEW q, PageOK(q), PageCps(q) \cap Rest(p, 1) = {}
    PROVE  /\ Append(p, q) \in Seq(PageT) /\ Append(p, q) # <<>> /\ PlanOK(Append(p, q))
           /\ Rest(Append(p, q), 1) = Rest(p, 1) \cup PageCps(q)
<1> DEFINE a == Append(p, q)
<1>1. q \in PageT
  BY Zenon DEF PageOK
<1>2. /\ a \in Seq(PageT) /\ a # <<>> /\ DOMAIN a = DOMAIN p \cup {Len(p) + 1}
      /\ a[Len(p) + 1] = q /\ \A i \in DOMAIN p : a[i] = p[i]
  BY <1>1
<1> HIDE DEF a
<1>3. \A i \in DOMAIN a : a[i] = q \/ \E j \in DOMAIN p : i = j /\ a[i] = p[j]
  BY <1>2, Zenon
<1>4. \A i \in DOMAIN a : PageOK(a[i])
  BY <1>3, Zenon DEF PlanOK
<1>5. \A i \in DOMAIN p : PageCps(p[i]) \cap PageCps(q) = {}
  BY RestOfAll, Zenon
<1>6. \A i, j \in DOMAIN a : i # j => PageCps(a[i]) \cap PageCps(a[j]) = {}
  <2>1. SUFFICES ASSUME NEW i \in DOMAIN a, NEW j \in DOMAIN a, i # j
                 PROVE  PageCps(a[i]) \cap PageCps(a[j]) = {}
    BY Zenon
  <2>2. CASE i \in DOMAIN p /\ j \in DOMAIN p
    BY <2>1, <2>2, <1>2, Zenon DEF PlanOK
  <2>3. CASE i \in DOMAIN p /\ j = Len(p) + 1
    BY <2>3, <1>2, <1>5, Zenon
  <2>4. CASE i = Len(p) + 1 /\ j \in DOMAIN p
    <3>1. PageCps(p[j]) \cap PageCps(q) = {}
      BY <2>4, <1>5, Zenon
    <3>2. a[i] = q /\ a[j] = p[j]
      BY <2>4, <1>2, Zenon
    <3> QED
      BY <3>1, <3>2
  <2> QED
    BY <2>1, <2>2, <2>3, <2>4, <1>2, Zenon
<1>7. Rest(a, 1) = Rest(p, 1) \cup PageCps(q)
  <2>1. ASSUME NEW cp PROVE cp \in Rest(a, 1) <=> cp \in Rest(p, 1) \/ cp \in PageCps(q)
    <3>1. cp \in Rest(a, 1) <=> \E i \in DOMAIN a : cp \in PageCps(a[i])
      BY <1>2, RestOfAll, Zenon
    <3>2. cp \in Rest(p, 1) <=> \E i \in DOMAIN p : cp \in PageCps(p[i])
      BY RestOfAll, Zenon
    <3> QED
      BY <3>1, <3>2, <1>2, Zenon
  <2> QED
    BY <2>1, Zenon
<1> QED
  BY <1>2, <1>4, <1>6, <1>7, Zenon DEF a, PlanOK

LEMMA PageReplaced ==
    ASSUME NEW p \in Seq(PageT), p # <<>>, PlanOK(p), NEW q, PageOK(q), NEW cp, cp \notin Rest(p, 1),
           PageCps(q) = PageCps(p[Len(p)]) \cup {cp}
    PROVE  /\ [p EXCEPT ![Len(p)] = q] \in Seq(PageT) /\ [p EXCEPT ![Len(p)] = q] # <<>>
           /\ PlanOK([p EXCEPT ![Len(p)] = q])
           /\ Rest([p EXCEPT ![Len(p)] = q], 1) = Rest(p, 1) \cup {cp}
<1> DEFINE a == [p EXCEPT ![Len(p)] = q]
<1>1. q \in PageT
  BY Zenon DEF PageOK
<1>2. /\ a \in Seq(PageT) /\ DOMAIN a = DOMAIN p /\ Len(p) \in DOMAIN p
      /\ a[Len(p)] = q /\ \A i \in DOMAIN p : i # Len(p) => a[i] = p[i]
  BY <1>1
<1>3. a # <<>>
  <2>1. DOMAIN <<>> = {}
    OBVIOUS
  <2> HIDE DEF a
  <2> QED
    BY <2>1, <1>2, Zenon
<1> HIDE DEF a
<1>4. \A i \in DOMAIN a : PageOK(a[i])
  BY <1>2, Zenon DEF PlanOK
<1>5. \A i \in DOMAIN p : cp \notin PageCps(p[i])
  BY RestOfAll, Zenon
<1>6. \A i \in DOMAIN p : i # Len(p) => PageCps(p[i]) \cap PageCps(q) = {} /\ PageCps(q) \cap PageCps(p[i]) = {}
  <2>1. SUFFICES ASSUME NEW i \in DOMAIN p, i # Len(p)
                 PROVE  PageCps(p[i]) \cap PageCps(q) = {} /\ PageCps(q) \cap PageCps(p[i]) = {}
    BY Zenon
  <2>2. PageCps(p[i]) \cap PageCps(p[Len(p)]) = {}
    BY <2>1, <1>2, Zenon DEF PlanOK
  <2>3. cp \notin PageCps(p[i])
    BY <1>5
  <2> QED
    BY <2>2, <2>3
<1>7. \A i, j \in DOMAIN a : i # j => PageCps(a[i]) \cap PageCps(a[j]) = {}
  <2>1. SUFFICES ASSUME NEW i \in DOMAIN a, NEW j \in DOMAIN a, i # j
                 PROVE  PageCps(a[i]) \cap PageCps(a[j]) = {}
    BY Zenon
  <2>2. CASE i # Len(p) /\ j # Len(p)
    BY <2>1, <2>2, <1>2, Zenon DEF PlanOK
  <2>3. CASE i # Len(p) /\ j = Len(p)
    BY <2>3, <1>2, <1>6, Zenon
  <2>4. CASE i = Len(p) /\ j # Len(p)
    BY <2>4, <1>2, <1>6, Zenon
  <2> QED
    BY <2>1, <2>2, <2>3, <2>4, Zenon
<1>8. Rest(a, 1) = Rest(p, 1) \cup {cp}
  <2>1. ASSUME NEW g PROVE g \in Rest(a, 1) <=> g \in Rest(p, 1) \/ g = cp
    <3>1. g \in Rest(a, 1) <=> \E i \in DOMAIN a : g \in PageCps(a[i])
      BY <1>2, RestOfAll, Zenon
    <3>2. g \in Rest(p, 1) <=> \E i \in DOMAIN p : g \in PageCps(p[i])
      BY RestOfAll, Zenon
    <3>3. g \in PageCps(q) <=> g \in PageCps(p[Len(p)]) \/ g = cp
      OBVIOUS
    <3> QED
      BY <3>1, <3>2, <3>3, <1>2, Zenon
  <2> QED
    BY <2>1, Zenon
<1> QED
  BY <1>2, <1>3, <1>4, <1>7, <1>8, Zenon DEF a, PlanOK

\* One step of plan_atlas_pages, whichever shelf or page the cell finds.
LEMMA PlaceOK ==
    ASSUME NEW p \in Seq(PageT), PlanOK(p), NEW cp \in Nat, NEW w \in Nat, NEW pen \in Int,
           Fits(w, CellHeight), cp \notin Rest(p, 1)
    PROVE  /\ Place(p, cp, w, pen) \in Seq(PageT) /\ Place(p, cp, w, pen) # <<>>
           /\ PlanOK(Place(p, cp, w, pen))
           /\ Rest(Place(p, cp, w, pen), 1) = Rest(p, 1) \cup {cp}
<1> DEFINE first == OnShelf(NoPage, cp, w, pen)
           page == p[Len(p)]
<1>1. PageOK(first) /\ PageCps(first) = {cp}
  BY FirstCellOK
<1>2. PageCps(first) \cap Rest(p, 1) = {}
  BY <1>1, Zenon
<1>3. /\ Append(p, first) \in Seq(PageT) /\ Append(p, first) # <<>> /\ PlanOK(Append(p, first))
      /\ Rest(Append(p, first), 1) = Rest(p, 1) \cup {cp}
  <2> HIDE DEF first
  <2>1. Rest(Append(p, first), 1) = Rest(p, 1) \cup PageCps(first)
    BY <1>1, <1>2, PageAdded, Zenon
  <2> QED
    BY <1>1, <1>2, <2>1, PageAdded, Zenon
<1>4. CASE p = <<>>
  <2>1. Place(p, cp, w, pen) = <<first>>
    BY <1>4, Zenon DEF Place
  <2>2. Append(p, first) = <<first>>
    <3> HIDE DEF first
    <3> QED
      BY <1>4
  <2> QED
    BY <2>1, <2>2, <1>3, Zenon
<1>5. CASE p # <<>>
  <2>1. Len(p) \in DOMAIN p
    BY <1>5
  <2>2. PageOK(page) /\ cp \notin PageCps(page)
    BY <2>1, RestOfAll, Zenon DEF PlanOK
  <2>3. CASE FitsShelf(page, w)
    <3>1. Place(p, cp, w, pen) = [p EXCEPT ![Len(p)] = OnShelf(page, cp, w, pen)]
      BY <1>5, <2>3, Zenon DEF Place, Last
    <3>2. PageOK(OnShelf(page, cp, w, pen)) /\ PageCps(OnShelf(page, cp, w, pen)) = PageCps(page) \cup {cp}
      BY <2>2, <2>3, OnShelfOK, Zenon
    <3> QED
      BY <3>1, <3>2, <1>5, PageReplaced, Zenon
  <2>4. CASE ~FitsShelf(page, w) /\ FitsNewShelf(page, w)
    <3>1. Place(p, cp, w, pen) = [p EXCEPT ![Len(p)] = OnNewShelf(page, cp, w)]
      BY <1>5, <2>4, Zenon DEF Place, Last
    <3>2. PageOK(OnNewShelf(page, cp, w)) /\ PageCps(OnNewShelf(page, cp, w)) = PageCps(page) \cup {cp}
      BY <2>2, <2>4, OnNewShelfOK, Zenon
    <3> QED
      BY <3>1, <3>2, <1>5, PageReplaced, Zenon
  <2>5. CASE ~FitsShelf(page, w) /\ ~FitsNewShelf(page, w)
    <3>1. Place(p, cp, w, pen) = Append(p, first)
      BY <1>5, <2>5, Zenon DEF Place, Last
    <3> QED
      BY <3>1, <1>3, Zenon
  <2> QED
    BY <2>3, <2>4, <2>5, Zenon
<1> QED
  BY <1>4, <1>5

\* The first page and the others.
LEMMA FirstPage ==
    ASSUME NEW p \in Seq(PageT), p # <<>>, PlanOK(p)
    PROVE  /\ Head(p) = p[1] /\ PageOK(p[1])
           /\ Rest(p, 1) = PageCps(p[1]) \cup Rest(p, 2) /\ PageCps(p[1]) \cap Rest(p, 2) = {}
           /\ Tail(p) \in Seq(PageT) /\ PlanOK(Tail(p)) /\ Rest(Tail(p), 1) = Rest(p, 2)
<1>1. 1 \in DOMAIN p /\ Head(p) = p[1] /\ \A i \in DOMAIN p : i = 1 \/ i >= 2
  OBVIOUS
<1>2. ~(1 >= 2)
  OBVIOUS
<1>3. PageOK(p[1])
  BY <1>1, Zenon DEF PlanOK
<1>4. Rest(p, 1) = PageCps(p[1]) \cup Rest(p, 2)
  <2>1. ASSUME NEW g PROVE g \in Rest(p, 1) <=> g \in PageCps(p[1]) \/ g \in Rest(p, 2)
    <3>1. g \in Rest(p, 1) <=> \E i \in DOMAIN p : g \in PageCps(p[i])
      BY RestOfAll, Zenon
    <3>2. g \in Rest(p, 2) <=> \E i \in DOMAIN p : i >= 2 /\ g \in PageCps(p[i])
      BY RestMember, Zenon
    <3> QED
      BY <3>1, <3>2, <1>1, Zenon
  <2> QED
    BY <2>1, Zenon
<1>5. PageCps(p[1]) \cap Rest(p, 2) = {}
  <2>1. ASSUME NEW g, g \in PageCps(p[1]), g \in Rest(p, 2) PROVE FALSE
    <3>1. PICK i \in DOMAIN p : i >= 2 /\ g \in PageCps(p[i])
      BY <2>1, RestMember, Zenon
    <3>2. PageCps(p[1]) \cap PageCps(p[i]) = {}
      BY <3>1, <1>1, <1>2, Zenon DEF PlanOK
    <3> QED
      BY <2>1, <3>1, <3>2, Zenon
  <2> QED
    BY <2>1, Zenon
<1>6. /\ Tail(p) \in Seq(PageT) /\ \A i \in DOMAIN Tail(p) : i + 1 \in DOMAIN p /\ Tail(p)[i] = p[i + 1]
      /\ \A i \in DOMAIN p : i >= 2 => i - 1 \in DOMAIN Tail(p) /\ Tail(p)[i - 1] = p[i]
      /\ \A i \in DOMAIN Tail(p) : i + 1 >= 2 /\ \A j \in DOMAIN Tail(p) : i # j => i + 1 # j + 1
  OBVIOUS
<1>7. PlanOK(Tail(p))
  BY <1>6, Zenon DEF PlanOK
<1>8. Rest(Tail(p), 1) = Rest(p, 2)
  <2>1. ASSUME NEW g PROVE g \in Rest(Tail(p), 1) <=> g \in Rest(p, 2)
    <3>1. g \in Rest(Tail(p), 1) <=> \E i \in DOMAIN Tail(p) : g \in PageCps(Tail(p)[i])
      BY <1>6, RestOfAll, Zenon
    <3>2. g \in Rest(p, 2) <=> \E i \in DOMAIN p : i >= 2 /\ g \in PageCps(p[i])
      BY RestMember, Zenon
    <3> QED
      BY <3>1, <3>2, <1>6, Zenon
  <2> QED
    BY <2>1, Zenon
<1> QED
  BY <1>1, <1>3, <1>4, <1>5, <1>6, <1>7, <1>8

-----------------------------------------------------------------------------
(* Steps that leave a part of the state alone *)

LEMMA StylesAre ==
    /\ \A i \in 1..Len(StyleSeq) : StyleSeq[i] \in Styles
    /\ Len(StyleSeq) \in Nat /\ 1 \in 1..Len(StyleSeq)
<1>1. StyleSeq \in Seq(Styles) /\ StyleSeq # <<>>
  BY StyleSeqAssumption
<1>2. DOMAIN StyleSeq = 1..Len(StyleSeq)
  BY <1>1
<1>3. \A i \in 1..Len(StyleSeq) : StyleSeq[i] \in Styles
  BY <1>2, Zenon DEF Styles
<1> QED
  BY <1>1, <1>3

LEMMA StyleIs ==
    ASSUME TypeOK
    PROVE  Style \in Styles
BY StylesAre, Zenon DEF TypeOK, Style

\* What loses a cell only claims less of a checkpoint.
LEMMA MemoHolds ==
    ASSUME NEW m, NEW n \in Nat, NEW k \in Nat, k >= n, Memo(m, n)
    PROVE  Memo(m, k)
<1>1. k = 0 => n = 0
  OBVIOUS
<1> QED
  BY <1>1, Zenon DEF Memo

\* The glyphs on a list of glyphs, also when one more is appended.
LEMMA Listed ==
    /\ Range(<<>>) = {}
    /\ \A s \in Seq(Nat) : \A cp : Range(Append(s, cp)) = Range(s) \cup {cp}
<1>1. Range(<<>>) = {}
  BY DEF Range
<1>2. ASSUME NEW s \in Seq(Nat), NEW cp
      PROVE  Range(Append(s, cp)) = Range(s) \cup {cp}
  <2>1. /\ Len(s) \in Nat /\ DOMAIN s = 1..Len(s) /\ DOMAIN Append(s, cp) = 1..(Len(s) + 1)
        /\ Append(s, cp)[Len(s) + 1] = cp /\ \A i \in 1..Len(s) : Append(s, cp)[i] = s[i]
    OBVIOUS
  <2> QED
    BY <2>1 DEF Range
<1> QED
  BY <1>1, <1>2

LEMMA FreshMemo ==
    ASSUME NEW i, NEW n
    PROVE  Memo(Fresh(i), n) /\ Fresh(i).id = i
<1>1. /\ Fresh(i).id = i /\ Fresh(i).frozen = {} /\ Fresh(i).failed = {} /\ Fresh(i).low = <<>>
      /\ Fresh(i) \in [id : {i}, frozen : SUBSET Nat, failed : SUBSET Nat, low : Seq(Nat)]
  BY DEF Fresh
<1>2. /\ Range(Fresh(i).low) = {}
      /\ Fresh(i) \in [id : {Fresh(i).id}, frozen : SUBSET Nat, failed : SUBSET Nat, low : Seq(Nat)]
  BY <1>1, Listed, Zenon
<1>3. i = NoId => Fresh(i) = Fresh(NoId)
  OBVIOUS
<1> HIDE DEF Fresh
<1> QED
  BY <1>1, <1>2, <1>3 DEF Memo

\* A step of the run, which keeps its style and its identity.
LEMMA MemoStep ==
    ASSUME MemoOK, lost \in Nat, lost' \in Nat, lost' >= lost, pc \in Working, id' = id,
           ckpt' \in {ckpt, state, state'},
           state' = state \/ (Memo(state', lost') /\ state'.id = id),
           \A m \in models' : m \in models \/ Kind(m[1][1], m[2]) = "easy"
    PROVE  MemoOK'
<1>1. Memo(ckpt, lost') /\ Memo(state, lost') /\ state.id = id
  BY MemoHolds, Zenon DEF MemoOK
<1>2. Memo(state', lost') /\ state'.id = id'
  BY <1>1, Zenon
<1>3. Memo(ckpt', lost')
  BY <1>1, <1>2, Zenon
<1>4. \A m \in models' : Kind(m[1][1], m[2]) = "easy"
  BY Zenon DEF MemoOK
<1> QED
  BY <1>2, <1>3, <1>4 DEF MemoOK, Memo, NoId, Fresh

LEMMA IdStep ==
    ASSUME IdOK, pc \in Working, UNCHANGED <<at, id>>
    PROVE  IdOK' /\ Style' = Style
BY Zenon DEF IdOK, Style

\* Outside of the stages that work on glyphs only the disk counts.
LEMMA IdleStep ==
    ASSUME MemoOK, lost' = lost, ckpt' = ckpt, \A m \in models' : m \in models,
           pc' \in {"probe", "done", "failed", "persist"}
    PROVE  MemoOK' /\ IdOK' /\ ListsOK' /\ KindsOK' /\ PagesOK'
<1>1. pc' \notin Working
  BY DEF Working
<1>2. pc' \notin {"metrics", "place", "fetch", "cells", "save", "refine", "assemble"}
  BY <1>1 DEF Working
<1>3. MemoOK'
  BY <1>1, Zenon DEF MemoOK, Memo, Fresh, NoId
<1>4. IdOK' /\ KindsOK'
  BY <1>1, Zenon DEF IdOK, KindsOK
<1>5. ListsOK' /\ PagesOK'
  BY <1>1, <1>2 DEF ListsOK, PagesOK
<1> QED
  BY <1>3, <1>4, <1>5

\* A step of the run that leaves the fonts alone.
LEMMA FontsStep ==
    ASSUME FontsOK, HitIsWhole, pc \in Working, pc' \in Working, UNCHANGED <<fonts, at, delivered, calm>>
    PROVE  FontsOK' /\ HitIsWhole'
<1>1. HitIsWhole'
  BY Zenon DEF HitIsWhole
<1>2. pc' # "persist"
  BY DEF Working
<1>3. Style' = Style
  BY Zenon DEF Style
<1>4. FontsOK'
  BY <1>2, <1>3 DEF FontsOK, EntryOK, Sound
<1> QED
  BY <1>1, <1>4

-----------------------------------------------------------------------------
(* The raster pass *)

LEMMA PlanThePagesStep ==
    ASSUME LInv, PlanThePages
    PROVE  LInv'
<1>1. /\ pc = "metrics" /\ pc' = "place" /\ plan' = <<>> /\ todo' = Pending /\ Plannable(Style, Pending)
      /\ UNCHANGED <<disk, at, id, arrived, since, glyphs, final, bounds, calm>>
  BY Zenon DEF PlanThePages
<1>2. UNCHANGED <<ckpt, models, fonts, at, id, easy, refined, failed, low, excluded, state, font, step,
                  delivered, lost, calm>>
  BY <1>1 DEF disk, glyphs, final, bounds
<1>3. pc \in Working /\ pc' \in Working
  BY <1>1 DEF Working
<1>4. IdOK' /\ Style' = Style
  BY <1>2, <1>3, IdStep, Zenon DEF LInv
<1>5. Style \in Styles /\ id[2] \in Coverages(Style)
  BY <1>3, StyleIs, Zenon DEF LInv, IdOK
<1>6. id[2] \subseteq Nat
  BY <1>5, CoverageAssumption, Zenon
<1>7. TypeOK'
  <2>1. plan' \in Seq(PageT) /\ todo' \subseteq Nat
    BY <1>1, <1>6, RestOfNone, Zenon DEF Pending
  <2> QED
    BY <1>1, <1>2, <2>1 DEF LInv, TypeOK, Stages
<1>8. MemoOK'
  <2>1. lost \in Nat /\ lost' \in Nat /\ lost' >= lost
    BY <1>2 DEF LInv, TypeOK
  <2> QED
    BY <1>2, <1>3, <2>1, MemoStep, Zenon DEF LInv
<1>9. ListsOK'
  <2>1. Rest(plan', 1) = {}
    BY <1>1, RestOfNone, Zenon
  <2>2. Left' = Pending
    BY <1>1, <2>1 DEF Left
  <2> QED
    BY <1>1, <1>2, <1>3, <2>2 DEF LInv, ListsOK, Pending, Working
<1>10. KindsOK'
  BY <1>1, <1>2, <1>3, <1>4 DEF LInv, KindsOK
<1>11. PagesOK'
  <2>1. PlanOK(plan') /\ Rest(plan', 1) = {}
    BY <1>1, RestOfNone, Zenon
  <2> QED
    BY <1>1, <1>4, <2>1 DEF PagesOK
<1> QED
  BY <1>4, <1>7, <1>8, <1>9, <1>10, <1>11 DEF LInv

LEMMA PlaceCellStep ==
    ASSUME LInv, PlaceCell
    PROVE  LInv'
<1>1. /\ pc = "place" /\ todo # {}
      /\ plan' = Place(plan, Cursor, CellWidth(Style, Cursor), PenLeft(ExtraLeft(Style, Cursor)))
      /\ todo' = todo \ {Cursor}
      /\ UNCHANGED <<disk, at, pc, id, arrived, since, glyphs, final, bounds, calm>>
  BY Zenon DEF PlaceCell
<1>2. UNCHANGED <<ckpt, models, fonts, at, pc, id, easy, refined, failed, low, excluded, state, font,
                  step, delivered, lost, calm>>
  BY <1>1 DEF disk, glyphs, final, bounds
<1>3. pc \in Working /\ pc' \in Working
  BY <1>1, <1>2 DEF Working
<1>4. IdOK' /\ Style' = Style
  BY <1>2, <1>3, IdStep, Zenon DEF LInv
<1>5. Style \in Styles /\ id[2] \in Coverages(Style)
  BY <1>3, StyleIs, Zenon DEF LInv, IdOK
<1>6. Cursor \in todo /\ todo \subseteq Nat /\ plan \in Seq(PageT)
  BY <1>1, CursorIsToCome, Zenon DEF LInv, TypeOK
<1>7. todo \subseteq id[2] /\ Cursor \in id[2]
  BY <1>1, <1>3, <1>6 DEF LInv, ListsOK, Left, Working
<1>8. PlanOK(plan) /\ Plannable(Style, todo) /\ todo \cap Rest(plan, 1) = {}
  BY <1>1, Zenon DEF LInv, PagesOK
<1> DEFINE p == Place(plan, Cursor, CellWidth(Style, Cursor), PenLeft(ExtraLeft(Style, Cursor)))
<1>9. p \in Seq(PageT) /\ p # <<>> /\ PlanOK(p) /\ Rest(p, 1) = Rest(plan, 1) \cup {Cursor}
  <2>1. CellWidth(Style, Cursor) \in Nat /\ PenLeft(ExtraLeft(Style, Cursor)) \in Int
    BY <1>5, <1>7, CellWidthType
  <2>2. Fits(CellWidth(Style, Cursor), CellHeight)
    BY <1>6, <1>8, Zenon DEF Plannable, Fits
  <2>3. Cursor \in Nat /\ Cursor \notin Rest(plan, 1)
    BY <1>6, <1>8
  <2> QED
    BY <1>6, <1>8, <2>1, <2>2, <2>3, PlaceOK, Zenon
<1>10. plan' = p
  BY <1>1
<1> HIDE DEF p
<1>11. TypeOK'
  BY <1>1, <1>2, <1>9, <1>10 DEF LInv, TypeOK
<1>12. MemoOK'
  <2>1. lost \in Nat /\ lost' \in Nat /\ lost' >= lost
    BY <1>2 DEF LInv, TypeOK
  <2> QED
    BY <1>2, <1>3, <2>1, MemoStep, Zenon DEF LInv
<1>13. ListsOK'
  <2>1. Left' = Left
    <3>1. Left = todo \cup Rest(plan, 1) /\ Left' = todo' \cup Rest(plan', 1)
      BY <1>1, <1>2 DEF Left
    <3> QED
      BY <3>1, <1>1, <1>6, <1>9, <1>10
  <2> QED
    BY <1>1, <1>2, <1>3, <2>1 DEF LInv, ListsOK, Working
<1>14. KindsOK'
  BY <1>1, <1>2, <1>3, <1>4 DEF LInv, KindsOK
<1>15. PagesOK'
  <2>1. Plannable(Style, todo')
    BY <1>1, <1>8, Zenon DEF Plannable
  <2>2. todo' \cap Rest(plan', 1) = {}
    BY <1>1, <1>8, <1>9, <1>10
  <2> QED
    BY <1>1, <1>2, <1>4, <1>9, <1>10, <2>1, <2>2 DEF PagesOK
<1> QED
  BY <1>4, <1>11, <1>12, <1>13, <1>14, <1>15 DEF LInv

LEMMA PlanEndsStep ==
    ASSUME LInv, PlanEnds
    PROVE  LInv' /\ pc' \in Working
<1>1. /\ pc = "place" /\ todo = {}
      /\ pc' = IF plan = <<>> THEN "refine" ELSE "fetch"
      /\ todo' = IF plan = <<>> THEN failed ELSE {}
      /\ UNCHANGED <<disk, at, id, plan, arrived, since, glyphs, final, bounds, calm>>
  BY Zenon DEF PlanEnds
<1>2. UNCHANGED <<ckpt, models, fonts, at, id, plan, easy, refined, failed, low, excluded, state, font,
                  step, delivered, lost, calm>>
  BY <1>1 DEF disk, glyphs, final, bounds
<1>3. pc \in Working /\ pc' \in Working
  BY <1>1 DEF Working
<1>4. IdOK' /\ Style' = Style
  BY <1>2, <1>3, IdStep, Zenon DEF LInv
<1>5. id[2] \subseteq Nat
  BY <1>3, StyleIs, CoverageAssumption, Zenon DEF LInv, IdOK
<1>6. refined = {} /\ failed \subseteq id[2]
  BY <1>1, <1>3 DEF LInv, ListsOK, Working
<1>7. TypeOK'
  BY <1>1, <1>2, <1>5, <1>6 DEF LInv, TypeOK, Stages
<1>8. MemoOK'
  <2>1. lost \in Nat /\ lost' \in Nat /\ lost' >= lost
    BY <1>2 DEF LInv, TypeOK
  <2> QED
    BY <1>2, <1>3, <2>1, MemoStep, Zenon DEF LInv
<1>9. Left' = Left
  <2>1. Left = Rest(plan, 1)
    BY <1>1 DEF Left
  <2>2. CASE plan = <<>>
    BY <1>1, <2>1, <2>2, RestOfNone DEF Left
  <2>3. CASE plan # <<>>
    BY <1>1, <1>2, <2>1, <2>3 DEF Left
  <2> QED
    BY <2>2, <2>3
<1>10. ListsOK'
  BY <1>1, <1>2, <1>3, <1>6, <1>9 DEF LInv, ListsOK, Working
<1>11. KindsOK'
  BY <1>1, <1>2, <1>3, <1>4, <1>6 DEF LInv, KindsOK
<1>12. PagesOK'
  BY <1>1, <1>2, <1>4 DEF LInv, PagesOK
<1> QED
  BY <1>3, <1>4, <1>7, <1>8, <1>10, <1>11, <1>12 DEF LInv

LEMMA NoneIsLost ==
    ASSUME NEW coverage, IsFiniteSet(coverage), NEW missing \in SUBSET coverage
    PROVE  Cardinality(missing) \in Nat /\ (Cardinality(missing) = 0 => missing = {})
<1>1. IsFiniteSet(missing)
  BY FS_Subset
<1> QED
  BY <1>1, FS_CardinalityType, FS_EmptySet

LEMMA FetchPageStep ==
    ASSUME LInv, NEW missing, FetchPage(missing)
    PROVE  LInv' /\ pc' \in Working
<1>1. /\ pc = "fetch" /\ missing \subseteq PageCps(Head(plan))
      /\ lost' = lost + Cardinality(missing)
      /\ todo' = PageCps(Head(plan)) /\ arrived' = PageCps(Head(plan)) \ missing
      /\ pc' = "cells"
      /\ UNCHANGED <<disk, at, id, plan, glyphs, final, stops, outages, calm>>
  BY Zenon DEF FetchPage, Served
<1>2. UNCHANGED <<ckpt, models, fonts, at, id, plan, easy, refined, failed, low, excluded, state, font,
                  step, delivered, calm>>
  BY <1>1 DEF disk, glyphs, final
<1>3. pc \in Working /\ pc' \in Working
  BY <1>1 DEF Working
<1>4. IdOK' /\ Style' = Style
  BY <1>2, <1>3, IdStep, Zenon DEF LInv
<1>5. id[2] \subseteq Nat /\ IsFiniteSet(id[2])
  BY <1>3, StyleIs, CoverageAssumption, Zenon DEF LInv, IdOK
<1>6. plan \in Seq(PageT) /\ plan # <<>> /\ PlanOK(plan)
  BY <1>1 DEF LInv, TypeOK, PagesOK
<1>7. /\ Head(plan) = plan[1]
      /\ Rest(plan, 1) = PageCps(plan[1]) \cup Rest(plan, 2) /\ PageCps(plan[1]) \cap Rest(plan, 2) = {}
  BY <1>6, FirstPage, Zenon
<1>8. Left = Rest(plan, 1) /\ Left' = Left
  BY <1>1, <1>2, <1>7 DEF Left
<1>9. PageCps(plan[1]) \subseteq id[2]
  BY <1>1, <1>3, <1>7, <1>8 DEF LInv, ListsOK, Working
<1>10. lost \in Nat /\ lost' \in Nat /\ lost' >= lost /\ (lost' = 0 => lost = 0 /\ missing = {})
  <2>1. lost \in Nat
    BY DEF LInv, TypeOK
  <2>2. missing \in SUBSET id[2]
    BY <1>1, <1>7, <1>9
  <2>3. Cardinality(missing) \in Nat /\ (Cardinality(missing) = 0 => missing = {})
    BY <1>5, <2>2, NoneIsLost, Zenon
  <2>4. /\ lost + Cardinality(missing) \in Nat /\ lost + Cardinality(missing) >= lost
        /\ lost + Cardinality(missing) = 0 => lost = 0 /\ Cardinality(missing) = 0
    BY <2>1, <2>3
  <2> QED
    BY <1>1, <2>1, <2>3, <2>4, Zenon
<1>11. TypeOK'
  BY <1>1, <1>2, <1>5, <1>7, <1>9, <1>10 DEF LInv, TypeOK, Stages
<1>12. MemoOK'
  BY <1>2, <1>3, <1>10, MemoStep, Zenon DEF LInv
<1>13. ListsOK'
  BY <1>1, <1>2, <1>3, <1>8 DEF LInv, ListsOK, Working
<1>14. KindsOK'
  BY <1>1, <1>2, <1>3, <1>4, <1>10 DEF LInv, KindsOK
<1>15. PagesOK'
  BY <1>1, <1>2, <1>4, <1>6, <1>7 DEF LInv, PagesOK
<1> QED
  BY <1>3, <1>4, <1>11, <1>12, <1>13, <1>14, <1>15 DEF LInv

\* The glyph at the cursor goes to one of three lists.
LEMMA CellStep ==
    ASSUME LInv, pc = "cells", Cursor \in todo, todo' = todo \ {Cursor}, pc' \in {"cells", "save"},
           UNCHANGED <<fonts, at, id, plan, arrived, refined, low, font, step, delivered, lost, calm>>,
           \/ easy' = easy \cup {Cursor} /\ failed' = failed /\ excluded' = excluded
              /\ Kind(Style, Cursor) = "easy"
           \/ easy' = easy /\ failed' = failed \cup {Cursor} /\ excluded' = excluded
              /\ (lost = 0 => Kind(Style, Cursor) \in {"hard", "low", "bad"})
           \/ easy' = easy /\ failed' = failed /\ excluded' = excluded \cup {Cursor}
              /\ Kind(Style, Cursor) = "zero"
    PROVE  /\ TypeOK' /\ IdOK' /\ ListsOK' /\ KindsOK' /\ PagesOK' /\ Style' = Style
           /\ pc \in Working /\ pc' \in Working /\ Cursor \in id[2] /\ id[2] \subseteq Nat
           /\ id[1] = Style /\ id # NoId /\ Memo(state, lost) /\ state.id = id
           /\ lost \in Nat /\ lost' \in Nat /\ lost' >= lost
<1> DEFINE Dealt(A, B, C) ==
             /\ A \cup B \cup C = {Cursor} /\ A \cap B = {} /\ A \cap C = {} /\ B \cap C = {}
             /\ easy' = easy \cup A /\ failed' = failed \cup B /\ excluded' = excluded \cup C
             /\ \A cp \in A : Kind(Style, cp) = "easy"
             /\ \A cp \in C : Kind(Style, cp) = "zero"
             /\ lost = 0 => \A cp \in B : Kind(Style, cp) \in {"hard", "low", "bad"}
<1>0. PICK A, B, C : Dealt(A, B, C)
  <2>1. Dealt({Cursor}, {}, {}) \/ Dealt({}, {Cursor}, {}) \/ Dealt({}, {}, {Cursor})
    OBVIOUS
  <2> QED
    BY <2>1, Zenon
<1>1. pc \in Working /\ pc' \in Working
  BY DEF Working
<1>2. IdOK' /\ Style' = Style
  BY <1>1, IdStep, Zenon DEF LInv
<1>3. id[2] \subseteq Nat
  BY <1>1, StyleIs, CoverageAssumption, Zenon DEF LInv, IdOK
<1>4. id[1] = Style /\ id # NoId
  BY <1>1 DEF LInv, IdOK, NoId
<1>5. Left = todo \cup Rest(plan, 2)
  BY DEF Left
<1>6. /\ easy \cap failed = {} /\ easy \cap excluded = {} /\ failed \cap excluded = {}
      /\ easy \cup failed \cup excluded \cup Left = id[2]
      /\ (easy \cup failed \cup excluded) \cap Left = {}
      /\ refined = {} /\ easy \cup failed \cup excluded \cup refined \cup Range(low) \subseteq id[2]
  BY <1>1 DEF LInv, ListsOK, Working
<1>7. PlanOK(plan) /\ plan # <<>> /\ todo \subseteq PageCps(plan[1]) /\ plan \in Seq(PageT)
  BY DEF LInv, PagesOK, TypeOK
<1>8. Cursor \in id[2] /\ Cursor \notin Rest(plan, 2)
  <2>1. PageCps(plan[1]) \cap Rest(plan, 2) = {}
    BY <1>7, FirstPage, Zenon
  <2> QED
    BY <2>1, <1>5, <1>6, <1>7
<1>9. TypeOK'
  <2>1. easy' \subseteq Nat /\ todo' \subseteq Nat
    BY <1>0, <1>3, <1>8 DEF LInv, TypeOK
  <2>2. pc' \in Stages
    BY DEF Stages
  <2> QED
    BY <2>1, <2>2 DEF LInv, TypeOK
<1>10. ListsOK'
  <2>1. Left' = todo' \cup Rest(plan, 2)
    BY DEF Left
  <2>2. /\ easy' \cup failed' \cup excluded' \cup Left' = id[2]
        /\ (easy' \cup failed' \cup excluded') \cap Left' = {}
    BY <2>1, <1>5, <1>6, <1>8, <1>0
  <2>3. /\ easy' \cap failed' = {} /\ easy' \cap excluded' = {} /\ failed' \cap excluded' = {}
        /\ easy' \cup failed' \cup excluded' \cup refined' \cup Range(low') \subseteq id[2]
    BY <1>5, <1>6, <1>8, <1>0
  <2>4. low' \in Seq(Nat)
    BY <1>1 DEF LInv, ListsOK
  <2> QED
    BY <2>2, <2>3, <2>4, <1>6 DEF ListsOK
<1>11. KindsOK'
  <2>1. \A cp \in easy' : Kind(Style, cp) = "easy"
    BY <1>0, <1>1, Zenon DEF LInv, KindsOK
  <2>2. \A cp \in excluded' : Kind(Style, cp) = "zero"
    BY <1>0, <1>1, Zenon DEF LInv, KindsOK
  <2>3. lost = 0 => \A cp \in failed' : Kind(Style, cp) \in {"hard", "low", "bad"}
    BY <1>0, <1>1 DEF LInv, KindsOK
  <2>4. lost = 0 => todo \subseteq arrived
    BY <1>1 DEF LInv, KindsOK
  <2>5. \A cp \in Range(low) : Kind(Style, cp) = "low"
    BY <1>1, Zenon DEF LInv, KindsOK
  <2> QED
    BY <1>2, <1>6, <2>1, <2>2, <2>3, <2>4, <2>5 DEF KindsOK
<1>12. PagesOK'
  BY <1>7 DEF PagesOK
<1>13. lost \in Nat /\ lost' \in Nat /\ lost' >= lost
  BY DEF LInv, TypeOK
<1>14. Memo(state, lost) /\ state.id = id
  BY <1>1, Zenon DEF LInv, MemoOK
<1> QED
  BY <1>1, <1>2, <1>3, <1>4, <1>8, <1>9, <1>10, <1>11, <1>12, <1>13, <1>14

LEMMA MissingCellStep ==
    ASSUME LInv, MissingCell
    PROVE  LInv' /\ pc' \in Working
<1>1. /\ pc = "cells" /\ todo # {} /\ Cursor \notin arrived
      /\ failed' = failed \cup {Cursor} /\ todo' = todo \ {Cursor}
      /\ UNCHANGED <<disk, at, pc, id, plan, arrived, since, easy, refined, low, excluded, state,
                     final, bounds, calm>>
  BY Zenon DEF MissingCell
<1>2. UNCHANGED <<ckpt, models, fonts, at, pc, id, plan, arrived, easy, refined, low, excluded, state,
                  font, step, delivered, lost, calm>>
  BY <1>1 DEF disk, final, bounds
<1>3. Cursor \in todo
  BY <1>1, CursorIsToCome, Zenon DEF LInv, TypeOK
<1>4. lost # 0
  BY <1>1, <1>3 DEF LInv, KindsOK, Working
<1>5. pc' \in {"cells", "save"}
  BY <1>1, <1>2
<1>6. /\ TypeOK' /\ IdOK' /\ ListsOK' /\ KindsOK' /\ PagesOK' /\ pc \in Working /\ pc' \in Working
      /\ lost \in Nat /\ lost' \in Nat /\ lost' >= lost
  BY <1>1, <1>2, <1>3, <1>4, <1>5, CellStep
<1>7. MemoOK'
  BY <1>2, <1>6, MemoStep, Zenon DEF LInv
<1> QED
  BY <1>6, <1>7 DEF LInv

LEMMA ZeroInkStep ==
    ASSUME LInv, ZeroInk
    PROVE  LInv' /\ pc' \in Working
<1>1. /\ pc = "cells" /\ Cursor \in todo /\ Kind(Style, Cursor) = "zero"
      /\ excluded' = excluded \cup {Cursor} /\ todo' = todo \ {Cursor}
      /\ UNCHANGED <<disk, at, pc, id, plan, arrived, since, easy, refined, failed, low, state, final,
                     bounds, calm>>
  BY DEF ZeroInk
<1>2. UNCHANGED <<ckpt, models, fonts, at, pc, id, plan, arrived, easy, refined, failed, low, state,
                  font, step, delivered, lost, calm>>
  BY <1>1 DEF disk, final, bounds
<1>3. pc' \in {"cells", "save"}
  BY <1>1, <1>2
<1>4. /\ TypeOK' /\ IdOK' /\ ListsOK' /\ KindsOK' /\ PagesOK' /\ pc \in Working /\ pc' \in Working
      /\ lost \in Nat /\ lost' \in Nat /\ lost' >= lost
  BY <1>1, <1>2, <1>3, CellStep
<1>5. MemoOK'
  BY <1>2, <1>4, MemoStep, Zenon DEF LInv
<1> QED
  BY <1>4, <1>5 DEF LInv

LEMMA EasyPassStep ==
    ASSUME LInv, EasyPass
    PROVE  LInv' /\ pc' \in Working
<1>1. /\ pc = "cells" /\ Cursor \in todo /\ Kind(Style, Cursor) = "easy"
      /\ easy' = easy \cup {Cursor} /\ todo' = todo \ {Cursor}
      /\ state' = [state EXCEPT !.frozen = @ \cup {Cursor}]
      /\ models' = models \cup {<<id, Cursor>>}
      /\ pc' \in {"cells", "save"}
      /\ UNCHANGED <<ckpt, fonts, at, id, plan, arrived, refined, failed, low, excluded, final, bounds, calm>>
  BY DEF EasyPass, PassesFast
<1>2. UNCHANGED <<ckpt, fonts, at, id, plan, arrived, refined, failed, low, excluded, font, step,
                  delivered, lost, calm>>
  BY <1>1 DEF final, bounds
<1>3. /\ TypeOK' /\ IdOK' /\ ListsOK' /\ KindsOK' /\ PagesOK' /\ pc \in Working /\ pc' \in Working
      /\ lost \in Nat /\ lost' \in Nat /\ lost' >= lost
      /\ Cursor \in id[2] /\ id[2] \subseteq Nat /\ id[1] = Style /\ id # NoId
      /\ Memo(state, lost) /\ state.id = id
  BY <1>1, <1>2, CellStep
<1>4. Memo(state', lost') /\ state'.id = id
  BY <1>1, <1>2, <1>3 DEF Memo
<1>5. \A m \in models' : m \in models \/ Kind(m[1][1], m[2]) = "easy"
  <2>1. <<id, Cursor>>[1] = id /\ <<id, Cursor>>[2] = Cursor
    OBVIOUS
  <2> QED
    BY <2>1, <1>1, <1>3, Zenon
<1>6. MemoOK'
  BY <1>2, <1>3, <1>4, <1>5, MemoStep, Zenon DEF LInv
<1> QED
  BY <1>3, <1>6 DEF LInv

LEMMA FailedGlyphStep ==
    ASSUME LInv, FailedGlyph
    PROVE  LInv' /\ pc' \in Working
<1>1. /\ pc = "cells" /\ Cursor \in todo /\ Kind(Style, Cursor) \in {"hard", "low", "bad"}
      /\ failed' = failed \cup {Cursor} /\ todo' = todo \ {Cursor}
      /\ state' = [state EXCEPT !.failed = @ \cup {Cursor}]
      /\ UNCHANGED <<disk, at, pc, id, plan, arrived, since, easy, refined, low, excluded, final,
                     bounds, calm>>
  BY DEF FailedGlyph
<1>2. UNCHANGED <<ckpt, models, fonts, at, pc, id, plan, arrived, easy, refined, low, excluded, font,
                  step, delivered, lost, calm>>
  BY <1>1 DEF disk, final, bounds
<1>3. pc' \in {"cells", "save"}
  BY <1>1, <1>2
<1>4. /\ TypeOK' /\ IdOK' /\ ListsOK' /\ KindsOK' /\ PagesOK' /\ pc \in Working /\ pc' \in Working
      /\ lost \in Nat /\ lost' \in Nat /\ lost' >= lost
      /\ Cursor \in id[2] /\ id[2] \subseteq Nat /\ id[1] = Style /\ id # NoId
      /\ Memo(state, lost) /\ state.id = id
  BY <1>1, <1>2, <1>3, CellStep
<1>5. Memo(state', lost') /\ state'.id = id
  BY <1>1, <1>2, <1>4 DEF Memo
<1>6. MemoOK'
  BY <1>2, <1>4, <1>5, MemoStep, Zenon DEF LInv
<1> QED
  BY <1>4, <1>6 DEF LInv

LEMMA SaveBatchStep ==
    ASSUME LInv, SaveBatch
    PROVE  LInv' /\ pc' \in Working
<1>1. /\ pc = "save" /\ ckpt' = state /\ pc' = "cells"
      /\ UNCHANGED <<models, fonts, at, id, plan, todo, arrived, glyphs, final, bounds, calm>>
  BY Zenon DEF SaveBatch
<1>2. UNCHANGED <<models, fonts, at, id, plan, todo, arrived, easy, refined, failed, low, excluded,
                  state, font, step, delivered, lost, calm>>
  BY <1>1 DEF glyphs, final, bounds
<1>3. pc \in Working /\ pc' \in Working
  BY <1>1 DEF Working
<1>4. IdOK' /\ Style' = Style
  BY <1>2, <1>3, IdStep, Zenon DEF LInv
<1>5. TypeOK'
  BY <1>1, <1>2 DEF LInv, TypeOK, Stages
<1>6. MemoOK'
  <2>1. lost \in Nat /\ lost' \in Nat /\ lost' >= lost
    BY <1>2 DEF LInv, TypeOK
  <2> QED
    BY <1>1, <1>2, <1>3, <2>1, MemoStep, Zenon DEF LInv
<1>7. ListsOK'
  <2>1. Left' = Left
    BY <1>1, <1>2 DEF Left
  <2> QED
    BY <1>1, <1>2, <1>3, <2>1 DEF LInv, ListsOK, Working
<1>8. KindsOK'
  BY <1>1, <1>2, <1>3, <1>4 DEF LInv, KindsOK
<1>9. PagesOK'
  BY <1>1, <1>2, <1>4 DEF LInv, PagesOK
<1> QED
  BY <1>3, <1>4, <1>5, <1>6, <1>7, <1>8, <1>9 DEF LInv

LEMMA PageCompletedStep ==
    ASSUME LInv, PageCompleted
    PROVE  LInv' /\ pc' \in Working
<1>1. /\ pc = "cells" /\ todo = {} /\ ckpt' = state /\ plan' = Tail(plan)
      /\ pc' = IF plan' = <<>> THEN "refine" ELSE "fetch"
      /\ todo' = IF plan' = <<>> THEN failed ELSE {}
      /\ UNCHANGED <<models, fonts, at, id, arrived, since, glyphs, final, bounds, calm>>
  BY Zenon DEF PageCompleted
<1>2. UNCHANGED <<models, fonts, at, id, arrived, easy, refined, failed, low, excluded, state, font,
                  step, delivered, lost, calm>>
  BY <1>1 DEF glyphs, final, bounds
<1>3. pc \in Working /\ pc' \in Working
  BY <1>1 DEF Working
<1>4. IdOK' /\ Style' = Style
  BY <1>2, <1>3, IdStep, Zenon DEF LInv
<1>5. id[2] \subseteq Nat
  BY <1>3, StyleIs, CoverageAssumption, Zenon DEF LInv, IdOK
<1>6. plan \in Seq(PageT) /\ plan # <<>> /\ PlanOK(plan)
  BY <1>1 DEF LInv, TypeOK, PagesOK
<1>7. plan' \in Seq(PageT) /\ PlanOK(plan') /\ Rest(plan', 1) = Rest(plan, 2)
  BY <1>1, <1>6, FirstPage, Zenon
<1>8. refined = {} /\ failed \subseteq id[2]
  BY <1>1, <1>3 DEF LInv, ListsOK, Working
<1>9. Left' = Left
  <2>1. Left = Rest(plan', 1)
    BY <1>1, <1>7 DEF Left
  <2>2. CASE plan' = <<>>
    BY <1>1, <2>1, <2>2, RestOfNone DEF Left
  <2>3. CASE plan' # <<>>
    BY <1>1, <2>1, <2>3 DEF Left
  <2> QED
    BY <2>2, <2>3
<1>10. TypeOK'
  BY <1>1, <1>2, <1>5, <1>7, <1>8 DEF LInv, TypeOK, Stages
<1>11. MemoOK'
  <2>1. lost \in Nat /\ lost' \in Nat /\ lost' >= lost
    BY <1>2 DEF LInv, TypeOK
  <2> QED
    BY <1>1, <1>2, <1>3, <2>1, MemoStep, Zenon DEF LInv
<1>12. ListsOK'
  BY <1>1, <1>2, <1>3, <1>8, <1>9 DEF LInv, ListsOK, Working
<1>13. KindsOK'
  BY <1>1, <1>2, <1>3, <1>4, <1>8 DEF LInv, KindsOK
<1>14. PagesOK'
  BY <1>1, <1>4, <1>7 DEF PagesOK
<1> QED
  BY <1>3, <1>4, <1>10, <1>11, <1>12, <1>13, <1>14 DEF LInv

-----------------------------------------------------------------------------
(* The refinement *)

LEMMA RefineStep ==
    ASSUME LInv, NEW found \in BOOLEAN, Refine(found)
    PROVE  LInv' /\ pc' \in Working
<1> DEFINE passes == found /\ PassesRefined(Cursor)
<1>1. /\ pc = "refine" /\ todo # {} /\ BaseFound(found) /\ todo' = todo \ {Cursor}
      /\ refined' = IF passes THEN refined \cup {Cursor} ELSE refined
      /\ low' = IF passes /\ Kind(Style, Cursor) = "low" THEN Append(low, Cursor) ELSE low
      /\ state' = IF passes
                  THEN [state EXCEPT !.frozen = @ \cup {Cursor}, !.failed = @ \ {Cursor}]
                  ELSE state
      /\ UNCHANGED <<disk, at, pc, id, plan, arrived, since, easy, failed, excluded, final, stops,
                     outages, calm>>
  BY Zenon DEF Refine
<1>2. UNCHANGED <<ckpt, models, fonts, at, pc, id, plan, easy, failed, excluded, font, step, delivered, calm>>
  BY <1>1 DEF disk, final
<1>3. pc \in Working /\ pc' \in Working
  BY <1>1, <1>2 DEF Working
<1>4. IdOK' /\ Style' = Style
  BY <1>2, <1>3, IdStep, Zenon DEF LInv
<1>5. id[2] \subseteq Nat /\ id[1] = Style /\ id # NoId
  <2>1. id[2] \subseteq Nat
    BY <1>3, StyleIs, CoverageAssumption, Zenon DEF LInv, IdOK
  <2> QED
    BY <2>1, <1>3 DEF LInv, IdOK, NoId
<1>6. Cursor \in todo
  BY <1>1, CursorIsToCome, Zenon DEF LInv, TypeOK
<1>7. lost \in Nat /\ lost' \in Nat /\ lost' >= lost /\ (lost' = 0 => lost = 0 /\ found)
  <2>1. lost \in Nat /\ lost' = IF found THEN lost ELSE lost + 1
    BY <1>1 DEF LInv, TypeOK, BaseFound
  <2> QED
    BY <2>1
<1>8. /\ todo \subseteq failed /\ refined \cap todo = {} /\ refined \subseteq failed /\ failed \subseteq id[2]
      /\ Range(low) \subseteq id[2] /\ low \in Seq(Nat)
  BY <1>1, <1>3 DEF LInv, ListsOK, Working
<1>9. /\ refined' \subseteq refined \cup {Cursor} /\ refined \subseteq refined' /\ low' \in Seq(Nat)
      /\ Range(low') = IF passes /\ Kind(Style, Cursor) = "low"
                       THEN Range(low) \cup {Cursor} ELSE Range(low)
  <2>1. Cursor \in Nat
    BY <1>5, <1>6, <1>8
  <2>2. Append(low, Cursor) \in Seq(Nat) /\ Range(Append(low, Cursor)) = Range(low) \cup {Cursor}
    BY <2>1, <1>8, Listed
  <2> HIDE DEF passes
  <2> QED
    BY <2>2, <1>1, <1>8
<1>10. TypeOK'
  BY <1>1, <1>2, <1>5, <1>6, <1>7, <1>8, <1>9 DEF LInv, TypeOK
<1>11. MemoOK'
  <2>1. Memo(state, lost') /\ state.id = id
    BY <1>3, <1>7, MemoHolds, Zenon DEF LInv, MemoOK
  <2>2. Cursor \in id[2] /\ Cursor \in Nat
    BY <1>5, <1>6, <1>8
  <2>3. state' = state \/ state' = [state EXCEPT !.frozen = @ \cup {Cursor}, !.failed = @ \ {Cursor}]
    BY <1>1, Zenon
  <2>4. state' = state \/ (Memo(state', lost') /\ state'.id = id)
    <3>1. SUFFICES ASSUME state' = [state EXCEPT !.frozen = @ \cup {Cursor}, !.failed = @ \ {Cursor}]
                   PROVE  Memo(state', lost') /\ state'.id = id
      BY <2>3, Zenon
    <3> QED
      BY <2>1, <2>2, <3>1, <1>5 DEF Memo
  <2> QED
    BY <1>2, <1>3, <1>7, <2>4, MemoStep, Zenon DEF LInv
<1>12. ListsOK'
  <2>1. Left' = {} /\ Left = {}
    BY <1>1, <1>2 DEF Left
  <2> QED
    BY <2>1, <1>1, <1>2, <1>3, <1>6, <1>8, <1>9 DEF LInv, ListsOK, Working
<1>13. KindsOK'
  <2>1. /\ \A cp \in easy : Kind(Style, cp) = "easy"
        /\ \A cp \in excluded : Kind(Style, cp) = "zero"
        /\ \A cp \in Range(low) : Kind(Style, cp) = "low"
        /\ \A cp \in refined : Kind(Style, cp) = "low" => cp \in Range(low)
        /\ lost = 0 =>
             /\ \A cp \in failed : Kind(Style, cp) \in {"hard", "low", "bad"}
             /\ \A cp \in refined : Kind(Style, cp) \in {"hard", "low"}
             /\ \A cp \in failed \ todo : cp \in refined \/ Kind(Style, cp) = "bad"
    BY <1>1, <1>3 DEF LInv, KindsOK
  <2>2. \A cp \in Range(low') : Kind(Style, cp) = "low"
    BY <2>1, <1>9, Zenon
  <2>3. \A cp \in refined' : Kind(Style, cp) = "low" => cp \in Range(low')
    <3>1. TAKE cp \in refined'
    <3>2. CASE cp \in refined
      BY <3>2, <2>1, <1>9, Zenon
    <3>3. CASE cp \notin refined
      <4>1. cp = Cursor /\ passes
        BY <3>3, <1>1, Zenon
      <4> QED
        BY <4>1, <1>9, Zenon
    <3> QED
      BY <3>2, <3>3
  <2>4. ASSUME lost' = 0
        PROVE  /\ \A cp \in failed : Kind(Style, cp) \in {"hard", "low", "bad"}
               /\ \A cp \in refined' : Kind(Style, cp) \in {"hard", "low"}
               /\ \A cp \in failed \ todo' : cp \in refined' \/ Kind(Style, cp) = "bad"
    <3>1. lost = 0 /\ found = TRUE
      BY <2>4, <1>7
    <3>2. Kind(Style, Cursor) \in {"hard", "low", "bad"}
      BY <3>1, <2>1, <1>6, <1>8
    <3>3. passes <=> Kind(Style, Cursor) \in {"hard", "low"}
      BY <3>1, <3>2 DEF PassesRefined
    <3>4. \A cp \in refined' : Kind(Style, cp) \in {"hard", "low"}
      BY <3>1, <3>3, <2>1, <1>1, Zenon
    <3>5. Cursor \in refined' \/ Kind(Style, Cursor) = "bad"
      BY <3>2, <3>3, <1>1
    <3>6. \A cp \in failed \ todo' : cp \in failed \ todo \/ cp = Cursor
      BY <1>1
    <3>7. \A cp \in failed \ todo' : cp \in refined' \/ Kind(Style, cp) = "bad"
      BY <3>1, <3>5, <3>6, <2>1, <1>9, Zenon
    <3> QED
      BY <3>1, <3>4, <3>7, <2>1
  <2> QED
    BY <2>1, <2>2, <2>3, <2>4, <1>1, <1>2, <1>4 DEF KindsOK
<1>14. PagesOK'
  BY <1>1, <1>2 DEF PagesOK
<1> QED
  BY <1>3, <1>4, <1>10, <1>11, <1>12, <1>13, <1>14 DEF LInv

LEMMA RefinementEndsStep ==
    ASSUME LInv, RefinementEnds
    PROVE  LInv' /\ pc' \in Working
<1>1. /\ pc = "refine" /\ todo = {} /\ failed' = failed \ refined
      /\ state' = IF failed = {} THEN state ELSE [state EXCEPT !.failed = failed', !.low = low]
      /\ ckpt' = IF failed = {} THEN ckpt ELSE state'
      /\ pc' = "assemble"
      /\ UNCHANGED <<models, fonts, at, id, pages, easy, refined, low, excluded, final, bounds, calm>>
  BY Zenon DEF RefinementEnds
<1>2. UNCHANGED <<models, fonts, at, id, plan, todo, easy, refined, low, excluded, font, step,
                  delivered, lost, calm>>
  BY <1>1 DEF pages, final, bounds
<1>3. pc \in Working /\ pc' \in Working
  BY <1>1 DEF Working
<1>4. IdOK' /\ Style' = Style
  BY <1>2, <1>3, IdStep, Zenon DEF LInv
<1>5. id[2] \subseteq Nat /\ id[1] = Style /\ id # NoId
  <2>1. id[2] \subseteq Nat
    BY <1>3, StyleIs, CoverageAssumption, Zenon DEF LInv, IdOK
  <2> QED
    BY <2>1, <1>3 DEF LInv, IdOK, NoId
<1>6. TypeOK'
  BY <1>1, <1>2 DEF LInv, TypeOK, Stages
<1>7. /\ \A cp \in Range(low) : Kind(Style, cp) = "low"
      /\ lost = 0 =>
           /\ \A cp \in failed : Kind(Style, cp) \in {"hard", "low", "bad"}
           /\ \A cp \in failed : cp \in refined \/ Kind(Style, cp) = "bad"
  BY <1>1, <1>3 DEF LInv, KindsOK
<1>8. failed \subseteq id[2] /\ Range(low) \subseteq id[2] /\ low \in Seq(Nat) /\ refined \subseteq failed
  BY <1>1, <1>3 DEF LInv, ListsOK, Working
<1>9. MemoOK'
  <2>1. Memo(state, lost) /\ state.id = id
    BY <1>3, Zenon DEF LInv, MemoOK
  <2>2. CASE failed = {}
    <3>1. state' = state /\ ckpt' = ckpt /\ lost \in Nat /\ lost' \in Nat /\ lost' >= lost
      BY <1>1, <1>2, <2>2 DEF LInv, TypeOK
    <3> QED
      BY <1>2, <1>3, <3>1, MemoStep, Zenon DEF LInv
  <2>3. CASE failed # {}
    <3>1. state' = [state EXCEPT !.failed = failed', !.low = low] /\ ckpt' = state'
      BY <1>1, <2>3, Zenon
    <3>2. failed' \subseteq id[2] /\ (lost = 0 => \A cp \in failed' : Kind(Style, cp) \in {"hard", "low", "bad"})
      BY <1>1, <1>7, <1>8, Zenon
    <3>3. Memo(state', lost') /\ state'.id = id
      BY <2>1, <3>1, <3>2, <1>2, <1>5, <1>7, <1>8 DEF Memo
    <3>4. lost \in Nat /\ lost' \in Nat /\ lost' >= lost
      BY <1>2 DEF LInv, TypeOK
    <3> QED
      BY <1>2, <1>3, <3>1, <3>3, <3>4, MemoStep, Zenon DEF LInv
  <2> QED
    BY <2>2, <2>3
<1>10. ListsOK'
  <2>1. Left = {}
    BY <1>1 DEF Left
  <2>2. /\ easy \cap failed = {} /\ easy \cap excluded = {} /\ failed \cap excluded = {}
        /\ easy \cup failed \cup excluded \cup refined \cup Range(low) \subseteq id[2]
        /\ easy \cup failed \cup excluded = id[2] /\ refined \subseteq failed
    BY <2>1, <1>1, <1>3 DEF LInv, ListsOK, Working
  <2>3. /\ easy \cap failed' = {} /\ easy \cap excluded = {} /\ failed' \cap excluded = {}
        /\ easy \cup failed' \cup excluded \cup refined \cup Range(low) \subseteq id[2]
        /\ easy \cup refined \cup failed' \cup excluded = id[2]
        /\ refined \cap (easy \cup failed' \cup excluded) = {}
    BY <2>2, <1>1
  <2> QED
    BY <2>3, <1>1, <1>2, <1>8 DEF ListsOK
<1>11. KindsOK'
  BY <1>1, <1>2, <1>3, <1>4, <1>7 DEF LInv, KindsOK
<1>12. PagesOK'
  BY <1>1 DEF PagesOK
<1> QED
  BY <1>3, <1>4, <1>6, <1>9, <1>10, <1>11, <1>12 DEF LInv

-----------------------------------------------------------------------------
(* The start of a run *)

LEMMA FontFacts ==
    /\ NoFont \in FontT /\ Torn \in FontT /\ BinaryFont \in FontT
    /\ Torn # NoFont /\ Sound(BinaryFont)
<1>1. NoFont \in FontT /\ Torn \in FontT /\ BinaryFont \in FontT
  BY DEF FontT, NoFont, Torn, BinaryFont
<1>2. NoFont.easy = {} /\ Torn.easy = {-1} /\ BinaryFont.easy = {-2}
  BY DEF NoFont, Torn, BinaryFont
<1>3. {-1} # {} /\ {-2} # {} /\ {-1} # {-2}
  <2>1. -1 \in {-1} /\ -2 \in {-2} /\ -1 \notin {-2}
    OBVIOUS
  <2> QED
    BY <2>1, Zenon
<1> QED
  BY <1>1, <1>2, <1>3, Zenon DEF Sound

\* As long as nothing was damaged a miss means that no report was ever written.
LEMMA MissMeansNone ==
    ASSUME TypeOK, FontsOK, ~CacheHit, calm
    PROVE  fonts[Style].report = NoFont
<1>1. EntryOK(fonts[Style], calm)
  BY StyleIs, Zenon DEF FontsOK
<1> QED
  BY <1>1, Zenon DEF CacheHit, Readable, EntryOK, Sound

LEMMA StartStep ==
    ASSUME IInv, NEW coverage, Start(coverage)
    PROVE  IInv'
<1> DEFINE i == <<Style, coverage>>
           loaded == LoadCheckpoint(i)
<1>1. /\ pc = "probe" /\ ~CacheHit /\ coverage \in Coverages(Style)
      /\ id' = i
      /\ state' = [loaded EXCEPT !.frozen = {cp \in loaded.frozen : <<i, cp>> \in models}]
      /\ easy' = state'.frozen /\ failed' = state'.failed \ state'.frozen /\ low' = state'.low
      /\ refined' = {} /\ excluded' = {}
      /\ pc' = "metrics"
      /\ UNCHANGED <<disk, at, pages, final, bounds, calm>>
  BY DEF Start, Observed, Restored
<1>2. UNCHANGED <<ckpt, models, fonts, at, plan, todo, font, step, delivered, lost, calm>>
  BY <1>1 DEF disk, pages, final, bounds
<1>3. pc' \in Working /\ Style' = Style
  BY <1>1, <1>2 DEF Working, Style
<1>4. i # NoId /\ i[1] = Style /\ i[2] = coverage
  BY DEF NoId
<1>5. coverage \subseteq Nat
  BY <1>1, StyleIs, CoverageAssumption, Zenon DEF IInv, LInv
<1>6. Memo(loaded, lost) /\ loaded.id = i
  <2>1. CASE ckpt.id = i
    BY <2>1, Zenon DEF LoadCheckpoint, IInv, LInv, MemoOK
  <2>2. CASE ckpt.id # i
    BY <2>2, FreshMemo, Zenon DEF LoadCheckpoint
  <2> QED
    BY <2>1, <2>2
<1> HIDE DEF loaded
<1> HIDE DEF i
<1>7. /\ loaded \in [id : {loaded.id}, frozen : SUBSET Nat, failed : SUBSET Nat, low : Seq(Nat)]
      /\ loaded.frozen \cup loaded.failed \cup Range(loaded.low) \subseteq coverage
      /\ \A cp \in Range(loaded.low) : Kind(Style, cp) = "low"
      /\ lost = 0 => \A cp \in loaded.failed : Kind(Style, cp) \in {"hard", "low", "bad"}
  BY <1>4, <1>6 DEF Memo
<1>8. /\ state' \in [id : {state'.id}, frozen : SUBSET Nat, failed : SUBSET Nat, low : Seq(Nat)]
      /\ state'.id = i /\ state'.failed = loaded.failed /\ state'.low = loaded.low
      /\ state'.frozen = {cp \in loaded.frozen : <<i, cp>> \in models}
  BY <1>1, <1>6, <1>7
<1>9. \A cp \in state'.frozen : Kind(Style, cp) = "easy"
  <2>1. TAKE cp \in state'.frozen
  <2>2. <<i, cp>> \in models
    BY <1>8
  <2>3. <<i, cp>>[1] = i /\ <<i, cp>>[2] = cp
    OBVIOUS
  <2> QED
    BY <2>2, <2>3, <1>4, Zenon DEF IInv, LInv, MemoOK
<1>10. /\ state'.frozen \subseteq coverage /\ state'.failed \subseteq coverage /\ Range(state'.low) \subseteq coverage
  BY <1>7, <1>8
<1>11. TypeOK'
  BY <1>1, <1>2, <1>5, <1>10 DEF IInv, LInv, TypeOK, Stages
<1>12. MemoOK'
  <2>1. Memo(state', lost')
    BY <1>2, <1>4, <1>7, <1>8, <1>10, Zenon DEF Memo
  <2>2. Memo(ckpt', lost') /\ \A m \in models' : Kind(m[1][1], m[2]) = "easy"
    BY <1>2, Zenon DEF IInv, LInv, MemoOK
  <2> QED
    BY <2>1, <2>2, <1>1, <1>8 DEF MemoOK, Memo, NoId, Fresh
<1>13. IdOK'
  BY <1>1, <1>3, <1>4 DEF IdOK, i
<1>14. ListsOK'
  <2>1. low' \in Seq(Nat) /\ Range(low') \subseteq coverage
    BY <1>1, <1>8, <1>10
  <2> QED
    BY <2>1, <1>1, <1>4, <1>10 DEF ListsOK
<1>15. KindsOK'
  BY <1>1, <1>2, <1>3, <1>7, <1>8, <1>9 DEF KindsOK
<1>16. PagesOK'
  BY <1>1 DEF PagesOK
<1>17. FontsOK'
  <2>1. calm => fonts[Style].report = NoFont
    BY <1>1, MissMeansNone, Zenon DEF IInv, LInv
  <2> QED
    BY <2>1, <1>1, <1>2, <1>3 DEF IInv, FontsOK, EntryOK, Sound
<1>18. HitIsWhole'
  BY <1>2, Zenon DEF IInv, HitIsWhole
<1> QED
  BY <1>11, <1>12, <1>13, <1>14, <1>15, <1>16, <1>17, <1>18 DEF IInv, LInv

-----------------------------------------------------------------------------
(* The fonts *)

\* The end of a run, which leaves the style or the process.
LEMMA DropStep ==
    ASSUME IInv, Drop, pc' \in {"probe", "done", "failed"}, at' \in 1..Len(StyleSeq),
           ckpt' = ckpt, \A m \in models' : m \in models, lost' = lost, calm' \in BOOLEAN,
           fonts' \in [Styles -> EntryT], delivered' \in [Styles -> [ttf : FontT, otf : FontT]],
           \A s \in Styles : EntryOK(fonts'[s], calm'),
           \A s \in Styles : Torn \notin {delivered'[s].ttf, delivered'[s].otf}
                              /\ (calm' => delivered'[s].ttf = delivered'[s].otf)
    PROVE  IInv'
<1>1. plan' = <<>> /\ todo' = {} /\ easy' = {} /\ refined' = {} /\ font' = NoFont /\ step' = 0
  BY Zenon DEF Drop
<1>2. TypeOK'
  <2>1. pc' \in Stages /\ step' \in 0..5
    BY <1>1 DEF Stages
  <2>2. plan' \in Seq(PageT) /\ font' \in FontT
    BY <1>1, RestOfNone, FontFacts, Zenon
  <2> QED
    BY <1>1, <2>1, <2>2 DEF TypeOK, IInv, LInv
<1>3. MemoOK' /\ IdOK' /\ ListsOK' /\ KindsOK' /\ PagesOK'
  <2>1. pc' \in {"probe", "done", "failed", "persist"}
    OBVIOUS
  <2> QED
    BY <2>1, IdleStep, Zenon DEF IInv, LInv
<1>4. FontsOK'
  <2>1. pc' \notin Working \cup {"persist"} /\ pc' # "persist"
    BY DEF Working
  <2> QED
    BY <2>1, Zenon DEF FontsOK
<1>5. HitIsWhole'
  BY Zenon DEF HitIsWhole
<1> QED
  BY <1>2, <1>3, <1>4, <1>5, Zenon DEF IInv, LInv

\* A font is handed on.
LEMMA HandStep ==
    ASSUME IInv, NEW ttf \in FontT, NEW otf \in FontT, Hand(ttf, otf),
           ttf # Torn, otf # Torn, calm' => ttf = otf /\ calm,
           ckpt' = ckpt, models' = models, lost' = lost, calm' \in BOOLEAN,
           fonts' \in [Styles -> EntryT], \A s \in Styles : EntryOK(fonts'[s], calm')
    PROVE  IInv'
<1>1. /\ Drop /\ delivered' = [delivered EXCEPT ![Style] = [ttf |-> ttf, otf |-> otf]]
      /\ at' = (IF at < Len(StyleSeq) THEN at + 1 ELSE at)
      /\ pc' \in {"probe", "done", "failed"}
  BY DEF Hand
<1>2. Style \in Styles
  BY StyleIs, Zenon DEF IInv, LInv
<1>3. delivered \in [Styles -> [ttf : FontT, otf : FontT]]
  BY DEF IInv, LInv, TypeOK
<1>4. delivered' \in [Styles -> [ttf : FontT, otf : FontT]]
  BY <1>1, <1>2, <1>3
<1>5. at' \in 1..Len(StyleSeq)
  <2>1. at \in 1..Len(StyleSeq) /\ Len(StyleSeq) \in Nat
    BY StylesAre DEF IInv, LInv, TypeOK
  <2> QED
    BY <1>1, <2>1
<1>6. ASSUME NEW s \in Styles
      PROVE  Torn \notin {delivered'[s].ttf, delivered'[s].otf}
             /\ (calm' => delivered'[s].ttf = delivered'[s].otf)
  <2>1. CASE s = Style
    <3>1. delivered'[s].ttf = ttf /\ delivered'[s].otf = otf
      BY <2>1, <1>1, <1>2, <1>3
    <3> QED
      BY <3>1, Zenon
  <2>2. CASE s # Style
    <3>1. delivered'[s] = delivered[s]
      BY <2>2, <1>1, <1>3
    <3> QED
      BY <3>1, Zenon DEF IInv, HitIsWhole
  <2> QED
    BY <2>1, <2>2
<1>7. \A m \in models' : m \in models
  BY Zenon
<1> QED
  BY <1>1, <1>4, <1>5, <1>6, <1>7, DropStep, Zenon

LEMMA ProbeFontCacheStep ==
    ASSUME IInv, ProbeFontCache
    PROVE  IInv'
<1> DEFINE f == fonts[Style]
<1>1. CacheHit /\ Hand(f.ttf, f.otf) /\ UNCHANGED <<ckpt, models, fonts, lost, calm>>
  BY DEF ProbeFontCache, disk, bounds
<1>2. EntryOK(f, calm) /\ f \in EntryT
  BY StyleIs, Zenon DEF IInv, LInv, FontsOK, TypeOK
<1> HIDE DEF f
<1>3. f.ttf \in FontT /\ f.otf \in FontT
  BY <1>2 DEF EntryT
<1>4. /\ Readable(f.ttf, f.ttfSum) /\ Readable(f.otf, f.otfSum) /\ f.report # NoFont
  BY <1>1, Zenon DEF CacheHit, f
<1>5. f.ttf # Torn /\ f.otf # Torn /\ (calm => f.ttf = f.otf)
  BY <1>2, <1>4, Zenon DEF EntryOK, Readable
<1>6. calm' \in BOOLEAN /\ fonts' \in [Styles -> EntryT] /\ \A s \in Styles : EntryOK(fonts'[s], calm')
  BY <1>1, Zenon DEF IInv, LInv, TypeOK, FontsOK
<1> QED
  BY <1>1, <1>3, <1>5, <1>6, HandStep, Zenon

LEMMA PersistSkippedStep ==
    ASSUME IInv, PersistSkipped
    PROVE  IInv'
<1>1. pc = "persist" /\ Hand(font, font) /\ calm' = FALSE /\ UNCHANGED <<ckpt, models, fonts, lost>>
  BY DEF PersistSkipped, disk, bounds
<1>2. font \in FontT /\ font # Torn
  BY <1>1, Zenon DEF IInv, LInv, TypeOK, FontsOK, Sound
<1>3. calm' \in BOOLEAN /\ fonts' \in [Styles -> EntryT]
  BY <1>1 DEF IInv, LInv, TypeOK
<1>4. \A s \in Styles : EntryOK(fonts'[s], calm')
  BY <1>1, Zenon DEF IInv, FontsOK, EntryOK
<1> QED
  BY <1>1, <1>2, <1>3, <1>4, HandStep, Zenon

\* The entry with the file of a step written, and what that leaves of the rest.
WithFile(f, k, x) == [f EXCEPT ![Steps[k]] = x]

OneFile(f, k, x, g) ==
    /\ g.ttf = (IF k = 1 THEN x ELSE f.ttf) /\ g.ttfSum = (IF k = 2 THEN x ELSE f.ttfSum)
    /\ g.otf = (IF k = 3 THEN x ELSE f.otf) /\ g.otfSum = (IF k = 4 THEN x ELSE f.otfSum)
    /\ g.report = (IF k = 5 THEN x ELSE f.report)

LEMMA FileIsWritten ==
    ASSUME NEW f \in EntryT, NEW x \in FontT, NEW k \in 1..5
    PROVE  WithFile(f, k, x) \in EntryT /\ OneFile(f, k, x, WithFile(f, k, x))
<1>1. CASE k = 1
  BY <1>1 DEF WithFile, OneFile, Steps, EntryT
<1>2. CASE k = 2
  BY <1>2 DEF WithFile, OneFile, Steps, EntryT
<1>3. CASE k = 3
  BY <1>3 DEF WithFile, OneFile, Steps, EntryT
<1>4. CASE k = 4
  BY <1>4 DEF WithFile, OneFile, Steps, EntryT
<1>5. CASE k = 5
  BY <1>5 DEF WithFile, OneFile, Steps, EntryT
<1> QED
  BY <1>1, <1>2, <1>3, <1>4, <1>5

LEMMA PersistStep ==
    ASSUME IInv, Persist
    PROVE  IInv'
<1>1. /\ pc = "persist" /\ fonts' = [fonts EXCEPT ![Style][Steps[step]] = font]
      /\ UNCHANGED <<ckpt, models, bounds, calm>>
  BY DEF Persist
<1>2. lost' = lost
  BY <1>1 DEF bounds
<1>3. Style \in Styles /\ fonts \in [Styles -> EntryT] /\ font \in FontT /\ calm \in BOOLEAN
  BY StyleIs, Zenon DEF IInv, LInv, TypeOK
<1>4. PICK k \in 1..5 : k = step
  BY <1>1, Zenon DEF IInv, FontsOK
<1> DEFINE f == fonts[Style]
           g == WithFile(f, k, font)
<1>5. f \in EntryT
  BY <1>3
<1>6. g \in EntryT /\ OneFile(f, k, font, g)
  BY <1>3, <1>5, FileIsWritten, Zenon
<1>7. fonts' \in [Styles -> EntryT] /\ fonts'[Style] = g /\ \A s \in Styles : s # Style => fonts'[s] = fonts[s]
  <2>1. fonts' = [fonts EXCEPT ![Style] = g]
    BY <1>1, <1>3, <1>4 DEF WithFile
  <2> HIDE DEF g
  <2> QED
    BY <2>1, <1>3, <1>6
<1>8. /\ Sound(font) /\ EntryOK(f, calm) /\ Written(f) /\ (calm => f.report = NoFont)
  BY <1>1, <1>3, Zenon DEF IInv, FontsOK
<1> HIDE DEF f, g
<1>9. /\ k > 1 /\ calm => f.ttf = font
      /\ k > 2 => f.ttfSum = font
      /\ k > 3 /\ calm => f.otf = font
      /\ k > 4 => f.otfSum = font
  BY <1>4, <1>8, Zenon DEF Written
<1>10. /\ k # 1 => k > 1
       /\ k = 5 => k > 1 /\ k > 2 /\ k > 3 /\ k > 4 /\ k # 1 /\ k # 2 /\ k # 3 /\ k # 4
  OBVIOUS
<1>11. EntryOK(g, calm)
  <2>1. CASE k = 5
    BY <2>1, <1>6, <1>8, <1>9, <1>10, Zenon DEF EntryOK, Sound, OneFile
  <2>2. CASE k # 5
    BY <2>2, <1>6, <1>8, Zenon DEF EntryOK, Sound, OneFile
  <2> QED
    BY <2>1, <2>2
<1>12. \A s \in Styles : EntryOK(fonts'[s], calm')
  <2>1. \A s \in Styles : EntryOK(fonts[s], calm)
    BY Zenon DEF IInv, FontsOK
  <2> QED
    BY <2>1, <1>1, <1>7, <1>11, Zenon
<1>13. CASE step < Len(Steps)
  <2>1. step' = step + 1 /\ UNCHANGED <<at, pc, id, pages, glyphs, font, delivered>>
    BY <1>13, Zenon DEF Persist
  <2>2. UNCHANGED <<at, pc, plan, todo, easy, refined, font, delivered>>
    BY <2>1 DEF pages, glyphs
  <2>3. k < 5 /\ step' = k + 1 /\ step' \in 1..5 /\ step' \in 0..5
    <3>1. Len(Steps) = 5
      BY DEF Steps
    <3> QED
      BY <1>4, <1>13, <2>1, <3>1
  <2>4. TypeOK'
    BY <1>1, <1>2, <1>7, <2>2, <2>3 DEF IInv, LInv, TypeOK
  <2>5. MemoOK' /\ IdOK' /\ ListsOK' /\ KindsOK' /\ PagesOK'
    <3>1. pc' \in {"probe", "done", "failed", "persist"} /\ \A m \in models' : m \in models
      BY <1>1, <2>2
    <3> QED
      BY <3>1, <1>1, <1>2, IdleStep, Zenon DEF IInv, LInv
  <2>6. Style' = Style /\ fonts'[Style'] = g
    BY <1>7, <2>2, Zenon DEF Style
  <2>7. /\ k + 1 > 2 => k > 1 /\ (k # 2 => k > 2)
        /\ k + 1 > 3 => k > 2 /\ (k # 3 => k > 3)
        /\ k + 1 > 4 => k > 3 /\ (k # 4 => k > 4)
        /\ k + 1 > 1
        /\ k + 1 > 2 => k + 1 > 1
    OBVIOUS
  <2>8. /\ calm => g.ttf = font
        /\ k + 1 > 2 => g.ttfSum = font
        /\ k + 1 > 3 /\ calm => g.otf = font
        /\ k + 1 > 4 => g.otfSum = font
    BY <1>6, <1>9, <1>10, <2>7, Zenon DEF OneFile
  <2>9. FontsOK'
    <3>1. step' > 1 /\ calm' => fonts'[Style'].ttf = font'
      BY <1>1, <2>2, <2>3, <2>6, <2>8, Zenon
    <3>2. step' > 2 => fonts'[Style'].ttfSum = font'
      BY <1>1, <2>2, <2>3, <2>6, <2>8, Zenon
    <3>3. step' > 3 /\ calm' => fonts'[Style'].otf = font'
      BY <1>1, <2>2, <2>3, <2>6, <2>8, Zenon
    <3>4. step' > 4 => fonts'[Style'].otfSum = font'
      BY <1>1, <2>2, <2>3, <2>6, <2>8, Zenon
    <3>5. Written(fonts[Style])'
      BY <3>1, <3>2, <3>3, <3>4, Zenon DEF Written
    <3>6. calm' => fonts'[Style'].report = NoFont
      <4>1. k # 5
        BY <2>3
      <4> QED
        BY <4>1, <1>1, <1>6, <1>8, <2>6, Zenon DEF OneFile
    <3>7. Sound(font') /\ step' \in 1..5
      BY <1>8, <2>2, <2>3, Zenon
    <3> QED
      BY <3>5, <3>6, <3>7, <1>12, Zenon DEF FontsOK, Sound
  <2>10. HitIsWhole'
    BY <1>1, <2>2, Zenon DEF IInv, HitIsWhole
  <2> QED
    BY <2>4, <2>5, <2>9, <2>10, Zenon DEF IInv, LInv
<1>14. CASE ~(step < Len(Steps))
  <2>1. Hand(font, font)
    BY <1>14, Zenon DEF Persist
  <2>2. font # Torn /\ calm' \in BOOLEAN /\ (calm' => font = font /\ calm) /\ models' = models /\ ckpt' = ckpt
    BY <1>1, <1>3, <1>8, Zenon DEF Sound
  <2> QED
    BY <1>2, <1>3, <1>7, <1>12, <2>1, <2>2, HandStep, Zenon
<1> QED
  BY <1>13, <1>14

-----------------------------------------------------------------------------
(* The other ends of a run *)

LEMMA BinaryWinStep ==
    ASSUME IInv, BinaryWin
    PROVE  IInv'
<1>1. /\ ~CacheHit /\ font' = BinaryFont /\ step' = 1 /\ pc' = "persist"
      /\ UNCHANGED <<disk, at, id, pages, glyphs, delivered, bounds, calm>>
  BY DEF BinaryWin
<1>2. UNCHANGED <<ckpt, models, fonts, at, id, plan, todo, easy, refined, delivered, lost, calm>>
  BY <1>1 DEF disk, pages, glyphs, bounds
<1>3. TypeOK'
  BY <1>1, <1>2, FontFacts DEF IInv, LInv, TypeOK, Stages
<1>4. MemoOK' /\ IdOK' /\ ListsOK' /\ KindsOK' /\ PagesOK'
  <2>1. pc' \in {"probe", "done", "failed", "persist"} /\ \A m \in models' : m \in models
    BY <1>1, <1>2
  <2> QED
    BY <1>2, <2>1, IdleStep, Zenon DEF IInv, LInv
<1>5. FontsOK'
  <2>1. Style' = Style /\ (calm => fonts[Style].report = NoFont)
    BY <1>1, <1>2, MissMeansNone, Zenon DEF Style, IInv, LInv
  <2>2. Sound(font') /\ step' \in 1..5 /\ ~(step' > 1) /\ ~(step' > 2) /\ ~(step' > 3) /\ ~(step' > 4)
    <3>1. Sound(font')
      BY <1>1, FontFacts, Zenon
    <3> QED
      BY <3>1, <1>1
  <2>3. Written(fonts[Style])'
    BY <2>2, Zenon DEF Written
  <2>4. \A s \in Styles : EntryOK(fonts'[s], calm')
    BY <1>2, Zenon DEF IInv, FontsOK
  <2>5. font' \notin {NoFont, Torn} /\ pc' = "persist"
    BY <2>2, <1>1, Zenon DEF Sound
  <2> QED
    BY <2>1, <2>2, <2>3, <2>4, <2>5, <1>2, Zenon DEF FontsOK, Sound
<1>6. HitIsWhole'
  BY <1>2, Zenon DEF IInv, HitIsWhole
<1> QED
  BY <1>3, <1>4, <1>5, <1>6, Zenon DEF IInv, LInv

\* The attempt fails with what it had.
LEMMA FailedStep ==
    ASSUME IInv, pc' = "failed",
           UNCHANGED <<ckpt, models, fonts, at, plan, todo, easy, refined, delivered, lost, calm>>,
           font' \in FontT, step' \in 0..5
    PROVE  IInv'
<1>1. TypeOK'
  BY DEF IInv, LInv, TypeOK, Stages
<1>2. MemoOK' /\ IdOK' /\ ListsOK' /\ KindsOK' /\ PagesOK'
  <2>1. pc' \in {"probe", "done", "failed", "persist"} /\ \A m \in models' : m \in models
    OBVIOUS
  <2> QED
    BY <2>1, IdleStep, Zenon DEF IInv, LInv
<1>3. FontsOK'
  <2>1. pc' \notin Working \cup {"persist"} /\ pc' # "persist"
    BY DEF Working
  <2> QED
    BY <2>1, Zenon DEF IInv, FontsOK
<1>4. HitIsWhole'
  BY Zenon DEF IInv, HitIsWhole
<1> QED
  BY <1>1, <1>2, <1>3, <1>4, Zenon DEF IInv, LInv

LEMMA AssembleStep ==
    ASSUME IInv, Assemble
    PROVE  IInv'
<1>1. /\ pc = "assemble" /\ font' = [easy |-> easy, refined |-> refined] /\ step' = 1
      /\ pc' = (IF font' = NoFont THEN "failed" ELSE "persist")
      /\ UNCHANGED <<disk, at, id, pages, glyphs, delivered, bounds, calm>>
  BY Zenon DEF Assemble
<1>2. UNCHANGED <<ckpt, models, fonts, at, id, plan, todo, easy, refined, delivered, lost, calm>>
  BY <1>1 DEF disk, pages, glyphs, bounds
<1>3. font' \in FontT /\ font' # Torn
  <2>1. easy \subseteq Nat /\ refined \subseteq Nat
    BY DEF IInv, LInv, TypeOK
  <2>2. easy # {-1}
    BY <2>1
  <2>3. font' \in FontT
    BY <1>1, <2>1 DEF FontT
  <2>4. font'.easy = easy /\ Torn.easy = {-1}
    BY <1>1 DEF Torn
  <2> QED
    BY <2>2, <2>3, <2>4, Zenon
<1>4. CASE font' = NoFont
  <2>1. pc' = "failed" /\ step' \in 0..5
    BY <1>1, <1>4
  <2> QED
    BY <1>2, <1>3, <2>1, FailedStep
<1>5. CASE font' # NoFont
  <2>1. pc' = "persist"
    BY <1>1, <1>5, Zenon
  <2>2. TypeOK'
    BY <1>1, <1>2, <1>3, <2>1 DEF IInv, LInv, TypeOK, Stages
  <2>3. MemoOK' /\ IdOK' /\ ListsOK' /\ KindsOK' /\ PagesOK'
    <3>1. pc' \in {"probe", "done", "failed", "persist"} /\ \A m \in models' : m \in models
      BY <1>2, <2>1
    <3> QED
      BY <1>2, <3>1, IdleStep, Zenon DEF IInv, LInv
  <2>4. FontsOK'
    <3>1. Style' = Style /\ (calm => fonts[Style].report = NoFont)
      <4>1. pc \in Working \cup {"persist"}
        BY <1>1 DEF Working
      <4> QED
        BY <4>1, <1>2, Zenon DEF Style, IInv, FontsOK
    <3>2. step' \in 1..5 /\ ~(step' > 1) /\ ~(step' > 2) /\ ~(step' > 3) /\ ~(step' > 4)
      BY <1>1
    <3>3. Written(fonts[Style])'
      BY <3>2, Zenon DEF Written
    <3>4. \A s \in Styles : EntryOK(fonts'[s], calm')
      BY <1>2, Zenon DEF IInv, FontsOK
    <3>5. font' \notin {NoFont, Torn}
      BY <1>3, <1>5, Zenon
    <3> QED
      BY <3>1, <3>2, <3>3, <3>4, <3>5, <1>2, <2>1, Zenon DEF FontsOK, Sound
  <2>5. HitIsWhole'
    BY <1>2, Zenon DEF IInv, HitIsWhole
  <2> QED
    BY <2>2, <2>3, <2>4, <2>5, Zenon DEF IInv, LInv
<1> QED
  BY <1>4, <1>5

\* The attempt ends and leaves the disk as it is.
LEMMA LeftStep ==
    ASSUME IInv, Drop, pc' \in {"probe", "done", "failed"}, at' = at \/ at' = 1,
           UNCHANGED <<ckpt, models, fonts, delivered, lost, calm>>
    PROVE  IInv'
<1>1. /\ at' \in 1..Len(StyleSeq)
  BY StylesAre DEF IInv, LInv, TypeOK
<1>2. /\ fonts' \in [Styles -> EntryT] /\ delivered' \in [Styles -> [ttf : FontT, otf : FontT]]
      /\ calm' \in BOOLEAN /\ \A m \in models' : m \in models
  BY DEF IInv, LInv, TypeOK
<1>3. \A s \in Styles : EntryOK(fonts'[s], calm')
  BY Zenon DEF IInv, FontsOK
<1>4. \A s \in Styles : Torn \notin {delivered'[s].ttf, delivered'[s].otf}
                        /\ (calm' => delivered'[s].ttf = delivered'[s].otf)
  BY Zenon DEF IInv, HitIsWhole
<1> QED
  BY <1>1, <1>2, <1>3, <1>4, DropStep, Zenon

LEMMA PowerLossStep ==
    ASSUME IInv, NEW cps, NEW s \in Styles, NEW file \in {"ttf", "otf", "report"}, PowerLoss(cps, s, file)
    PROVE  IInv'
<1>1. /\ Drop /\ at' = 1 /\ pc' = "probe" /\ delivered' = delivered /\ lost' = lost /\ ckpt' = ckpt
      /\ models' = {m \in models : m[2] \notin cps}
      /\ fonts' = (IF fonts[s][file] = NoFont THEN fonts ELSE [fonts EXCEPT ![s][file] = Torn])
      /\ calm' = FALSE
  BY DEF PowerLoss, Restart
<1>2. pc' \in {"probe", "done", "failed"} /\ at' \in 1..Len(StyleSeq)
  BY <1>1, StylesAre
<1>3. fonts \in [Styles -> EntryT] /\ delivered \in [Styles -> [ttf : FontT, otf : FontT]]
  BY DEF IInv, LInv, TypeOK
<1>4. \A r \in Styles : EntryOK(fonts[r], calm)
  BY Zenon DEF IInv, FontsOK
<1>5. fonts' \in [Styles -> EntryT] /\ \A r \in Styles : EntryOK(fonts'[r], calm')
  <2>1. CASE fonts[s][file] = NoFont
    <3>1. fonts' = fonts
      BY <1>1, <2>1, Zenon
    <3> QED
      BY <3>1, <1>1, <1>3, <1>4, Zenon DEF EntryOK
  <2>2. CASE fonts[s][file] # NoFont
    <3> DEFINE f == fonts[s]
               g == [f EXCEPT ![file] = Torn]
    <3>1. f \in EntryT /\ EntryOK(f, calm)
      BY <1>3, <1>4
    <3>2. /\ g \in EntryT /\ g.ttfSum = f.ttfSum /\ g.otfSum = f.otfSum
          /\ g.report = f.report \/ (g.report = Torn /\ f.report # NoFont)
      <4>1. f[file] # NoFont /\ Torn \in FontT
        BY <2>2, FontFacts, Zenon
      <4> HIDE DEF f
      <4>2. CASE file = "ttf"
        BY <4>1, <4>2, <3>1 DEF EntryT
      <4>3. CASE file = "otf"
        BY <4>1, <4>3, <3>1 DEF EntryT
      <4>4. CASE file = "report"
        BY <4>1, <4>4, <3>1 DEF EntryT
      <4> QED
        BY <4>2, <4>3, <4>4
    <3>3. fonts' = [fonts EXCEPT ![s] = g]
      BY <1>1, <1>3, <2>2
    <3> HIDE DEF f, g
    <3>4. EntryOK(g, calm')
      BY <1>1, <3>1, <3>2, Zenon DEF EntryOK
    <3>5. fonts' \in [Styles -> EntryT] /\ fonts'[s] = g /\ \A r \in Styles : r # s => fonts'[r] = fonts[r]
      BY <1>3, <3>2, <3>3
    <3>6. \A r \in Styles : EntryOK(fonts[r], calm')
      BY <1>1, <1>4, Zenon DEF EntryOK
    <3> QED
      BY <3>4, <3>5, <3>6, Zenon
  <2> QED
    BY <2>1, <2>2
<1>6. \A r \in Styles : Torn \notin {delivered'[r].ttf, delivered'[r].otf}
                        /\ (calm' => delivered'[r].ttf = delivered'[r].otf)
  BY <1>1, Zenon DEF IInv, HitIsWhole
<1>7. calm' \in BOOLEAN /\ \A m \in models' : m \in models
  BY <1>1
<1> QED
  BY <1>1, <1>2, <1>3, <1>5, <1>6, <1>7, DropStep, Zenon

-----------------------------------------------------------------------------
(* The properties *)

\* What each stage may rely on holds in every reachable state: the checkpoint and the run agree on
\* what they say of a glyph, the glyphs left and the lists make up the coverage, pages are sound,
\* and the files of a font entry are of one run unless something on the disk was damaged.
THEOREM Invariance == Spec => []IInv
<1>1. Init => IInv
  <2>1. SUFFICES ASSUME Init PROVE IInv
    OBVIOUS
  <2>2. /\ ckpt = Fresh(NoId) /\ models = {} /\ fonts = [s \in Styles |-> NoEntry]
        /\ at = 1 /\ pc = "probe" /\ plan = <<>> /\ todo = {} /\ easy = {} /\ refined = {}
        /\ font = NoFont /\ step = 0 /\ lost = 0 /\ calm = TRUE
        /\ delivered = [s \in Styles |-> [ttf |-> NoFont, otf |-> NoFont]]
    BY <2>1, Zenon DEF Init
  <2>3. pc \notin Working
    BY <2>2 DEF Working
  <2>4. NoEntry \in EntryT /\ EntryOK(NoEntry, calm)
    BY FontFacts, Zenon DEF NoEntry, EntryT, EntryOK
  <2>5. TypeOK
    <3>1. /\ fonts \in [Styles -> EntryT] /\ delivered \in [Styles -> [ttf : FontT, otf : FontT]]
      BY <2>2, <2>4, FontFacts
    <3>2. at \in 1..Len(StyleSeq) /\ plan \in Seq(PageT) /\ font \in FontT
      BY <2>2, StylesAre, RestOfNone, FontFacts, Zenon
    <3> QED
      BY <2>2, <3>1, <3>2 DEF TypeOK, Stages
  <2>6. MemoOK
    BY <2>2, <2>3, FreshMemo, Zenon DEF MemoOK
  <2>7. IdOK /\ ListsOK /\ KindsOK /\ PagesOK
    BY <2>2, <2>3 DEF IdOK, ListsOK, KindsOK, PagesOK, Working
  <2>8. FontsOK
    <3>1. \A s \in Styles : fonts[s] = NoEntry
      BY <2>2
    <3>2. pc \notin Working \cup {"persist"} /\ pc # "persist"
      BY <2>2, <2>3
    <3> QED
      BY <2>4, <3>1, <3>2, Zenon DEF FontsOK
  <2>9. HitIsWhole
    <3>1. \A s \in Styles : delivered[s].ttf = NoFont /\ delivered[s].otf = NoFont
      BY <2>2
    <3>2. ASSUME NEW s \in Styles
          PROVE  Torn \notin {delivered[s].ttf, delivered[s].otf} /\ delivered[s].ttf = delivered[s].otf
      <4>1. delivered[s].ttf = NoFont /\ delivered[s].otf = NoFont
        BY <3>1, Zenon
      <4>2. Torn # NoFont
        BY FontFacts, Zenon
      <4> QED
        BY <4>1, <4>2
    <3> QED
      BY <3>2, Zenon DEF HitIsWhole
  <2> QED
    BY <2>5, <2>6, <2>7, <2>8, <2>9, Zenon DEF IInv, LInv
<1>2. IInv /\ [Next]_vars => IInv'
  <2>1. SUFFICES ASSUME IInv, [Next]_vars PROVE IInv'
    OBVIOUS
  <2>2. LInv /\ FontsOK /\ HitIsWhole
    BY <2>1, Zenon DEF IInv
  <2>3. ASSUME LInv', pc \in Working, pc' \in Working, UNCHANGED <<fonts, at, delivered, calm>> PROVE IInv'
    BY <2>2, <2>3, FontsStep, Zenon DEF IInv
  <2>4. CASE ProbeFontCache
    BY <2>1, <2>4, ProbeFontCacheStep
  <2>5. CASE BinaryWin
    BY <2>1, <2>5, BinaryWinStep
  <2>6. CASE RasterUnavailable
    <3>1. pc' = "failed" /\ UNCHANGED <<disk, at, pages, glyphs, final, bounds, calm>>
      BY <2>6, Zenon DEF RasterUnavailable
    <3>2. UNCHANGED <<ckpt, models, fonts, at, plan, todo, easy, refined, font, step, delivered, lost, calm>>
      BY <3>1 DEF disk, pages, glyphs, final, bounds
    <3>3. font' \in FontT /\ step' \in 0..5
      BY <2>2, <3>2, Zenon DEF LInv, TypeOK
    <3> QED
      BY <2>1, <3>1, <3>2, <3>3, FailedStep
  <2>7. ASSUME NEW coverage \in AllCoverages, Start(coverage) PROVE IInv'
    BY <2>1, <2>7, StartStep
  <2>8. CASE PlanThePages
    <3>1. pc \in Working /\ pc' \in Working /\ UNCHANGED <<fonts, at, delivered, calm>>
      BY <2>8 DEF PlanThePages, Working, disk, final
    <3> QED
      BY <2>2, <2>3, <2>8, <3>1, PlanThePagesStep, Zenon
  <2>9. CASE PlaceCell
    <3>1. pc \in Working /\ pc' \in Working /\ UNCHANGED <<fonts, at, delivered, calm>>
      BY <2>9 DEF PlaceCell, Working, disk, final
    <3> QED
      BY <2>2, <2>3, <2>9, <3>1, PlaceCellStep, Zenon
  <2>10. CASE PlanEnds
    <3>1. pc \in Working /\ UNCHANGED <<fonts, at, delivered, calm>>
      BY <2>10 DEF PlanEnds, Working, disk, final
    <3> QED
      BY <2>2, <2>3, <2>10, <3>1, PlanEndsStep, Zenon
  <2>11. ASSUME NEW missing, FetchPage(missing) PROVE IInv'
    <3>1. pc \in Working /\ UNCHANGED <<fonts, at, delivered, calm>>
      BY <2>11 DEF FetchPage, Working, disk, final
    <3> QED
      BY <2>2, <2>3, <2>11, <3>1, FetchPageStep, Zenon
  <2>12. CASE MissingCell
    <3>1. pc \in Working /\ UNCHANGED <<fonts, at, delivered, calm>>
      BY <2>12 DEF MissingCell, Working, disk, final
    <3> QED
      BY <2>2, <2>3, <2>12, <3>1, MissingCellStep, Zenon
  <2>13. CASE ZeroInk
    <3>1. pc \in Working /\ UNCHANGED <<fonts, at, delivered, calm>>
      BY <2>13 DEF ZeroInk, Working, disk, final
    <3> QED
      BY <2>2, <2>3, <2>13, <3>1, ZeroInkStep, Zenon
  <2>14. CASE EasyPass
    <3>1. pc \in Working /\ UNCHANGED <<fonts, at, delivered, calm>>
      BY <2>14 DEF EasyPass, Working, disk, final
    <3> QED
      BY <2>2, <2>3, <2>14, <3>1, EasyPassStep, Zenon
  <2>15. CASE FailedGlyph
    <3>1. pc \in Working /\ UNCHANGED <<fonts, at, delivered, calm>>
      BY <2>15 DEF FailedGlyph, Working, disk, final
    <3> QED
      BY <2>2, <2>3, <2>15, <3>1, FailedGlyphStep, Zenon
  <2>16. CASE SaveBatch
    <3>1. pc \in Working /\ UNCHANGED <<fonts, at, delivered, calm>>
      BY <2>16 DEF SaveBatch, Working, disk, final
    <3> QED
      BY <2>2, <2>3, <2>16, <3>1, SaveBatchStep, Zenon
  <2>17. CASE PageCompleted
    <3>1. pc \in Working /\ UNCHANGED <<fonts, at, delivered, calm>>
      BY <2>17 DEF PageCompleted, Working, disk, final
    <3> QED
      BY <2>2, <2>3, <2>17, <3>1, PageCompletedStep, Zenon
  <2>18. ASSUME NEW found \in BOOLEAN, Refine(found) PROVE IInv'
    <3>1. pc \in Working /\ UNCHANGED <<fonts, at, delivered, calm>>
      BY <2>18 DEF Refine, Working, disk, final
    <3> QED
      BY <2>2, <2>3, <2>18, <3>1, RefineStep, Zenon
  <2>19. CASE RefinementEnds
    <3>1. pc \in Working /\ UNCHANGED <<fonts, at, delivered, calm>>
      BY <2>19 DEF RefinementEnds, Working, disk, final
    <3> QED
      BY <2>2, <2>3, <2>19, <3>1, RefinementEndsStep, Zenon
  <2>20. ASSUME Drop, pc' = "failed", UNCHANGED <<disk, at, delivered, bounds, calm>> PROVE IInv'
    <3>1. UNCHANGED <<ckpt, models, fonts, at, delivered, lost, calm>>
      BY <2>20 DEF disk, bounds
    <3>2. pc' \in {"probe", "done", "failed"}
      BY <2>20
    <3> QED
      BY <2>1, <2>20, <3>1, <3>2, LeftStep
  <2>21. CASE ValidationFails
    BY <2>20, <2>21, Zenon DEF ValidationFails
  <2>22. CASE Assemble
    BY <2>1, <2>22, AssembleStep
  <2>23. CASE Persist
    BY <2>1, <2>23, PersistStep
  <2>24. CASE PersistSkipped
    BY <2>1, <2>24, PersistSkippedStep
  <2>25. CASE WallPassed
    BY <2>20, <2>25, Zenon DEF WallPassed
  <2>26. CASE Stop
    <3>1. Drop /\ at' = 1 /\ pc' = "probe" /\ UNCHANGED <<ckpt, models, fonts, delivered, lost, calm>>
      BY <2>26 DEF Stop, Restart, disk
    <3>2. pc' \in {"probe", "done", "failed"}
      BY <3>1
    <3> QED
      BY <2>1, <3>1, <3>2, LeftStep
  <2>27. ASSUME NEW cps, NEW s \in Styles, NEW file \in {"ttf", "otf", "report"}, PowerLoss(cps, s, file)
         PROVE  IInv'
    BY <2>1, <2>27, PowerLossStep
  <2>28. CASE UNCHANGED vars
    <3>1. UNCHANGED <<ckpt, models, fonts, at, pc, id, plan, todo, arrived, easy, refined, failed, low,
                      excluded, state, font, step, delivered, lost, calm>>
      BY <2>28 DEF vars, disk, pages, glyphs, final, bounds
    <3>2. TypeOK'
      BY <2>2, <3>1 DEF LInv, TypeOK
    <3>3. MemoOK'
      BY <2>2, <3>1, Zenon DEF LInv, MemoOK, Memo
    <3>4. IdOK' /\ PagesOK' /\ Style' = Style /\ Left' = Left
      BY <2>2, <3>1 DEF LInv, IdOK, PagesOK, Style, Left
    <3>5. ListsOK'
      BY <2>2, <3>1, <3>4 DEF LInv, ListsOK
    <3>6. KindsOK'
      BY <2>2, <3>1, <3>4 DEF LInv, KindsOK
    <3>7. FontsOK' /\ HitIsWhole'
      BY <2>2, <3>1, <3>4 DEF FontsOK, HitIsWhole, Written
    <3> QED
      BY <3>2, <3>3, <3>4, <3>5, <3>6, <3>7, Zenon DEF IInv, LInv
  <2>29. CASE Finished
    BY <2>28, <2>29, Zenon DEF Finished
  <2> QED
    BY <2>1, <2>4, <2>5, <2>6, <2>7, <2>8, <2>9, <2>10, <2>11, <2>12, <2>13, <2>14, <2>15, <2>16, <2>17,
       <2>18, <2>19, <2>21, <2>22, <2>23, <2>24, <2>25, <2>26, <2>27, <2>28, <2>29, Zenon DEF Next
<1> QED
  BY <1>1, <1>2, PTL DEF Spec

\* Whatever a resumed run has pending, plan_atlas_pages gives each glyph exactly one cell, no two
\* cells share a pixel, and no page exceeds the canvas or the memory the runtime allows.
THEOREM PlanIsWhole == Spec => []PlanWhole
<1>1. IInv => PlanWhole
  <2>1. SUFFICES ASSUME IInv, pc = "fetch"
                 PROVE  /\ \A i \in DOMAIN plan : PageSound(plan[i])
                        /\ \A i, j \in DOMAIN plan : i # j => PageCps(plan[i]) \cap PageCps(plan[j]) = {}
                        /\ Pending \ excluded = UNION {PageCps(plan[i]) : i \in DOMAIN plan}
    BY Zenon DEF PlanWhole
  <2>2. PlanOK(plan) /\ plan \in Seq(PageT)
    BY <2>1 DEF IInv, LInv, PagesOK, TypeOK
  <2>3. \A i \in DOMAIN plan : PageSound(plan[i])
    <3>1. TAKE i \in DOMAIN plan
    <3>2. PageOK(plan[i])
      BY <2>2, Zenon DEF PlanOK
    <3> QED
      BY <3>2, Zenon DEF PageOK, PageSound, Fits, CellOK, Apart
  <2>4. Left = UNION {PageCps(plan[i]) : i \in DOMAIN plan}
    <3>1. Left = Rest(plan, 1)
      BY <2>1 DEF Left
    <3>2. ASSUME NEW cp PROVE cp \in Rest(plan, 1) <=> cp \in UNION {PageCps(plan[i]) : i \in DOMAIN plan}
      BY <2>2, RestOfAll, Zenon
    <3> QED
      BY <3>1, <3>2, Zenon
  <2>5. Pending \ excluded = Left
    BY <2>1 DEF IInv, LInv, ListsOK, Pending, Working
  <2> QED
    BY <2>2, <2>3, <2>4, <2>5, Zenon DEF PlanOK
<1> QED
  BY <1>1, Invariance, PTL

\* When the model is assembled every glyph of the coverage is in exactly one of the lists of the
\* report, however often the run was cut and whatever cells no transport delivered.
THEOREM AllAccounted == Spec => []Accounted
<1>1. IInv => Accounted
  <2>1. SUFFICES ASSUME IInv, pc = "assemble" PROVE Accounted
    BY Zenon DEF Accounted
  <2>2. /\ easy \cup refined \cup failed \cup excluded = id[2]
        /\ refined \cap (easy \cup failed \cup excluded) = {}
        /\ easy \cap failed = {} /\ easy \cap excluded = {} /\ failed \cap excluded = {}
    BY <2>1 DEF IInv, LInv, ListsOK, Working
  <2> DEFINE lists == <<easy, refined, failed, excluded>>
  <2>3. /\ DOMAIN lists = {1, 2, 3, 4}
        /\ lists[1] = easy /\ lists[2] = refined /\ lists[3] = failed /\ lists[4] = excluded
    <3>1. DOMAIN lists = 1..4
      OBVIOUS
    <3>2. 1..4 = {1, 2, 3, 4}
      OBVIOUS
    <3> QED
      BY <3>1, <3>2
  <2> HIDE DEF lists
  <2>4. UNION {lists[i] : i \in DOMAIN lists} = id[2]
    <3>1. UNION {lists[i] : i \in DOMAIN lists} = easy \cup refined \cup failed \cup excluded
      BY <2>3
    <3> QED
      BY <3>1, <2>2
  <2>5. \A i, j \in DOMAIN lists : i < j => lists[i] \cap lists[j] = {}
    <3>1. /\ lists[1] \cap lists[2] = {} /\ lists[1] \cap lists[3] = {} /\ lists[1] \cap lists[4] = {}
          /\ lists[2] \cap lists[3] = {} /\ lists[2] \cap lists[4] = {} /\ lists[3] \cap lists[4] = {}
      BY <2>2, <2>3
    <3>2. ~(1 < 1) /\ ~(2 < 1) /\ ~(2 < 2) /\ ~(3 < 1) /\ ~(3 < 2) /\ ~(3 < 3)
          /\ ~(4 < 1) /\ ~(4 < 2) /\ ~(4 < 3) /\ ~(4 < 4)
      OBVIOUS
    <3> QED
      BY <2>3, <3>1, <3>2, Zenon
  <2> QED
    BY <2>4, <2>5, Zenon DEF Accounted, lists
<1> QED
  BY <1>1, Invariance, PTL

\* While every cell was delivered, a resumed run ends with the very lists of a run that was never
\* cut: no checkpoint of another style or coverage leaks into it.
THEOREM ResumeIsExact == Spec => []ResumeExact
<1>1. IInv => ResumeExact
  <2>1. SUFFICES ASSUME IInv, pc = "assemble", lost = 0 PROVE ResumeExact
    BY Zenon DEF ResumeExact
  <2>2. /\ easy \cup refined \cup failed \cup excluded = id[2] /\ Range(low) \subseteq id[2]
        /\ \A cp \in easy : Kind(Style, cp) = "easy"
        /\ \A cp \in excluded : Kind(Style, cp) = "zero"
        /\ \A cp \in failed : Kind(Style, cp) = "bad"
        /\ \A cp \in refined : Kind(Style, cp) \in {"hard", "low"}
        /\ \A cp \in Range(low) : Kind(Style, cp) = "low"
        /\ \A cp \in refined : Kind(Style, cp) = "low" => cp \in Range(low)
    BY <2>1 DEF IInv, LInv, ListsOK, KindsOK, Working
  <2> DEFINE of(kinds) == {cp \in id[2] : Kind(Style, cp) \in kinds}
  <2>3. easy = of({"easy"})
    BY <2>2
  <2>4. excluded = of({"zero"})
    BY <2>2
  <2>5. failed = of({"bad"})
    BY <2>2
  <2>6. refined = of({"hard", "low"})
    BY <2>2
  <2>7. Range(low) = of({"low"})
    BY <2>2
  <2> QED
    BY <2>3, <2>4, <2>5, <2>6, <2>7, Zenon DEF ResumeExact
<1> QED
  BY <1>1, Invariance, PTL

\* A font handed on is undamaged, and its two formats are of one run as long as nothing on the disk
\* was damaged and every write succeeded.
THEOREM HitsAreWhole == Spec => []HitIsWhole
<1>1. IInv => HitIsWhole
  BY Zenon DEF IInv
<1> QED
  BY <1>1, Invariance, PTL
================================================================================
