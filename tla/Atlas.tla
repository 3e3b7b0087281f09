---------------------------------- MODULE Atlas ----------------------------------
(***************************************************************************)
(* The fast atlas run of a job (atlas/pipeline.py under atlas/transport.py)*)
(* and what it leaves in the durable cache and the one checkpoint file of  *)
(* the job (atlas/cache.py).  An attempt builds the styles one after the   *)
(* other; it may end at any step, and the next attempt resumes.            *)
(***************************************************************************)
EXTENDS AtlasPaging

CONSTANTS
    StyleSeq,           \* the styles of the job, in order
    Coverages(_),       \* the coverages an attempt may observe of a style
    Kind(_, _),         \* what the geometry finds of a glyph: easy, zero, hard, low or bad
    Batch,              \* checkpoint_batch
    MayHaveBinary,      \* an authorised binary may turn up
    MaxStops,           \* bound: attempts cut short
    MaxOutages,         \* bound: of those, power losses
    MaxLost             \* bound: cells no transport delivered

Styles == {StyleSeq[i] : i \in DOMAIN StyleSeq}

ASSUME StyleSeqAssumption == StyleSeq \in Seq(Styles) /\ StyleSeq # <<>>

ASSUME CoverageAssumption ==
    \A s \in Styles : \A coverage \in Coverages(s) :
        /\ coverage \subseteq Nat /\ IsFiniteSet(coverage)
        /\ \A cp \in coverage : /\ Kind(s, cp) \in {"easy", "zero", "hard", "low", "bad"}
                               /\ Row(s, cp) \in [width : Int, left : Int, right : Int]

ASSUME BatchAssumption == Batch \in Nat \ {0}

VARIABLES
    ckpt, models, fonts,            \* disk: the checkpoint, glyph models, fonts and reports
    at, pc, id,                     \* the process: style, stage, checkpoint identity
    plan, todo, arrived, since,     \* pages left, cells or glyphs left, fetched cells, frozen since a save
    easy, refined, failed, low, excluded, state,
    font, step, delivered,
    stops, outages, lost,
    calm                            \* history

disk == <<ckpt, models, fonts>>
glyphs == <<easy, refined, failed, low, excluded, state>>
pages == <<plan, todo, arrived, since>>
final == <<font, step, delivered>>
bounds == <<stops, outages, lost>>
vars == <<disk, at, pc, id, pages, glyphs, final, bounds, calm>>

Style == StyleSeq[at]

\* A font is what its glyphs came from.
NoFont == [easy |-> {}, refined |-> {}]
Torn == [easy |-> {-1}, refined |-> {}]
BinaryFont == [easy |-> {-2}, refined |-> {}]

NoId == <<>>

Fresh(i) == [id |-> i, frozen |-> {}, failed |-> {}, low |-> <<>>]

\* Bytes and their sidecar digests, and the report.
NoEntry == [ttf |-> NoFont, ttfSum |-> NoFont, otf |-> NoFont, otfSum |-> NoFont, report |-> NoFont]

Init ==
    /\ ckpt = Fresh(NoId) /\ models = {} /\ fonts = [s \in Styles |-> NoEntry]
    /\ at = 1 /\ pc = "probe" /\ id = NoId
    /\ plan = <<>> /\ todo = {} /\ arrived = {} /\ since = 0
    /\ easy = {} /\ refined = {} /\ failed = {} /\ low = <<>> /\ excluded = {} /\ state = Fresh(NoId)
    /\ font = NoFont /\ step = 0
    /\ delivered = [s \in Styles |-> [ttf |-> NoFont, otf |-> NoFont]]
    /\ stops = 0 /\ outages = 0 /\ lost = 0 /\ calm = TRUE

-----------------------------------------------------------------------------
(* ProductionAtlasPipeline.run *)

\* The objects of one run are gone.
Drop ==
    /\ id' = NoId /\ plan' = <<>> /\ todo' = {} /\ arrived' = {} /\ since' = 0
    /\ easy' = {} /\ refined' = {} /\ failed' = {} /\ low' = <<>> /\ excluded' = {} /\ state' = Fresh(NoId)
    /\ font' = NoFont /\ step' = 0

Hand(ttf, otf) ==
    /\ Drop
    /\ delivered' = [delivered EXCEPT ![Style] = [ttf |-> ttf, otf |-> otf]]
    /\ at' = IF at < Len(StyleSeq) THEN at + 1 ELSE at
    /\ pc' = IF at < Len(StyleSeq) THEN "probe" ELSE "done"

\* The slip of Readable: the sidecar is not looked at.
Readable_Fault(bytes, sum) == bytes # NoFont

\* get_bytes: bytes without a sidecar are taken as they are.
Readable(bytes, sum) == bytes # NoFont /\ sum \in {NoFont, bytes} /\ ~(bytes = Torn /\ sum = Torn)

CacheHit ==
    LET f == fonts[Style]
    IN  Readable(f.ttf, f.ttfSum) /\ Readable(f.otf, f.otfSum) /\ f.report \notin {NoFont, Torn}

ProbeFontCache ==
    /\ pc = "probe" /\ CacheHit
    /\ Hand(fonts[Style].ttf, fonts[Style].otf)
    /\ UNCHANGED <<disk, bounds, calm>>

\* What --dump-dom finds of the style in the page.
AuthorizedBinary == MayHaveBinary

BinaryWin ==
    /\ pc = "probe" /\ ~CacheHit /\ AuthorizedBinary
    /\ font' = BinaryFont /\ step' = 1 /\ pc' = "persist"
    /\ UNCHANGED <<disk, at, id, pages, glyphs, delivered, bounds, calm>>

\* The slip of LoadCheckpoint: whatever the file holds is resumed.
LoadCheckpoint_Fault(i) == [ckpt EXCEPT !.id = i]

LoadCheckpoint(i) == IF ckpt.id = i THEN ckpt ELSE Fresh(i)

\* Entries whose glyph model is gone or damaged are made again.
Restored(i) ==
    LET loaded == LoadCheckpoint(i)
    IN  [loaded EXCEPT !.frozen = {cp \in loaded.frozen : <<i, cp>> \in models}]

\* The glyphs the CDN serves for the digest of the style, else those the browser scans.
Observed(coverage) == coverage \in Coverages(Style)

Start(coverage) ==
    /\ pc = "probe" /\ ~CacheHit /\ Observed(coverage)
    /\ id' = <<Style, coverage>>
    /\ state' = Restored(id')
    /\ easy' = state'.frozen /\ failed' = state'.failed \ state'.frozen /\ low' = state'.low
    /\ refined' = {} /\ excluded' = {}
    /\ pc' = "metrics"
    /\ UNCHANGED <<disk, at, pages, final, bounds, calm>>

\* The session does not start, or shows no glyph.
RasterUnavailable ==
    /\ pc = "probe" /\ ~CacheHit
    /\ pc' = "failed"
    /\ UNCHANGED <<disk, at, id, pages, glyphs, final, bounds, calm>>

-----------------------------------------------------------------------------
(* _stage_raster_pass *)

Pending == id[2] \ (easy \cup failed)

PlanThePages ==
    /\ pc = "metrics" /\ Plannable(Style, Pending)
    /\ plan' = <<>> /\ todo' = Pending
    /\ pc' = "place"
    /\ UNCHANGED <<disk, at, id, arrived, since, glyphs, final, bounds, calm>>

\* All cells are of one height, so they come by code point.
Cursor == IF todo = {} THEN 0 ELSE Min(todo)

PlaceCell ==
    /\ pc = "place" /\ todo # {}
    /\ plan' = Place(plan, Cursor, CellWidth(Style, Cursor), PenLeft(ExtraLeft(Style, Cursor)))
    /\ todo' = todo \ {Cursor}
    /\ UNCHANGED <<disk, at, pc, id, arrived, since, glyphs, final, bounds, calm>>

PlanEnds ==
    /\ pc = "place" /\ todo = {}
    /\ pc' = IF plan = <<>> THEN "refine" ELSE "fetch"
    /\ todo' = IF plan = <<>> THEN failed ELSE {}
    /\ UNCHANGED <<disk, at, id, plan, arrived, since, glyphs, final, bounds, calm>>

\* Cells the CDN has not are stacked on a canvas of the browser, which may not draw them all.
Served(page, missing) == PageCps(page) \ missing

FetchPage(missing) ==
    /\ pc = "fetch"
    /\ missing \subseteq PageCps(Head(plan))
    /\ lost + Cardinality(missing) <= MaxLost /\ lost' = lost + Cardinality(missing)
    /\ todo' = PageCps(Head(plan)) /\ arrived' = Served(Head(plan), missing)
    /\ since' = 0 /\ pc' = "cells"
    /\ UNCHANGED <<disk, at, id, plan, glyphs, final, stops, outages, calm>>

\* The slip of MissingCell: the glyph is passed over.
MissingCell_Fault ==
    /\ pc = "cells" /\ todo # {} /\ Cursor \notin arrived
    /\ todo' = todo \ {Cursor}
    /\ UNCHANGED <<disk, at, pc, id, plan, arrived, since, glyphs, final, bounds, calm>>

\* The cells of a page come as they were placed.  Failed for this run, though the checkpoint is not told.
MissingCell ==
    /\ pc = "cells" /\ todo # {} /\ Cursor \notin arrived
    /\ failed' = failed \cup {Cursor}
    /\ todo' = todo \ {Cursor}
    /\ UNCHANGED <<disk, at, pc, id, plan, arrived, since, easy, refined, low, excluded, state,
                   final, bounds, calm>>

ZeroInk ==
    /\ pc = "cells" /\ Cursor \in arrived \cap todo /\ Kind(Style, Cursor) = "zero"
    /\ excluded' = excluded \cup {Cursor}
    /\ todo' = todo \ {Cursor}
    /\ UNCHANGED <<disk, at, pc, id, plan, arrived, since, easy, refined, failed, low, state,
                   final, bounds, calm>>

\* fast_geometry_for_glyph
PassesFast(cp) == Kind(Style, cp) = "easy"

EasyPass ==
    /\ pc = "cells" /\ Cursor \in arrived \cap todo /\ PassesFast(Cursor)
    /\ easy' = easy \cup {Cursor}
    /\ state' = [state EXCEPT !.frozen = @ \cup {Cursor}]
    /\ models' = models \cup {<<id, Cursor>>}
    /\ since' = since + 1
    /\ pc' = IF since' >= Batch THEN "save" ELSE pc
    /\ todo' = todo \ {Cursor}
    /\ UNCHANGED <<ckpt, fonts, at, id, plan, arrived, refined, failed, low, excluded, final, bounds, calm>>

FailedGlyph ==
    /\ pc = "cells" /\ Cursor \in arrived \cap todo /\ Kind(Style, Cursor) \in {"hard", "low", "bad"}
    /\ failed' = failed \cup {Cursor}
    /\ state' = [state EXCEPT !.failed = @ \cup {Cursor}]
    /\ todo' = todo \ {Cursor}
    /\ UNCHANGED <<disk, at, pc, id, plan, arrived, since, easy, refined, low, excluded,
                   final, bounds, calm>>

SaveBatch ==
    /\ pc = "save"
    /\ ckpt' = state
    /\ since' = 0 /\ pc' = "cells"
    /\ UNCHANGED <<models, fonts, at, id, plan, todo, arrived, glyphs, final, bounds, calm>>

PageCompleted ==
    /\ pc = "cells" /\ todo = {}
    /\ ckpt' = state
    /\ plan' = Tail(plan)
    /\ pc' = IF plan' = <<>> THEN "refine" ELSE "fetch"
    /\ todo' = IF plan' = <<>> THEN failed ELSE {}
    /\ UNCHANGED <<models, fonts, at, id, arrived, since, glyphs, final, bounds, calm>>

-----------------------------------------------------------------------------
(* _stage_refinement; a refined glyph stays out of the glyph cache *)

\* fetch_refinement: without the base observation the other two do not matter.
BaseFound(found) == (found \/ lost < MaxLost) /\ lost' = IF found THEN lost ELSE lost + 1

\* refine_glyph
PassesRefined(cp) == Kind(Style, cp) \in {"easy", "hard", "low"}

\* The model of a refined glyph is not kept, so a later run refines the glyph again and lists it
\* once more.
Refine(found) ==
    /\ pc = "refine" /\ todo # {}
    /\ BaseFound(found)
    /\ LET passes == found /\ PassesRefined(Cursor)
       IN  /\ refined' = IF passes THEN refined \cup {Cursor} ELSE refined
           /\ low' = IF passes /\ Kind(Style, Cursor) = "low" THEN Append(low, Cursor) ELSE low
           /\ state' = IF passes
                       THEN [state EXCEPT !.frozen = @ \cup {Cursor}, !.failed = @ \ {Cursor}]
                       ELSE state
    /\ todo' = todo \ {Cursor}
    /\ UNCHANGED <<disk, at, pc, id, plan, arrived, since, easy, failed, excluded,
                   final, stops, outages, calm>>

RefinementEnds ==
    /\ pc = "refine" /\ todo = {}
    /\ failed' = failed \ refined
    /\ state' = IF failed = {} THEN state ELSE [state EXCEPT !.failed = failed', !.low = low]
    /\ ckpt' = IF failed = {} THEN ckpt ELSE state'
    /\ pc' = "assemble"
    /\ UNCHANGED <<models, fonts, at, id, pages, easy, refined, low, excluded, final, bounds, calm>>

\* run_speed_first_validation, cheap_final_checks: FAST30_FAILED
ValidationFails ==
    /\ pc = "assemble"
    /\ Drop /\ pc' = "failed"
    /\ UNCHANGED <<disk, at, delivered, bounds, calm>>

Assemble ==
    /\ pc = "assemble"
    /\ font' = [easy |-> easy, refined |-> refined]
    /\ step' = 1
    /\ pc' = IF font' = NoFont THEN "failed" ELSE "persist"
    /\ UNCHANGED <<disk, at, id, pages, glyphs, delivered, bounds, calm>>

Steps == <<"ttf", "ttfSum", "otf", "otfSum", "report">>

\* The next of the files of the font cache.
Persist ==
    /\ pc = "persist"
    /\ fonts' = [fonts EXCEPT ![Style][Steps[step]] = font]
    /\ IF step < Len(Steps)
       THEN step' = step + 1 /\ UNCHANGED <<at, pc, id, pages, glyphs, font, delivered>>
       ELSE Hand(font, font)
    /\ UNCHANGED <<ckpt, models, bounds, calm>>

\* An OSError leaves the rest unwritten and the fonts are handed on; that of a binary ends the attempt.
PersistSkipped ==
    /\ pc = "persist" /\ font # BinaryFont
    /\ Hand(font, font)
    /\ calm' = FALSE
    /\ UNCHANGED <<disk, bounds>>

-----------------------------------------------------------------------------
(* Ends *)

Running == pc \notin {"done", "failed"}

\* _check_wall after the wall of the job: FAST30_FAILED; or a cell is refused, see Plannable.
WallPassed ==
    /\ Running /\ pc \notin {"place", "persist"}
    /\ Drop /\ pc' = "failed"
    /\ UNCHANGED <<disk, at, delivered, bounds, calm>>

\* A new process of the agent: only the disk is left.
Restart ==
    /\ Running /\ stops < MaxStops /\ stops' = stops + 1
    /\ Drop /\ at' = 1 /\ pc' = "probe"
    /\ UNCHANGED <<delivered, lost>>

\* An error of a transport, a shutdown or a crash; nothing is saved on the way out.
Stop == Restart /\ UNCHANGED <<disk, outages, calm>>

\* Of what was written without fsync, glyph models or a file of a font come back damaged.
PowerLoss(cps, s, file) ==
    /\ Restart
    /\ outages < MaxOutages /\ outages' = outages + 1
    /\ models' = {m \in models : m[2] \notin cps}
    /\ fonts' = IF fonts[s][file] = NoFont THEN fonts ELSE [fonts EXCEPT ![s][file] = Torn]
    /\ calm' = FALSE
    /\ UNCHANGED ckpt

Finished == ~Running /\ UNCHANGED vars

AllCoverages == UNION {Coverages(s) : s \in Styles}

Next ==
    \/ ProbeFontCache \/ BinaryWin \/ RasterUnavailable
    \/ \E coverage \in AllCoverages : Start(coverage)
    \/ PlanThePages \/ PlaceCell \/ PlanEnds
    \/ \E missing \in {c \in SUBSET UNION AllCoverages : Cardinality(c) <= MaxLost} : FetchPage(missing)
    \/ MissingCell \/ ZeroInk \/ EasyPass \/ FailedGlyph \/ SaveBatch \/ PageCompleted
    \/ \E found \in BOOLEAN : Refine(found)
    \/ RefinementEnds \/ ValidationFails \/ Assemble \/ Persist \/ PersistSkipped
    \/ WallPassed \/ Stop
    \/ \E cps \in {{}, UNION AllCoverages}, s \in Styles, file \in {"ttf", "otf", "report"} : PowerLoss(cps, s, file)
    \/ Finished

Spec == Init /\ [][Next]_vars

-----------------------------------------------------------------------------
(* Properties *)

CellsOverlap(c, d) ==
    /\ c.x < d.x + d.w /\ d.x < c.x + c.w
    /\ c.y < d.y + CellHeight /\ d.y < c.y + CellHeight

PageSound(page) ==
    /\ page.pageW <= MaxDim /\ PageHeight(page) <= MaxDim
    /\ page.pageW * PageHeight(page) <= MaxBytes
    /\ \A c \in page.cells :
         /\ c.x + c.w <= page.pageW /\ c.y + CellHeight <= PageHeight(page)
         /\ \A d \in page.cells : c # d => c.cp # d.cp /\ ~CellsOverlap(c, d)

\* Whatever is pending, after any resume: each glyph has exactly one cell, no two cells share a
\* pixel, and no page exceeds the canvas or the memory the runtime allows.
PlanWhole ==
    pc = "fetch" =>
        /\ \A i \in DOMAIN plan : PageSound(plan[i])
        /\ \A i, j \in DOMAIN plan : i # j => PageCps(plan[i]) \cap PageCps(plan[j]) = {}
        /\ Pending \ excluded = UNION {PageCps(plan[i]) : i \in DOMAIN plan}

\* When the model is assembled every glyph of the coverage is in exactly one of the lists the
\* report is made from, however the run was cut and whatever cells were lost.
Accounted ==
    pc = "assemble" =>
        LET lists == <<easy, refined, failed, excluded>>
        IN  /\ UNION {lists[i] : i \in DOMAIN lists} = id[2]
            /\ \A i, j \in DOMAIN lists : i < j => lists[i] \cap lists[j] = {}

\* While no cell was lost, a resumed run ends with the lists of a run that was never cut: no
\* checkpoint of another style or coverage leaks into it. Of the glyphs of low confidence it says
\* which are listed, not how often.
ResumeExact ==
    pc = "assemble" /\ lost = 0 =>
        LET of(kinds) == {cp \in id[2] : Kind(Style, cp) \in kinds}
        IN  /\ easy = of({"easy"}) /\ excluded = of({"zero"}) /\ failed = of({"bad"})
            /\ refined = of({"hard", "low"}) /\ Range(low) = of({"low"})

\* A font handed on is undamaged, and as long as nothing on the disk was damaged and every write
\* succeeded its two formats are of one run.
HitIsWhole ==
    \A s \in Styles :
        LET d == delivered[s] IN Torn \notin {d.ttf, d.otf} /\ (calm => d.ttf = d.otf)
=============================================================================
