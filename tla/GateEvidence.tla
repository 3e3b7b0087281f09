----------------------------- MODULE GateEvidence -----------------------------
(***************************************************************************)
(* What the release gate decides of a collection's evidence: the snapshot  *)
(* of the observation store and its parting into what is fitted and what   *)
(* is held out (fidelity/pipeline.py), the model assembled from the former *)
(* (release_gate.py), the font's four consumers (producers.py) and the     *)
(* gates that judge model and font by the latter (evaluator.py).           *)
(*                                                                         *)
(* One axis stands for two: a raster is the set of its inked pixels, an    *)
(* outline a set of strokes.  Overlaps are in thousandths.  Outlines are   *)
(* those GlyphSearch forms; here they are given.                           *)
(***************************************************************************)
EXTENDS Integers, Sequences, FiniteSets, SequencesExt, FiniteSetsExt, Functions

CONSTANTS
    Em,                         \* units of the design space
    Collections,                \* completed or to be completed, of whatever style and browser
    Store(_),                   \* the rows and files of a collection
    Outline(_, _),              \* fitted to the fit rasters of a glyph of a collection
    Resolutions,                \* of the config
    BasePhases, ExpandedPhases, \* of the config, when the browser draws
    MetricSizes,                \* of the closed metric schedule
    MinIou, MaxChamfer, MaxAdvanceDelta, MaxMetricRms, MaxKerningDelta, MinConfidence  \* FidelityThresholds

NoCapability == [fit |-> {}, held |-> {}]   \* the browser itself drew the collection

Apart(x, y) == IF x < y THEN y - x ELSE x - y

-----------------------------------------------------------------------------
(* The snapshot *)

\* What the reader expects is what the collection was sealed with, unless that is forged.
CapabilityOk(s) == s.sealed = NoCapability \/ s.intact

\* The marker, the seal, the coverage and the bytes of every raster.
LoadOk(s) ==
    /\ s.complete
    /\ CapabilityOk(s)
    /\ s.coverage /= {}
    /\ {r.cp : r \in s.rows} = s.coverage
    /\ \A r \in s.rows : <<r.cp, r.res, r.phase>> \notin s.damaged

-----------------------------------------------------------------------------
(* The parting *)

RowsOf(rows, cp) == {r \in rows : r.cp = cp}

\* get_phases_for_metrics
Phases(s, cp) == IF cp \in s.uncertain THEN ExpandedPhases ELSE BasePhases

\* The schedule of the config, or the sizes the provider's capability gives the fit.
ToFit(s, r) ==
    IF s.sealed = NoCapability THEN r.res \in Resolutions /\ r.phase \in Phases(s, r.cp)
    ELSE r.res \in s.sealed.fit

FitRows(s) == {r \in s.rows : ToFit(s, r)}
HeldRows(s) == s.rows \ FitRows(s)

\* A provider draws at one phase and at sizes it declared, all of them.
CapabilityKept(s) ==
    /\ \A r \in s.rows : r.phase = 0 /\ r.res \in s.sealed.fit \union s.sealed.held
    /\ \A cp \in s.coverage : s.sealed.held \subseteq {r.res : r \in RowsOf(s.rows, cp)}

FitWhole(s) ==
    \A cp \in s.coverage :
        IF s.sealed = NoCapability
        THEN Resolutions \X Phases(s, cp) \subseteq {<<r.res, r.phase>> : r \in RowsOf(FitRows(s), cp)}
        ELSE s.sealed.fit \subseteq {r.res : r \in RowsOf(FitRows(s), cp)}

\* Alternately, in the order of their code points.
PairBefore(p, q) == p.l < q.l \/ (p.l = q.l /\ p.r < q.r)
Rank(s, p) == Cardinality({q \in s.pairs : PairBefore(q, p)})
FitPairs(s) == {p \in s.pairs : Rank(s, p) % 2 = 0}
HeldPairs(s) == s.pairs \ FitPairs(s)

Key(r) == <<r.cp, r.res, r.phase>>
Image(r) == <<r.res, r.ink>>            \* what the SHA-256 of a raster tells apart

\* The slip of Leaks: rasters are told apart by their keys alone.
Leaks_Fault(fit, held) == {Key(r) : r \in fit} \cap {Key(r) : r \in held} /= {}

\* Evidence that is on both sides, under its key or, unseen by the key, by its pixels.
Leaks(fit, held) ==
    \/ {Key(r) : r \in fit} \cap {Key(r) : r \in held} /= {}
    \/ {Image(r) : r \in fit} \cap {Image(r) : r \in held} /= {}

PartitionOk(s) ==
    /\ s.sealed /= NoCapability => CapabilityKept(s)
    /\ FitWhole(s)
    /\ \A cp \in s.coverage : RowsOf(HeldRows(s), cp) /= {}
    /\ Cardinality(s.pairs) >= 2
    /\ ~Leaks(FitRows(s), HeldRows(s))

-----------------------------------------------------------------------------
(* The model *)

LowerMedian(seq) == LET sorted == SortSeq(seq, LAMBDA a, b : a <= b) IN sorted[(Len(sorted) + 1) \div 2]

\* derive_multisize_derived_metrics: no size of the schedule missing, none twice.
MetricsWhole(s, cp) == cp \in DOMAIN s.metrics /\ Len(s.metrics[cp]) = Cardinality(MetricSizes)
Derived(s, cp, field) == LowerMedian([i \in DOMAIN s.metrics[cp] |-> s.metrics[cp][i][field]])

\* The kerning a model takes is recomputed from the rows of every size, and has to be what is stored.
KerningOk(s, p) ==
    p.kern /= 0 => /\ <<p.l, p.r>> \in DOMAIN s.pairRows
                   /\ Len(s.pairRows[<<p.l, p.r>>]) = Cardinality(MetricSizes)
                   /\ LowerMedian(s.pairRows[<<p.l, p.r>>]) = p.kern

AssemblyOk(s) ==
    /\ \A cp \in s.coverage : MetricsWhole(s, cp)
    /\ \A p \in FitPairs(s) : KerningOk(s, p)

\* CanonicalFontModel: glyph, metrics, the rasters each glyph was made from, and the kerning.
Model(c) ==
    LET s == Store(c)
    IN  [glyphs |-> [cp \in s.coverage |->
            [out |-> Outline(c, cp), adv |-> Derived(s, cp, "adv"), lsb |-> Derived(s, cp, "lsb"),
             conf |-> s.conf[cp], from |-> {Image(r) : r \in RowsOf(FitRows(s), cp)}]],
         kern |-> {p \in FitPairs(s) : p.kern /= 0},
         fits |-> Cardinality(FitRows(s))]

Covers(m, cps) == cps \subseteq DOMAIN m.glyphs
KernOf(m, l, r) == LET ps == {p \in m.kern : p.l = l /\ p.r = r}
                   IN  IF ps = {} THEN 0 ELSE (CHOOSE p \in ps : TRUE).kern

-----------------------------------------------------------------------------
(* Drawing *)

PixelUnits(res) == Em \div res

\* _rasterize_glyph_contours: the unit under the middle of a pixel, doubled, is inside a stroke.
Middle(i, res, phase) == (2 * i + 1) * PixelUnits(res) - 2 * phase
Inside(unit, st) == 2 * st.lo <= unit /\ unit < 2 * st.hi

Drawn(out, res, phase) == {i \in 0..res - 1 : \E st \in out : Inside(Middle(i, res, phase), st)}

\* Two blank rasters are the same; ink on one side only is no match at all.
Iou(a, b) ==
    IF a = {} /\ b = {} THEN 1000
    ELSE IF a = {} \/ b = {} THEN 0
    ELSE (1000 * Cardinality(a \cap b)) \div Cardinality(a \cup b)

\* _compute_chamfer_distance_upem, at the ends of the strokes.
Chamfer(out, r) ==
    LET pixel(u) == (u + r.phase) \div PixelUnits(r.res)
        ends == UNION {{pixel(st.lo), pixel(st.hi - 1)} : st \in out}
        apart(i) == Min({Apart(i, j) : j \in r.ink}) * PixelUnits(r.res)
    IN  IF r.ink = {} THEN (IF out = {} THEN 0 ELSE 1000)
        ELSE IF out = {} THEN 0
        ELSE MapThenSumSet(apart, ends) \div Cardinality(ends)

\* FreeType draws a glyph at no phase and lays it on the nearest whole pixel.
Placed(out, r) ==
    LET by == (2 * r.phase + PixelUnits(r.res)) \div (2 * PixelUnits(r.res))
    IN  {i + by : i \in Drawn(out, r.res, 0)} \cap (0..r.res - 1)

-----------------------------------------------------------------------------
(* The gates; held rows and pairs judge, of a model *)

\* Gate 0, and of the glyphs nobody made up: each is bound to the rasters it was fitted to.
BoundToFit(s, m, exempt) ==
    /\ m.fits = Cardinality(FitRows(s))
    /\ ~Leaks(FitRows(s), HeldRows(s))
    /\ \A cp \in DOMAIN m.glyphs \ exempt :
        /\ RowsOf(FitRows(s), cp) /= {}
        /\ m.glyphs[cp].from = {Image(r) : r \in RowsOf(FitRows(s), cp)}

TrustedPairs(s) == \A p \in s.pairs : p.trusted /\ p.conf >= MinConfidence

TopologyOk(m) == \A cp \in DOMAIN m.glyphs : \A st \in m.glyphs[cp].out : st.lo < st.hi

Mean(of(_), S) == MapThenSumSet(of, S) \div Cardinality(S)

\* Overlap counts on the average, distance at its worst.
GeometryOk(s, m) ==
    LET out(r) == m.glyphs[r.cp].out
        iou(r) == Iou(Drawn(out(r), r.res, r.phase), r.ink)
    IN  /\ Mean(iou, HeldRows(s)) >= MinIou
        /\ \A r \in HeldRows(s) : Chamfer(out(r), r) <= MaxChamfer

\* Advances count at their worst, the sides in the mean square.
MetricsOk(s, m) ==
    LET adv(r) == Apart(m.glyphs[r.cp].adv, r.adv)
        lsb(r) == Apart(m.glyphs[r.cp].lsb, r.lsb)
        squares(r) == adv(r) * adv(r) + lsb(r) * lsb(r)
    IN  /\ \A cp \in DOMAIN m.glyphs : m.glyphs[cp].conf >= MinConfidence
        /\ \A r \in HeldRows(s) : adv(r) <= MaxAdvanceDelta
        /\ MapThenSumSet(squares, HeldRows(s)) <= 2 * MaxMetricRms * MaxMetricRms * Cardinality(HeldRows(s))

TypographyOk(s, m) == \A p \in HeldPairs(s) : Apart(KernOf(m, p.l, p.r), p.kern) <= MaxKerningDelta

-----------------------------------------------------------------------------
(* The consumers of the font built of a model *)

\* Every held-out raster on its own, where the geometry gate takes the mean.
FreeTypeOk(s, m) == \A r \in HeldRows(s) : Iou(Placed(m.glyphs[r.cp].out, r), r.ink) >= MinIou

Shaped(m, p) == m.glyphs[p.l].adv + m.glyphs[p.r].adv + KernOf(m, p.l, p.r)

HarfBuzzOk(s, m) == \A p \in HeldPairs(s) : Apart(Shaped(m, p), p.total) <= MaxKerningDelta

\* The probe of the loaded font needs ink, the canvas ink among the first four glyphs.
ChromiumOk(s, m) ==
    LET cps == {r.cp : r \in HeldRows(s)}
        first == {cp \in cps : Cardinality({d \in cps : d < cp}) < 4}
        base(p) == m.glyphs[p.l].adv + m.glyphs[p.r].adv
    IN  /\ \E cp \in first : m.glyphs[cp].out /= {}
        /\ \A p \in HeldPairs(s) : Apart(Shaped(m, p), p.total) <= Apart(base(p), p.total) + 2

\* produce_bundle refuses to hand on what the gate would refuse.
ConsumersOk(s, m) ==
    /\ \A r \in HeldRows(s) : r.cp \in DOMAIN m.glyphs
    /\ \A p \in HeldPairs(s) : {p.l, p.r} \subseteq DOMAIN m.glyphs
    /\ FreeTypeOk(s, m)
    /\ HarfBuzzOk(s, m)
    /\ ChromiumOk(s, m)

\* FidelityEvaluator.evaluate, after produce_bundle.
Passes(s, m, exempt) ==
    /\ ConsumersOk(s, m)
    /\ BoundToFit(s, m, exempt)
    /\ TrustedPairs(s)
    /\ Covers(m, s.coverage)
    /\ TopologyOk(m)
    /\ GeometryOk(s, m)
    /\ MetricsOk(s, m)
    /\ TypographyOk(s, m)
=============================================================================
