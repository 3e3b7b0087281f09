------------------------------- MODULE GlyphFit -------------------------------
(***************************************************************************)
(* What one glyph's rasters are made into: the solver's outline            *)
(* (reconstruction/sdf.py, solver.py), the loss of an outline against the  *)
(* rasters and the descent on it (fidelity/optimizer.py), and the ladder   *)
(* of tiers and the rerank that pick the outline to publish                *)
(* (fidelity/balanced_search.py, profiles.py).                             *)
(*                                                                         *)
(* One axis stands for two: an outline is a set of strokes, a raster the   *)
(* set of its inked pixels.  Losses are in thousandths, an objective in    *)
(* hundredths of those.  The curvature loss is left out.                   *)
(***************************************************************************)
EXTENDS Integers, Sequences, FiniteSets, SequencesExt, FiniteSetsExt, Functions

CONSTANTS
    Em,                     \* units of the design space
    Ink(_, _),              \* strokes a browser draws for a glyph at a resolution: hinting moves them
    Box(_),                 \* the measured left and right bound of a glyph
    IsMark(_),              \* is_combining_mark
    IsUncertain(_),         \* its metrics make the config take the expanded phases
    Corners(_),             \* line corners of a stroke of the solver's outline
    Resolutions,            \* of the config
    CoreVersioned,          \* FAST30_CORE_FIT_RESOLUTIONS_PX
    BasePhases, ExpandedPhases, EasyAxes,
    Budget(_),              \* max_iterations of a tier
    MaxObjective, MaxCoverage, MaxEdge, MaxSdf, Top1Objective,  \* ConfidenceThresholds
    TopK                    \* rerank_top_k

CropMargin == 2             \* REFERENCE_CROP_MARGIN_PX
Step0 == 2                  \* bound: the first translation step, halved while it is at least MinStep
MinStep == 1
Scale1 == 8                 \* a scale of one, in eighths; the scale step is halved with the other
Improvement == 1            \* convergence_tol, early_stop_abs_tol

Abs(x) == IF x < 0 THEN -x ELSE x

-----------------------------------------------------------------------------
(* Rasters *)

PixelUnits(res) == Em \div res

\* CalibrationTransform.inverse: the unit under the middle of a pixel, doubled.
MiddleTwice(i, res, phase) == 2 * i * PixelUnits(res) + PixelUnits(res) - 2 * phase

\* _rasterize_contours, and the browser's own drawing.
Raster(strokes, res, phase) ==
    {i \in 0..res - 1 : \E s \in strokes :
        2 * s.lo <= MiddleTwice(i, res, phase) /\ MiddleTwice(i, res, phase) < 2 * s.hi}

Observation(g, res, phase) ==
    [res |-> res, phase |-> phase, ref |-> Raster(Ink(g, res), res, phase)]

\* AdaptiveConfig.get_phases_for_metrics
PhasesOf(g) == IF IsUncertain(g) THEN ExpandedPhases ELSE BasePhases

\* The fit records of a glyph.
Records(g) == {Observation(g, res, phase) : res \in Resolutions, phase \in PhasesOf(g)}

\* _boundary
Boundary(mask) == {i \in mask : {i - 1, i + 1} \ mask /= {}}

\* _signed_distance over a window: negative in the ink.
SignedDistance(mask, window, i) ==
    LET other == IF i \in mask THEN window \ mask ELSE mask
        d == IF other = {} THEN Cardinality(window) ELSE Min({Abs(i - j) : j \in other})
    IN  IF i \in mask THEN -d ELSE d

\* _prepare_reference_artifacts
Crop(o) == (Min(o.ref) - CropMargin .. Max(o.ref) + CropMargin) \cap (0..o.res - 1)

-----------------------------------------------------------------------------
(* The solver *)

\* fuse_observation_sdfs: the ink's bounds of a raster are laid on the measured box.
Sampled(g, o, u) ==
    LET box == Box(g)
        first == Min(o.ref)
        span == Max(o.ref) - first
        at == first + ((u - box.lo) * span) \div (box.hi - box.lo)
    IN  -SignedDistance(o.ref, 0..o.res - 1, Max({0, Min({at, o.res - 1})})) * (Em \div o.res)

\* Rasters with no extent are passed over; the finer weigh more.
Fused(g, obs, u) ==
    LET drawn == {o \in obs : o.ref /= {} /\ Max(o.ref) > Min(o.ref)}
    IN  IF drawn = {} THEN -1
        ELSE MapThenSumSet(LAMBDA o : Sampled(g, o, u) * o.res * o.res, drawn)

\* reconstruct_glyph: the strokes are the runs where the fused field is not negative.
Reconstruct(g, obs) ==
    LET in == {u \in 0..Em - 1 : Fused(g, obs, u) >= 0}
        runs == {p \in in \X in : p[1] <= p[2] /\ p[1]..p[2] \subseteq in
                                  /\ p[1] - 1 \notin in /\ p[2] + 1 \notin in}
    IN  {[lo |-> p[1], hi |-> p[2] + 1] : p \in runs}

-----------------------------------------------------------------------------
(* The loss of strokes, each of so many segments *)

CoverageLoss(model, o) ==
    1000 - (1000 * Cardinality(model \cap o.ref)) \div Max({1, Cardinality(model \cup o.ref)})

EdgeLoss(model, o) ==
    LET of == Boundary(model \cap Crop(o))
        ref == Boundary(o.ref)
    IN  (1000 * Cardinality((of \ ref) \cup (ref \ of))) \div Max({1, Cardinality(of \cup ref)})

SdfLoss(model, o) ==
    LET crop == Crop(o)
        in == model \cap crop
        apart(i) == Abs(SignedDistance(in, crop, i) - SignedDistance(o.ref, crop, i))
    IN  IF in = {} THEN 1000
        ELSE (1000 * MapThenSumSet(apart, crop)) \div (Cardinality(crop) * o.res)

\* _loss_components
Losses(strokes, segments, obs) ==
    LET of(o) == Raster(strokes, o.res, o.phase)
        inked == {o \in obs : o.ref /= {}}
        \* an empty reference: everything the outline draws is outside the crop
        blank == 1000 * Cardinality(obs \ inked)
        coverage(o) == CoverageLoss(of(o), o)
        edge(o) == EdgeLoss(of(o), o)
        sdf(o) == SdfLoss(of(o), o)
    IN  [coverage |-> (MapThenSumSet(coverage, inked) + blank) \div Cardinality(obs),
         edge |-> MapThenSumSet(edge, inked) \div Cardinality(obs),
         sdf |-> MapThenSumSet(sdf, inked) \div Cardinality(obs),
         complexity |-> Min({1000, (1000 * segments * Cardinality(strokes)) \div 128})]

\* OPTIMIZATION_LOSS_WEIGHTS
Weighed(l) == 100 * l.coverage + 50 * l.edge + 25 * l.sdf + l.complexity

Objective(out, obs) == Weighed(Losses(out.strokes, out.segments, obs))

-----------------------------------------------------------------------------
(* optimize_glyph *)

\* _transform_contours: scaled about the middle of the box, then moved.
Moved(strokes, centre, dx, sx) ==
    LET at(u) == centre + ((u - centre) * sx) \div Scale1 + dx
    IN  {[lo |-> at(s.lo), hi |-> at(s.hi)] : s \in strokes}

\* _simplify_contours and _subdivide_contours change the segments, never the shape.
Variants(g) == <<Corners(g), Min({Corners(g), 4}), 2 * Corners(g)>>

Moves(step) == <<[dx |-> -step, sx |-> 0], [dx |-> step, sx |-> 0],
                 [dx |-> 0, sx |-> -step], [dx |-> 0, sx |-> step]>>

\* The end of a round: a round that improved nothing halves the steps, or has converged.
RoundEnd(st) ==
    IF st.improved THEN [st EXCEPT !.improved = FALSE, !.move = 1]
    ELSE IF st.step \div 2 < MinStep THEN [st EXCEPT !.stop = "CONVERGED"]
    ELSE [st EXCEPT !.step = @ \div 2, !.move = 1]

\* A step that improves ends the two tries of its dimension.
Evaluated(st, m, out, obj) ==
    IF obj < st.obj - Improvement
    THEN [st EXCEPT !.out = out, !.obj = obj, !.dx = @ + m.dx, !.sx = @ + m.sx,
                    !.improved = TRUE, !.it = @ + 1, !.move = @ + 1 + (@ % 2)]
    ELSE [st EXCEPT !.it = @ + 1, !.move = @ + 1]

\* One evaluation.
Try(start, centre, obs, st) ==
    LET m == Moves(st.step)[st.move]
        out == [start EXCEPT !.strokes = Moved(@, centre, st.dx + m.dx, st.sx + m.sx)]
    IN  Evaluated(st, m, out, Objective(out, obs))

\* A budget that runs out in the middle of a round still ends the round.
Tried(st, budget) == IF st.move > Len(Moves(1)) \/ st.it >= budget THEN RoundEnd(st) ELSE st

Iterate(start, centre, obs, budget, st) ==
    IF st.stop /= "ITERATION_BUDGET_EXHAUSTED" \/ st.it >= budget THEN st
    ELSE Tried(Try(start, centre, obs, st), budget)

\* The variant to start from: the first of the least loss.
Best(outs, losses) ==
    outs[CHOOSE i \in DOMAIN outs : \A j \in DOMAIN outs :
             losses[i] < losses[j] \/ (losses[i] = losses[j] /\ i <= j)]

Descend(g, start, obs, budget) ==
    LET centre == (Box(g).lo + Box(g).hi) \div 2
        st0 == [out |-> start, obj |-> Objective(start, obs), dx |-> 0, sx |-> Scale1, step |-> Step0,
                move |-> 1, improved |-> FALSE, it |-> 0, stop |-> "ITERATION_BUDGET_EXHAUSTED"]
    IN  FoldLeft(LAMBDA st, i : Iterate(start, centre, obs, budget, st), st0, [i \in 1..budget |-> i])

Optimize(g, strokes, obs, budget) ==
    LET outs == [i \in DOMAIN Variants(g) |-> [strokes |-> strokes, segments |-> Variants(g)[i]]]
        losses == [i \in DOMAIN outs |-> Objective(outs[i], obs)]
    IN  Descend(g, Best(outs, losses), obs, budget)
=============================================================================
