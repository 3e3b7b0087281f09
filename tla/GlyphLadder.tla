------------------------------ MODULE GlyphLadder ------------------------------
(***************************************************************************)
(* The ladder of one glyph: fidelity/balanced_search.py (_fit_glyph and    *)
(* what it calls), profiles.py.  Easy glyphs are fitted to a few rasters,  *)
(* hard ones to more and then to all; the outline published is picked by   *)
(* its loss on all of them.                                                *)
(***************************************************************************)
EXTENDS GlyphFit

\* select_core_resolutions
CoreResolutions ==
    LET core == CoreVersioned \cap Resolutions
        below == {r \in Resolutions : r <= Max(CoreVersioned)}
    IN  IF core /= {} THEN core ELSE IF below /= {} THEN {Max(below)} ELSE {Min(Resolutions)}

\* select_easy_phases
EasyPhases ==
    IF BasePhases \cap EasyAxes /= {} THEN BasePhases \cap EasyAxes ELSE {Min(BasePhases)}

\* _tier_observations
TierObservations(g, resolutions, phases) ==
    {o \in Records(g) : o.res \in resolutions /\ o.phase \in phases}

AllRecords(g) == TierObservations(g, Resolutions, PhasesOf(g))

-----------------------------------------------------------------------------
(* classify_glyph_difficulty *)

BornHard(g) == IsMark(g) \/ (IsUncertain(g) /\ ExpandedPhases /= BasePhases)

\* What the first tier shows.
FoundHard(g, tier, obs) ==
    \/ Cardinality(tier.out.strokes) >= 2
    \/ tier.obj > MaxObjective
    \/ Losses(tier.out.strokes, tier.out.segments, obs).coverage > MaxCoverage
    \/ tier.stop = "ITERATION_BUDGET_EXHAUSTED"

-----------------------------------------------------------------------------
(* The tiers *)

\* _run_tier: from the outline it is given, or from the solver's.
TierResult(name, fit) == [name |-> name, out |-> fit.out, obj |-> fit.obj, stop |-> fit.stop]

RunTier(name, g, strokes, obs) == TierResult(name, Optimize(g, strokes, obs, Budget(name)))

CoreEvidence(g) ==
    LET obs == TierObservations(g, CoreResolutions, IF BornHard(g) THEN BasePhases ELSE EasyPhases)
    IN  IF obs = {} THEN Records(g) ELSE obs

CoreTier(g) ==
    LET obs == CoreEvidence(g)
    IN  RunTier("CORE", g, Reconstruct(g, obs), obs)

\* A tier that starts from the outline of the tier before; one without rasters is passed over.
Climb(pool, name, g, obs) ==
    IF obs = {} THEN pool ELSE Append(pool, RunTier(name, g, Last(pool).out.strokes, obs))

\* FULL_SET starts from the solver's outline.
FullTier(g) == RunTier("FULL_SET", g, Reconstruct(g, AllRecords(g)), AllRecords(g))

\* _run_expansion_ladder
Expand(g, pool) ==
    LET base == Climb(pool, "HARD_4X4", g, TierObservations(g, CoreResolutions, BasePhases))
        more == Climb(base, "HARD_8X8", g, TierObservations(g, CoreResolutions, ExpandedPhases))
    IN  Append(more, FullTier(g))

-----------------------------------------------------------------------------
(* rerank_pool *)

\* The best of the tiers by their own objective, and the last of all.
Kept(pool) ==
    LET rank(i) == Cardinality({j \in DOMAIN pool :
                       \/ pool[j].obj < pool[i].obj
                       \/ pool[j].obj = pool[i].obj /\ j < i})
    IN  {i \in DOMAIN pool : rank(i) < Max({2, TopK}) \/ i = Len(pool)}

\* Of two outlines alike only the first is kept.
Deduped(pool) ==
    {i \in Kept(pool) : \A j \in Kept(pool) : j < i => pool[j].out /= pool[i].out}

\* The outlines fitted to all rasters.  There is none if an earlier tier came to the same outline.
Complete(pool) == {i \in Deduped(pool) : pool[i].name = "FULL_SET"}

FullObjective(g, tier) == Objective(tier.out, AllRecords(g))

\* The slip of Eligible: every outline may win.
Eligible_Fault(pool) == Deduped(pool)

\* Only an outline fitted to all rasters is eligible, if there is one.
Eligible(pool) == IF Complete(pool) /= {} THEN Complete(pool) ELSE Deduped(pool)

Winner(g, pool) ==
    CHOOSE i \in Eligible(pool) : \A j \in Eligible(pool) :
        \/ FullObjective(g, pool[i]) < FullObjective(g, pool[j])
        \/ FullObjective(g, pool[i]) = FullObjective(g, pool[j]) /\ i <= j

\* rerank_margin_accepts_top1: a lone eligible outline has to be inside the bound.
Top1Accepts(g, pool) ==
    Cardinality(Eligible(pool)) >= 2 \/ FullObjective(g, pool[Winner(g, pool)]) <= Top1Objective

\* Every loss on all rasters is inside a share of its bound, in twelfths.
Inside(g, out, share) ==
    LET l == Losses(out.strokes, out.segments, AllRecords(g))
    IN  /\ 12 * Weighed(l) <= share * MaxObjective
        /\ 12 * l.coverage <= share * MaxCoverage
        /\ 12 * l.edge <= share * MaxEdge
        /\ 12 * l.sdf <= share * MaxSdf

\* The accept margin: one quarter is kept free.
WithinMargin(g, out) == Inside(g, out, 9)

-----------------------------------------------------------------------------
(* _fit_glyph, as its stages *)

HasInk(g) == \E o \in Records(g) : o.ref /= {}

NoFit == [strokes |-> {}, segments |-> 0]

Published(g, pool, class) ==
    LET win == pool[Winner(g, pool)]
    IN  [ok |-> TRUE, out |-> win.out, from |-> win.name, class |-> class,
         stop |-> Last(pool).stop, trained |-> win.name = "FULL_SET"]

Rejected(pool) ==
    [ok |-> FALSE, out |-> NoFit, from |-> Last(pool).name, class |-> "", stop |-> "", trained |-> FALSE]

ZeroInk == [ok |-> TRUE, out |-> NoFit, from |-> "ZERO_INK", class |-> "EASY",
            stop |-> "ZERO_INK_TRIVIAL", trained |-> FALSE]

\* What the first tier and, if the glyph is hard, the ladder leave.
Climbed(g, core) ==
    IF BornHard(g) \/ FoundHard(g, core, CoreEvidence(g)) THEN Expand(g, <<core>>) ELSE <<core>>

FirstPool(g) == Climbed(g, CoreTier(g))

\* An outline that was fitted to some rasters and is outside the margin of all is fitted again by
\* the whole ladder.
LastPool(g, pool) ==
    IF \/ ~Top1Accepts(g, pool)
       \/ Complete(pool) /= {}
       \/ WithinMargin(g, pool[Winner(g, pool)].out)
    THEN pool ELSE Expand(g, pool)

FitInked(g, last) ==
    IF Top1Accepts(g, last) THEN Published(g, last, IF Len(last) = 1 THEN "EASY" ELSE "HARD")
    ELSE Rejected(last)

-----------------------------------------------------------------------------
(* compute_profile_confidence *)

\* A glyph that ran out of its budget scores three quarters.
Confident(fits) ==
    LET tired == {g \in DOMAIN fits : fits[g].stop = "ITERATION_BUDGET_EXHAUSTED"}
    IN  /\ 4 * Cardinality(tired) <= Cardinality(DOMAIN fits)
        /\ \A g \in DOMAIN fits : HasInk(g) => Inside(g, fits[g].out, IF g \in tired THEN 8 ELSE 9)
=============================================================================
