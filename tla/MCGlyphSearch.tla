----------------------------- MODULE MCGlyphSearch -----------------------------
(* A design space of 32 units, drawn on 8 and on 16 pixels. *)
EXTENDS GlyphSearch

Stroke(a, b) == [lo |-> a, hi |-> b]

\* Hinting moves all but the mark: "easy" a little, "missed" and "spoilt" so that a fit to
\* the coarse size misses the margin, the latter the bound on a lone outline too; "poor" so
\* that the fit to all rasters is published and the model is of low confidence.
MCInk(g, res) ==
    CASE g = "easy" -> IF res = 8 THEN {Stroke(4, 24)} ELSE {Stroke(5, 26)}
      [] g = "missed" -> IF res = 8 THEN {Stroke(4, 24)} ELSE {Stroke(3, 25)}
      [] g = "spoilt" -> IF res = 8 THEN {Stroke(4, 24)} ELSE {Stroke(4, 25)}
      [] g = "poor" -> {Stroke(6, 20)}
      [] g = "mark" -> {Stroke(4, 10)}
      [] g = "space" -> {}

MCBox(g) ==
    CASE g = "easy" -> Stroke(5, 26)
      [] g = "missed" -> Stroke(3, 25)
      [] g = "spoilt" -> Stroke(4, 25)
      [] g = "poor" -> Stroke(6, 20)
      [] g = "mark" -> Stroke(3, 9)
      [] g = "space" -> Stroke(0, 8)

MCIsMark(g) == g = "mark"
MCIsUncertain(g) == FALSE
MCCorners(g) == IF g = "easy" THEN 6 ELSE 4
MCBudget(name) == IF name = "FULL_SET" THEN 24 ELSE 10

MCFamilies == {<<"missed">>, <<"mark">>, <<"poor">>, <<"easy", "space">>}
MCSpoilt == {<<"spoilt", "space">>}
=============================================================================
