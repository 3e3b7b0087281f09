------------------------------ MODULE MCCollection ------------------------------
(* Two fonts on one page: one of two glyphs, and one that kept a glyph, off the grid. *)
EXTENDS Collection

MCDrawn(f) == IF f = "a" THEN {1, 2} ELSE {1}
MCHard(f, cp) == f = "b"
MCFitSizes == <<1, 2>>
MCHeldOutSizes == <<3>>
MCBasePhases == <<0>>
MCHardPhases == <<0, 1>>
MCHeldOutPhases == <<3>>
MCMetricSizes == <<128, 200>>
MCKerning(f, n) == IF f = "a" THEN <<0, -3>>[n] ELSE 0
MCBounded == {<<1, 2>>}
=============================================================================
