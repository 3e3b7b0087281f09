---------------------------- MODULE MCReleaseGate ----------------------------
(***************************************************************************)
(* ReleaseGate for TLC: "plain" is a style a provider drew, with one       *)
(* accented glyph to compose the others of; "bare" one a browser drew, and *)
(* another browser later, without any; "blank" one whose space is as empty *)
(* in what is held out as in what is fitted; "licensed" has a binary,      *)
(* "broken" one that does not pass.  Code points: 1 and 2 are letters, 11  *)
(* and 12 the same with an accent, 20 the accent, 5 a space.               *)
(***************************************************************************)
EXTENDS ReleaseGate

MCSorted == <<"late", "bare", "blank", "plain">>
MCStyleOf(c) == IF c = "late" THEN "bare" ELSE c

Stroke(lo, hi) == [lo |-> lo, hi |-> hi]
MCOutline(c, cp) ==
    CASE cp = 1 -> {Stroke(0, 8)} [] cp = 2 -> {Stroke(0, 4)} [] cp = 5 -> {}
      [] cp = 11 -> {Stroke(0, 8), Stroke(12, 16)}

Advance(cp) == IF cp = 2 THEN 8 ELSE 12

\* The fit and the held-out size of a provider, or the fit and the held-out phase of a browser.
Shots(c) == IF c = "plain" THEN {<<4, 0>>, <<8, 0>>} ELSE {<<8, 0>>, <<8, 2>>}

Coverage(c) == CASE c = "plain" -> {1, 2, 11} [] c = "blank" -> {1, 2, 5} [] OTHER -> {1, 2}

MCStore(c) ==
    [complete |-> TRUE, intact |-> TRUE,
     sealed |-> IF c = "plain" THEN [fit |-> {4}, held |-> {8}] ELSE NoCapability,
     coverage |-> Coverage(c),
     rows |-> {[cp |-> cp, res |-> shot[1], phase |-> shot[2], adv |-> Advance(cp), lsb |-> 0,
                ink |-> Drawn(MCOutline(c, cp), shot[1], shot[2])] : cp \in Coverage(c), shot \in Shots(c)},
     damaged |-> {},
     pairs |-> {[l |-> 1, r |-> r, total |-> 12 + Advance(r), kern |-> 0, conf |-> 900, trusted |-> TRUE]
                : r \in {1, 2}},
     pairRows |-> <<>>,
     metrics |-> [cp \in Coverage(c) |-> <<[adv |-> Advance(cp), lsb |-> 0], [adv |-> Advance(cp), lsb |-> 0]>>],
     uncertain |-> {},
     conf |-> [cp \in Coverage(c) |-> 900]]

MCConfident(c) == TRUE
MCBinary(style) == CASE style = "licensed" -> "good" [] style = "broken" -> "bad" [] OTHER -> "none"

MCParts(cp) == CASE cp = 11 -> <<1, 20>> [] cp = 12 -> <<2, 20>> [] OTHER -> <<cp>>

\* woku2 floats its accents, 27b draws out of the box.
MCSketch(model, cp) ==
    [out |-> CASE cp = 20 -> {Stroke(12, 16)}
               [] model = "27b" -> {Stroke(0, 80)}
               [] OTHER -> {Stroke(0, 8), Stroke(12, 16)},
     adv |-> IF cp = 20 THEN 0 ELSE 12,
     anchored |-> model /= "woku2"]

Down == [m \in {"woku1", "woku2", "12b", "27b", "arbiter"} |-> "down"]
MCAnswers == {
    [Down EXCEPT !["woku1"] = "ok"],
    [Down EXCEPT !["woku1"] = "junk", !["woku2"] = "ok", !["12b"] = "ok"],
    [Down EXCEPT !["12b"] = "ok", !["27b"] = "other", !["arbiter"] = "ok"],
    [Down EXCEPT !["12b"] = "ok", !["27b"] = "other", !["arbiter"] = "other"],
    Down}

Ordered(style, fmt) == [style |-> style, fmt |-> fmt]
MCBooks == {
    (1 :> [mode |-> "ORIGINAL", items |-> <<Ordered("plain", "ttf"), Ordered("plain", "otf")>>]) @@
    (2 :> [mode |-> "VIETNAMESE", items |-> <<Ordered("plain", "ttf")>>]),
    (1 :> [mode |-> "VIETNAMESE", items |-> <<Ordered("bare", "ttf")>>]) @@
    (2 :> [mode |-> "ORIGINAL", items |-> <<Ordered("bare", "ttf"), Ordered("licensed", "ttf")>>]),
    (1 :> [mode |-> "ORIGINAL", items |-> <<Ordered("blank", "ttf")>>]) @@
    (2 :> [mode |-> "ORIGINAL", items |-> <<Ordered("broken", "otf")>>])}

MCHistories == {{"bare", "blank", "plain"}}
==============================================================================
