--------------------------------- MODULE MCAtlas ---------------------------------
(* Two styles that share a glyph; glyph 3 of s1 is a mark with ink left of its pen. *)
EXTENDS Atlas

MCStyleSeq == <<"s1", "s2">>

MCCoverages(s) == IF s = "s1" THEN {1..5, {2, 4}} ELSE {{2, 7}}

MCKind(s, cp) ==
    CASE s = "s1" /\ cp = 4 -> "low"
      [] s = "s1" /\ cp = 5 -> "bad"
      [] s = "s2" /\ cp = 2 -> "hard"
      [] s = "s2" /\ cp = 7 -> "zero"
      [] OTHER -> "easy"

MCRow(s, cp) ==
    IF cp = 3 THEN [width |-> 0, left |-> -4, right |-> 6]
    ELSE [width |-> 9 + (cp % 2), left |-> 1, right |-> 8]

MCIsMark(cp) == cp = 3
=============================================================================
