-------------------------- MODULE VietnameseExtension --------------------------
(***************************************************************************)
(* The glyphs a Vietnamese font needs and its source does not show:        *)
(* compute/vietnamese.py makes those it can out of marks the source does   *)
(* show and asks the cascade of compute/woku_client.py and                 *)
(* openrouter_client.py for the rest.                                      *)
(*                                                                         *)
(* An answer of a model is "ok", "other" (well formed, but other   *)
(* outlines than the rest draw), "junk" or "down".                         *)
(***************************************************************************)
EXTENDS GateEvidence

CONSTANTS
    Required,           \* VIETNAMESE_REQUIRED_CODEPOINTS
    Marks,              \* combining marks among them
    Parts(_),           \* of the NFD of a code point, the base first
    Sketch(_, _),       \* the spec a model draws of a code point
    EscalateAbove,      \* DIFFICULT_ESCALATION_GLYPH_COUNT
    ClipLimit           \* of an outline in the built font

NoGlyph == [out |-> {}, adv |-> -1, lsb |-> 0, conf |-> 0, from |-> {}]

Missing(m) == Required \ DOMAIN m.glyphs

-----------------------------------------------------------------------------
(* From the source's own marks *)

\* An accented glyph with the same marks over another base, both of them in the source.
Donors(m, cp) ==
    LET marks == IF cp \in Marks THEN <<cp>> ELSE Tail(Parts(cp))
    IN  {d \in DOMAIN m.glyphs \ {cp} :
            /\ Len(Parts(d)) > 1 /\ Tail(Parts(d)) = marks
            /\ Head(Parts(d)) \in DOMAIN m.glyphs
            /\ cp \in Marks \/ Head(Parts(d)) /= Head(Parts(cp))}

Moved(out, dx) == {[lo |-> st.lo + dx, hi |-> st.hi + dx] : st \in out}

Composable(m, cp) ==
    /\ cp \in Marks \/ (Len(Parts(cp)) > 1 /\ Head(Parts(cp)) \in DOMAIN m.glyphs)
    /\ Donors(m, cp) /= {}

\* _deterministic_glyph: the first donor's strokes beyond its base, over the middle of this base.
Composed(m, cp) ==
    LET donor == Min(Donors(m, cp))
        under == m.glyphs[Head(Parts(donor))]
        marks == m.glyphs[donor].out \ under.out
        base == m.glyphs[Head(Parts(cp))]
    IN  IF ~Composable(m, cp) \/ marks = {} THEN NoGlyph
        ELSE IF cp \in Marks THEN [NoGlyph EXCEPT !.out = marks, !.adv = 0, !.conf = 1000]
        ELSE [base EXCEPT !.out = @ \union Moved(marks, (base.adv - under.adv) \div 2),
                          !.conf = 1000, !.from = {}]

Unresolved(m) == {cp \in Missing(m) : Composed(m, cp) = NoGlyph}

-----------------------------------------------------------------------------
(* The cascade *)

\* AICandidateSpec.validate
SpecOk(cp, spec) ==
    /\ spec.adv > 0 \/ (spec.adv = 0 /\ cp \in Marks)
    /\ spec.out = {} => cp \in Marks
    /\ \A st \in spec.out : st.lo < st.hi
    /\ cp \in Marks /\ spec.out /= {} => spec.anchored

\* _parse_candidates: one bad glyph, or one too few, and the answer is no answer.
Parsed(model, answer, missing) ==
    answer \in {"ok", "other"} /\ \A cp \in missing : SpecOk(cp, Sketch(model, cp))

\* OpenRouterAIClient.generate_candidates, and whose answer it takes: many glyphs or a bad answer
\* call in the larger model, two answers that differ an arbiter, once.
Primary(answers, missing) == Parsed("12b", answers["12b"], missing)
Escalated(answers, missing) == ~Primary(answers, missing) \/ Cardinality(missing) > EscalateAbove
Difficult(answers, missing) ==
    Escalated(answers, missing) /\ Parsed("27b", answers["27b"], missing)

Arbited(answers) == CASE answers["arbiter"] = "ok" -> "12b"
                      [] answers["arbiter"] = "other" -> "27b"
                      [] OTHER -> "failed"

OpenRouter(answers, missing) ==
    CASE Primary(answers, missing) /\ Difficult(answers, missing) /\ answers["12b"] /= answers["27b"]
            -> Arbited(answers)
      [] Primary(answers, missing) -> "12b"
      [] Difficult(answers, missing) -> "27b"
      [] OTHER -> "failed"

\* WokuCascadeAIClient.generate_candidates: each route once, in this order.
Cascade(answers, missing) ==
    CASE Parsed("woku1", answers["woku1"], missing) -> "woku1"
      [] Parsed("woku2", answers["woku2"], missing) -> "woku2"
      [] OTHER -> OpenRouter(answers, missing)

-----------------------------------------------------------------------------
(* The extended model *)

Drafted(model, cp) ==
    [out |-> Sketch(model, cp).out, adv |-> Sketch(model, cp).adv, lsb |-> 0, conf |-> 1000, from |-> {}]

\* extend, by the model that drew what could not be composed.  The source's model is left as it is.
Extended(m, by) ==
    [m EXCEPT !.glyphs = [cp \in Missing(m) |->
        IF cp \in Unresolved(m) THEN Drafted(by, cp) ELSE Composed(m, cp)] @@ @]

\* validate_nfc_nfd_coverage
PartsCovered(m) ==
    \A cp \in Required \cap DOMAIN m.glyphs : \A i \in DOMAIN Parts(cp) : Parts(cp)[i] \in DOMAIN m.glyphs

\* validate_candidate_font_bytes, of the built font: the corpus, the box, the spacing.
FontUsable(m) ==
    /\ Required \subseteq DOMAIN m.glyphs
    /\ \A cp \in DOMAIN m.glyphs :
        /\ \A st \in m.glyphs[cp].out : st.lo >= -ClipLimit /\ st.hi <= ClipLimit
        /\ m.glyphs[cp].adv >= 0 /\ m.glyphs[cp].adv <= 4 * Em
        /\ m.glyphs[cp].adv = 0 => cp \in Marks
=============================================================================
