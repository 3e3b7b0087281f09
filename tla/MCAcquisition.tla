----------------------------- MODULE MCAcquisition -----------------------------
(* A family of two styles, one whose name contains the other's, and a second family. *)
EXTENDS Acquisition

Bold == [fam |-> "F", sty |-> "bold"]
Italic == [fam |-> "F", sty |-> "bold italic"]
Other == [fam |-> "G", sty |-> "bold"]
MCCorrupt == [fam |-> "corrupt", sty |-> "corrupt"]

MCNoHash == [fam |-> "none", sty |-> "md5"]

MCWithin == {<<"bold", "bold italic">>}

Asked(name) == [id |-> name, name |-> name]

MCOrders ==
    [mode : {"ORIGINAL", "VIETNAMESE"}, styles : {<<Asked("bold")>>, <<Asked("bold italic"), Asked("bold")>>}]

Row(key, font, md5) == [key |-> key, name |-> font.sty, md5 |-> md5]
Page(family, rows, cands, inline) ==
    [family |-> family, rows |-> rows, md5 |-> MCNoHash, title |-> "regular",
     cands |-> cands, inline |-> inline]
Link(n) == [embedded |-> FALSE, at |-> n]
Inline(n) == [embedded |-> TRUE, at |-> n]

\* A page without rows, bound by its title to the first hash on it.
Rowless(title, md5) == [Page("F", <<>>, <<>>, <<>>) EXCEPT !.md5 = md5, !.title = title]

\* Hashes only, under shop numbers; one style without its hash; links and embedded fonts
\* of both styles; a page that names no style; one that shows one style and the hash of
\* another; and the page of another family.
MCPages == {
    Page("F", <<Row("2", Italic, Italic), Row("1", Bold, Bold)>>, <<>>, <<>>),
    Page("F", <<Row("bold", Bold, MCNoHash)>>, <<>>, <<>>),
    Page("F", <<Row("bold", Bold, Bold), Row("bold italic", Italic, MCNoHash)>>,
         <<Link(1), Inline(1)>>, <<Bold>>),
    Page("none", <<>>, <<Inline(1)>>, <<Italic>>),
    Rowless("bold", Italic),
    Page("G", <<Row("bold", Other, Other)>>, <<>>, <<>>)}

MCServed == {<<NoFont>>, <<Bold>>, <<Italic>>, <<MCCorrupt>>}

Hit(font) == [family |-> font.fam, key |-> font.sty, name |-> font.sty, md5 |-> font]

\* No hit, one style, both, and those of another family, alone and beside the ordered one's.
MCHitLists == {<<>>, <<Hit(Italic)>>, <<Hit(Bold), Hit(Italic)>>, <<Hit(Bold), Hit(Other)>>, <<Hit(Other)>>}

\* Every font has a page of two glyphs and an unmapped slot, and a page of one glyph.
MCFontCps(f) == IF f \in {Bold, Italic, Other} THEN {32, 65, 66} ELSE {}
Slot(cp) == [cp |-> cp, blank |-> FALSE, fits |-> TRUE, ink |-> TRUE]
Layouts == <<<<Slot(32), Slot(0), Slot(65)>>, <<Slot(66)>>>>
Right(i) == [ok |-> TRUE, slots |-> IF i \in DOMAIN Layouts THEN Layouts[i] ELSE <<>>, tofu |-> FALSE]
Wrong == [ok |-> FALSE, slots |-> <<>>, tofu |-> FALSE]
Unbound == [ok |-> TRUE, slots |-> <<Slot(0)>>, tofu |-> FALSE]

MCDescOf(name) == IF name = "bold italic" THEN "700 italic" ELSE "700"
Face(font, loaded) == [desc |-> MCDescOf(font.sty), md5 |-> font, loaded |-> loaded]
MCFaceSets == {{Face(Bold, TRUE), Face(Italic, TRUE)}, {Face(Bold, FALSE), Face(Other, TRUE)}}

\* One request of a crawl may fail or come without bound code points.
MCCrawls ==
    LET requests == Sizes \X (1..MaxSpritePages)
        crawl(bad, as) == [pt \in Sizes |-> [i \in 1..MaxSpritePages |->
                            IF <<pt, i>> \in bad THEN as ELSE Right(i)]]
        all == {crawl(bad, as) : bad \in {{}} \cup {{r} : r \in requests}, as \in {Wrong, Unbound}}
    IN  [f \in {Bold, Italic, Other} |-> all]
=============================================================================
