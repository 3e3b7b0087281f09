------------------------------ MODULE RasterPages ------------------------------
(***************************************************************************)
(* Sprite pages of agent/src/acquisition: how the render endpoint of the   *)
(* foundry is crawled (adapters.py), which crawls count as complete        *)
(* (models.py), how the render sizes are divided (capability.py) and what  *)
(* the ingestion into the observation store accepts (raster_ingest.py).    *)
(*                                                                         *)
(* A page is [idx, pt, md5, by, glyphs, final, next, tofu]: its number,    *)
(* render size, font hash, producer, sequence of glyphs, terminal marks    *)
(* and the provider's tofu signal; the pages of a raster are a set, as a   *)
(* crawl asks for each once.  A glyph is [cp, blank, fits, ink]: its       *)
(* code point (0 for an unmapped slot), whether it is the measured space   *)
(* of the canvas, bound to no cell, whether its cell lies in the image and *)
(* whether the cell shows anything.  A hash is the font it is of.  PNG and *)
(* base64 decoding, hashing and the case of hashes are left out.           *)
(***************************************************************************)
EXTENDS Discovery

CONSTANT MaxSpritePages     \* policy.max_sprite_pages

Providers == {"monotype_render_105", "playwright_stealth_persistent"}

Space == 32

NoPage == [idx |-> 0]

\* A size passes the crawl or it does not.
Failed == {}

-----------------------------------------------------------------------------
(* The Monotype endpoint *)

\* What the server answers to one request: whether it is a well-formed 200 with a PNG and
\* with cells of positive size, the slots of its layout and whether it reports tofu.
Answer == [ok : BOOLEAN, slots : Seq([cp : Nat, blank : {FALSE}, fits : BOOLEAN, ink : BOOLEAN]), tofu : BOOLEAN]

Mapped(slots) == SelectSeq(slots, LAMBDA g : g.cp > 0)

\* _parse_page: an empty layout is the completion signal, one without a bound code point
\* is no page at all, and a page with glyphs never says that it is the last.
ParsePage(a, idx, pt, md5) ==
    IF ~a.ok \/ (a.slots # <<>> /\ Mapped(a.slots) = <<>>) THEN NoPage
    ELSE [idx |-> idx, pt |-> pt, md5 |-> md5, by |-> "monotype_render_105",
          glyphs |-> Mapped(a.slots), final |-> a.slots = <<>>,
          next |-> IF a.slots = <<>> THEN 0 ELSE idx + 1, tofu |-> a.tofu]

\* fetch_size: pages one after the other until one fails, ends the font or is the last
\* that the policy allows; answers is what each request would get.
FetchSize(answers, pt, md5) ==
    LET got(i) == ParsePage(answers[i], i, pt, md5)
        stop(i) == got(i) = NoPage \/ got(i).final \/ i = MaxSpritePages
        last == CHOOSE i \in 1..MaxSpritePages : stop(i) /\ \A k \in 1..(i - 1) : ~stop(k)
    IN  {got(i) : i \in 1..last} \ {NoPage}

-----------------------------------------------------------------------------
(* Completeness of a raster *)

OfSize(pages, pt) == {p \in pages : p.pt = pt}

CodePointsOf(glyphs) == {glyphs[k].cp : k \in DOMAIN glyphs}
CodePoints(pages) == UNION {CodePointsOf(p.glyphs) : p \in pages}

\* No code point occurs twice, neither on one page nor on two.
NoDuplicates(pages) ==
    \A p \in pages : \A q \in pages : \A i \in DOMAIN p.glyphs : \A k \in DOMAIN q.glyphs :
        p.glyphs[i].cp = q.glyphs[k].cp => p = q /\ i = k

Numbered(pages) == {p.idx : p \in pages} = 1..Cardinality(pages)

\* One render size: numbered from one without a gap, every page but the last announces the
\* next and shows something, the last ends the font.  The slip takes whatever was got.
SizeComplete_Fault(pages) ==
    /\ Numbered(pages)
    /\ \E p \in pages : p.glyphs # <<>>
    /\ NoDuplicates(pages)

SizeComplete(pages) ==
    /\ Numbered(pages)
    /\ \A p \in pages :
        IF p.idx < Cardinality(pages) THEN ~p.final /\ p.next # 0 /\ p.glyphs # <<>>
        ELSE p.final \/ p.next = 0 \/ p.glyphs = <<>>
    /\ \E p \in pages : p.glyphs # <<>>
    /\ NoDuplicates(pages)

\* is_complete_raster_pages: every page of the known hash, every cell in its image, exactly
\* the requested sizes and each of them complete.
IsCompleteRasterPages(pages, pts, md5) ==
    /\ pages # {}
    /\ \A p \in pages :
        /\ p.md5 # NoHash /\ p.md5 = md5
        /\ \A k \in DOMAIN p.glyphs :
            LET g == p.glyphs[k] IN IF g.blank THEN g.cp = Space ELSE g.fits
    /\ {p.pt : p \in pages} = pts
    /\ \A pt \in pts : SizeComplete(OfSize(pages, pt))

\* fetch_all_sprite_pages: all sizes or nothing.
FetchAllSpritePages(answers, pts, md5) ==
    LET crawl(pt) == FetchSize(answers[pt], pt, md5)
        all == UNION {crawl(pt) : pt \in pts}
    IN  IF (\E pt \in pts : crawl(pt) = {}) \/ ~IsCompleteRasterPages(all, pts, md5) THEN Failed
        ELSE all

-----------------------------------------------------------------------------
(* Render sizes and producers *)

\* deterministic_size_schedule: sorted sizes alternate between the fit and the held-out part.
SizeSchedule(sizes) ==
    LET s == SetToSortSeq(sizes, <)
    IN  [fit |-> {s[i] : i \in {k \in DOMAIN s : k % 2 = 1}},
         heldOut |-> {s[i] : i \in {k \in DOMAIN s : k % 2 = 0}}]

\* validate: what a capability must be to be used at all.
ValidCapability(c) ==
    /\ c.fit # {} /\ c.heldOut # {}
    /\ c.fit \cap c.heldOut = {}
    /\ \A s \in c.fit \cup c.heldOut : s >= 1

AllSizes(c) == c.fit \cup c.heldOut

\* resolve_raster_provider: one known producer for all pages, or none.
ResolveProvider(pages) ==
    LET ps == {p.by : p \in pages}
    IN  IF Cardinality(ps) = 1 /\ ps \subseteq Providers THEN CHOOSE p \in ps : TRUE ELSE "none"

-----------------------------------------------------------------------------
(* Ingestion *)

\* _slice_sprite_cells: a page has glyphs, and every glyph but the measured space has a cell
\* that lies in the image and shows ink.
Sliceable(p) ==
    /\ p.glyphs # <<>>
    /\ p.md5 # NoHash
    /\ p.by \in Providers
    /\ \A k \in DOMAIN p.glyphs :
        LET g == p.glyphs[k] IN IF g.blank THEN g.cp = Space ELSE g.fits /\ g.ink
    /\ NoDuplicates({p})

\* ingest_raster_pages up to its writes, with measurements of exactly the code points seen.
Ingestible(pages, capability) ==
    LET covered == CodePoints(pages)
    IN  /\ pages # {}
        /\ ValidCapability(capability)
        /\ ResolveProvider(pages) # "none"
        /\ \A p \in pages : ~p.tofu /\ Sliceable(p)
        /\ \A pt \in {p.pt : p \in pages} : NoDuplicates(OfSize(pages, pt))
        /\ \A pt \in AllSizes(capability) : CodePoints(OfSize(pages, pt)) = covered
=============================================================================
