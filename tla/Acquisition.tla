------------------------------ MODULE Acquisition ------------------------------
(***************************************************************************)
(* The acquisition of source fonts in agent/src/acquisition/pipeline.py    *)
(* and the loop of agent/src/runner.py that calls it, for one family whose *)
(* orders come one after the other and share the caches of the pipeline.   *)
(*                                                                         *)
(* Per order: a preflight over two discovery lanes, then for every style   *)
(* the binary of the dump, the binary and the raster of the stealth        *)
(* session, the raster of the CDN under a known hash or, without one, the  *)
(* raster under a hash from the search index; then the hand-over.  What a  *)
(* lane answers is chosen anew at every call: the page may change, fail or *)
(* be cut short between two calls.  The session provider is left out: the  *)
(* production composition passes none.                                     *)
(***************************************************************************)
EXTENDS RasterPages

CONSTANTS
    Family,             \* the family of the source URL, as ordered
    Orders,             \* possible orders: [mode, styles]
    MaxOrders,          \* bound: orders of one behaviour
    Resolutions,        \* config.resolutions
    Pages,              \* what the source URL may show
    Served,             \* what the links of a page may yield: [links -> fonts]
    HitLists,           \* what the search index may answer
    Crawls,             \* what the render endpoint may answer about a font
    Corrupt,            \* bytes that begin like a font and are none
    FontCps(_),         \* the code points of a font
    Required,           \* the code points a stealth capture has to prove
    DescOf(_),          \* style, weight and stretch read from a style name
    FaceSets,           \* the faces a page may declare: [desc, md5, loaded]
    Alikes              \* code points that may look like a fallback font's at some size

ASSUME MaxOrdersAssumption == MaxOrders \in Nat \ {0}

IsList(s) == Len(s) \in Nat /\ s = [i \in 1..Len(s) |-> s[i]]

\* An order asks for one style at least.
ASSUME OrdersAssumption ==
    \A o \in Orders : IsList(o.styles) /\ Len(o.styles) > 0

IsFont(f) == f = [fam |-> f.fam, sty |-> f.sty]

\* What a page or the search index may answer is of a known shape and names known fonts; of
\* which family and style they are is not assumed.
ASSUME PagesAssumption ==
    \A p \in Pages :
        /\ IsList(PageRows(p)) /\ IsList(p.cands)
        /\ \A i \in DOMAIN PageRows(p) : PageRows(p)[i].md5 \in {NoHash} \cup DOMAIN Crawls
        /\ \A k \in DOMAIN p.inline : IsFont(p.inline[k])
        /\ \A k \in DOMAIN p.cands :
            ~p.cands[k].embedded => \A s \in Served : p.cands[k].at \in DOMAIN s /\ IsFont(s[p.cands[k].at])

ASSUME HitsAssumption ==
    \A hits \in HitLists :
        LET found == ParseHits(hits).styles
        IN  IsList(found) /\ \A i \in DOMAIN found : found[i].md5 \in DOMAIN Crawls \ {NoHash}

Sizes == AllSizes(SizeSchedule(Resolutions))

\* The render endpoint has nothing more to show only after the whole font; before that it may
\* fail, or answer with what is no page, at any request.
ASSUME CrawlsAssumption ==
    \A f \in DOMAIN Crawls : \A answers \in Crawls[f] : \A pt \in Sizes : \A n \in 1..MaxSpritePages :
        /\ \A i \in 1..(n - 1) : answers[pt][i].ok /\ Mapped(answers[pt][i].slots) # <<>>
        /\ answers[pt][n].ok /\ answers[pt][n].slots = <<>>
        => UNION {CodePointsOf(Mapped(answers[pt][i].slots)) : i \in 1..n} = FontCps(f)

ASSUME MaxSpritePagesAssumption == MaxSpritePages \in Nat \ {0}

ASSUME FontsAssumption == IsFont(Corrupt) /\ \A f \in DOMAIN Crawls : IsFont(f)

VARIABLES
    number,             \* orders started
    asked,              \* the order at work
    env,                \* family_envelope of the runner
    lanes,              \* discovery lanes this order asked
    cachedEnv,          \* _cached_family_envelopes of the source URL
    cachedDump,         \* _cached_dumps of the source URL: its embedded fonts
    at,                 \* index of the style at work
    stage,              \* what is done next
    outcome,            \* AcquisitionOutcome of the style at work
    spoiled,            \* whether bytes for this order failed verification
    taken,              \* what the runner kept, by index of the style
    toBrowser           \* needs_acquisition

acquisitionVars == <<number, asked, env, lanes, cachedEnv, cachedDump, at, stage, outcome, spoiled, taken, toBrowser>>

NoDom == [family |-> "none"]
NoDump == <<NoFont>>
NoOrder == [mode |-> "none", styles |-> <<>>]

Style == asked.styles[at]

\* style_rec of acquire, which asks for the display name both times.
RecordFor(name) == GetStyleRecord(env.styles, name, name)

Record == RecordFor(Style.name)

Md5Of(rec) == IF rec = NoRecord THEN NoHash ELSE rec.md5

Undecided == [kind |-> "none", lane |-> "none"]
Binary(font, lane) == [kind |-> "binary", lane |-> lane, font |-> font]

\* History kept in a raster: the records that gave the hash, and the font that was drawn.
Raster(pages, lane, told, drawn) ==
    [kind |-> "raster_authorized", lane |-> lane, pages |-> pages, told |-> told, drawn |-> drawn]

Insufficient(reason) == [kind |-> "insufficient", lane |-> reason]

AcquisitionInit ==
    /\ number = 0 /\ asked = NoOrder
    /\ env = NoEnvelope /\ lanes = {}
    /\ cachedEnv = NoEnvelope /\ cachedDump = NoDump
    /\ at = 0 /\ stage = "idle"
    /\ outcome = Undecided /\ spoiled = FALSE
    /\ taken = <<>> /\ toBrowser = FALSE

Start(o) ==
    /\ stage = "idle" /\ number < MaxOrders
    /\ number' = number + 1 /\ asked' = o
    /\ env' = NoEnvelope /\ lanes' = {} /\ at' = 1
    /\ stage' = "preflight"
    /\ outcome' = Undecided /\ spoiled' = FALSE
    /\ taken' = <<>> /\ toBrowser' = FALSE
    /\ UNCHANGED <<cachedEnv, cachedDump>>

-----------------------------------------------------------------------------
(* acquire_family_preflight *)

Discovered(e) == env' = e /\ cachedEnv' = e /\ stage' = "dump"

\* The slip of CacheServes: an envelope once found serves every order.
CacheServes_Fault == cachedEnv # NoEnvelope

CacheServes == cachedEnv # NoEnvelope /\ HasCompleteMapFor(cachedEnv, asked.styles)

PreflightCached ==
    /\ stage = "preflight" /\ CacheServes
    /\ env' = cachedEnv /\ stage' = "dump"
    /\ UNCHANGED <<number, asked, lanes, cachedEnv, cachedDump, at, outcome, spoiled, taken, toBrowser>>

\* Lane 1: the dump is cached whatever it shows.
PreflightDump(dom) ==
    LET found == ParseFamilyDiscovery(dom, "dump_dom_binary")
    IN  /\ stage = "preflight" /\ ~CacheServes
        /\ lanes' = lanes \cup {"dump"}
        /\ IF dom = NoDom
           THEN env' = NoEnvelope /\ stage' = "preflight_stealth" /\ UNCHANGED <<cachedEnv, cachedDump>>
           ELSE /\ cachedDump' = dom.inline
                /\ IF HasCompleteMapFor(found, asked.styles)
                   THEN Discovered(found)
                   ELSE env' = found /\ stage' = "preflight_stealth" /\ UNCHANGED cachedEnv
        /\ UNCHANGED <<number, asked, at, outcome, spoiled, taken, toBrowser>>

\* Lane 2: the richer envelope of the two stays, and is cached even when incomplete.
PreflightStealth(dom) ==
    LET found == ParseFamilyDiscovery(dom, "playwright_stealth_persistent")
        empty == [family |-> Family, styles |-> <<>>, by |-> "none"]
        best == IF dom # NoDom /\ (env = NoEnvelope \/ Len(found.styles) > Len(env.styles))
                THEN found
                ELSE IF env = NoEnvelope THEN empty ELSE env
    IN  /\ stage = "preflight_stealth"
        /\ lanes' = lanes \cup {"stealth"}
        /\ Discovered(IF dom # NoDom /\ HasCompleteMapFor(found, asked.styles) THEN found ELSE best)
        /\ UNCHANGED <<number, asked, cachedDump, at, outcome, spoiled, taken, toBrowser>>

-----------------------------------------------------------------------------
(* acquire *)

OrderKept == UNCHANGED <<number, asked, env, lanes, cachedEnv, at, taken, toBrowser>>

Decide(o) == outcome' = o /\ stage' = "handover"

\* The slip of Verified: bytes that fail are taken for none.
Verified_Fault(font, lane, next) ==
    LET status == VerifyAcquiredBinary(font, Family, Style.name)
    IN  /\ spoiled' = (spoiled \/ status = "INTEGRITY_FAILED")
        /\ IF status = "VALID" THEN Decide(Binary(font, lane)) ELSE stage' = next /\ UNCHANGED outcome

\* Verified bytes win, bytes that fail end the style, and without bytes the next lane is asked.
Verified(font, lane, next) ==
    LET status == VerifyAcquiredBinary(font, Family, Style.name)
    IN  /\ spoiled' = (spoiled \/ status = "INTEGRITY_FAILED")
        /\ CASE status = "VALID" -> Decide(Binary(font, lane))
             [] status = "INTEGRITY_FAILED" -> Decide(Insufficient("INTEGRITY_FAILED"))
             [] OTHER -> stage' = next /\ UNCHANGED outcome

FamilyMatches == env.family \in {"none", Family}

FamilyMismatch ==
    /\ stage = "dump" /\ ~FamilyMatches
    /\ Decide(Insufficient("INTEGRITY_FAILED"))
    /\ OrderKept /\ UNCHANGED <<cachedDump, spoiled>>

\* Step 1: the candidates of the record, embedded ones against the cached dump, which is
\* fetched again when there is none.
DumpBinary(dom, served) ==
    LET inline == IF cachedDump # NoDump THEN cachedDump
                  ELSE IF dom = NoDom THEN <<>> ELSE dom.inline
        font == IF Record = NoRecord THEN NoFont ELSE ExtractBinary(Record.cands, inline, served)
    IN  /\ stage = "dump" /\ FamilyMatches
        /\ cachedDump' = IF cachedDump = NoDump /\ dom # NoDom THEN dom.inline ELSE cachedDump
        /\ Verified(font, "dump_dom_binary", "stealth_binary")
        /\ OrderKept

\* Step 2: bytes observed under a URL with the hash of the record; without a hash there are none.
StealthBinary(font) ==
    /\ stage = "stealth_binary"
    /\ font \in {NoFont, Corrupt, Md5Of(Record)} \ {NoHash}
    /\ Md5Of(Record) = NoHash => font = NoFont
    /\ Verified(font, "playwright_stealth_persistent", "stealth_raster")
    /\ OrderKept /\ UNCHANGED cachedDump

\* The faces the canvas script accepts for a hash: loaded, with the descriptors of the style
\* name and a declared source that was seen to arrive.  The slip asks for no arrival.
Candidates_Fault(faces, desc, md5, observed) ==
    {f \in faces : f.loaded /\ f.desc = desc}

Candidates(faces, desc, md5, observed) ==
    {f \in faces : f.loaded /\ f.desc = desc /\ f.md5 = md5 /\ md5 \in observed}

\* What it proves of a face at one size: the code points that do not look like the fallback
\* fonts' there; the space is not compared.
Proven(face, alike) == {cp \in FontCps(face.md5) : cp = Space \/ cp \notin alike}

\* The pages it draws, two cells a page; the page is marked with the hash that was asked for.
CanvasPages(proven, pt, md5) ==
    LET cells == [k \in 1..Cardinality(proven) |->
                    LET cp == SetToSortSeq(proven, <)[k]
                    IN  [cp |-> cp, blank |-> cp = Space, fits |-> TRUE, ink |-> cp # Space]]
        count == (Len(cells) + 1) \div 2
        upTo(n) == IF n < Len(cells) THEN n ELSE Len(cells)
    IN  {[idx |-> i, pt |-> pt, md5 |-> md5, by |-> "playwright_stealth_persistent",
          glyphs |-> SubSeq(cells, 2 * i - 1, upTo(2 * i)), final |-> i = count,
          next |-> IF i = count THEN 0 ELSE i + 1, tofu |-> FALSE] : i \in 1..count}

\* capture_raster_pages: refused unless one face alone qualifies and proves what is required
\* at every size.
CapturedPages(md5, candidates, alike) ==
    LET face == CHOOSE f \in candidates : TRUE
    IN  IF \/ Cardinality(candidates) # 1
           \/ \E pt \in Sizes : ~(Required \subseteq Proven(face, alike[pt]))
        THEN Failed
        ELSE UNION {CanvasPages(Proven(face, alike[pt]), pt, md5) : pt \in Sizes}

\* Step 2, after the binary: pages of another hash, or of none, do not pass.
StealthRaster(faces, observed, alike) ==
    LET md5 == Md5Of(Record)
        candidates == Candidates(faces, DescOf(Style.name), md5, observed)
        pages == CapturedPages(md5, candidates, alike)
        drawn == IF pages = Failed THEN NoFont ELSE (CHOOSE f \in candidates : TRUE).md5
    IN  /\ stage = "stealth_raster"
        /\ IF md5 # NoHash /\ IsCompleteRasterPages(pages, Sizes, md5)
           THEN Decide(Raster(pages, "playwright_stealth_persistent", env.styles, drawn))
           ELSE stage' = "cdn" /\ UNCHANGED outcome
        /\ OrderKept /\ UNCHANGED <<cachedDump, spoiled>>

\* A crawl of a hash that is authorised when complete, else the end of the style.
Crawl(md5, answers, lane, told) ==
    LET pages == FetchAllSpritePages(answers, Sizes, md5)
    IN  Decide(IF IsCompleteRasterPages(pages, Sizes, md5) THEN Raster(pages, lane, told, md5)
               ELSE Insufficient("ACQUISITION_INSUFFICIENT"))

\* Step 3, with a hash.
DirectCdn(answers) ==
    /\ stage = "cdn" /\ Md5Of(Record) # NoHash
    /\ answers \in Crawls[Md5Of(Record)]
    /\ Crawl(Md5Of(Record), answers, "monotype_authorized_raster", env.styles)
    /\ OrderKept /\ UNCHANGED <<cachedDump, spoiled>>

\* Step 4, without one.  The family of the answer is compared with nothing.
Algolia(hits) ==
    LET found == ParseHits(hits).styles
        rec == GetStyleRecord(found, Style.name, Style.name)
    IN  /\ stage = "cdn" /\ Md5Of(Record) = NoHash
        /\ IF rec = NoRecord
           THEN Decide(Insufficient("ACQUISITION_INSUFFICIENT"))
           ELSE \E answers \in Crawls[rec.md5] : Crawl(rec.md5, answers, "algolia_metadata_cdn", found)
        /\ OrderKept /\ UNCHANGED <<cachedDump, spoiled>>

-----------------------------------------------------------------------------
(* The hand-over in _execute_claimed_job *)

NextStyle == IF at < Len(asked.styles) THEN "dump" ELSE "finish"

Advance ==
    /\ at' = at + 1 /\ stage' = NextStyle /\ outcome' = Undecided
    /\ UNCHANGED <<number, asked, env, lanes, cachedEnv, cachedDump, spoiled>>

\* A binary serves an ORIGINAL order only; anything else unfit goes to the browser.
TakeBinary ==
    /\ stage = "handover" /\ outcome.kind = "binary"
    /\ LET wins == asked.mode = "ORIGINAL"
       IN  /\ taken' = Append(taken, IF wins THEN outcome ELSE Undecided)
           /\ toBrowser' = (toBrowser \/ ~wins)
    /\ Advance

\* The provider is resolved, the pages attested and ingested; an error fails the job.
TakeRaster ==
    /\ stage = "handover" /\ outcome.kind = "raster_authorized"
    /\ IF Ingestible(outcome.pages, SizeSchedule(Resolutions))
       THEN taken' = Append(taken, outcome) /\ UNCHANGED toBrowser /\ Advance
       ELSE /\ stage' = "failed"
            /\ UNCHANGED <<number, asked, env, lanes, cachedEnv, cachedDump, at, outcome, spoiled, taken, toBrowser>>

TakeNothing ==
    /\ stage = "handover" /\ outcome.kind = "insufficient"
    /\ IF outcome.lane = "INTEGRITY_FAILED"
       THEN /\ stage' = "failed"
            /\ UNCHANGED <<number, asked, env, lanes, cachedEnv, cachedDump, at, outcome, spoiled, taken, toBrowser>>
       ELSE taken' = Append(taken, Undecided) /\ toBrowser' = TRUE /\ Advance

\* The rest of the job: acquire_source for what is still wanting, and the build.
Finish ==
    /\ stage \in {"finish", "failed"}
    /\ stage' = "idle"
    /\ UNCHANGED <<number, asked, env, lanes, cachedEnv, cachedDump, at, outcome, spoiled, taken, toBrowser>>

Doms == Pages \cup {NoDom}

AcquisitionNext ==
    \/ \E o \in Orders : Start(o)
    \/ PreflightCached
    \/ \E dom \in Doms : PreflightDump(dom)
    \/ \E dom \in Doms : PreflightStealth(dom)
    \/ FamilyMismatch
    \/ \E dom \in Doms, served \in Served : DumpBinary(dom, served)
    \/ \E font \in {NoFont, Corrupt} \cup DOMAIN Crawls : StealthBinary(font)
    \/ \E faces \in FaceSets, observed \in SUBSET DOMAIN Crawls, alike \in [Sizes -> Alikes] :
            StealthRaster(faces, observed, alike)
    \/ \E answers \in UNION {Crawls[f] : f \in DOMAIN Crawls} : DirectCdn(answers)
    \/ \E hits \in HitLists : Algolia(hits)
    \/ TakeBinary \/ TakeRaster \/ TakeNothing
    \/ Finish

AcquisitionSpec == AcquisitionInit /\ [][AcquisitionNext]_acquisitionVars

-----------------------------------------------------------------------------
(* Properties *)

\* The font whose evidence an outcome carries.
Shown(o) == IF o.kind = "binary" THEN o.font ELSE o.drawn

\* The hashes that records give for a name: those of this key, or else of a name that is or
\* contains it.
HashesFor(recs, name) ==
    LET all == {recs[i] : i \in DOMAIN recs}
        exact == {r \in all : r.key = name}
    IN  {r.md5 : r \in IF exact # {} THEN exact ELSE {r \in all : Resembles(r, name, name)}}

\* A raster draws the very font whose hash was given for the ordered style, by the envelope
\* the order works with or, when that has no hash for it, by the search index.
NamedRaster(o, name) ==
    /\ o.kind = "raster_authorized"
    /\ IF o.lane = "algolia_metadata_cdn"
       THEN Md5Of(RecordFor(name)) = NoHash /\ o.drawn \in HashesFor(o.told, name)
       ELSE o.drawn \in HashesFor(env.styles, name)
    /\ o.drawn # NoHash

\* A binary is the ordered font, a raster the one named for the style, both under an envelope
\* that names no other family.
Fits(o, name) ==
    /\ FamilyMatches
    /\ \/ o.kind = "binary" /\ o.font = [fam |-> Family, sty |-> name]
       \/ NamedRaster(o, name)

AuthorisedIsNamed ==
    stage = "handover" /\ outcome.kind # "insufficient" => Fits(outcome, Style.name)

KeptIsNamed ==
    \A i \in DOMAIN taken : taken[i].kind # "none" =>
        /\ Fits(taken[i], asked.styles[i].name)
        /\ taken[i].kind = "binary" => asked.mode = "ORIGINAL"

\* Whatever a lane hands over for a style, and whatever the runner keeps of it, is the ordered
\* font as bytes, for an ORIGINAL order only, or a raster of the very font named for the style:
\* faces that share its descriptors, candidates attached to every style, stale dumps and pages
\* that change between two lanes put no other font in its place.  Whether page and index name
\* the right font, the code cannot tell from a raster.
EvidenceIsNamed == AuthorisedIsNamed /\ KeptIsNamed

\* An authorised raster of the render endpoint shows every glyph of the font at every size:
\* no crawl that was cut short, by an error, a page without code points or the page limit,
\* passes for the whole.
AuthorisedIsWhole ==
    outcome.kind = "raster_authorized" /\ outcome.lane # "playwright_stealth_persistent" =>
        \A pt \in Sizes : CodePoints(OfSize(outcome.pages, pt)) = FontCps(Shown(outcome))

\* Bytes that failed verification are never made up for by a weaker kind of evidence: the
\* style has no other outcome, and the order ends without the browser or a later style.
NoSilentDegrade ==
    spoiled =>
        /\ stage \in {"handover", "failed", "idle"}
        /\ outcome = Insufficient("INTEGRITY_FAILED")

\* A style is only worked on with an envelope that lacks some style of the order when both
\* discovery lanes were asked for this very order.
IncompleteOnlyAfterAsking ==
    [][(stage \in {"preflight", "preflight_stealth"} /\ stage' = "dump")
        => (HasCompleteMapFor(env', asked.styles) \/ lanes' = {"dump", "stealth"})]_acquisitionVars
=============================================================================
