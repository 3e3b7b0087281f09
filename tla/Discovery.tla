------------------------------- MODULE Discovery -------------------------------
(***************************************************************************)
(* What agent/src/acquisition reads from the page of a font family: the    *)
(* envelope of its styles (providers.py), the record that answers for an   *)
(* asked style (models.py), the binary the candidates of a record lead to  *)
(* and its verification (verifier.py), and the metadata of the search      *)
(* index (adapters.py).                                                    *)
(*                                                                         *)
(* A font is [fam, sty] and its md5 is the font.  A row of a page is [key, *)
(* name, md5]: normalised style id, style name and hash.  A page is        *)
(* [family, rows, md5, title, cands, inline]: JSON-LD, Next.js and data    *)
(* rows in this order, the md5 and style name found outside of rows, the   *)
(* links that look like fonts followed by the embedded fonts, and the      *)
(* payloads of the latter.  Normalisation of names is taken as done; what  *)
(* remains of it is which name contains which.                             *)
(***************************************************************************)
EXTENDS Naturals, Sequences, FiniteSets, SequencesExt

CONSTANTS
    NoHash,             \* the empty md5
    Within              \* pairs of names, the first occurring in the second

NoRecord == [key |-> "none"]

\* A payload that is no font container, too large or not served.
NoFont == [fam |-> "none", sty |-> "none"]

NoEnvelope == [family |-> "none", styles |-> <<>>, by |-> "none"]

-----------------------------------------------------------------------------
(* Envelopes *)

\* Assignment to a Python dict: a known key keeps its place.
PutRecord(recs, r) ==
    LET at == {i \in DOMAIN recs : recs[i].key = r.key}
    IN  IF at = {} THEN Append(recs, r) ELSE [i \in DOMAIN recs |-> IF i \in at THEN r ELSE recs[i]]

\* The rows of the page in order, a later one replacing an earlier one of the same id; a page
\* without rows has one style, of the name and hash found elsewhere on it.
PageRows(page) ==
    LET only == [key |-> page.title, name |-> page.title, md5 |-> page.md5]
    IN  IF page.rows = <<>> THEN <<only>> ELSE FoldLeft(PutRecord, <<>>, page.rows)

\* parse_family_discovery_from_dump: the candidates of the page go to every style of it.
ParseFamilyDiscovery(page, by) ==
    LET record(r) == [key |-> r.key, name |-> r.name, md5 |-> r.md5, cands |-> page.cands]
        rows == PageRows(page)
    IN  [family |-> page.family, styles |-> [i \in DOMAIN rows |-> record(rows[i])], by |-> by]

\* AlgoliaMetadataClient.discover_family: the named styles with a hash, of all hits, under
\* the family of the first hit.
ParseHits(hits) ==
    LET good == SelectSeq(hits, LAMBDA h : h.md5 # NoHash)
        record(h) == [key |-> h.key, name |-> h.name, md5 |-> h.md5, cands |-> <<>>]
    IN  IF good = <<>> THEN NoEnvelope
        ELSE [family |-> hits[1].family,
              styles |-> FoldLeft(LAMBDA recs, h : PutRecord(recs, record(h)), <<>>, good),
              by |-> "algolia"]

-----------------------------------------------------------------------------
(* The record of a style *)

\* Whether a record answers for a style that no key equals.
Resembles(rec, id, name) == rec.name = name \/ rec.name = id \/ <<id, rec.name>> \in Within

\* get_style_record: the record of this key, else the first whose name is or contains the
\* asked one.
GetStyleRecord(recs, id, name) ==
    LET exact == {i \in DOMAIN recs : recs[i].key = id}
        near == {i \in DOMAIN recs : Resembles(recs[i], id, name)}
        first(S) == recs[CHOOSE i \in S : \A k \in S : i <= k]
    IN  IF exact # {} THEN first(exact) ELSE IF near # {} THEN first(near) ELSE NoRecord

IsCompleteMetadata(rec) == rec # NoRecord /\ (rec.md5 # NoHash \/ rec.cands # <<>>)

\* has_complete_map_for: every style of the order has a complete record.
HasCompleteMapFor(env, styles) ==
    /\ styles # <<>>
    /\ \A i \in DOMAIN styles :
        IsCompleteMetadata(GetStyleRecord(env.styles, styles[i].id, styles[i].name))

-----------------------------------------------------------------------------
(* Binaries *)

\* What a candidate yields: the payload of an embedded one is looked up by its number in
\* the dump at hand, that of a link is fetched.
Payload(cand, inline, served) ==
    IF cand.embedded
    THEN IF cand.at \in DOMAIN inline THEN inline[cand.at] ELSE NoFont
    ELSE served[cand.at]

\* extract_binary_from_dump_dom: the first candidate that yields a font.
ExtractBinary(cands, inline, served) ==
    LET got(i) == Payload(cands[i], inline, served)
        fonts == {i \in DOMAIN cands : got(i) # NoFont}
    IN  IF fonts = {} THEN NoFont ELSE got(CHOOSE i \in fonts : \A k \in fonts : i <= k)

\* verify_acquired_binary: bytes are of the asked family and style or they end the search.
VerifyAcquiredBinary(font, family, name) ==
    IF font = NoFont THEN "ABSENT"
    ELSE IF font.fam # family \/ font.sty # name THEN "INTEGRITY_FAILED"
    ELSE "VALID"
=============================================================================
