---------------------------- MODULE ObservationStore ----------------------------
(***************************************************************************)
(* The evidence store of agent/src/measurement/store.py for one style and  *)
(* one observation config: six tables in SQLite, committed row by row, and *)
(* the PNG files beside them.  An identity is then the browser version     *)
(* alone.  Every operation is one commit, except the saving of a raster,   *)
(* which writes the file first and the row after it.                       *)
(***************************************************************************)
EXTENDS Integers, Sequences, FiniteSets, SequencesExt, FiniteSetsExt

CONSTANTS
    Cps,                \* code points, numbers
    Fonts,              \* what may be drawn: fonts as they are at some time
    Browsers,           \* browser versions
    FitSizes,           \* config.resolutions
    HeldOutSizes,       \* config.held_out_sizes_px
    BasePhases, HardPhases, HeldOutPhases,  \* its subpixel phases; all these are sequences
    Hard(_, _),         \* whether the metrics of a font's glyph are off the pixel grid
    MetricSizes,        \* config.metric_sizes_px, in order
    Kerning(_, _),      \* what a font kerns its pairs by at a metric size
    BoundedFitPairs,    \* BOUNDED_FIT_PAIRS
    Probes              \* config.feature_probes

ASSUME StoreConstants ==
    /\ Browsers # {}
    /\ {FitSizes, HeldOutSizes, BasePhases, HardPhases, HeldOutPhases} \subseteq Seq(Nat)

VARIABLES
    coverage,           \* unicode_coverage
    metrics,            \* metric_observations: the font measured
    obs,                \* observations: the row of a cache key
    files,              \* what a path holds
    pairSizes,          \* pair_size_observations: the kerning inferred
    pairs,              \* pair_observations: the kerning derived
    features,           \* feature_observations
    collections         \* source_collections: how an identity was completed

tables == <<coverage, metrics, obs, files, pairSizes, pairs, features, collections>>

FixedPhase == 0

\* Every size in turn, and at it every phase.
Grid(sizes, phases) ==
    [i \in 1..(Len(sizes) * Len(phases)) |->
        <<sizes[((i - 1) \div Len(phases)) + 1], phases[((i - 1) % Len(phases)) + 1]>>]

\* A row names its file; only the path of an ingested raster leaves the identity out.
OwnPath(b, cp, slot) == [b |-> b, cp |-> cp, slot |-> slot]
SharedPath(cp, slot) == [b |-> "shared", cp |-> cp, slot |-> slot]

\* A raster: the font it shows and who captured it.
Png(font, by) == [font |-> font, by |-> by]
Torn == [font |-> "torn"]

\* Tables and directory are functions of the keys they have.
StoreInit ==
    /\ coverage = [b \in Browsers |-> {}]
    /\ metrics = [b \in Browsers |-> <<>>]
    /\ obs = [b \in Browsers |-> <<>>]
    /\ files = <<>>
    /\ pairSizes = [b \in Browsers |-> <<>>]
    /\ pairs = [b \in Browsers |-> <<>>]
    /\ features = [b \in Browsers |-> {}]
    /\ collections = [b \in Browsers |-> "none"]

Put(table, key, row) ==
    [k \in DOMAIN table \cup {key} |-> IF k = key THEN row ELSE table[k]]

-----------------------------------------------------------------------------
(* What the store answers *)

\* has_observation: the row, and the file it names with the bytes it names.
HasObservation(b, key) ==
    /\ key \in DOMAIN obs[b]
    /\ LET row == obs[b][key] IN row.path \in DOMAIN files /\ files[row.path] = row.png

StoredSlots(b, cp) == {key[2] : key \in {k \in DOMAIN obs[b] : k[1] = cp}}

Valid(b, cp) == {s \in StoredSlots(b, cp) : HasObservation(b, <<cp, s>>)}

\* get_glyph_observation_code_points
ObservedCps(b) == {cp \in Cps : Valid(b, cp) # {}}

\* obs[0]: ordered by size, then phase.
FirstOf(slots) ==
    CHOOSE s \in slots : \A t \in slots : s[1] < t[1] \/ (s[1] = t[1] /\ s[2] <= t[2])

\* The identities with a completed collection.
Completed == {b \in Browsers : collections[b] # "none"}

\* get_phases_for_metrics
PhasesFor(font, cp) == IF Hard(font, cp) THEN HardPhases ELSE BasePhases

\* What a direct collection captures of a glyph, and what a provider renders of it.
DirectSchedule(font, cp) == Grid(FitSizes, PhasesFor(font, cp)) \o Grid(HeldOutSizes, HeldOutPhases)
ProviderSchedule == Grid(FitSizes, <<FixedPhase>>)

BoundedIn(cps) == {p \in BoundedFitPairs : p[1] \in cps /\ p[2] \in cps}

\* derive_multisize_kerning: the lower median.
DeriveMultisizeKerning(rows) ==
    LET sorted == SortSeq(rows, <) IN sorted[((Len(sorted) - 1) \div 2) + 1]

-----------------------------------------------------------------------------
(* What is written to it: an INSERT OR IGNORE keeps the row it finds *)

SaveCoverage(b, cps) ==
    /\ coverage' = [coverage EXCEPT ![b] = @ \cup cps]
    /\ UNCHANGED <<metrics, obs, files, pairSizes, pairs, features, collections>>

SaveMetricObservation(b, cp, n, font) ==
    /\ metrics' = IF <<cp, n>> \in DOMAIN metrics[b] THEN metrics
                  ELSE [metrics EXCEPT ![b] = Put(@, <<cp, n>>, font)]
    /\ UNCHANGED <<coverage, obs, files, pairSizes, pairs, features, collections>>

\* save_observation, in two: write_bytes leaves a torn file when it is interrupted.
WriteRaster(path, png) ==
    /\ files' = Put(files, path, png)
    /\ UNCHANGED <<coverage, metrics, obs, pairSizes, pairs, features, collections>>

InsertObservation(b, cp, slot, path, png, measured) ==
    /\ obs' = [obs EXCEPT ![b] = Put(@, <<cp, slot>>, [path |-> path, png |-> png, measured |-> measured])]
    /\ UNCHANGED <<coverage, metrics, files, pairSizes, pairs, features, collections>>

SavePairSizeObservation(b, p, n, kerning) ==
    /\ pairSizes' = [pairSizes EXCEPT ![b] = Put(@, <<p, n>>, kerning)]
    /\ UNCHANGED <<coverage, metrics, obs, files, pairs, features, collections>>

SavePairObservation(b, p, kerning) ==
    /\ pairs' = [pairs EXCEPT ![b] = Put(@, p, kerning)]
    /\ UNCHANGED <<coverage, metrics, obs, files, pairSizes, features, collections>>

SaveFeatureObservation(b, probe) ==
    /\ features' = [features EXCEPT ![b] = @ \cup {probe}]
    /\ UNCHANGED <<coverage, metrics, obs, files, pairSizes, pairs, collections>>

RecordSourceCollectionCompleted(b, how) ==
    /\ collections' = [collections EXCEPT ![b] = how]
    /\ UNCHANGED <<coverage, metrics, obs, files, pairSizes, pairs, features>>
=============================================================================
