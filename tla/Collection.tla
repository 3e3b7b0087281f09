------------------------------- MODULE Collection -------------------------------
(***************************************************************************)
(* How evidence gets into the observation store: the direct collection of  *)
(* measurement/collector.py under compute/source.py acquire_source, and    *)
(* the ingestion of authorised raster pages in acquisition/raster_ingest.  *)
(* Orders for one style come one after the other; any of them may be cut   *)
(* short by an error or a crash, and in between the page may show another  *)
(* font and the browser may be upgraded.                                   *)
(***************************************************************************)
EXTENDS ObservationStore

CONSTANTS
    Drawn(_),           \* the code points of a font
    MaxCrashes,         \* bound: orders cut short
    MaxChanges          \* bound: changes of the page and upgrades of the browser

ASSUME MaxCrashesAssumption == MaxCrashes \in Nat
ASSUME MaxChangesAssumption == MaxChanges \in Nat

VARIABLES
    page,               \* the font the source page shows
    browser,            \* session.browser_version
    pc,                 \* idle, collecting, ingesting, reusing or rebuilding
    font,               \* the font the order at work observes
    todo,               \* the writes it has left
    handed,             \* the identity the glyphs are reconstructed from
    memory,             \* _RECONSTRUCTED_GLYPH_CACHE
    pickle,             \* the cache file of the same
    crashes, changes,
    met                 \* history: what made a later order observe something else

vars == <<tables, page, browser, pc, font, todo, handed, memory, pickle, crashes, changes, met>>

NoModels == [of |-> <<>>]

Init ==
    /\ StoreInit
    /\ page \in Fonts /\ browser = CHOOSE b \in Browsers : TRUE
    /\ pc = "idle" /\ font = page /\ todo = <<>> /\ handed = "none"
    /\ memory = [b \in Browsers |-> NoModels]
    /\ pickle = [b \in Browsers |-> NoModels]
    /\ crashes = 0 /\ changes = 0 /\ met = {}

-----------------------------------------------------------------------------
(* Plans: the writes of a collection in their order *)

Each(seq, Make(_)) == [i \in DOMAIN seq |-> Make(seq[i])]

RasterWrites(cp, slots) ==
    Each(slots, LAMBDA s : [op |-> "raster", cp |-> cp, slot |-> s])

MetricWrites(cp) ==
    [n \in DOMAIN MetricSizes |-> [op |-> "metric", cp |-> cp, n |-> n]]

PairWrites(p) ==
    Append([n \in DOMAIN MetricSizes |-> [op |-> "pair_size", p |-> p, n |-> n]],
           [op |-> "pair", p |-> p])

ProbeWrites(probes) == Each(SetToSeq(probes), LAMBDA x : [op |-> "feature", probe |-> x])

\* Functions of constants, which TLC evaluates once.
DirectGlyph ==
    [cp \in Cps |-> [f \in Fonts |-> MetricWrites(cp) \o RasterWrites(cp, DirectSchedule(f, cp))]]
ProviderGlyph == [cp \in Cps |-> RasterWrites(cp, ProviderSchedule)]
Ascending == [cps \in SUBSET Cps |-> SetToSortSeq(cps, <)]
InSomeOrder == [ps \in SUBSET (BoundedFitPairs \cup {<<cp, cp>> : cp \in Cps}) |-> SetToSeq(ps)]

Glyphwise(cps, Make(_)) == FlattenSeq(Each(Ascending[cps], Make))
Pairwise(ps) == FlattenSeq(Each(InSomeOrder[ps], PairWrites))

\* The slip of DirectPlan: glyphs already covered are left out.
DirectPlan_Fault(cps, f) ==
    LET new == cps \ coverage[browser]
    IN  <<[op |-> "coverage", cps |-> cps]>>
        \o Glyphwise(new, LAMBDA cp : DirectGlyph[cp][f])
        \o <<[op |-> "pairs_of_coverage"]>>
        \o ProbeWrites(Probes)
        \o <<[op |-> "finalize"]>>

\* collect_font_observations, collect_pair_observations, collect_feature_observations and
\* finalize_source_collection; the pairs are read from the coverage the store then has.
DirectPlan(cps, f) ==
    <<[op |-> "coverage", cps |-> cps]>>
    \o Glyphwise(cps, LAMBDA cp : DirectGlyph[cp][f])
    \o <<[op |-> "pairs_of_coverage"]>>
    \o ProbeWrites(Probes)
    \o <<[op |-> "finalize"]>>

\* The pairs collect_browser_measurement measures: at least two, made up from the coverage.
SupplementPairs(cps) ==
    LET bounded == BoundedIn(cps)
        twins == Ascending[cps]
        want == IF Cardinality(bounded) < 2 THEN 2 - Cardinality(bounded) ELSE 0
    IN  bounded \cup {<<twins[i], twins[i]>> : i \in {j \in DOMAIN twins : j <= want}}

\* ingest_raster_pages; probes that are missing are noticed after they were to be saved.
IngestPlan(cps, probes) ==
    Glyphwise(cps, LAMBDA cp : ProviderGlyph[cp])
    \o <<[op |-> "coverage", cps |-> cps]>>
    \o Glyphwise(cps, MetricWrites)
    \o Pairwise(SupplementPairs(cps))
    \o ProbeWrites(probes)
    \o (IF probes = Probes THEN <<[op |-> "finalize"]>> ELSE <<[op |-> "refuse"]>>)

-----------------------------------------------------------------------------
(* An order *)

Working == pc \in {"collecting", "ingesting"}

Keep == UNCHANGED <<page, browser, changes, crashes>>

\* The slip of Reusable: only a collection of the browser at hand is reused.
Reusable_Fault == Completed \cap {browser}

\* Identities the runner and acquire_source reuse without the browser.
Reusable == Completed

UseCompleted ==
    /\ pc = "idle" /\ Cardinality(Reusable) = 1
    /\ handed' = CHOOSE b \in Reusable : TRUE
    /\ pc' = "reusing"
    /\ Keep /\ UNCHANGED <<tables, font, todo, memory, pickle, met>>

\* No lane of the acquisition found evidence: observe the page.  A glyph whose probe fails
\* counts as missing; nothing found ends the order before anything is written.
Collect(found) ==
    /\ pc = "idle" /\ Cardinality(Reusable) # 1
    /\ found # {} /\ found \subseteq Drawn(page)
    /\ pc' = "collecting" /\ font' = page /\ todo' = DirectPlan(found, page)
    /\ met' = IF found # Drawn(page) THEN met \cup {"blind"} ELSE met
    /\ Keep /\ UNCHANGED <<tables, handed, memory, pickle>>

\* A lane authorised the pages of this font.
Ingest(probes) ==
    /\ pc = "idle" /\ Reusable = {}
    /\ pc' = "ingesting" /\ font' = page /\ todo' = IngestPlan(Drawn(page), probes)
    /\ met' = met \cup {"ingest"}
    /\ Keep /\ UNCHANGED <<tables, handed, memory, pickle>>

By == IF pc = "ingesting" THEN "provider" ELSE "browser"

PathOf(w) ==
    IF pc = "ingesting" THEN SharedPath(w.cp, w.slot) ELSE OwnPath(browser, w.cp, w.slot)

\* Each write but those below, which read before they write.
Save(w) ==
    \/ w.op = "coverage" /\ SaveCoverage(browser, w.cps)
    \/ w.op = "metric" /\ SaveMetricObservation(browser, w.cp, w.n, font)
    \/ w.op = "row" /\ InsertObservation(browser, w.cp, w.slot, PathOf(w), Png(font, By), font)
    \/ w.op = "pair_size" /\ SavePairSizeObservation(browser, w.p, w.n, Kerning(font, w.n))
    \/ /\ w.op = "pair"
       /\ SavePairObservation(browser, w.p,
              DeriveMultisizeKerning([n \in DOMAIN MetricSizes |-> Kerning(font, n)]))
    \/ w.op = "feature" /\ SaveFeatureObservation(browser, w.probe)

SaveNext ==
    /\ Working /\ Save(Head(todo)) /\ todo' = Tail(todo)
    /\ Keep /\ UNCHANGED <<pc, font, handed, memory, pickle, met>>

\* A direct collection resumes: what is there and intact is not captured again.
ToCapture(w) ==
    w.op = "raster" /\ ~(pc = "collecting" /\ HasObservation(browser, <<w.cp, w.slot>>))

CaptureNext ==
    LET w == Head(todo)
    IN  /\ Working /\ w.op = "raster"
        /\ IF ToCapture(w)
           THEN /\ WriteRaster(PathOf(w), Png(font, By))
                /\ todo' = <<[w EXCEPT !.op = "row"]>> \o Tail(todo)
           ELSE todo' = Tail(todo) /\ UNCHANGED tables
        /\ Keep /\ UNCHANGED <<pc, font, handed, memory, pickle, met>>

PairsNext ==
    /\ Working /\ Head(todo).op = "pairs_of_coverage"
    /\ todo' = Pairwise(BoundedIn(coverage[browser])) \o Tail(todo)
    /\ Keep /\ UNCHANGED <<tables, pc, font, handed, memory, pickle, met>>

-----------------------------------------------------------------------------
(* finalize_source_collection *)

ScheduleOf(b, cp, how) ==
    ToSet(IF how = "provider" THEN ProviderSchedule
          ELSE DirectSchedule(obs[b][<<cp, FirstOf(Valid(b, cp))>>].measured, cp))

\* The slip of RastersWhole: stored keys beyond the schedule, and files, are not looked at.
RastersWhole_Fault(b, how) ==
    \A cp \in coverage[b] : Valid(b, cp) # {} /\ ScheduleOf(b, cp, how) \subseteq StoredSlots(b, cp)

RastersWhole(b, how) ==
    /\ ObservedCps(b) = coverage[b]
    /\ \A cp \in coverage[b] :
            LET schedule == ScheduleOf(b, cp, how)
            IN  schedule \subseteq Valid(b, cp) /\ StoredSlots(b, cp) = schedule
    /\ \A cp \in Cps \ coverage[b] : StoredSlots(b, cp) = {}

ExpectedPairs(b, how) ==
    IF how = "provider" THEN SupplementPairs(Drawn(font)) ELSE BoundedIn(coverage[b])

RowsOf(b, p) == [n \in DOMAIN MetricSizes |-> pairSizes[b][<<p, n>>]]

PairsWhole(b, expected) ==
    /\ DOMAIN pairs[b] = expected
    /\ \A p \in expected :
            /\ \A n \in DOMAIN MetricSizes : <<p, n>> \in DOMAIN pairSizes[b]
            /\ pairs[b][p] = DeriveMultisizeKerning(RowsOf(b, p))

MetricsWhole(b) == coverage[b] \X DOMAIN MetricSizes \subseteq DOMAIN metrics[b]

\* What kind of collection the order at work makes.
How == IF pc = "ingesting" THEN "provider" ELSE "direct"

FinalizeChecks(b, how) ==
    /\ coverage[b] # {}
    /\ RastersWhole(b, how)
    /\ PairsWhole(b, ExpectedPairs(b, how))
    /\ MetricsWhole(b)
    /\ features[b] = Probes

\* A direct collection drops the models in memory and goes on to reconstruct; an ingestion
\* hands over to the tiers, which read the store.
FinalizeNext ==
    /\ Working /\ Head(todo).op = "finalize"
    /\ FinalizeChecks(browser, How)
    /\ RecordSourceCollectionCompleted(browser, How)
    /\ memory' = IF pc = "collecting" THEN [memory EXCEPT ![browser] = NoModels] ELSE memory
    /\ pc' = IF pc = "collecting" THEN "rebuilding" ELSE "idle"
    /\ handed' = browser /\ todo' = <<>>
    /\ Keep /\ UNCHANGED <<font, pickle, met>>

\* A check that fails, or probes that are missing, fail the order and leave what it wrote.
FinalizeFails ==
    /\ Working
    /\ \/ Head(todo).op = "refuse"
       \/ Head(todo).op = "finalize" /\ ~FinalizeChecks(browser, How)
    /\ pc' = "idle" /\ todo' = <<>>
    /\ Keep /\ UNCHANGED <<tables, font, handed, memory, pickle, met>>

-----------------------------------------------------------------------------
(* The models of an identity, and what may come in between *)

Rasters(b, cp) == {[slot |-> s, png |-> obs[b][<<cp, s>>].png] : s \in Valid(b, cp)}

Evidence(b) == [cp \in coverage[b] \cap ObservedCps(b) |-> Rasters(b, cp)]

\* From memory, else from the file when it is of the coverage of the store, else anew; the
\* file is passed over by the order that collected.
Reconstruct ==
    LET kept == IF memory[handed] # NoModels THEN memory[handed]
                ELSE IF pc = "reusing" /\ pickle[handed] # NoModels
                        /\ DOMAIN pickle[handed].of = coverage[handed]
                     THEN pickle[handed]
                ELSE NoModels
        models == IF kept # NoModels THEN kept ELSE [of |-> Evidence(handed)]
    IN  /\ pc \in {"reusing", "rebuilding"}
        /\ memory' = [memory EXCEPT ![handed] = models]
        /\ pickle' = IF kept = NoModels /\ DOMAIN models.of = coverage[handed]
                     THEN [pickle EXCEPT ![handed] = models] ELSE pickle
        /\ pc' = "idle"
        /\ Keep /\ UNCHANGED <<tables, font, todo, handed, met>>

\* An error ends the order; a crash ends the process, and may tear the file being written.
Abort(torn) ==
    /\ pc # "idle" /\ crashes < MaxCrashes
    /\ crashes' = crashes + 1
    /\ pc' = "idle" /\ todo' = <<>>
    /\ memory' = [b \in Browsers |-> NoModels]
    /\ IF torn
       THEN Working /\ ToCapture(Head(todo)) /\ WriteRaster(PathOf(Head(todo)), Torn)
       ELSE UNCHANGED tables
    /\ UNCHANGED <<page, browser, font, handed, pickle, changes, met>>

PageChanges(f) ==
    /\ pc = "idle" /\ f # page /\ changes < MaxChanges
    /\ page' = f /\ changes' = changes + 1 /\ met' = met \cup {"page"}
    /\ UNCHANGED <<tables, browser, pc, font, todo, handed, memory, pickle, crashes>>

BrowserUpgrade(b) ==
    /\ pc = "idle" /\ b # browser /\ changes < MaxChanges
    /\ browser' = b /\ changes' = changes + 1 /\ met' = met \cup {"browser"}
    /\ UNCHANGED <<tables, page, pc, font, todo, handed, memory, pickle, crashes>>

Step == SaveNext \/ CaptureNext \/ PairsNext \/ FinalizeNext \/ FinalizeFails \/ Reconstruct

Next ==
    \/ UseCompleted
    \/ \E found \in SUBSET Cps : Collect(found)
    \/ \E probes \in SUBSET Probes : Ingest(probes)
    \/ Step
    \/ \E torn \in BOOLEAN : Abort(torn)
    \/ \E f \in Fonts : PageChanges(f)
    \/ \E b \in Browsers : BrowserUpgrade(b)

\* Orders keep coming, and an order at work goes on unless it is cut short.
Fairness == WF_vars(Step) /\ WF_vars(UseCompleted) /\ WF_vars(\E found \in SUBSET Cps : Collect(found))

Spec == Init /\ [][Next]_vars
FairSpec == Spec /\ Fairness

-----------------------------------------------------------------------------
(* Properties *)

\* However orders are cut short, whatever the lanes find and whichever browser runs, the
\* style never has two completed collections: completed[0] of the runner and the single
\* match of acquire_source are one and the same.
OneIdentity == Cardinality(Completed) <= 1

\* The evidence under an identity, as a reader of the store would get it.
Snapshot(b) ==
    <<coverage[b], metrics[b], pairSizes[b], pairs[b], features[b], Evidence(b),
      [cp \in Cps |-> StoredSlots(b, cp)]>>

\* "immutable completed snapshot" (README.md): nothing that is done later, for another
\* browser, under a shared path or in an order cut short, changes what a completed
\* collection shows.
CompletedIsFrozen == [][\A b \in Completed : Snapshot(b)' = Snapshot(b)]_vars

\* A completed collection is complete although it was put together by several orders that
\* may have seen different fonts: every raster of a schedule fitting the metrics is intact
\* and there is no other, every kerning is what its rows yield, a direct one has the pairs of its
\* whole coverage, and the models kept of it are made from nothing else.
CompletedIsWhole ==
    \A b \in Completed :
        /\ coverage[b] # {} /\ features[b] = Probes
        /\ \A cp \in coverage[b] :
                \E f \in Fonts :
                    StoredSlots(b, cp) = ToSet(IF collections[b] = "provider" THEN ProviderSchedule
                                               ELSE DirectSchedule(f, cp))
        /\ \A cp \in Cps : StoredSlots(b, cp) = Valid(b, cp)
        /\ collections[b] = "direct" => DOMAIN pairs[b] = BoundedIn(coverage[b])
        /\ \A p \in DOMAIN pairs[b] : pairs[b][p] = DeriveMultisizeKerning(RowsOf(b, p))
        /\ {memory[b], pickle[b]} \subseteq {NoModels, [of |-> Evidence(b)]}

\* A collection that was cut short is resumed and completed by the orders that follow, torn
\* files and half-written tables notwithstanding, unless they observe something else.
ResumedCompletes == <>(Completed # {} \/ met # {})
=============================================================================
