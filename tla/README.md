# Telegram font ordering: verification project

A customer orders fonts in a Telegram chat and pays by bank transfer.  A
Cloudflare Worker (`edge/`, TypeScript, D1 + Queue + R2) keeps orders, jobs and
an outbox; a compute node (`agent/`, Python, "A23") pulls jobs from the queue,
builds the fonts and uploads them; the Worker delivers the archive in the chat.
This directory holds TLA+ models of that system, their TLC configurations and
proofs checked by TLAPS.  `PROJECT.json` says which definition models which
lines.

## 1. Inventory

| Component (source) | State | Operations | Hard behaviour | Correct means |
|---|---|---|---|---|
| **Job service** `edge/src/services/job-service.ts`, `handlers/internal-jobs.ts`, `scheduled()` in `index.ts` | rows of `fulfillment_jobs`, `orders`, `fulfillment_receipts`, `artifacts`, two `outbox_events` rows per order | claim, heartbeat, complete, fail; finalize and recover of scheduled(); rearm, rescue, recover of the operator | every await is a point where other isolates run; stale `now`; late and repeated calls; overlapping cron runs; lost replies | one holder per lease, completion all-or-nothing and permanent, job and order agree, bounded attempts, nothing waits for ever |
| **Outbox** `services/outbox-service.ts`, `internal-outbox.ts`, `telegram-client.ts` | status, dispatch lease, attempts, backoff, confirmed parts of each event | take, send, confirm part, mark SENT, back off | leases computed from the start of a batch; unfenced progress writes; crash between send and record; slow uploads | every event goes out at least once; an attempt sends a part once; one event that fails does not hold up the others |
| **Session, order, webhook** `session-service.ts`, `order-service.ts`, `telegram-webhook.ts` | session row with version and tokens, update ledger, orders and items | one per button and message, replay of an applied update | redelivered and concurrent updates, UI calls between writes, unconditional status writes | one order per checkout token, of what the customer saw; a redelivered update applies nothing twice |
| **Payment** `payment-service.ts`, `sepay-webhook.ts` | payments | verified payment, code resolution | duplicate and second transfers, concurrent webhooks | PAID implies payment, job and event; one payment pays one order |
| **Catalog** `catalog-service.ts`, `internal-catalog.ts` | requests per user and family, catalogs, waiting sessions | request, persist, fail, advance sessions | resolution racing the request, cancellation, a newer request | a waiting session is advanced by the resolution of the request it waits for, and only by it |
| **Agent runner** `runner.py`, `worker_client.py`, `queue_client.py`, `main.py` | one message in work, heartbeat thread, fence and stop events, wall deadline, reuse state | pull, claim, compute, upload, complete or fail, acknowledge or retry | abandoned heartbeats, wall with threads that cannot be stopped, ambiguous replies, restart | the artifact uploaded is the one of this job; no acknowledgement without an outcome |
| **Scratch, caches, archive** `scratch.py`, `compute/{archive,binary_cache,model_cache}.py`, `atlas/cache.py`, `measurement/store.py` | files and SQLite indexes | put, get, attest, prune | two-step writes, crashes, pruning of directories under an index | a hit returns the bytes that were put; damage is a miss, not a terminal error |
| **Acquisition** `acquisition/*` | cached family envelopes and dumps | preflight, ordered fallback per style | partial discovery cached, lanes failing | only a verified binary or raster is returned, by the first lane that can |
| **Atlas pipeline** `atlas/*` | page plan, frozen glyphs, checkpoint, prefetch task | raster pass, refinement, typography, resume | checkpoint and resume, one page ahead prefetch, wall, budget | no glyph lost or counted twice, resume is equivalent to a run without stop |
| **Fidelity gate** `fidelity/*` | bounded memo, search cache | form model, evaluate, gate | threads past their wall, memo under concurrency | fail-closed; a memo hit is of the same key |
| **Browser measurement** `measurement/*` | Chromium process, pipe threads, observation store | start, collect, finish | process death, drain threads | an observation belongs to one run |
| Geometry, reconstruction, typography, font building | glyph checkpoints | fit each glyph by a ladder of solvers, rerank, assemble | floating point; a directory shared by two attempts | the outline published was judged by all the evidence; a checkpoint is of this release |
| Downloads, signing, formatting, configuration, readiness, soak, benchmarks, scripts, governance records | none of the order flow | | | not modelled |

Interactions.  The webhook writes sessions and orders; the payment webhook turns
an order PAID and creates the job and its JOB_READY event in one batch; the
outbox puts a message into the queue; the agent pulls it, claims the job by HTTP
and calls the job service under the lease token it was given; completion creates
the DELIVERY_READY event; the outbox sends the parts.  The cron collects lapsed
leases.  All of it shares D1, where a statement or a batch is atomic and nothing
longer is.

## 2. Modules

| Module | Models | Uses |
|---|---|---|
| `D1Jobs` | rows of jobs, orders, receipts, artifacts, events as the statements of the job service read and write them | |
| `JobService` | `job-service.ts` and the cron of `index.ts`: one action per interval between two awaits | `D1Jobs`, `JobContract` |
| `JobContract` | abstract: what the job service promises of a job | |
| `JobServiceProofs` | the theorems about `JobService` | `JobService`, TLAPS |
| `OutboxService` | `outbox-service.ts`: dispatchers with leases, parts, backoff | `OutboxContract` |
| `OutboxContract` | abstract: at-least-once of every event | |
| `OutboxServiceProofs` | the theorems about `OutboxService` | `OutboxService`, TLAPS |
| `Runner` | `runner.py` and the edge clients: one node, its threads, heartbeat, tiers of reuse | |
| `RunnerProofs` | the theorems about `Runner` | `Runner`, TLAPS |
| `Sessions` | the session row and its statements, the menus and what a button may do | |
| `Payments` | SePay reports and the payment batch | |
| `Checkout` | the webhook, the orders, the agent's catalog reports | `Sessions`, `Payments` |
| `CheckoutProofs` | the theorems about `Checkout` and its `Payments` | `Checkout`, TLAPS |
| `Discovery` | what acquisition reads out of a family page, an index hit, a binary | |
| `RasterPages` | crawls of sprite pages, their completeness and what ingestion accepts | |
| `Acquisition` | the fallback graph and the runner's loop over the styles of an order | `Discovery`, `RasterPages` |
| `ObservationStore` | the tables and files of `measurement/store.py` with its writes | |
| `Collection` | direct collection, provider ingestion, finalisation, reuse | `ObservationStore` |
| `EvidenceProofs` | the theorems about `Collection` and `Acquisition` | `Collection`, `Acquisition`, TLAPS |
| `AtlasPaging` | from measured rows to cells on pages | |
| `Atlas` | the atlas run of a job, its durable cache and checkpoint | `AtlasPaging` |
| `AtlasProofs` | the theorems about `Atlas` and its paging | `Atlas`, TLAPS |
| `GlyphFit` | rasters, loss and descent of one glyph | |
| `GlyphLadder` | the tiers for one glyph, promotion and rerank | `GlyphFit` |
| `GlyphSearch` | forming a model with checkpoints, workers and overlapping attempts | `GlyphLadder` |
| `GlyphSearchProofs` | the theorems about `GlyphSearch` and its ladder | `GlyphSearch`, TLAPS |
| `GateEvidence` | sealed evidence and its split, model, gates of `evaluator.py` | |
| `VietnameseExtension` | missing Vietnamese glyphs: composed, or drafted by a cascade of models | `GateEvidence` |
| `ReleaseGate` | tiers of reuse, memo, gate threads and wall of the regime without the atlas | `VietnameseExtension` |
| `ReleaseGateProofs` | the theorems about `ReleaseGate` | `ReleaseGate`, TLAPS |
| `MC...` | constants of the above for TLC | |

### How JobService corresponds to the code

*State.*  `job`, `order`, `receipt`, `artifactRow`, `delivery`, `ready` are the
D1 rows; a job and its order are one identifier because `order_id` is UNIQUE.
`clock` is `Date.now()`, the same for all isolates.  `req[r]` is an HTTP request
in progress: `pc` names the await it is at, the other fields are the locals it
still uses.  `cron[c]` is a scheduled() invocation with the candidates it
selected.  `queue` counts messages.  Lease tokens are numbered in the order in
which they got into a row.

*Actions.*  One per interval between two awaits.  `ClaimRead` is the SELECT at the
start of claimJob, `ClaimCas` the batch that takes the lease, `ClaimMode` the
reads after it, `ClaimFailClosed` the batch of failClosedForAbsentMode.
`CompleteStart`, `CompleteRead`, `CompleteBatch`, `CompleteRace` are the receipt
check, the job read, the five-statement batch (its statements are evaluated in
order, each seeing the ones before it; a unique key rolls all back) and the
catch block.  `FailRead`, `FailRetry`, `FailTerminal`; `HeartbeatStart`,
`HeartbeatCas`; `FinalizeSelect`, `FinalizeBatch`, `RecoverSelect`,
`RecoverBatch`, `RecoverSend` for the cron; `Rearm`, `Rescue`, `RecoverTerminal`
for the operator.  `RequestDies` and `CronDies` end an invocation at any await.

*Environment.*  A worker may call anything, at any time, with any token ever
issued: every behaviour of the agent, correct or not, is among these.

Abstractions: times are ticks; an artifact stands for key, size and hash
together (the key is derived from the hash); `updated_at`, parts lists and
wording are left out; the payment facts the operator guards join on hold for
every order that has a job.  `MALFORMED_METADATA` leaves the lease to lapse, which
is a claim whose worker does nothing.

### How OutboxService corresponds to the code

*State.*  `row` holds the columns of `outbox_events` a dispatcher reads or writes;
an event is its position in the order of `created_at`.  `copies` is the outside
world: how often the queue got the message, or Telegram the part, since the event
was last made PENDING.  `disp[d]` is a running dispatchPendingEvents: `now` of the
whole batch, the events still to do, their payload and attempts *as selected*
(`seen`), and of the event in hand the token and the parts believed confirmed.

*Actions.*  `Start` is the select; `Take` the CAS with its lease counted from the
batch's `now`; `SendJob` is queue.send; `SendPart` and `Confirm` are sendDocument
and the progress write that follows it; `MarkSent` and `BackOff` are the two
fenced writes.  `Throw` sends any step that awaits to the catch block, also after
the call has done its work (a lost reply); the many look-ups before a delivery
that end in "back off" are the same step.  `PassOver` is the missing queue binding;
`poison` are events that fail always, whatever is put right, any subset of `MayFail`;
`Die` ends an invocation anywhere; `Rearm` is what the operator recoveries of the
job service do to a JOB_READY row.

Here the two models meet: `JobService` has its own, coarser dispatcher for
JOB_READY, and `Rearm` here is the effect of its `Rearm`, `Rescue` and
`RecoverTerminal` on the row.

### How Runner corresponds to the code

*State.*  `node` is run_once and process_message: the pulled batch, the message in
hand, the attempt (`n`, the lease token of the code) and the await it is at.
`thread[a]` is the call of _sync_build_validate_and_package for attempt `a`, which
nothing can stop; `made`, `at` and `fresh` are generated_files, where each lies, and
pending_attested.  `fenced`, `beating` and `wall` are the fenced event, the heartbeat
loop and the monotonic deadline of an attempt.  `dirs` are the job directories;
`memory` is `_atlas_reuse_state`; `archive` the rows and files of FinalFontArchive;
`binaries` the L3 cache; `observed` the completed collections of the observation
store.  `edge`, `queued` and `held` are what the job service and the queue know.

*Actions.*  One per await of the loop (`Pull`, `Begin`, `ClaimGranted`,
`ClaimRefused`, `ClaimLost`, `Probe`, `Acquire`, `StartBuild`, `Built`, `Upload`,
`Complete`, `FenceSeen`, `WallHit`, `Fail`, `UploadFailed`, `Acknowledge`,
`GiveBack`) and one per check or write of the thread (`TakeArchived` is tier L1 for
one file, `TakeBinary` L3, `TakeRun` and `RunEnds` L4, `ArchiveLooks`,
`ArchiveInserts` and `ArchiveAttests` the transactions of put_attested, `Package`,
`Checked`, `ThreadStops`, `ThreadRaises`).  `BeatFenced` and `BeatsLost` are the
heartbeat; `Crash` a restart with its pruning.  `WallHit` may come at any await under
asyncio.timeout, the fail and retry calls of _execute_claimed_job among them.

*Environment.*  `Lapse` is the job service's cron, as `JobService` has it in detail;
`Redeliver` the visibility timeout (300 s by default, less than the walls of 480 and
720 s).  `MaxFaults` counts lost and malformed answers, lost heartbeats, lost wake-ups
and crashes; errors of acquisition, gates and disks, hanging threads and expiring
walls are no faults and may always happen.

A font is `[of, run, from]`: the identity it was made for, the attempt that made it, so that
two runs give different bytes, and whether a binary or an atlas run (`TakeRun`, `RunEnds`) it
came from.  An entry of `memory` holds the family and mode its run was for, which the code
does not look at.  READY stands for PENDING and RETRY; the backoff of a
RETRY job is left out.  The L2 cache is only written by the legacy gate, which the
atlas regime switches off.

### How Checkout, Sessions and Payments correspond to the code

*State.*  `session` is the row with its version; `minted` the last workflow token (a
workflow token and the checkout token made with it are one number).  `update[u]` and
`ledger[u]` are the content of an update and its row in `telegram_updates`; `hand[u]`
is the handler of an update, with the await it is at and the session *as it read it*.
`shown` are the menus in the chat, each with the token on its buttons.  `catalogs`,
`asked` and `request` are the families with a catalog, the requests in the order of
their `created_at`, and the status of each.  `agent` is a report in progress.
`orders`, `payments`, `jobs`, `events` are rows, `bank` the transfers made, `desk[d]`
a SePay report being handled.  `writes` is history: how often an open update was delivered,
and how often it wrote a choice of the user or an order (`Chosen`), filled in a catalog
(`Filled`) and set the status alone (`StatusSet`).

*Actions.*  `Receive` is the select and insert of the ledger; `Tap` the refusal of
stale and foreign tokens and the statements each button leads to; `Wanted`, `Ask`,
`Await`, `Select`, `Offer` and `Reopen` are startCatalogFlow, one per await, `Await` and
`Reopen` being its unconditional status writes; `FindOrder` and `CreateOrder` are
order-service.ts with its unique checkout token; `Replay` is what an update found
APPLIED leads to; `Die` ends a handler at any await, after which Telegram delivers the
update again.  `Persist`, `Look`, `Advance` and `FailRequest` are
the agent's report with the look for waiting sessions.  `Report`, `Receipt` and
`Settle` are sepay-webhook.ts and the four statements of the payment batch, `Lost` the
answer that does not reach SePay, which reports again.

### How Acquisition corresponds to the code

`Discovery` and `RasterPages` are pure: what `ParseFamilyDiscovery`, `ParseHits`,
`GetStyleRecord`, `ExtractBinary`, `VerifyAcquiredBinary`, `FetchAllSpritePages`,
`IsCompleteRasterPages`, `SizeSchedule` and `Ingestible` return for a page, hits, links
and crawls.  A page of the foundry is an input: rows with hashes or without, links,
embedded fonts, another family.  `Acquisition` is the control: `PreflightCached`,
`PreflightDump` and `PreflightStealth` before an order, then for each style the lanes in
their order (`DumpBinary`, `StealthBinary`, `StealthRaster`, `DirectCdn`, `Algolia`),
and the runner's decision about the outcome (`TakeBinary`, `TakeRaster`, `TakeNothing`).
`cachedEnv` and `cachedDump` outlive the order; what a lane answers is chosen anew at
every call.  The pages of a raster are a set: a crawl asks for each once, and the checks sort
them by size and number before they look.  The names `AcquisitionInit`, `AcquisitionNext`,
`AcquisitionSpec` and `stage` keep the module apart from `Collection`, beside which it stands
in `EvidenceProofs`.

### How ObservationStore and Collection correspond to the code

`ObservationStore` holds the six tables of store.py as functions and the PNG files by
path; every public save is an operator on them, and saving a raster is two: file, then
row.  `Collection` has one order at a time.  `DirectPlan` and `IngestPlan` are the
sequences of writes collector.py and raster_ingest.py make, `SaveNext`, `CaptureNext`
and `PairsNext` perform the next, `FinalizeNext` is finalize_source_collection with its
checks (`RastersWhole`, `PairsWhole`, `MetricsWhole`), `UseCompleted` the reuse of a
completed collection with the cache of reconstructed glyphs in memory and as a pickle.
`Abort` cuts an order anywhere, also inside the write of a raster file; `PageChanges`
and `BrowserUpgrade` happen between orders.

### How AtlasPaging and Atlas correspond to the code

`AtlasPaging` is metrics.py, marks.py and paging.py at one size: `Cell`, and `Place` with
its three placements.  The loop of `plan_atlas_pages` is a stage of `Atlas` with one step a
cell (`PlaceCell`), so that a plan can be reasoned about without recursion; nothing else
happens between the cells but an end of the process, which drops the plan.  In `Atlas`, `ckpt` is the one checkpoint file of the
job, `models` and `fonts` the entries of the cache with bytes and digest apart; the rest
is the process, lost at `Stop`.  `ProbeFontCache`, `BinaryWin`, `LoadCheckpoint`,
`PlanThePages`, `PlaceCell`, `PlanEnds`, `FetchPage`, `EasyPass`, `SaveBatch`, `PageCompleted`, `Refine`,
`RefinementEnds`, `Assemble` and `Persist` are the stages of pipeline.py in their order.
`PowerLoss` damages what was written without fsync.

### How GlyphFit, GlyphLadder and GlyphSearch correspond to the code

One axis stands for two: an outline is a set of strokes, a raster the set of its inked
pixels, a loss a small integer computed from them.  With that, `Reconstruct` (sdf.py,
solver.py), `Objective` and `Optimize` (optimizer.py) and `Ladder` (balanced_search.py:
core, expanded and full tier, `Deduped`, `Eligible`, `Winner`, `LastPool` with the
promotion) are functions TLC evaluates.  `GlyphSearch` runs them over the glyphs of a
style: `pc[a][g]` is the task of a glyph in an attempt, `final` and `tmp` the checkpoint
file and the temporary file *all* attempts share, `OpenTmp`, `WriteTmp`, `Replace` the
three steps of a save, `Load` and `Discard` the resume, `Collect` the loop over the pool.
`Crash` ends every attempt; the next may run a later release.

### How GateEvidence, VietnameseExtension and ReleaseGate correspond to the code

`GateEvidence` decides about one collection: `LoadOk`, `FitRows`, `HeldRows` and `Leaks`
(pipeline.py), `AssemblyOk`, `Model` (release_gate.py), `ConsumersOk` (producers.py),
`GeometryOk`, `MetricsOk`, `TypographyOk` (evaluator.py), put together in `Passes`.
`VietnameseExtension` is compute/vietnamese.py and the cascade of models: `Composed`,
`Primary`, `Escalated`, `Arbited`, `OpenRouter`, `Drafted`.  In `ReleaseGate`,
`archive`, `models` and `completed` are on disk, `memo` is the bounded formation memo of
the process, `gate[t]` a gate thread of an order (an abandoned one goes on), `got` what
the compute thread has resolved.  `TakeArchived`, `TryModel`, `TakeBinary`, `Gate` are
the tiers, with `ProbeOf` numbering the models tier L2 tries; `InMemo`, `Form`, `Reuse`, `Extend`, `Build`, `Judge` the stages of the
gate; `Wall` and `Abandon` the end of its time; `Crash` ends threads, memo and files.
This is the regime with `ATLAS_ULTRA_ENABLED` off (tier L4), and tier L2 of either.

## 3. Runs

Twelve runs, 40 properties; each property is violated by at least one mutant of the
code's definitions (`PROJECT.json`, `mutants`).

| Run | Instance | What it shows | Why the bounds are enough |
|---|---|---|---|
| `racing_workers` | 1 job, 2 requests, 1 cron, the three operator recoveries, 2 artifacts, 2 attempts, lease 2, age cap 1, 3 ticks, 1 message in the queue | `LiveLeaseRespected`, `CompletionWhole`, `CompletedForever`, `CompletedReplyTrue`, `RetryHasAttempt`, `LeaseAgeBounded`, `IInv`, and `ContractKept`: JobService implements JobContract | two requests make every race of two callers, the second also with the token of a lapsed lease; two artifacts make a conflict; the limit is one above max_attempts, so the widened budget occurs. Two crons at once are only covered by the proofs |
| `mixed_orders` | 2 jobs (one order without a mode), 1 request, 1 cron, cron batch of 1, 2 attempts and 1 more, 3 ticks | `JobOrderAgree`, `ModelessOrderLeads` | the batch limit is below the number of candidates |
| `outbox_overlap` | 2 events, one a delivery of 2 parts, 2 dispatchers with batches of 1, lease 2, 4 ticks, failures until tick 1 and poison for ever | `AtLeastOnce` (refinement), `OneCopyPerAttempt`, `LiveDispatchRespected`, `NothingLeftDue` | batch smaller than what is due: the failing event can hold up the other one; time is enough for a lease to lapse during a batch and for two backoffs |
| `agent_messages` | 1 order, 2 attempts, 1 fault of any kind | `AckJustified`, `EveryJobSettles` | two attempts: redelivery during work and after it |
| `agent_overlap` | 2 orders of different family and mode, VIETNAMESE and ORIGINAL, for one style, 1 attempt each, 1 fault | `ArtifactOfJob`, `HitIsOwn`, both with the exception of a remembered run (section 5) | the thread of the first outlives its wall beside the second; the run the first leaves is taken by the second, and archived |
| `acquisition_lanes` | 2 orders, 1 or 2 styles, 6 pages, 5 hit lists, 1 failing request per crawl | `EvidenceIsNamed`, `AuthorisedIsWhole`, `NoSilentDegrade`, `IncompleteOnlyAfterAsking` | the second order sees the caches of the first; every lane both succeeds and fails; a page binds its only hash to a style it is not of, and the index may answer with another family alone |
| `collection_resume` | 2 glyphs, 2 fonts, 2 browsers, 1 cut, 1 change | `OneIdentity`, `CompletedIsWhole`, `CompletedIsFrozen`, `ResumedCompletes` | the cut may be before any write; fonts differ in coverage, grid and kerning |
| `atlas_resume` | 2 styles, 5 and 2 glyphs, checkpoint every 2, 1 stop, 1 power loss, 1 lost cell | `PlanWhole`, `Accounted`, `ResumeExact`, `HitIsWhole` | more than one page and more than one checkpoint per style; glyphs easy, hard, low, bad and blank |
| `search_resume` | 2 attempts, 2 workers, 2 releases, 4 families of glyphs | `FormedIsFresh`, `Vouched`, `NothingRefitted`, `FormationEnds` | the two attempts may overlap or follow a crash; glyphs end in every tier |
| `gate_tiers` | 2 orders, 2 gate threads each, memo of 1, 1 crash, 4 collections | `DeliveredIsOwn`, `JudgedByUnseen`, `EveryOrderEnds` | memo smaller than the models formed; the second order comes with the thread of the first alive |
| `checkout` | 3 updates (1 message), 2 at a time, 1 death, 2 families, 2 transfers at 2 desks, met fresh or at the choice of formats | `OrderIsSelection`, `AppliedOnce`, `PaidWhole` | two updates race and one is delivered again after the other was handled; the desks are symmetric |
| `checkout_waiting` | 1 user met with a mode, 1 new family | violates `WaitingAdvanced` (section 5) | |

`CHECK_DEADLOCK FALSE` stands where the system may really stop: all orders of
`Acquisition` handled, and a `Runner` whose queue is empty.  Elsewhere a `Finished` step
marks the states in which it may.

*Type invariants and supporting invariants.*  `TypeOK`, `JobOrderAgree` and others are
conjuncts of `IInv`; `JobService` checks them through it.

*Fairness.*  `outbox_overlap`: the cron keeps starting dispatchers and a running one goes
on or dies; failures stop but for poison.  `agent_messages`: the loop and the clock of the
queue go on, nothing else; a build thread may hang and acquisition may hang, as in the code
nothing bounds them but the wall.  `collection_resume`: orders for the style keep coming
and an order not cut goes on.  `search_resume`: the tasks of a running attempt are
scheduled.  `gate_tiers`: an order's compute thread and its wall only; gate threads may hang
for ever.  No fairness is assumed of faults, users, webhooks or operators.

## 4. Proofs

`JobServiceProofs` proves, for any sets of jobs, workers, artifacts, requests and
crons and any values of the constants that satisfy the two named assumptions
`RowConstants` and `ServiceConstants`:

* `Invariant`: `Spec => []IInv`, and from it `TypeCorrect`, `JobAndOrderAgree`,
  `ModelessOrdersLead`, `LeasesWellShaped`, `RetriesHaveAttempts`, `LeasesAge`,
  `CompletionIsWhole`, `CompletedRepliesTrue`;
* the action properties `CompletionIsForever` and `LiveLeasesRespected`;
* `Implements`: JobService implements JobContract.

Why the properties are not inductive on their own.  `RetryHasAttempt` depends on
a test failJob made in an earlier step: `FencedReadsHold` says that as long as
the token in the row is the caller's, the row is the one it read (attempts move
only with a new token), which needs `TokensIssued` (no token of a request is
newer than the last one made).  `LiveLeaseRespected` needs `ClockReadings`: a
remembered `now` is never ahead of the clock, so a lease expired by it is expired
really.  `CompletedReplyTrue` needs `LocalsFit`: at each step the locals are
those of that step.  `CompletionWhole`, `JobOrderAgree` and `LeaseShape` support
each other through the fences.

Structure of `JobServiceProofs`.  Each action is first reduced to what it may do to one row
(`Moves`: the row's before and after, with the reason) and to one slot; then each
conjunct of `IInv` is preserved per kind of move rather than per action.  The
temporal theorems combine these with PTL.

`OutboxServiceProofs` proves, for any sets of events and dispatchers and any constants
that satisfy `OutboxConstants` (events are numbered, the dispatchers are finitely many):

* `Invariant`: `Spec => []IInv`, which contains the type invariant;
* `LiveDispatchesRespected`: the action property `LiveDispatchRespected`;
* `Implements`: OutboxService implements OutboxContract (`AtLeastOnce`);
* `OneCopyAnAttempt`: `[]OneCopyPerAttempt`.

Why `IInv` is needed.  The progress write of a dispatcher that has lost its lease is not
fenced, so `AtLeastOnce` cannot rest on who holds the lease.  It rests on `Truthful`: a part
in the row, in a payload as selected or in the hands of a dispatcher has been handed over,
and deliveries are never asked for again, so a stale set of parts may be too small but
never wrong.  For a JOB_READY event, which is asked for again, `InHand` says it of the
holder of the fence only; `Sound` and `RowsSound` say that no token is newer than the last
one issued, so a fence once lost does not come back.  `Sound` also says that the clock
reading of a batch is not ahead of the clock, which gives `LiveDispatchRespected`.

`OneCopyPerAttempt` is not inductive even with `IInv`: `WithinAttempts` counts, beside the
copies there are, the dispatchers that may yet hand the item over in the attempt they are
at, lease or no lease.  `TakeCounts` (one attempt, one sender more), `SendCounts` (one copy,
one sender less) and `OtherCounts` (no sender more) preserve it.

`CheckoutProofs` proves, for any updates, families, styles, formats, transfers and desks,
from any starting session without an order (`StartsAssumption`) and any known families
(`KnownAssumption`):

* `CheckoutSound`: `Spec => []IInv`, which contains the type invariant;
* `OrderMatches`, `ChangesOnce` and `PaymentsWhole`: `[]OrderIsSelection`, `[]AppliedOnce`
  and `[]PaidWhole`.

`OrderIsSelection` is about two tables and rests on a third thing, what the handler read:
`ReadsSound` says that a row read evolves into the row there is, and is that row but for the
pending link as long as the version is the same, because every statement raises the version
except `setPendingSourceUrl`; hence the compare-and-set of the confirmation orders what is
there.  The order agrees afterwards as no statement leaves a session in ORDER_CREATED other
than one that leaves the row `Alike`: a mode tap is the one CAS that names no status, and it
misses because an ordered session has a mode.  `AppliedOnce` rests on `CountsSound`: a handler
that may still make its choice (`MayChange`), or fill in a catalog (`MayFill`), has not done so,
and once a choice or a catalog is written the ledger row says APPLIED, so that a later delivery
only replays.  The status writes have no such guard: `MaySet` says that a delivery which may
still set the status has not set it.  `FlowSound` says which updates ask for a catalog, a mode
tap with a pending link being the one that writes twice.  `PaidWhole` speaks of cardinalities; `BooksSound` says which rows they are, and
that desks and receipts quote transfers really made.  Each action is reduced to what it does to
one handler (`HandlerMoves`), to the row of the session (`RowStep`) and to the books
(`BooksKept`, `BooksOfNew`, `SettleKeeps`).

`RunnerProofs` proves, for any orders, items, attempts, batch size and number of faults
that satisfy `RunnerConstants`:

* `Invariance`: `Spec => []IInv`, and from it `TypeCorrect`;
* `DropsAreJustified`: the action property `AckJustified`;
* `DeliversTheOrder` and `HitsAreOwn`: `[]ArtifactOfJob` and `[]HitIsOwn`.

`AckJustified` speaks of one step and rests on `AckOK`: whoever is about to acknowledge has
read an outcome that cannot be undone.  That it cannot is `Onward`: the edge never lowers an
attempt count, never leaves a final status, and never hands a job back to an attempt that
lost it; `NodeOK` adds that the attempt at hand was really granted.  For the files, `Sound`
says of a thread that its files fit its order as far as it has come, in `put`, `insert`,
`attest`, `seal` and `check` all of them, so a thread that is stopped or raises anywhere
leaves nothing half made in a store; `BuiltOK` carries this over to the event loop, which may
be at another message when the thread is done, and `MemoryOK` and `ArchiveOK` to the orders
that come later.  `StandsFor` is what holds of a font for an identity without any condition:
style and format are those asked for, family and mode are those of the order it was made for,
and that is another order only for a font of an atlas run, by an order for the same style.  The
exception is there because the code needs it (see 5), and it is narrow: a font of a binary never
stands for another identity, nor does one of another style or format.  `MemoryOK` ties a
remembered run to the order that made it.  Each action is reduced to what it does to one job of the edge (`Turns`), to one
thread (`ThreadTurns`) and to the message at hand (`Proceeds`, `Left`).  `Least`, that a set
of naturals has a least element, is proved from the well-foundedness of strict inclusion on
finite sets: it is what makes the `CHOOSE` of `NextFresh` mean something.

`EvidenceProofs` proves of `Collection`, for any glyphs, fonts, browser versions, schedules
of numbers, kernings and pairs (`StoreConstants`: there is a browser, sizes and phases are
numbers):

* `Invariance`: `Spec => []IInv`;
* `IdentityIsOne` and `WholeWhenCompleted`: `[]OneIdentity` and `[]CompletedIsWhole`;
* `CompletedStays`: the action property `CompletedIsFrozen`.

The argument is `OneOK`: an order writes only while nothing is completed, so every step
leaves the tables, writes while nothing is completed, or completes (`Steps`).  What a
plan writes, in which order and how often it was cut is therefore of no consequence: the checks of
`finalize_source_collection` are all that makes a collection whole.  The one thing they
take for granted is the font whose metrics set the schedule of a glyph, read from `obs[0]`;
that this row exists is `FirstIsOne` (pairs of numbers have a first one, from `Least`), for
which the keys must be numbers - they are, as the check demands them to be the grid
(`ScheduleOfNumbers`).  `ModelsOK` is what the caches need: models are kept of completed
evidence only, and that stays.

And of `Acquisition`, for any orders, pages, links, hits, faces, crawls and number of orders:

* `AcquisitionInvariance`: `AcquisitionSpec => []AcquisitionInv`;
* `OnlyNamedEvidence`, `RastersAreWhole` and `FailedBytesEndIt`: `[]EvidenceIsNamed`,
  `[]AuthorisedIsWhole` and `[]NoSilentDegrade`;
* `BothLanesAreAsked`: the action property `IncompleteOnlyAfterAsking`.

Nothing is assumed of what a page or the index says, but that it is a list of records whose
hashes are of known fonts (`PagesAssumption`, `HitsAssumption`): a page may bind a hash to a
style it is not of, hits may be of another family or of several, links and embedded fonts may
be of any style or family, a page may change between two calls, the bytes of a lane may be
corrupt, and any request of a crawl may fail.  What is assumed of the foundry is that the
render endpoint says it has nothing more to show only after the whole font
(`CrawlsAssumption`).  The other two (`OrdersAssumption`, `FontsAssumption`) are about shapes.
TLC evaluates all of them.  So `EvidenceIsNamed` says of bytes, which the code looks into, that
they *are* the ordered font; of a raster, into which it cannot look, that it draws the very font
that page or index named for the ordered style - not that they named the right one, which is
not so (see 5).  `EnvelopesOK` is the invariant that carries it: an envelope, cached by an
earlier order or found now, has records of known hashes, and one of another family is refused
before any later lane (`FamilyMatches`).  `EvidenceIsNamed` then needs the position in the order
(`StageOK`), since evidence is kept by index.  `SizeIsWhole` is why a crawl cut short is seen: every page but the
last of those numbered from one announces the next, and a page with glyphs never says that it is
the last, so a size that passes ends with the empty page.

`ReleaseGateProofs` proves, for any orders, collections, evidence, threads, answers of the
models and numbers of crashes (`GateConstants`; `BooksAssumption`: an order has each style
in each format once, as the cartesian product of the two lists makes it):

* `Invariance`: `Spec => []IInv`;
* `DeliveredIsAsked` and `UnseenJudges`: `[]DeliveredIsOwn` and `[]JudgedByUnseen`.

What is delivered is read from files and stores that other orders, and threads nobody waits
for any more, write to.  The invariant has a half for each.  `StoresOK` says of what outlives
an order that it is what its key stands for: an attestation in the archive `Fits` the style,
format and mode of its identity - though the file beside it need not, as `put` keeps the file
of an earlier one - and `Hits` requires the two to agree; a model is of the collection of its
key, and untouched if the key is of an order as it is; the memo has the source's own models
only.  `AloneOK` and `FilesOK` are about files: before the wall no thread of an order is at
work but the one waited for, hence a file that was resolved is as it was judged until it is
packaged; after the wall threads may build over it, but nothing is packaged then.  This is why
`Package` must look at the wall again, and why two items of an order may not be the same
(`ItemsShape`: their files would be).  That the tiers take the first of several candidates
is `Least` again.  `UnseenJudges` needs in addition only that a delivered font is of a collection
that passed the parting (`WholeIsUnseen`).

`GlyphSearchProofs` proves, for any style, number of attempts, workers and releases
(`FamiliesAssumption`, `AttemptsAssumption`: a style is a sequence, attempts are counted from
one) and *any* rasters, budgets and bounds - nothing is assumed of the numeric fit:

* `Invariance`: `Spec => []IInv`;
* `OutlinesAreFresh` and `OutlinesAreVouched`: `[]FormedIsFresh` and `[]Vouched`;
* the action property `BankedIsKept`: `NothingRefitted`.

`FormedIsFresh` is about the file `Load` reads, which another attempt or a crash may have
left in any state; `FreshOK` says that a file is empty or holds what a release wrote of an
outline the ladder publishes, and the comparison in `Load` does the rest: it needs nothing of
how attempts interleave.  `NothingRefitted` does: `AloneOK` says for attempts that follow one
another that the file in place never is the temporary one (an attempt that has not opened a
file owns none of either name), so that opening it cannot empty the checkpoint, and that a
glyph being fitted was banked by an earlier release at most.  `OutlinesAreVouched` is a fact
about the ladder, `LadderBacked`: what is called FULL_SET in the pool is the fit to all
rasters (`Pool`), it is last and therefore kept, and wins if it survives the deduplication.
The attempt to prove it without the exception for a twin failed for the reason given in
section 5, and showed that the calls of a promoted pool were miscounted in an earlier version
of the model; the proof of `FreshOK` that a crash must not erase what an ended attempt formed.

`AtlasProofs` proves, for any styles, coverages, findings of the geometry, rows and lengths
(`StyleSeqAssumption`, `CoverageAssumption`, `LengthsAssumption`: coverages are finite sets of
code points, rows are integers of any sign, lengths are not negative), any batch and any
number of stops, power losses and lost cells:

* `Invariance`: `Spec => []IInv`;
* `PlanIsWhole`, `AllAccounted`, `ResumeIsExact` and `HitsAreWhole`: `[]PlanWhole`,
  `[]Accounted`, `[]ResumeExact` and `[]HitIsWhole`.

The plan is proved cell by cell (`PlaceOK`): `CellOK` says of a cell of the open page that it
is left of the end of its shelf or wholly above the shelf, which is why neither of the two
placements can overlap it, and `FitsNewShelf` has to count the open shelf.  `ListsOK` is a
partition of the coverage at every stage, with `Left` for what no list holds yet; it needs
`Memo`, what a checkpoint may hold of its identity, since a resumed run takes its lists from
one.  `KindsOK` ties each list to what the geometry finds: a glyph in the checkpoint's frozen
set that was refined has no glyph model, is not restored, and is found again; and a failed
glyph of a checkpoint is one the geometry fails only while no cell was lost.  `EntryOK` and
`Written` are about the five files of a font entry: as long as the disk is undamaged a report
means that all five are of one run, hence a miss means there is no report, hence no half of
an older font is left behind one.  A damaged digest only makes a miss, so `PowerLoss` leaves
digests alone and damages bytes or the report.

Every safety invariant and action property of the passing runs is proved.  Not provable here
and left to TLC: liveness under fairness (`NothingLeftDue`, `EveryJobSettles`, `ResumedCompletes`,
`FormationEnds`, `EveryOrderEnds`) and ENABLED; what a recursive definition computes for
every input.

## 5. Divergences

What reading and checking showed of the code against its own documents.  The first is
checked by a run that TLC finds violated; the others are what the models do, written from
the code, and what the properties therefore do not claim.

* **A waiting session is not advanced** (`checkout_waiting`).  internal-catalog.ts:200:
  "Advance every still-relevant waiting session whose request is satisfied by this
  catalog".  startCatalogFlow records the request (telegram-webhook.ts:235), finds no
  catalog (:242) and only then sets AWAITING_CATALOG (:247).  A report between the two
  finds the session not yet waiting; its request is then COMPLETED and nothing
  advances the session later.

*Job service, outbox, agent*

* A superseded claim fails the order: the comment at job-service.ts:1598 says the token
  fences both statements, the order's at :1622 has no token.
* Confirmed parts are sent again: outbox-service.ts:469 "so that partial failure won't
  re-send confirmed parts on retry", but the parts to skip come from the row as selected
  (:436) and the progress write (:471) is not fenced.
* An order may be delivered the fonts of another.  README.md:70 of the repository says
  "Immutable verified TTF/OTF reuse by exact identity", and runner.py:878 describes the kept
  run as of one job; `_atlas_reuse_state` is keyed by the style id alone and never reset (:890,
  :917).  The next order for the style, of another mode or of another family whose style has the
  same id, takes the run, is completed with it, and archives it under its own identity, where
  `HitIsOwn` then meets it as a hit.  `agent_overlap` reaches this with an ORIGINAL order after a
  VIETNAMESE one; `StandsFor` is the exception `ArtifactOfJob` and `HitIsOwn` make for it.
* README.md:195 "ACK Queue only after a durable authoritative outcome": a refused fail
  call acknowledges the message (runner.py:1294, worker_client.py:469) of a job that
  recoverExpiredLeaseJobs may have left in RETRY with a failed wake-up (job-service.ts:637).
* rescue and recover require `next_dispatch_at` to be NULL, which SENT after a backoff does
  not clear (job-service.ts:894).

*Checkout*

* An update is APPLIED although its CAS hit nothing (session-service.ts:303).
* The status write at the end of startCatalogFlow (telegram-webhook.ts:285) reopens an
  ORDER_CREATED session with its old checkout token.
* `created_at` of a family asked for again stays (internal-catalog.ts:230), so "latest" is
  wrong after A, B, A.
* A waiting session is advanced without a version condition (internal-catalog.ts:243).
* An update delivered again sets the status again, AWAITING_CATALOG (telegram-webhook.ts:247)
  or SELECTING_STYLES (:285), whatever other updates did in between: the ledger guards neither.
  `AppliedOnce` allows one such write for each delivery.
* The URL kept while the mode is chosen does not change the version: it is lost between the
  read of the mode tap and selectMode, although the latest URL is to win, and again on a
  crash between selectMode and startCatalogFlow: the update is APPLIED by then, and a later
  delivery only replays it.
* A second transfer for a paid order leaves no payments row (payment-service.ts:121).

*Acquisition*

* Every complete crawl of the CDN ends with an empty page, which raster_ingest.py refuses
  with RASTER_INGEST_PAGE_NO_GLYPHS, against its docstring (:10) and runner.py:1482.
* A style is matched by containment of names although FamilyDiscoveryEnvelope (models.py:67)
  speaks of an "exact style-bound MD5" and of rejecting ambiguous and cross-style
  mappings; the candidates of a page belong to all its styles, and the first
  that verifies as another font ends the search.
* Hits of the search index for several families are merged, and no one compares the family
  they are of with the ordered one (pipeline.py:546-582, adapters.py:1768-1822): an answer that
  has another family only gives the raster of that family's style.
* A page without rows binds the first hash on it to the style its title names, or the default
  one, whatever font that hash is of (providers.py:312-335).

*Evidence store*

* README.md:216 "Successful authorized raster-provider results are never discarded":
  after a direct collection that was cut, finalize_source_collection refuses the extra rows
  (collector.py:522).
* An ingestion that is cut and resumed after the page changed completes a collection of two
  fonts; a direct collection resumes over rasters of a provider.
* Metric rows are INSERT OR IGNORE: a stale value stays.  A probe that fails makes a glyph
  silently missing.

*Atlas*

* runner.py:877 "builds TTF+OTF from ONE sealed canonical model": the cache verifies each
  file, never the pair (cache.py:94).
* Marks with ink left of the pen: the sign of the bearing in metrics.py:184 and paging.py:32
  differ; a cell on a new shelf drops the left extent (paging.py:160).
* cache.py:14 describes a save on shutdown; the coordinator is never wired.
* Each style overwrites the one checkpoint file of the job; glyphs that failed are refined
  again on resume although "EXACTLY one refinement" is said of them, and one of low confidence
  is then listed twice (pipeline.py:491, :545): the model of a refined glyph is not kept.

*Glyph search and gate*

* An easy glyph above the objective bound raises BALANCED_RERANK_TOP1_REJECTED before it can
  be promoted (balanced_search.py:856, promotion :870).
* "only candidates trained on the complete required evidence set (FULL_SET tier) may win a
  HARD search" (balanced_search.py:835): if an earlier tier came to the same shape, the
  deduplication (:819) drops the FULL_SET candidate, and a third one fitted to a part of the
  rasters may win; after the promotion nothing compares it with the margin.
* Attempts of a job share the checkpoint directory (runner.py:348) and each glyph's temporary
  file: of two that overlap, one may fail with FileNotFoundError.
* The TTF and OTF of a Vietnamese style are bound to different model hashes
  (release_gate.py:699, :781); an L2 hit of an extended model is always rejected, its
  extension code points are not passed (:1216).
* The wall budget is given in full to every probe of L2 and to L4 (runner.py:645).
* Held-out kerning is compared with kerning derived from the fit alone: beyond 15 units the
  typography gate fails.  With a browser, blank rasters of fit and held-out share a digest:
  LEAKAGE_DETECTED, although evaluator.py:394 says such families always contain blanks.
* The key of the archive includes the AI binding, so `get_attested_any_binding('')` finds no
  VIETNAMESE_AI font (archive.py:588).
* Styles whose file names collide overwrite each other in stage9d.

## 6. Not modelled

* *Downloads, signing, preflight, formatting*: stateless; a signature check and a read.
* *Agent configuration, readiness, soak, benchmarks; scripts*: construction of objects and
  one-shot tools.  A supervisor that restarts the agent is `Crash` in `Runner`.
* *Chromium process, drain threads* (measurement/browser_session.py): the browser is what an
  order observes in `Collection`; its protocol and restart are pipe I/O.
* *Font tables, FreeType and FontTools checks, the curvature loss, refinement arithmetic*:
  floating point.  Their outcomes are inputs of `Atlas`, `GlyphLadder` and `GateEvidence`.
* *Eviction of caches, archives in parts, previews, catalog requests of the agent.*
* *Damage to the binary cache* in `ReleaseGate`.  `Runner` has it: a file truncated by a power
  loss (binary_cache.py:121) or pruned at start-up (scratch.py:94) is a terminal error for the
  order that hits it, and for every later one, as nothing repairs it.  No property speaks of that.
* *Two deliveries of one Telegram update at the same time, several users*: user rows are
  independent but for the catalog, whose race is shown with one user.
* In `Acquisition`: decoding of HTML, PNG and base64; the session provider, which the
  production composition does not pass.  In `Atlas`: attempts at the same time.  In
  `ReleaseGate`: route traces, the post-package wall check, the lease fence (in `Runner`).

## 7. Plan

1. A composition of `Checkout`, `JobService` and `OutboxService` by their abstract
   specifications: an order that is paid is delivered or failed.
2. The Chromium process with its drain threads and deadline.
