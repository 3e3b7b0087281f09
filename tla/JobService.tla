----------------------------- MODULE JobService -----------------------------
(***************************************************************************)
(* edge/src/services/job-service.ts: the fenced life of a fulfillment job. *)
(*                                                                         *)
(* Every public method of JobService is an async function over D1.  A D1   *)
(* statement, or one batch of them, is atomic; between two awaits any      *)
(* other Worker isolate may run.  A method in progress is a request slot   *)
(* (req) that remembers what the code holds in locals across the await -   *)
(* above all "now", read once and used in a later CAS when the clock may   *)
(* have moved.  The scheduled() handler is a cron slot.  A slot may be     *)
(* abandoned at any await: the isolate dies or the caller's connection     *)
(* drops, and no reply is seen.  Where a method reads the clock right      *)
(* before or after the statement it is for, the two are one instant here.  *)
(*                                                                         *)
(* Callers are the A23 workers, which call in any order, late, twice, and  *)
(* with tokens of claims they have lost.                                   *)
(***************************************************************************)
EXTENDS D1Jobs, FiniteSets

CONSTANTS
    Requests,           \* concurrent HTTP requests
    Crons,              \* concurrent scheduled() invocations
    ModelessJobs,       \* orders whose mode is absent or contradicts metadata
    BatchSize,          \* LIMIT of the two maintenance selects (25)
    MaxTime,            \* bound: ticks of the clock
    MaxQueued           \* bound: queue messages counted per job

ASSUME ServiceConstants ==
    /\ ModelessJobs \subseteq Jobs
    /\ BatchSize \in Nat \ {0}
    /\ MaxTime \in Nat
    /\ MaxQueued \in Nat

VARIABLES
    clock,              \* Date.now(), the same for every isolate
    lastToken,          \* how many lease tokens have got into a row
    job,                \* fulfillment_jobs
    order,              \* orders.status
    receipt,            \* fulfillment_receipts: the artifact, or none
    artifactRow,        \* artifacts: the row INSERT OR IGNORE leaves per job
    delivery,           \* the DELIVERY_READY row of outbox_events exists
    ready,              \* the JOB_READY row of outbox_events
    queue,              \* messages {job_id} in the fulfillment queue
    req,                \* request slots
    cron                \* scheduled() slots

db == <<job, order, receipt, artifactRow, delivery, ready>>
vars == <<clock, lastToken, job, order, receipt, artifactRow, delivery, ready,
          queue, req, cron>>

-----------------------------------------------------------------------------
(* Slots *)

\* What the caller learns about the job.  COMPLETED also stands for
\* ALREADY_COMPLETED, which the handler reports as COMPLETED.  The other statuses
\* only say what to do with the queue message; they are "other", as is no reply.
Replies == {"COMPLETED", "other"}

Steps == {"idle", "claim_exhausted", "claim_cas", "claim_mode", "claim_fail_closed",
          "heartbeat", "complete_read", "complete_batch", "complete_race",
          "fail_retry", "fail_terminal"}

Request == [pc       : Steps,
            job      : Jobs,
            worker   : Workers \cup {NoWorker},
            token    : Nat,
            now      : Nat,
            lease    : LeaseDurations \cup {0},
            until    : Int,
            reason   : Reasons,
            artifact : Artifacts \cup {NoArtifact},
            reply    : Replies]

\* A slot whose method has returned, or that has not been used; it keeps what
\* the caller was told about the job.
Returned(j, answer) ==
    [pc |-> "idle", job |-> j, worker |-> NoWorker, token |-> Null, now |-> 0,
     lease |-> 0, until |-> 0, reason |-> "none", artifact |-> NoArtifact,
     reply |-> answer]

\* Locals of a method that has just begun.
Begun(step, j, w, t) ==
    [Returned(j, "other") EXCEPT !.pc = step, !.worker = w, !.token = t, !.now = clock]

CronSteps == {"idle", "finalize", "recover_select", "recover", "send"}

Seen(row) == [leaseExp |-> row.leaseExp, leasedAt |-> row.leasedAt,
              attempts |-> row.attempts, max |-> row.max]

SeenRow == [leaseExp : Nat, leasedAt : Nat, attempts : 0..AttemptLimit,
            max : 0..AttemptLimit]

CronSlot == [pc    : CronSteps,
             now   : Nat,
             cands : SUBSET Jobs,
             seen  : [Jobs -> SeenRow]]

Blank == Seen(NewJob)

CronIdle == [pc |-> "idle", now |-> 0, cands |-> {}, seen |-> [j \in Jobs |-> Blank]]

ReadyRow == [status : {"PENDING", "SENT"}, leased : BOOLEAN, deferred : BOOLEAN]

NewReady == [status |-> "PENDING", leased |-> FALSE, deferred |-> FALSE]

\* A JOB_READY row the dispatcher is done with and that never backed off.
Settled(row) == row.status = "SENT" /\ ~row.leased /\ ~row.deferred

Return(r) == req' = [req EXCEPT ![r] = Returned(@.job, "other")]

-----------------------------------------------------------------------------
(* Initially every order has just been paid: processVerifiedPayment made the *)
(* job and the JOB_READY event in the batch that made the order PAID.        *)

Init ==
    /\ clock = 1
    /\ lastToken = 0
    /\ job = [j \in Jobs |-> NewJob]
    /\ order = [j \in Jobs |-> "PAID"]
    /\ receipt = [j \in Jobs |-> NoArtifact]
    /\ artifactRow = [j \in Jobs |-> NoArtifact]
    /\ delivery = [j \in Jobs |-> FALSE]
    /\ ready = [j \in Jobs |-> NewReady]
    /\ queue = [j \in Jobs |-> 0]
    /\ req \in {[r \in Requests |-> Returned(j, "other")] : j \in Jobs}
    /\ cron = [c \in Crons |-> CronIdle]

-----------------------------------------------------------------------------
(* claimJob *)

\* The job is read; terminal, exhausted with a live lease, leased, or backing off.
ClaimRefused(r, j) ==
    /\ req[r].pc = "idle"
    /\ \/ job[j].status \in {"COMPLETED", "FAILED"}
       \/ Exhausted(job[j]) /\ ~(job[j].status = "PROCESSING"
                                 /\ job[j].leaseExp <= clock)
       \/ job[j].status = "PROCESSING" /\ job[j].leaseExp > clock
       \/ job[j].status = "RETRY" /\ job[j].retryAt > clock
    /\ req' = [req EXCEPT ![r] = Returned(j, "other")]
    /\ UNCHANGED <<clock, lastToken, db, queue, cron>>

\* The job is read and goes on to one of the two writes.
ClaimRead(r, j, w, d) ==
    /\ req[r].pc = "idle"
    /\ job[j].status \notin {"COMPLETED", "FAILED"}
    /\ \/ /\ Exhausted(job[j])
          /\ job[j].status = "PROCESSING" /\ job[j].leaseExp <= clock
          /\ req' = [req EXCEPT ![r] = Begun("claim_exhausted", j, w, Null)]
       \/ /\ ~Exhausted(job[j])
          /\ ~(job[j].status = "PROCESSING" /\ job[j].leaseExp > clock)
          /\ ~(job[j].status = "RETRY" /\ job[j].retryAt > clock)
          /\ req' = [req EXCEPT ![r] =
                        [Begun("claim_cas", j, w, Null) EXCEPT !.lease = d]]
    /\ UNCHANGED <<clock, lastToken, db, queue, cron>>

\* Out of attempts and the lease has lapsed: fail the job, then the order.
ClaimExhausted(r) ==
    LET j == req[r].job
        hit == /\ job[j].status = "PROCESSING"
               /\ job[j].leaseExp <= req[r].now
               /\ Exhausted(job[j])
    IN  /\ req[r].pc = "claim_exhausted"
        /\ IF hit
           THEN /\ job' = [job EXCEPT ![j] = Failed(@, "max_attempts_exhausted")]
                /\ order' = [order EXCEPT ![j] = IF @ = "PROCESSING" THEN "FAILED" ELSE @]
           ELSE UNCHANGED <<job, order>>
        /\ Return(r)
        /\ UNCHANGED <<clock, lastToken, receipt, artifactRow, delivery, ready, queue, cron>>

\* The CAS to PROCESSING under a fresh token, and the order with it.  A token that
\* got into no row is known to nobody and is not counted.
ClaimCas(r) ==
    LET j == req[r].job
        t == lastToken + 1
    IN  /\ req[r].pc = "claim_cas"
        /\ IF Claimable(job[j], order[j], req[r].now)
           THEN /\ job' = [job EXCEPT ![j] =
                              Claimed(@, req[r].worker, t, req[r].now, req[r].lease)]
                /\ order' = [order EXCEPT ![j] = IF @ = "PAID" THEN "PROCESSING" ELSE @]
                /\ lastToken' = t
                /\ req' = [req EXCEPT ![r].pc = "claim_mode", ![r].token = t]
           ELSE /\ UNCHANGED <<job, order, lastToken>>
                /\ Return(r)
        /\ UNCHANGED <<clock, receipt, artifactRow, delivery, ready, queue, cron>>

\* The order's mode, metadata and items are checked under the new lease.  CLAIMED
\* and MALFORMED_METADATA are the same step here: the latter leaves the lease to lapse
\* because its token is never disclosed, and nothing forces a worker to use one.
ClaimMode(r) ==
    LET j == req[r].job
    IN  /\ req[r].pc = "claim_mode"
        /\ \/ /\ j \in ModelessJobs
              /\ req' = [req EXCEPT ![r].pc = "claim_fail_closed"]
           \/ /\ j \notin ModelessJobs
              /\ Return(r)
        /\ UNCHANGED <<clock, lastToken, db, queue, cron>>

ClaimFailClosed_JobOnly(r) ==
    LET j == req[r].job
    IN  /\ req[r].pc = "claim_fail_closed"
        /\ job' = [job EXCEPT ![j] =
                      IF @.status = "PROCESSING" /\ @.token = req[r].token
                      THEN Failed(@, "other") ELSE @]
        /\ Return(r)
        /\ UNCHANGED <<clock, lastToken, order, receipt, artifactRow, delivery, ready, queue,
                       cron>>

\* failClosedForAbsentMode: the job by its token, the order by its status only.
ClaimFailClosed(r) ==
    LET j == req[r].job
    IN  /\ req[r].pc = "claim_fail_closed"
        /\ job' = [job EXCEPT ![j] =
                      IF @.status = "PROCESSING" /\ @.token = req[r].token
                      THEN Failed(@, "other") ELSE @]
        /\ order' = [order EXCEPT ![j] = IF @ = "PROCESSING" THEN "FAILED" ELSE @]
        /\ Return(r)
        /\ UNCHANGED <<clock, lastToken, receipt, artifactRow, delivery, ready, queue, cron>>

-----------------------------------------------------------------------------
(* heartbeat *)

HeartbeatStart(r, j, w, t, d) ==
    /\ req[r].pc = "idle"
    /\ req' = [req EXCEPT ![r] = [Begun("heartbeat", j, w, t) EXCEPT !.lease = d]]
    /\ UNCHANGED <<clock, lastToken, db, queue, cron>>

HeartbeatCas(r) ==
    LET j == req[r].job
    IN  /\ req[r].pc = "heartbeat"
        /\ IF Extendable(job[j], req[r].worker, req[r].token, req[r].now)
           THEN job' = [job EXCEPT ![j] = Extended(@, req[r].now, req[r].lease)]
           ELSE UNCHANGED job
        /\ Return(r)
        /\ UNCHANGED <<clock, lastToken, order, receipt, artifactRow, delivery, ready,
                       queue, cron>>

-----------------------------------------------------------------------------
(* completeJob *)

Replay_AnyArtifact(j, stored, a) == [Returned(j, "COMPLETED") EXCEPT !.artifact = a]

\* The reply when a receipt or a completed row is already there.
Replay(j, stored, a) ==
    IF stored = a THEN [Returned(j, "COMPLETED") EXCEPT !.artifact = a]
                  ELSE Returned(j, "other")

\* Idempotency check on the receipt.
CompleteStart(r, j, w, t, a) ==
    /\ req[r].pc = "idle"
    /\ req' = [req EXCEPT ![r] =
                  IF receipt[j] # NoArtifact
                  THEN Replay(j, receipt[j], a)
                  ELSE [Begun("complete_read", j, w, t) EXCEPT !.artifact = a]]
    /\ UNCHANGED <<clock, lastToken, db, queue, cron>>

\* The job row: already completed, fenced, or worth trying.
CompleteRead(r) ==
    LET j == req[r].job
    IN  /\ req[r].pc = "complete_read"
        /\ req' = [req EXCEPT ![r] =
                      IF job[j].status = "COMPLETED"
                      THEN Replay(j, job[j].artifact, @.artifact)
                      ELSE IF HoldsLease(job[j], @.worker, @.token, clock)
                      THEN [@ EXCEPT !.pc = "complete_batch", !.now = clock]
                      ELSE Returned(j, "other")]
        /\ UNCHANGED <<clock, lastToken, db, queue, cron>>

\* The five statements, each seeing what the ones before it wrote.  A second
\* receipt (primary key) or DELIVERY_READY row (unique index) rolls all back.
CompleteBatch(r) ==
    LET j          == req[r].job
        a          == req[r].artifact
        held       == HoldsLease(job[j], req[r].worker, req[r].token, req[r].now)
        receipts   == held /\ order[j] = "PROCESSING"
        stored     == IF receipts THEN a ELSE receipt[j]
        completes  == held /\ stored = a
        closes     == order[j] = "PROCESSING" /\ stored # NoArtifact
        announces  == (closes \/ order[j] = "COMPLETED") /\ stored # NoArtifact
        rollsBack  == \/ receipts /\ receipt[j] # NoArtifact
                      \/ announces /\ delivery[j]
    IN  /\ req[r].pc = "complete_batch"
        /\ IF rollsBack
           THEN /\ req' = [req EXCEPT ![r].pc = "complete_race"]
                /\ UNCHANGED db
           ELSE /\ receipt' = [receipt EXCEPT ![j] = stored]
                /\ job' = [job EXCEPT ![j] = IF completes THEN Completed(@, a) ELSE @]
                /\ order' = [order EXCEPT ![j] = IF closes THEN "COMPLETED" ELSE @]
                /\ delivery' = [delivery EXCEPT ![j] = @ \/ announces]
                /\ artifactRow' = [artifactRow EXCEPT ![j] =
                                      IF stored = a /\ @ = NoArtifact THEN a ELSE @]
                /\ UNCHANGED ready
                /\ req' = [req EXCEPT ![r] =
                              IF receipts /\ completes /\ closes
                              THEN [Returned(j, "COMPLETED") EXCEPT !.artifact = a]
                              ELSE Returned(j, "other")]
        /\ UNCHANGED <<clock, lastToken, queue, cron>>

\* The batch may also fail for reasons of D1's own, without effect.
CompleteError(r) ==
    /\ req[r].pc = "complete_batch"
    /\ req' = [req EXCEPT ![r].pc = "complete_race"]
    /\ UNCHANGED <<clock, lastToken, db, queue, cron>>

\* The catch block rereads the receipt to tell a lost race from an error.
CompleteRace(r) ==
    LET j == req[r].job
    IN  /\ req[r].pc = "complete_race"
        /\ req' = [req EXCEPT ![r] =
                      IF receipt[j] # NoArtifact THEN Replay(j, receipt[j], @.artifact)
                                                 ELSE Returned(j, "other")]
        /\ UNCHANGED <<clock, lastToken, db, queue, cron>>

-----------------------------------------------------------------------------
(* failJob *)

FailRead(r, j, w, t, retryable) ==
    /\ req[r].pc = "idle"
    /\ req' = [req EXCEPT ![r] =
                  IF ~HoldsLease(job[j], w, t, clock)
                  THEN Returned(j, "other")
                  ELSE IF retryable /\ ~Exhausted(job[j])
                  THEN [Begun("fail_retry", j, w, t) EXCEPT
                           !.until = clock + RetryDelay(job[j].attempts)]
                  ELSE [Begun("fail_terminal", j, w, t) EXCEPT
                           !.reason = IF Exhausted(job[j]) THEN "max_attempts_exhausted"
                                                           ELSE "other"]]
    /\ UNCHANGED <<clock, lastToken, db, queue, cron>>

FailRetry_Unfenced(r) ==
    LET j == req[r].job
    IN  /\ req[r].pc = "fail_retry"
        /\ job' = [job EXCEPT ![j] = Retried(@, req[r].until)]
        /\ Return(r)
        /\ UNCHANGED <<clock, lastToken, order, receipt, artifactRow, delivery, ready,
                       queue, cron>>

FailRetry(r) ==
    LET j == req[r].job
    IN  /\ req[r].pc = "fail_retry"
        /\ job' = [job EXCEPT ![j] =
                      IF HoldsLease(@, req[r].worker, req[r].token, req[r].now)
                      THEN Retried(@, req[r].until) ELSE @]
        /\ Return(r)
        /\ UNCHANGED <<clock, lastToken, order, receipt, artifactRow, delivery, ready,
                       queue, cron>>

FailTerminal_Unfenced(r) ==
    LET j == req[r].job
    IN  /\ req[r].pc = "fail_terminal"
        /\ job' = [job EXCEPT ![j] = Failed(@, req[r].reason)]
        /\ order' = [order EXCEPT ![j] = IF @ = "PROCESSING" THEN "FAILED" ELSE @]
        /\ Return(r)
        /\ UNCHANGED <<clock, lastToken, receipt, artifactRow, delivery, ready, queue, cron>>

FailTerminal(r) ==
    LET j == req[r].job
    IN  /\ req[r].pc = "fail_terminal"
        /\ IF HoldsLease(job[j], req[r].worker, req[r].token, req[r].now)
           THEN /\ job' = [job EXCEPT ![j] = Failed(@, req[r].reason)]
                /\ order' = [order EXCEPT ![j] = IF @ = "PROCESSING" THEN "FAILED" ELSE @]
           ELSE UNCHANGED <<job, order>>
        /\ Return(r)
        /\ UNCHANGED <<clock, lastToken, receipt, artifactRow, delivery, ready, queue, cron>>

\* A request that never gets past its next await, or whose reply is lost.
RequestDies(r) ==
    /\ req[r].pc # "idle"
    /\ Return(r)
    /\ UNCHANGED <<clock, lastToken, db, queue, cron>>

-----------------------------------------------------------------------------
(* scheduled(): finalizeExpiredExhaustedJobs, then recoverExpiredLeaseJobs *)

LeaseOrder(j) == IF job[j].leaseExp # Null THEN job[j].leaseExp ELSE job[j].leasedAt

\* The BatchSize candidates that come first in the select's order.
FirstOf(eligible) ==
    {S \in SUBSET eligible :
        /\ Cardinality(S) = IF Cardinality(eligible) < BatchSize
                            THEN Cardinality(eligible) ELSE BatchSize
        /\ \A a \in S, b \in eligible \ S : LeaseOrder(a) <= LeaseOrder(b)}

Selected(step, S) ==
    [pc |-> step, now |-> clock, cands |-> S,
     seen |-> [j \in Jobs |-> IF j \in S THEN Seen(job[j]) ELSE Blank]]

FinalizeSelect(c) ==
    /\ cron[c].pc = "idle"
    /\ \E S \in FirstOf({j \in Jobs : Finalizable(job[j], clock)}) :
          cron' = [cron EXCEPT ![c] =
                      IF S = {} THEN [CronIdle EXCEPT !.pc = "recover_select"]
                                ELSE Selected("finalize", S)]
    /\ UNCHANGED <<clock, lastToken, db, queue, req>>

FinalizeBatch_JobOnly(c) ==
    LET hit(j) == j \in cron[c].cands /\ FinalizeHits(job[j], cron[c].seen[j], cron[c].now)
    IN  /\ cron[c].pc = "finalize"
        /\ job' = [j \in Jobs |-> IF hit(j) THEN Finalized(job[j]) ELSE job[j]]
        /\ cron' = [cron EXCEPT ![c] = [CronIdle EXCEPT !.pc = "recover_select"]]
        /\ UNCHANGED <<clock, lastToken, order, receipt, artifactRow, delivery, ready, queue,
                       req>>

FinalizeBatch(c) ==
    LET hit(j) == j \in cron[c].cands /\ FinalizeHits(job[j], cron[c].seen[j], cron[c].now)
    IN  /\ cron[c].pc = "finalize"
        /\ job' = [j \in Jobs |-> IF hit(j) THEN Finalized(job[j]) ELSE job[j]]
        /\ order' = [j \in Jobs |-> IF hit(j) /\ order[j] = "PROCESSING"
                                    THEN "FAILED" ELSE order[j]]
        /\ cron' = [cron EXCEPT ![c] = [CronIdle EXCEPT !.pc = "recover_select"]]
        /\ UNCHANGED <<clock, lastToken, receipt, artifactRow, delivery, ready, queue, req>>

RecoverSelect(c) ==
    /\ cron[c].pc = "recover_select"
    /\ \E S \in FirstOf({j \in Jobs : LeaseRecoverable(job[j], clock)}) :
          cron' = [cron EXCEPT ![c] = IF S = {} THEN CronIdle ELSE Selected("recover", S)]
    /\ UNCHANGED <<clock, lastToken, db, queue, req>>

RecoverBatch(c) ==
    LET hits == {j \in cron[c].cands : RecoverHits(job[j], cron[c].seen[j], cron[c].now)}
    IN  /\ cron[c].pc = "recover"
        /\ job' = [j \in Jobs |-> IF j \in hits THEN Retried(job[j], cron[c].now) ELSE job[j]]
        /\ cron' = [cron EXCEPT ![c] =
                       IF hits = {} THEN CronIdle
                                    ELSE [CronIdle EXCEPT !.pc = "send", !.cands = hits]]
        /\ UNCHANGED <<clock, lastToken, order, receipt, artifactRow, delivery, ready,
                       queue, req>>

Enqueued(j) == [queue EXCEPT ![j] = IF @ < MaxQueued THEN @ + 1 ELSE @]

\* One wake-up per recovered job; a send that throws is swallowed.
RecoverSend(c) ==
    /\ cron[c].pc = "send"
    /\ \E j \in cron[c].cands :
          /\ cron' = [cron EXCEPT ![c].cands = @ \ {j},
                                  ![c].pc = IF cron[c].cands = {j} THEN "idle" ELSE "send"]
          /\ queue' = Enqueued(j) \/ UNCHANGED queue
    /\ UNCHANGED <<clock, lastToken, db, req>>

CronDies(c) ==
    /\ cron[c].pc # "idle"
    /\ cron' = [cron EXCEPT ![c] = CronIdle]
    /\ UNCHANGED <<clock, lastToken, db, queue, req>>

-----------------------------------------------------------------------------
(* Operator recoveries: each is one guarded batch whose parameters must match *)
(* the rows exactly, so a mismatch changes nothing.  The SEPAY payment facts  *)
(* the guards also join on hold of every order here.                          *)

\* rearmExpiredQueueEvent: redispatch JOB_READY of a job whose lease lapsed.
Rearm(j) ==
    /\ ready[j].status = "SENT"
    /\ job[j].status = "PROCESSING"
    /\ job[j].leaseExp # Null /\ job[j].leaseExp < clock
    /\ ~Exhausted(job[j])
    /\ job[j].artifact = NoArtifact
    /\ order[j] = "PROCESSING"
    /\ receipt[j] = NoArtifact /\ artifactRow[j] = NoArtifact
    /\ ready' = [ready EXCEPT ![j] = NewReady]
    /\ UNCHANGED <<clock, lastToken, job, order, receipt, artifactRow, delivery, queue,
                   req, cron>>

\* The three statements of rescueExactExhaustedJob and recoverTerminalFailedJob.
Reopen(j) ==
    /\ receipt[j] = NoArtifact /\ artifactRow[j] = NoArtifact
    /\ order[j] = "FAILED"
    /\ Settled(ready[j])
    /\ job' = [job EXCEPT ![j] = Reopened(@)]
    /\ order' = [order EXCEPT ![j] = "PROCESSING"]
    /\ ready' = [ready EXCEPT ![j] = NewReady]
    /\ UNCHANGED <<clock, lastToken, receipt, artifactRow, delivery, queue, req, cron>>

Rescue(j) == Rescuable(job[j], clock) /\ Reopen(j)

RecoverTerminal(j) == Recoverable(job[j], clock) /\ Reopen(j)

-----------------------------------------------------------------------------
(* The dispatcher and the queue consumer as this service meets them; both     *)
(* have modules of their own.                                                 *)

DispatchTake(j) ==
    /\ ready[j].status = "PENDING"
    /\ ~ready[j].leased
    /\ ready' = [ready EXCEPT ![j].leased = TRUE]
    /\ UNCHANGED <<clock, lastToken, job, order, receipt, artifactRow, delivery, queue,
                   req, cron>>

\* The message is out; the row is marked SENT, unless the dispatcher dies first.
DispatchSend(j) ==
    /\ ready[j].leased
    /\ queue' = Enqueued(j)
    /\ ready' = [ready EXCEPT ![j].leased = FALSE, ![j].status = "SENT"] \/ UNCHANGED ready
    /\ UNCHANGED <<clock, lastToken, job, order, receipt, artifactRow, delivery, req, cron>>

\* queue.send throws: back off.  Marking SENT later does not clear next_dispatch_at.
DispatchBackoff(j) ==
    /\ ready[j].leased
    /\ ready' = [ready EXCEPT ![j].leased = FALSE, ![j].deferred = TRUE]
    /\ UNCHANGED <<clock, lastToken, job, order, receipt, artifactRow, delivery, queue,
                   req, cron>>

Acknowledge(j) ==
    /\ queue[j] > 0
    /\ queue' = [queue EXCEPT ![j] = @ - 1]
    /\ UNCHANGED <<clock, lastToken, db, req, cron>>

Tick ==
    /\ clock < MaxTime
    /\ clock' = clock + 1
    /\ UNCHANGED <<lastToken, db, queue, req, cron>>

-----------------------------------------------------------------------------
\* A worker may present any token ever issued to it or to another, except that
\* the claim of an order without a mode never discloses its token.
Issued == 1..lastToken

FencedCall(r, j, w, t) ==
    \/ \E d \in LeaseDurations : HeartbeatStart(r, j, w, t, d)
    \/ \E a \in Artifacts : CompleteStart(r, j, w, t, a)
    \/ \E retryable \in BOOLEAN : FailRead(r, j, w, t, retryable)

Call(r) ==
    \/ \E j \in Jobs : ClaimRefused(r, j)
    \/ \E j \in Jobs, w \in Workers, d \in LeaseDurations : ClaimRead(r, j, w, d)
    \/ \E j \in Jobs \ ModelessJobs, w \in Workers, t \in Issued : FencedCall(r, j, w, t)

Continue(r) ==
    \/ ClaimExhausted(r) \/ ClaimCas(r) \/ ClaimMode(r) \/ ClaimFailClosed(r)
    \/ HeartbeatCas(r)
    \/ CompleteRead(r) \/ CompleteBatch(r) \/ CompleteError(r) \/ CompleteRace(r)
    \/ FailRetry(r) \/ FailTerminal(r)
    \/ RequestDies(r)

Scheduled(c) ==
    \/ FinalizeSelect(c) \/ FinalizeBatch(c)
    \/ RecoverSelect(c) \/ RecoverBatch(c) \/ RecoverSend(c)
    \/ CronDies(c)

Operator(j) == Rearm(j) \/ Rescue(j) \/ RecoverTerminal(j)

Dispatcher(j) ==
    DispatchTake(j) \/ DispatchSend(j) \/ DispatchBackoff(j) \/ Acknowledge(j)

Next ==
    \/ \E r \in Requests : Call(r) \/ Continue(r)
    \/ \E c \in Crons : Scheduled(c)
    \/ \E j \in Jobs : Operator(j) \/ Dispatcher(j)
    \/ Tick

Spec == Init /\ [][Next]_vars
-----------------------------------------------------------------------------
(* Properties *)

\* Every row, slot and counter has its type.
TypeOK ==
    /\ clock \in Nat /\ clock > 0
    /\ lastToken \in Nat
    /\ job \in [Jobs -> JobRow]
    /\ order \in [Jobs -> OrderStatus]
    /\ receipt \in [Jobs -> Artifacts \cup {NoArtifact}]
    /\ artifactRow \in [Jobs -> Artifacts \cup {NoArtifact}]
    /\ delivery \in [Jobs -> BOOLEAN]
    /\ ready \in [Jobs -> ReadyRow]
    /\ queue \in [Jobs -> Nat]
    /\ req \in [Requests -> Request]
    /\ cron \in [Crons -> CronSlot]

\* The job and its order tell the same story, although every method writes them
\* in separate statements and the claim, fail, finalize and reopen paths all race:
\* an order with a mode is FAILED exactly when its job is, and so on.
JobOrderAgree ==
    \A j \in Jobs \ ModelessJobs :
        /\ job[j].status = "PENDING"                 <=> order[j] = "PAID"
        /\ job[j].status \in {"PROCESSING", "RETRY"} <=> order[j] = "PROCESSING"
        /\ job[j].status = "COMPLETED"               <=> order[j] = "COMPLETED"
        /\ job[j].status = "FAILED"                  <=> order[j] = "FAILED"

\* An order without a mode is never delivered.  It may be FAILED ahead of its job, when
\* the claim that found it had lost its lease, but never the other way round.
ModelessOrderLeads ==
    \A j \in ModelessJobs :
        /\ job[j].status = "PENDING" <=> order[j] = "PAID"
        /\ job[j].status # "COMPLETED" /\ order[j] # "COMPLETED"
        /\ job[j].status = "FAILED" => order[j] = "FAILED"

\* Exactly a PROCESSING job has a lease.  A FAILED one may keep the residue the cron
\* finalizer leaves, whole or not at all, which is what rescue and recover tell apart.
LeaseShape ==
    \A j \in Jobs :
        LET row == job[j]
            bare == row.owner = NoWorker /\ row.leasedAt = Null /\ row.leaseExp = Null
        IN  /\ row.status = "PROCESSING" <=> row.token # Null
            /\ row.status \in {"PENDING", "RETRY", "COMPLETED"} => bare
            /\ row.status = "PROCESSING" => ~bare
            /\ ~bare => /\ row.owner \in Workers
                        /\ 0 < row.leasedAt
                        /\ row.leasedAt < row.leaseExp

\* No job waits in RETRY without an attempt left: nothing would ever claim or fail
\* it.  failJob tests the attempts in its read and not again in its CAS.
RetryHasAttempt ==
    \A j \in Jobs :
        /\ job[j].attempts <= job[j].max
        /\ job[j].status \in {"PENDING", "RETRY"} => job[j].attempts < job[j].max

\* However often a worker heartbeats, late or twice, its lease ends at most one
\* extension after the age cap of the claim.
LeaseAgeBounded ==
    \A j \in Jobs : job[j].status = "PROCESSING" =>
        \E d \in LeaseDurations : job[j].leaseExp <= job[j].leasedAt + MaxJobAge + d

\* Completion is all or nothing: the receipt, the job's artifact, the artifacts row,
\* the order's COMPLETED and the DELIVERY_READY event exist together, for one artifact.
CompletionWhole ==
    \A j \in Jobs :
        /\ job[j].artifact = receipt[j]
        /\ artifactRow[j] = receipt[j]
        /\ receipt[j] # NoArtifact <=> job[j].status = "COMPLETED"
        /\ receipt[j] # NoArtifact <=> order[j] = "COMPLETED"
        /\ delivery[j] <=> receipt[j] # NoArtifact

\* A worker told COMPLETED for an artifact is told the truth, whichever of the four
\* replies of completeJob it came from and however many workers completed at once.
CompletedReplyTrue ==
    \A r \in Requests :
        req[r].reply = "COMPLETED" => receipt[req[r].job] = req[r].artifact

\* A receipt, once written, is never changed and its job never leaves COMPLETED.
CompletedForever ==
    [][\A j \in Jobs : receipt[j] # NoArtifact =>
          receipt'[j] = receipt[j] /\ job'[j].status = "COMPLETED"]_vars

\* While a lease is live by the real clock, nobody but its holder ends it - a claim,
\* the cron, an operator, a late request under an older token - except the age
\* backstop, which needs the attempts used up.
Leaves(j) == job'[j].status # "PROCESSING" \/ job'[j].token # job[j].token

ByHolder(j) ==
    \E r \in Requests :
        /\ req[r].pc \in {"complete_batch", "fail_retry", "fail_terminal",
                          "claim_fail_closed"}
        /\ req[r].job = j
        /\ req[r].token = job[j].token
        /\ req'[r].pc = "idle"

LiveLeaseRespected ==
    [][\A j \in Jobs :
          /\ job[j].status = "PROCESSING"
          /\ job[j].leaseExp > clock
          /\ Leaves(j)
          => ByHolder(j) \/ (Exhausted(job[j]) /\ AgedOut(job[j], clock))]_vars

\* What the rows and the locals of methods in progress have to do with each other:
\* the facts that make the properties above inductive.

\* A token still being used is not newer than the last one made.
TokensIssued ==
    /\ \A j \in Jobs : job[j].token <= lastToken
    /\ \A r \in Requests : req[r].token <= lastToken

\* The "now" a method goes on using is stale at worst, never ahead.
ClockReadings ==
    /\ \A r \in Requests : req[r].now <= clock
    /\ \A c \in Crons : cron[c].now <= clock
    /\ \A j \in Jobs : job[j].leasedAt <= clock

\* What each step of a method finds in its locals, and a caller in its reply.
Fit(q) ==
    /\ q.pc # "idle" => q.worker \in Workers /\ q.now > 0
    /\ q.pc \in {"claim_cas", "heartbeat"} => q.lease \in LeaseDurations
    /\ q.pc \in {"complete_read", "complete_batch", "complete_race"}
          => q.artifact \in Artifacts
    /\ q.pc \in {"claim_mode", "claim_fail_closed", "heartbeat", "complete_read",
                 "complete_batch", "complete_race", "fail_retry", "fail_terminal"}
          => q.token > 0
    /\ q.pc \in {"complete_read", "complete_batch", "complete_race"}
          => q.job \notin ModelessJobs
    /\ q.pc = "claim_fail_closed" => q.job \in ModelessJobs
    /\ q.reply = "COMPLETED" => q.artifact \in Artifacts

LocalsFit == \A r \in Requests : Fit(req[r])

\* As long as the token matches, the row is still the one the method read.
StillMine(r) ==
    job[req[r].job].status = "PROCESSING" /\ job[req[r].job].token = req[r].token

FencedReadsHold ==
    \A r \in Requests : StillMine(r) =>
        /\ req[r].pc = "heartbeat" => job[req[r].job].leasedAt <= req[r].now
        /\ req[r].pc = "fail_retry" => ~Exhausted(job[req[r].job])

\* A finalizer's candidates satisfied its select.
CandidatesFit ==
    \A c \in Crons : cron[c].pc = "finalize" =>
        \A j \in cron[c].cands :
            Expired(cron[c].seen[j], cron[c].now) \/ AgedOut(cron[c].seen[j], cron[c].now)

IInv ==
    /\ TypeOK
    /\ JobOrderAgree
    /\ ModelessOrderLeads
    /\ LeaseShape
    /\ RetryHasAttempt
    /\ LeaseAgeBounded
    /\ CompletionWhole
    /\ CompletedReplyTrue
    /\ TokensIssued
    /\ ClockReadings
    /\ LocalsFit
    /\ FencedReadsHold
    /\ CandidatesFit

-----------------------------------------------------------------------------
(* The abstract specification this one implements *)

Phase(status) ==
    CASE status \in {"PENDING", "RETRY"} -> "waiting"
      [] status = "PROCESSING"           -> "held"
      [] status = "COMPLETED"            -> "delivered"
      [] status = "FAILED"               -> "failed"

\* The outcome is what the customer will be sent: the receipt of an order whose
\* DELIVERY_READY event is in the outbox.
LifeOf(j) ==
    [phase   |-> Phase(job[j].status),
     grants  |-> job[j].attempts,
     budget  |-> job[j].max,
     outcome |-> IF delivery[j] THEN receipt[j] ELSE NoArtifact]

Contract == INSTANCE JobContract WITH life <- [j \in Jobs |-> LifeOf(j)]

\* The job service implements JobContract: leases, CASes and batches, in any order
\* and with any stale caller, never grant beyond the budget, deliver twice, change a
\* delivered job, or bring back a failed one except by one more attempt.
ContractKept == Contract!Spec
=============================================================================
