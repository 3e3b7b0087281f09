------------------------------- MODULE D1Jobs -------------------------------
(***************************************************************************)
(* The rows of table fulfillment_jobs and the SQL statements of            *)
(* edge/src/services/job-service.ts that read and write them, one operator *)
(* per WHERE clause and one per SET clause.  A module about the job        *)
(* service is a choice of the moments at which these run.                  *)
(*                                                                         *)
(* Abstractions.  Times are ticks of one clock (Date.now()), tokens are    *)
(* the natural numbers in the order randomUUID() made them, NULL is 0 for  *)
(* both: neither takes the value 0 otherwise.  A job and its order are the *)
(* same identifier, order_id being UNIQUE.  The four artifact_* columns    *)
(* are one value.  last_error keeps the one reason other code tests.       *)
(* updated_at only lets the second statement of a batch see that the first *)
(* changed the row; the batches below say that directly.                   *)
(*                                                                         *)
(* An operator X_Fault is X with a plausible slip.  No specification uses  *)
(* it: it is put in the place of X to see that a property notices.         *)
(***************************************************************************)
EXTENDS Integers

CONSTANTS
    Jobs,               \* fulfillment_jobs.id, each with its own order
    Workers,            \* A23 worker identities
    NoWorker,           \* lease_owner IS NULL
    Artifacts,          \* (artifact_key, sha256): the key is derived from the sha
    NoArtifact,         \* artifact_key IS NULL
    MaxAttempts,        \* max_attempts of a new job (3)
    AttemptLimit,       \* MAX_REARM_ATTEMPT_COUNT (1000)
    LeaseDurations,     \* lease / extension lengths a caller may ask for
    MaxJobAge,          \* MAX_JOB_AGE_MS
    BaseDelay,          \* 10 s: first retry delay
    DelayCap            \* 300 s: longest retry delay

ASSUME RowConstants ==
    /\ NoWorker \notin Workers
    /\ NoArtifact \notin Artifacts
    /\ MaxAttempts \in Nat \ {0}
    /\ AttemptLimit \in Nat
    /\ MaxAttempts <= AttemptLimit
    /\ LeaseDurations \subseteq Nat \ {0}
    /\ MaxJobAge \in Nat
    /\ BaseDelay \in Nat \ {0}
    /\ DelayCap \in Nat \ {0}

Null == 0

JobStatus == {"PENDING", "PROCESSING", "RETRY", "COMPLETED", "FAILED"}

\* The order states reached once an order is paid; the earlier ones belong to
\* checkout and payment.
OrderStatus == {"PAID", "PROCESSING", "COMPLETED", "FAILED"}

Reasons == {"none", "max_attempts_exhausted", "other"}

JobRow == [status    : JobStatus,
           owner     : Workers \cup {NoWorker},
           token     : Nat,
           leasedAt  : Nat,
           leaseExp  : Nat,
           attempts  : 0..AttemptLimit,
           max       : 0..AttemptLimit,
           retryAt   : Int,
           lastError : Reasons,
           artifact  : Artifacts \cup {NoArtifact}]

\* What processVerifiedPayment inserts in the batch that makes the order PAID.
NewJob == [status |-> "PENDING", owner |-> NoWorker, token |-> Null,
           leasedAt |-> Null, leaseExp |-> Null,
           attempts |-> 0, max |-> MaxAttempts, retryAt |-> Null,
           lastError |-> "none", artifact |-> NoArtifact]

-----------------------------------------------------------------------------
(* WHERE clauses *)

Exhausted_OffByOne(row) == row.attempts > row.max

Exhausted(row) == row.attempts >= row.max

Expired(row, now) == row.leaseExp # Null /\ row.leaseExp <= now

\* The fence: every worker call carries the owner and token of its claim.
HoldsLease(row, w, t, now) ==
    /\ row.status = "PROCESSING"
    /\ row.owner = w
    /\ row.token = t
    /\ row.leaseExp > now

Claimable_NoBudget(row, ord, now) ==
    \/ row.status = "PENDING" /\ ord = "PAID"
    \/ row.status = "RETRY" /\ row.retryAt <= now /\ ord = "PROCESSING"
    \/ row.status = "PROCESSING" /\ Expired(row, now) /\ ord = "PROCESSING"

Claimable(row, ord, now) ==
    /\ \/ row.status = "PENDING" /\ ord = "PAID"
       \/ row.status = "RETRY" /\ row.retryAt <= now /\ ord = "PROCESSING"
       \/ row.status = "PROCESSING" /\ Expired(row, now) /\ ord = "PROCESSING"
    /\ ~Exhausted(row)

Extendable_NoAge(row, w, t, now) == HoldsLease(row, w, t, now)

\* An extension is refused once the claim is older than MaxJobAge.
Extendable(row, w, t, now) ==
    /\ HoldsLease(row, w, t, now)
    /\ row.leasedAt # Null
    /\ row.leasedAt >= now - MaxJobAge

AgedOut(row, now) == row.leasedAt # Null /\ row.leasedAt <= now - MaxJobAge

\* finalizeExpiredExhaustedJobs: candidates, and the CAS on a candidate as read.
Finalizable(row, now) ==
    /\ row.status = "PROCESSING"
    /\ Exhausted(row)
    /\ Expired(row, now) \/ AgedOut(row, now)

SameAttempt(row, seen) == row.attempts = seen.attempts /\ row.max = seen.max

FinalizeHits(row, seen, now) ==
    /\ row.status = "PROCESSING"
    /\ IF Expired(seen, now) THEN row.leaseExp = seen.leaseExp
                             ELSE row.leasedAt = seen.leasedAt
    /\ SameAttempt(row, seen)
    /\ Exhausted(row)

\* recoverExpiredLeaseJobs: the same two moments.
LeaseRecoverable(row, now) ==
    /\ row.status = "PROCESSING"
    /\ Expired(row, now)
    /\ ~Exhausted(row)

RecoverHits_NoReread(row, seen, now) ==
    row.status = "PROCESSING" /\ SameAttempt(row, seen)

RecoverHits(row, seen, now) ==
    /\ LeaseRecoverable(row, now)
    /\ row.leaseExp = seen.leaseExp
    /\ SameAttempt(row, seen)

\* The two operator recoveries of a FAILED job: rescue wants the lease residue
\* the cron finalizer leaves, recover wants the token gone and any residue stale.
Reopenable(row) ==
    /\ row.status = "FAILED"
    /\ row.lastError = "max_attempts_exhausted"
    /\ row.attempts = row.max
    /\ row.max < AttemptLimit
    /\ row.artifact = NoArtifact

Rescuable(row, now) ==
    /\ Reopenable(row)
    /\ row.owner # NoWorker
    /\ Expired(row, now)

Recoverable(row, now) ==
    /\ Reopenable(row)
    /\ row.token = Null
    /\ row.owner = NoWorker \/ (row.leaseExp # Null /\ row.leaseExp < now)

-----------------------------------------------------------------------------
(* SET clauses *)

Unleased(row) ==
    [row EXCEPT !.owner = NoWorker, !.token = Null,
                !.leasedAt = Null, !.leaseExp = Null]

Claimed(row, w, t, now, d) ==
    [row EXCEPT !.status = "PROCESSING", !.owner = w, !.token = t,
                !.leasedAt = now, !.leaseExp = now + d,
                !.attempts = @ + 1, !.retryAt = Null, !.lastError = "none"]

Extended(row, now, d) == [row EXCEPT !.leaseExp = now + d]

Completed(row, a) ==
    [Unleased(row) EXCEPT !.status = "COMPLETED", !.artifact = a]

Retried(row, at) ==
    [Unleased(row) EXCEPT !.status = "RETRY", !.retryAt = at, !.lastError = "other"]

Failed(row, reason) ==
    [Unleased(row) EXCEPT !.status = "FAILED", !.lastError = reason]

Finalized_KeepsToken(row) ==
    [row EXCEPT !.status = "FAILED", !.retryAt = Null,
                !.lastError = "max_attempts_exhausted"]

\* The cron finalizer clears the token only: owner and lease times stay behind.
Finalized(row) ==
    [row EXCEPT !.status = "FAILED", !.token = Null, !.retryAt = Null,
                !.lastError = "max_attempts_exhausted"]

\* rescue / recover: one more attempt, claimable at once.
Reopened(row) ==
    [Unleased(row) EXCEPT !.status = "RETRY", !.max = @ + 1,
                          !.retryAt = Null, !.lastError = "other"]

\* min(300, 10 * 2^(attempts-1)) seconds
RetryDelay(attempts) ==
    LET delay == BaseDelay * 2^(attempts - 1)
    IN  IF delay < DelayCap THEN delay ELSE DelayCap
=============================================================================
