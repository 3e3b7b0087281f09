-------------------------- MODULE JobServiceProofs --------------------------
(***************************************************************************)
(* Proofs about JobService, for every set of jobs, workers, requests and   *)
(* scheduled invocations and every lease length, age cap and budget.       *)
(***************************************************************************)
EXTENDS JobService, TLAPS

USE DEF Null

-----------------------------------------------------------------------------
(* What the SET clauses make of a row: its type and its fields.  The facts   *)
(* about arithmetic are stated apart, because one prover knows records       *)
(* updated in several fields and the other knows numbers.                    *)

LEMMA RetryDelayInt ==
    ASSUME NEW n \in Nat
    PROVE  RetryDelay(n) \in Int
BY RowConstants, SMT DEF RetryDelay

LEMMA Zero == 0 \in Nat /\ 0 \in Int
OBVIOUS

LEMMA ClaimedRow ==
    ASSUME NEW row \in JobRow, NEW w \in Workers, NEW t \in Nat, NEW now \in Nat,
           NEW d \in LeaseDurations, ~Exhausted(row)
    PROVE  LET new == Claimed(row, w, t, now, d)
           IN  /\ new \in JobRow
               /\ new.status = "PROCESSING" /\ new.owner = w /\ new.token = t
               /\ new.leasedAt = now /\ new.leaseExp = now + d
               /\ new.attempts = row.attempts + 1 /\ new.max = row.max
               /\ new.artifact = row.artifact
<1>1. row.attempts + 1 \in 0..AttemptLimit
    BY RowConstants DEF JobRow, Exhausted
<1>2. now + d \in Nat
    BY RowConstants
<1> QED BY <1>1, <1>2, Zero, Zenon DEF Claimed, JobRow, JobStatus, Reasons

LEMMA ExtendedRow ==
    ASSUME NEW row \in JobRow, NEW now \in Nat, NEW d \in LeaseDurations
    PROVE  LET new == Extended(row, now, d)
           IN  /\ new \in JobRow
               /\ new.leaseExp = now + d
               /\ new.status = row.status /\ new.owner = row.owner
               /\ new.token = row.token /\ new.leasedAt = row.leasedAt
               /\ new.attempts = row.attempts /\ new.max = row.max
               /\ new.artifact = row.artifact
<1>1. now + d \in Nat
    BY RowConstants
<1> QED BY <1>1, Zenon DEF Extended, JobRow

\* The four clauses that clear the lease.
Bare(row) == row.owner = NoWorker /\ row.leasedAt = 0 /\ row.leaseExp = 0

LEMMA CompletedRow ==
    ASSUME NEW row \in JobRow, NEW a \in Artifacts
    PROVE  LET new == Completed(row, a)
           IN  /\ new \in JobRow
               /\ new.status = "COMPLETED" /\ Bare(new) /\ new.token = 0
               /\ new.attempts = row.attempts /\ new.max = row.max
               /\ new.artifact = a
BY Zero, Zenon DEF Completed, Unleased, Bare, JobRow, JobStatus

LEMMA RetriedRow ==
    ASSUME NEW row \in JobRow, NEW at \in Int
    PROVE  LET new == Retried(row, at)
           IN  /\ new \in JobRow
               /\ new.status = "RETRY" /\ Bare(new) /\ new.token = 0
               /\ new.attempts = row.attempts /\ new.max = row.max
               /\ new.artifact = row.artifact
BY Zero, Zenon DEF Retried, Unleased, Bare, JobRow, JobStatus, Reasons

LEMMA FailedRow ==
    ASSUME NEW row \in JobRow, NEW reason \in Reasons
    PROVE  LET new == Failed(row, reason)
           IN  /\ new \in JobRow
               /\ new.status = "FAILED" /\ Bare(new) /\ new.token = 0
               /\ new.attempts = row.attempts /\ new.max = row.max
               /\ new.artifact = row.artifact
BY Zero, Zenon DEF Failed, Unleased, Bare, JobRow, JobStatus

LEMMA FinalizedRow ==
    ASSUME NEW row \in JobRow
    PROVE  LET new == Finalized(row)
           IN  /\ new \in JobRow
               /\ new.status = "FAILED" /\ new.token = 0
               /\ new.owner = row.owner
               /\ new.leasedAt = row.leasedAt /\ new.leaseExp = row.leaseExp
               /\ new.attempts = row.attempts /\ new.max = row.max
               /\ new.artifact = row.artifact
BY Zero, Zenon DEF Finalized, JobRow, JobStatus, Reasons

LEMMA ReopenedRow ==
    ASSUME NEW row \in JobRow, Reopenable(row)
    PROVE  LET new == Reopened(row)
           IN  /\ new \in JobRow
               /\ new.status = "RETRY" /\ Bare(new) /\ new.token = 0
               /\ new.attempts = row.attempts /\ new.max = row.max + 1
               /\ new.artifact = row.artifact
<1>1. row.max + 1 \in 0..AttemptLimit
    BY RowConstants DEF JobRow, Reopenable
<1> QED BY <1>1, Zero, Zenon DEF Reopened, Unleased, Bare, JobRow, JobStatus, Reasons

-----------------------------------------------------------------------------
(* Request slots *)

\* A slot that the current step has written is fit to be kept.
SlotGood(q) ==
    /\ q \in Request
    /\ Fit(q)
    /\ q.token <= lastToken'
    /\ q.now <= clock
    /\ q.pc = "heartbeat" => job'[q.job].leasedAt <= q.now
    /\ q.pc = "fail_retry" => ~Exhausted(job'[q.job])
    /\ q.reply = "COMPLETED" => receipt'[q.job] = q.artifact

LEMMA ReturnedGood ==
    ASSUME NEW j \in Jobs, clock \in Nat, lastToken' \in Nat
    PROVE  SlotGood(Returned(j, "other"))
<1>1. 0 <= clock /\ 0 <= lastToken'
    OBVIOUS
<1> QED BY <1>1, Zero, RowConstants, Zenon
        DEF SlotGood, Returned, Request, Replies, Steps, Reasons, Fit

LEMMA ReturnedWith ==
    ASSUME NEW j \in Jobs, NEW a \in Artifacts, clock \in Nat, lastToken' \in Nat,
           receipt'[j] = a
    PROVE  SlotGood([Returned(j, "COMPLETED") EXCEPT !.artifact = a])
<1>1. 0 <= clock /\ 0 <= lastToken'
    OBVIOUS
<1> QED BY <1>1, Zero, RowConstants, Zenon
        DEF SlotGood, Returned, Request, Replies, Steps, Reasons, Fit

LEMMA BegunSlot ==
    ASSUME NEW step \in Steps, NEW j \in Jobs, NEW w \in Workers, NEW t \in Nat, clock \in Nat
    PROVE  LET q == Begun(step, j, w, t)
           IN  /\ q \in Request
               /\ q.pc = step /\ q.job = j /\ q.worker = w /\ q.token = t /\ q.now = clock
               /\ q.reply = "other"
BY Zero, RowConstants, Zenon DEF Begun, Returned, Request, Replies, Steps, Reasons

LEMMA ReplayGood ==
    ASSUME NEW j \in Jobs, NEW stored, NEW a \in Artifacts,
           clock \in Nat, lastToken' \in Nat, receipt'[j] = stored
    PROVE  SlotGood(Replay(j, stored, a))
<1>1. CASE stored = a
    BY <1>1, ReturnedWith, Zenon DEF Replay
<1>2. CASE stored # a
    BY <1>2, ReturnedGood, Zenon DEF Replay
<1> QED BY <1>1, <1>2

-----------------------------------------------------------------------------
(* What a step may do to one job: nothing, or one of eight moves.  All the    *)
(* invariants about rows follow from these, whichever action made the move.   *)

Aside(j) ==
    /\ receipt'[j] = receipt[j]
    /\ artifactRow'[j] = artifactRow[j]
    /\ delivery'[j] = delivery[j]

Stay(j) == job'[j] = job[j] /\ order'[j] = order[j] /\ Aside(j)

ClaimMove(j) ==
    \E w \in Workers, now \in 1..clock, d \in LeaseDurations :
        /\ Claimable(job[j], order[j], now)
        /\ job'[j] = Claimed(job[j], w, lastToken + 1, now, d)
        /\ order'[j] = "PROCESSING"
        /\ lastToken' = lastToken + 1
        /\ Aside(j)

ExtendMove(j) ==
    \E now \in 1..clock, d \in LeaseDurations :
        /\ job[j].status = "PROCESSING"
        /\ job[j].leasedAt <= now
        /\ now - MaxJobAge <= job[j].leasedAt
        /\ job'[j] = Extended(job[j], now, d)
        /\ order'[j] = order[j]
        /\ Aside(j)

CompleteMove(j) ==
    \E a \in Artifacts :
        /\ j \notin ModelessJobs
        /\ job[j].status = "PROCESSING" /\ order[j] = "PROCESSING"
        /\ job'[j] = Completed(job[j], a)
        /\ order'[j] = "COMPLETED"
        /\ receipt'[j] = a /\ artifactRow'[j] = a /\ delivery'[j] = TRUE

RetryMove(j) ==
    \E at \in Int :
        /\ job[j].status = "PROCESSING"
        /\ ~Exhausted(job[j])
        /\ job'[j] = Retried(job[j], at)
        /\ order'[j] = order[j]
        /\ Aside(j)

FailOrder(j) == order'[j] = IF order[j] = "PROCESSING" THEN "FAILED" ELSE order[j]

FailMove(j) ==
    \E reason \in Reasons :
        /\ job[j].status = "PROCESSING"
        /\ job'[j] = Failed(job[j], reason)
        /\ FailOrder(j)
        /\ Aside(j)

FinalizeMove(j) ==
    /\ job[j].status = "PROCESSING"
    /\ job'[j] = Finalized(job[j])
    /\ FailOrder(j)
    /\ Aside(j)

ReopenMove(j) ==
    /\ Reopenable(job[j])
    /\ order[j] = "FAILED" /\ receipt[j] = NoArtifact
    /\ job'[j] = Reopened(job[j])
    /\ order'[j] = "PROCESSING"
    /\ Aside(j)

\* Only the order: what a superseded claim of an order without a mode does.
OrderOnlyMove(j) ==
    /\ j \in ModelessJobs
    /\ job'[j] = job[j]
    /\ FailOrder(j)
    /\ Aside(j)

Move(j) ==
    \/ Stay(j)
    \/ ClaimMove(j) \/ ExtendMove(j) \/ CompleteMove(j) \/ RetryMove(j)
    \/ FailMove(j) \/ FinalizeMove(j) \/ ReopenMove(j) \/ OrderOnlyMove(j)

\* The tables keep a row for every job, and only for those.
Tables ==
    /\ order' = [j \in Jobs |-> order'[j]]
    /\ receipt' = [j \in Jobs |-> receipt'[j]]
    /\ artifactRow' = [j \in Jobs |-> artifactRow'[j]]
    /\ delivery' = [j \in Jobs |-> delivery'[j]]

RowsMove == job' \in [Jobs -> JobRow] /\ Tables /\ \A j \in Jobs : Move(j)

\* A step that writes no row of these tables.
LEMMA Untouched ==
    ASSUME IInv, UNCHANGED <<job, order, receipt, artifactRow, delivery>>
    PROVE  RowsMove
<1>1. Tables
    BY DEF IInv, TypeOK, Tables
<1> QED BY <1>1 DEF IInv, TypeOK, Move, Stay, Aside, RowsMove

\* A step that writes the rows of one job.
OnlyJob(j) ==
    /\ job' = [job EXCEPT ![j] = job'[j]]
    /\ order' = [order EXCEPT ![j] = order'[j]]
    /\ receipt' = [receipt EXCEPT ![j] = receipt'[j]]
    /\ artifactRow' = [artifactRow EXCEPT ![j] = artifactRow'[j]]
    /\ delivery' = [delivery EXCEPT ![j] = delivery'[j]]

LEMMA OneJob ==
    ASSUME IInv, NEW j \in Jobs, OnlyJob(j), Move(j), job'[j] \in JobRow
    PROVE  RowsMove
<1>1. job' \in [Jobs -> JobRow]
    BY Zenon DEF IInv, TypeOK, OnlyJob
<1>2. ASSUME NEW i \in Jobs, i # j
      PROVE  Stay(i)
    BY <1>2, SMT DEF IInv, TypeOK, OnlyJob, Stay, Aside
<1>3. Tables
    BY DEF IInv, TypeOK, OnlyJob, Tables
<1> QED BY <1>1, <1>2, <1>3, Zenon DEF Move, RowsMove

LEMMA SlotFacts ==
    ASSUME IInv, NEW r \in Requests
    PROVE  /\ req[r] \in Request /\ req[r].job \in Jobs
           /\ job[req[r].job] \in JobRow
           /\ Fit(req[r])
           /\ clock \in Nat /\ lastToken \in Nat
           /\ req[r].now \in Nat /\ req[r].now <= clock
           /\ req[r].token \in Nat /\ req[r].token <= lastToken
<1>1. TypeOK /\ LocalsFit /\ ClockReadings /\ TokensIssued
    BY DEF IInv
<1>2. req[r] \in Request
    BY <1>1 DEF TypeOK
<1>3. req[r].job \in Jobs /\ req[r].now \in Nat /\ req[r].token \in Nat
    BY <1>2 DEF Request
<1> QED BY <1>1, <1>2, <1>3 DEF TypeOK, LocalsFit, ClockReadings, TokensIssued

LEMMA NowInRange ==
    ASSUME IInv, NEW r \in Requests, req[r].pc # "idle"
    PROVE  req[r].now \in 1..clock /\ req[r].worker \in Workers
BY SlotFacts DEF Fit

LEMMA ClaimExhaustedMoves ==
    ASSUME IInv, NEW r \in Requests, ClaimExhausted(r)
    PROVE  RowsMove
<1> DEFINE j == req[r].job
<1> USE SlotFacts
<1>1. CASE UNCHANGED <<job, order>>
    BY <1>1, Untouched, Zenon DEF ClaimExhausted
<1>2. CASE /\ job[j].status = "PROCESSING"
           /\ job' = [job EXCEPT ![j] = Failed(@, "max_attempts_exhausted")]
           /\ order' = [order EXCEPT ![j] = IF @ = "PROCESSING" THEN "FAILED" ELSE @]
    <2>1. UNCHANGED <<receipt, artifactRow, delivery>>
        BY DEF ClaimExhausted
    <2>2. job'[j] = Failed(job[j], "max_attempts_exhausted") /\ FailOrder(j)
        BY <1>2 DEF IInv, TypeOK, FailOrder
    <2>3. job'[j] \in JobRow
        BY <2>2, FailedRow, Zenon DEF Reasons
    <2>4. FailMove(j)
        BY <1>2, <2>1, <2>2, Zenon DEF FailMove, Aside, Reasons
    <2>5. OnlyJob(j)
        BY <1>2, <2>1, <2>2 DEF OnlyJob, IInv, TypeOK, FailOrder
    <2> QED BY <2>3, <2>4, <2>5, OneJob, Zenon DEF Move
<1> QED BY <1>1, <1>2 DEF ClaimExhausted

LEMMA ClaimCasMoves ==
    ASSUME IInv, NEW r \in Requests, ClaimCas(r)
    PROVE  RowsMove
<1> DEFINE j == req[r].job
           q == req[r]
<1> USE SlotFacts
<1>1. CASE UNCHANGED <<job, order>>
    BY <1>1, Untouched, Zenon DEF ClaimCas
<1>2. CASE /\ Claimable(job[j], order[j], q.now)
           /\ job' = [job EXCEPT ![j] = Claimed(@, q.worker, lastToken + 1, q.now, q.lease)]
           /\ order' = [order EXCEPT ![j] = IF @ = "PAID" THEN "PROCESSING" ELSE @]
           /\ lastToken' = lastToken + 1
    <2>1. UNCHANGED <<receipt, artifactRow, delivery>> /\ lastToken' = lastToken + 1
        BY <1>2 DEF ClaimCas
    <2>2. q.pc = "claim_cas"
        BY DEF ClaimCas
    <2>3. q.now \in 1..clock /\ q.worker \in Workers /\ q.lease \in LeaseDurations
        BY <2>2, NowInRange DEF Fit
    <2>4. /\ job'[j] = Claimed(job[j], q.worker, lastToken + 1, q.now, q.lease)
          /\ order'[j] = "PROCESSING"
        BY <1>2 DEF IInv, TypeOK, Claimable
    <2>5. job'[j] \in JobRow
        <3>1. lastToken + 1 \in Nat /\ q.now \in Nat /\ job[j] \in JobRow
            OBVIOUS
        <3>2. ~Exhausted(job[j])
            BY <1>2 DEF Claimable
        <3> QED BY <2>3, <2>4, <3>1, <3>2, ClaimedRow
    <2>6. ClaimMove(j)
        BY <1>2, <2>1, <2>3, <2>4, Zenon DEF ClaimMove, Aside
    <2>7. OnlyJob(j)
        BY <1>2, <2>1, <2>4 DEF OnlyJob, IInv, TypeOK
    <2> QED BY <2>5, <2>6, <2>7, OneJob, Zenon DEF Move
<1> QED BY <1>1, <1>2 DEF ClaimCas

LEMMA ClaimFailClosedMoves ==
    ASSUME IInv, NEW r \in Requests, ClaimFailClosed(r)
    PROVE  RowsMove
<1> DEFINE j == req[r].job
           mine == job[j].status = "PROCESSING" /\ job[j].token = req[r].token
<1> USE SlotFacts
<1>1. /\ UNCHANGED <<receipt, artifactRow, delivery>>
      /\ order' = [order EXCEPT ![j] = IF @ = "PROCESSING" THEN "FAILED" ELSE @]
      /\ j \in ModelessJobs
    BY DEF ClaimFailClosed, Fit
<1>2. FailOrder(j)
    BY <1>1 DEF IInv, TypeOK, FailOrder
<1>3. job' = [job EXCEPT ![j] = IF mine THEN Failed(@, "other") ELSE @]
    BY DEF ClaimFailClosed
<1>4. job'[j] = IF mine THEN Failed(job[j], "other") ELSE job[j]
    BY <1>3 DEF IInv, TypeOK
<1>5. OnlyJob(j)
    BY <1>1, <1>2, <1>3, <1>4 DEF OnlyJob, IInv, TypeOK, FailOrder
<1>6. CASE mine
    <2>1. job'[j] \in JobRow
        BY <1>4, <1>6, FailedRow, Zenon DEF Reasons
    <2>2. FailMove(j)
        BY <1>1, <1>2, <1>4, <1>6, Zenon DEF FailMove, Aside, Reasons
    <2> QED BY <1>5, <2>1, <2>2, OneJob, Zenon DEF Move
<1>7. CASE ~mine
    <2>1. OrderOnlyMove(j)
        BY <1>1, <1>2, <1>4, <1>7, Zenon DEF OrderOnlyMove, Aside
    <2> QED BY <1>4, <1>5, <1>7, <2>1, OneJob, Zenon DEF Move
<1> QED BY <1>6, <1>7

LEMMA HeartbeatCasMoves ==
    ASSUME IInv, NEW r \in Requests, HeartbeatCas(r)
    PROVE  RowsMove
<1> DEFINE j == req[r].job
           q == req[r]
<1> USE SlotFacts
<1>1. q.pc = "heartbeat" /\ UNCHANGED <<order, receipt, artifactRow, delivery>>
    BY DEF HeartbeatCas
<1>2. CASE UNCHANGED job
    BY <1>1, <1>2, Untouched, Zenon
<1>3. CASE /\ Extendable(job[j], q.worker, q.token, q.now)
           /\ job' = [job EXCEPT ![j] = Extended(@, q.now, q.lease)]
    <2>1. q.now \in 1..clock /\ q.lease \in LeaseDurations
        BY <1>1, NowInRange DEF Fit
    <2>2. job'[j] = Extended(job[j], q.now, q.lease)
        BY <1>3 DEF IInv, TypeOK
    <2>3. job'[j] \in JobRow
        <3>1. q.now \in Nat /\ job[j] \in JobRow
            OBVIOUS
        <3> QED BY <2>1, <2>2, <3>1, ExtendedRow
    <2>4. job[j].status = "PROCESSING" /\ job[j].token = q.token
        BY <1>3 DEF Extendable, HoldsLease
    <2>5. job[j].leasedAt <= q.now
        BY <1>1, <2>4, Zenon DEF IInv, FencedReadsHold, StillMine
    <2>6. ExtendMove(j)
        <3>1. q.now - MaxJobAge <= job[j].leasedAt
            BY <1>3, RowConstants DEF Extendable, JobRow
        <3> QED BY <1>1, <2>1, <2>2, <2>4, <2>5, <3>1, Zenon DEF ExtendMove, Aside
    <2>7. OnlyJob(j)
        BY <1>1, <1>3, <2>2 DEF OnlyJob, IInv, TypeOK
    <2> QED BY <2>3, <2>6, <2>7, OneJob, Zenon DEF Move
<1> QED BY <1>2, <1>3 DEF HeartbeatCas

LEMMA FailRetryMoves ==
    ASSUME IInv, NEW r \in Requests, FailRetry(r)
    PROVE  RowsMove
<1> DEFINE j == req[r].job
           q == req[r]
           held == HoldsLease(job[j], q.worker, q.token, q.now)
<1> USE SlotFacts
<1>1. q.pc = "fail_retry" /\ UNCHANGED <<order, receipt, artifactRow, delivery>>
    BY DEF FailRetry
<1>2. job' = [job EXCEPT ![j] = IF held THEN Retried(@, q.until) ELSE @]
    BY DEF FailRetry
<1>3. job'[j] = IF held THEN Retried(job[j], q.until) ELSE job[j]
    BY <1>2 DEF IInv, TypeOK
<1>4. OnlyJob(j)
    BY <1>1, <1>2, <1>3 DEF OnlyJob, IInv, TypeOK
<1>5. CASE held
    <2>1. q.until \in Int /\ job[j] \in JobRow /\ j \in Jobs
        BY DEF Request
    <2>2. job'[j] \in JobRow
        BY <1>3, <1>5, <2>1, RetriedRow, Zenon
    <2>3. job[j].status = "PROCESSING" /\ job[j].token = q.token
        BY <1>5 DEF HoldsLease
    <2>4. ~Exhausted(job[j])
        BY <1>1, <2>3, Zenon DEF IInv, FencedReadsHold, StillMine
    <2>5. RetryMove(j)
        BY <1>1, <1>3, <1>5, <2>1, <2>3, <2>4, Zenon DEF RetryMove, Aside
    <2> QED BY <1>4, <2>2, <2>5, OneJob, Zenon DEF Move
<1>6. CASE ~held
    <2>1. UNCHANGED job
        BY <1>2, <1>6 DEF IInv, TypeOK
    <2> QED BY <1>1, <2>1, Untouched, Zenon
<1> QED BY <1>5, <1>6

LEMMA FailTerminalMoves ==
    ASSUME IInv, NEW r \in Requests, FailTerminal(r)
    PROVE  RowsMove
<1> DEFINE j == req[r].job
           q == req[r]
<1> USE SlotFacts
<1>1. CASE UNCHANGED <<job, order>>
    BY <1>1, Untouched, Zenon DEF FailTerminal
<1>2. CASE /\ HoldsLease(job[j], q.worker, q.token, q.now)
           /\ job' = [job EXCEPT ![j] = Failed(@, q.reason)]
           /\ order' = [order EXCEPT ![j] = IF @ = "PROCESSING" THEN "FAILED" ELSE @]
    <2>1. UNCHANGED <<receipt, artifactRow, delivery>>
        BY DEF FailTerminal
    <2>2. job'[j] = Failed(job[j], q.reason) /\ FailOrder(j)
        BY <1>2 DEF IInv, TypeOK, FailOrder
    <2>3. q.reason \in Reasons /\ job[j] \in JobRow /\ j \in Jobs
        BY DEF Request
    <2>4. job'[j] \in JobRow
        BY <2>2, <2>3, FailedRow, Zenon
    <2>5. FailMove(j)
        BY <1>2, <2>1, <2>2, <2>3, Zenon DEF FailMove, Aside, HoldsLease
    <2>6. OnlyJob(j)
        BY <1>2, <2>1, <2>2 DEF OnlyJob, IInv, TypeOK, FailOrder
    <2> QED BY <2>4, <2>5, <2>6, OneJob, Zenon DEF Move
<1> QED BY <1>1, <1>2 DEF FailTerminal

\* The batch of completeJob does all of its five statements or none: whatever the
\* lease, the order and the receipt were when it ran.
LEMMA CompleteBatchMoves ==
    ASSUME IInv, NEW r \in Requests, CompleteBatch(r)
    PROVE  RowsMove
<1> DEFINE j == req[r].job
           q == req[r]
           a == q.artifact
           held == HoldsLease(job[j], q.worker, q.token, q.now)
<1> USE SlotFacts
<1>1. /\ a \in Artifacts /\ a # NoArtifact /\ j \in Jobs
      /\ job[j].artifact = receipt[j] /\ artifactRow[j] = receipt[j]
      /\ receipt[j] # NoArtifact <=> job[j].status = "COMPLETED"
      /\ receipt[j] # NoArtifact <=> order[j] = "COMPLETED"
      /\ delivery[j] <=> receipt[j] # NoArtifact
      /\ delivery[j] \in BOOLEAN /\ j \notin ModelessJobs
    BY RowConstants DEF CompleteBatch, Fit, IInv, CompletionWhole, TypeOK
<1>2. CASE held /\ order[j] = "PROCESSING"
    <2>1. receipt[j] = NoArtifact /\ ~delivery[j] /\ artifactRow[j] = NoArtifact
        BY <1>1, <1>2 DEF HoldsLease
    <2>2. /\ receipt' = [receipt EXCEPT ![j] = a]
          /\ job' = [job EXCEPT ![j] = Completed(@, a)]
          /\ order' = [order EXCEPT ![j] = "COMPLETED"]
          /\ delivery' = [delivery EXCEPT ![j] = TRUE]
          /\ artifactRow' = [artifactRow EXCEPT ![j] = a]
        BY <1>1, <1>2, <2>1 DEF CompleteBatch, IInv, TypeOK
    <2>3. /\ job'[j] = Completed(job[j], a) /\ order'[j] = "COMPLETED"
          /\ receipt'[j] = a /\ artifactRow'[j] = a /\ delivery'[j] = TRUE
        BY <2>2 DEF IInv, TypeOK
    <2>4. job'[j] \in JobRow
        BY <1>1, <2>3, CompletedRow
    <2>5. CompleteMove(j)
        BY <1>1, <1>2, <2>3, Zenon DEF CompleteMove, HoldsLease
    <2>6. OnlyJob(j)
        BY <2>2, <2>3, Zenon DEF OnlyJob
    <2> QED BY <2>4, <2>5, <2>6, OneJob, Zenon DEF Move
<1>3. CASE ~(held /\ order[j] = "PROCESSING")
    <2>1. held => receipt[j] = NoArtifact
        BY <1>1 DEF HoldsLease
    <2>2. ~(held /\ receipt[j] = a) /\ ~(order[j] = "PROCESSING" /\ receipt[j] # NoArtifact)
        BY <1>1, <2>1
    <2>3. UNCHANGED <<job, order, receipt, artifactRow, delivery>>
        BY <1>1, <1>3, <2>2 DEF CompleteBatch, IInv, TypeOK, db
    <2> QED BY <2>3, Untouched, Zenon
<1> QED BY <1>2, <1>3

LEMMA FinalizeBatchMoves ==
    ASSUME IInv, NEW c \in Crons, FinalizeBatch(c)
    PROVE  RowsMove
<1> DEFINE hit(j) == j \in cron[c].cands /\ FinalizeHits(job[j], cron[c].seen[j], cron[c].now)
<1>1. /\ job' = [j \in Jobs |-> IF hit(j) THEN Finalized(job[j]) ELSE job[j]]
      /\ order' = [j \in Jobs |-> IF hit(j) /\ order[j] = "PROCESSING"
                                  THEN "FAILED" ELSE order[j]]
      /\ UNCHANGED <<receipt, artifactRow, delivery>>
    BY Zenon DEF FinalizeBatch
<1>2. job \in [Jobs -> JobRow]
    BY DEF IInv, TypeOK
<1>3. ASSUME NEW j \in Jobs
      PROVE  Move(j) /\ job'[j] \in JobRow
    <2>1. CASE hit(j)
        <3>1. job'[j] = Finalized(job[j]) /\ FailOrder(j)
            BY <1>1, <1>3, <2>1, Zenon DEF FailOrder
        <3>2. job[j].status = "PROCESSING"
            BY <2>1, Zenon DEF FinalizeHits
        <3>3. FinalizeMove(j)
            BY <1>1, <3>1, <3>2, Zenon DEF FinalizeMove, Aside
        <3> QED BY <1>2, <1>3, <3>1, <3>3, FinalizedRow, Zenon DEF Move
    <2>2. CASE ~hit(j)
        <3>1. Stay(j)
            BY <1>1, <1>3, <2>2, Zenon DEF Stay, Aside
        <3> QED BY <1>2, <1>3, <3>1, Zenon DEF Move, Stay
    <2> QED BY <2>1, <2>2
<1>4. job' \in [Jobs -> JobRow]
    BY <1>1, <1>3, Zenon
<1>5. Tables
    BY <1>1 DEF Tables, IInv, TypeOK
<1> QED BY <1>3, <1>4, <1>5, Zenon DEF RowsMove

LEMMA RecoverBatchMoves ==
    ASSUME IInv, NEW c \in Crons, RecoverBatch(c)
    PROVE  RowsMove
<1> DEFINE hits == {j \in cron[c].cands : RecoverHits(job[j], cron[c].seen[j], cron[c].now)}
<1>1. /\ job' = [j \in Jobs |-> IF j \in hits THEN Retried(job[j], cron[c].now) ELSE job[j]]
      /\ UNCHANGED <<order, receipt, artifactRow, delivery>>
    BY Zenon DEF RecoverBatch
<1>2. job \in [Jobs -> JobRow] /\ cron[c].now \in Int
    BY DEF IInv, TypeOK, CronSlot
<1>3. ASSUME NEW j \in Jobs
      PROVE  Move(j) /\ job'[j] \in JobRow
    <2>1. CASE j \in hits
        <3>1. job'[j] = Retried(job[j], cron[c].now)
            BY <1>1, <1>3, <2>1, Zenon
        <3>2. job[j].status = "PROCESSING" /\ ~Exhausted(job[j])
            BY <2>1, Zenon DEF RecoverHits, LeaseRecoverable
        <3>3. RetryMove(j)
            BY <1>1, <1>2, <3>1, <3>2, Zenon DEF RetryMove, Aside
        <3> QED BY <1>2, <1>3, <3>1, <3>3, RetriedRow, Zenon DEF Move
    <2>2. CASE j \notin hits
        <3>1. Stay(j)
            BY <1>1, <1>3, <2>2, Zenon DEF Stay, Aside
        <3> QED BY <1>2, <1>3, <3>1, Zenon DEF Move, Stay
    <2> QED BY <2>1, <2>2
<1>4. job' \in [Jobs -> JobRow]
    BY <1>1, <1>3, Zenon
<1>5. Tables
    BY <1>1 DEF Tables, IInv, TypeOK
<1> QED BY <1>3, <1>4, <1>5, Zenon DEF RowsMove

LEMMA OperatorMoves ==
    ASSUME IInv, NEW j \in Jobs, Operator(j)
    PROVE  RowsMove
<1>1. CASE Rearm(j)
    BY <1>1, Untouched, Zenon DEF Rearm
<1>2. CASE Reopenable(job[j]) /\ Reopen(j)
    <2>1. /\ job' = [job EXCEPT ![j] = Reopened(@)]
          /\ order' = [order EXCEPT ![j] = "PROCESSING"]
          /\ order[j] = "FAILED" /\ receipt[j] = NoArtifact
          /\ UNCHANGED <<receipt, artifactRow, delivery>>
        BY <1>2 DEF Reopen
    <2>2. job'[j] = Reopened(job[j]) /\ order'[j] = "PROCESSING" /\ job[j] \in JobRow
        BY <2>1 DEF IInv, TypeOK
    <2>3. job'[j] \in JobRow
        BY <1>2, <2>2, ReopenedRow
    <2>4. ReopenMove(j)
        BY <1>2, <2>1, <2>2, Zenon DEF ReopenMove, Aside
    <2>5. OnlyJob(j)
        BY <2>1, <2>2 DEF OnlyJob, IInv, TypeOK
    <2> QED BY <2>3, <2>4, <2>5, OneJob, Zenon DEF Move
<1> QED BY <1>1, <1>2, Zenon DEF Operator, Rescue, RecoverTerminal, Rescuable, Recoverable

\* Every step moves every job by one of the eight moves, or not at all.
LEMMA Moves ==
    ASSUME IInv, [Next]_vars
    PROVE  RowsMove
<1>1. CASE UNCHANGED <<job, order, receipt, artifactRow, delivery>>
    BY <1>1, Untouched, Zenon
<1>2. ASSUME NEW r \in Requests, Call(r)
      PROVE  RowsMove
    <2>1. UNCHANGED <<job, order, receipt, artifactRow, delivery>>
        BY <1>2, Zenon DEF Call, ClaimRefused, ClaimRead, FencedCall, HeartbeatStart,
                    CompleteStart, FailRead, db
    <2> QED BY <1>1, <2>1
<1>3. ASSUME NEW r \in Requests, Continue(r)
      PROVE  RowsMove
    <2>1. CASE ClaimMode(r) \/ CompleteRead(r) \/ CompleteError(r) \/ CompleteRace(r)
               \/ RequestDies(r)
        <3>1. UNCHANGED <<job, order, receipt, artifactRow, delivery>>
            BY <2>1, Zenon DEF ClaimMode, CompleteRead, CompleteError, CompleteRace,
                        RequestDies, db
        <3> QED BY <1>1, <3>1
    <2> QED BY <1>3, <2>1, ClaimExhaustedMoves, ClaimCasMoves, ClaimFailClosedMoves,
               HeartbeatCasMoves, CompleteBatchMoves, FailRetryMoves, FailTerminalMoves,
               Zenon DEF Continue
<1>4. ASSUME NEW c \in Crons, Scheduled(c)
      PROVE  RowsMove
    <2>1. CASE FinalizeSelect(c) \/ RecoverSelect(c) \/ RecoverSend(c) \/ CronDies(c)
        <3>1. UNCHANGED <<job, order, receipt, artifactRow, delivery>>
            BY <2>1, Zenon DEF FinalizeSelect, RecoverSelect, RecoverSend, CronDies, db
        <3> QED BY <1>1, <3>1
    <2> QED BY <1>4, <2>1, FinalizeBatchMoves, RecoverBatchMoves, Zenon DEF Scheduled
<1>5. ASSUME NEW j \in Jobs, Dispatcher(j)
      PROVE  RowsMove
    <2>1. UNCHANGED <<job, order, receipt, artifactRow, delivery>>
        BY <1>5, Zenon DEF Dispatcher, DispatchTake, DispatchSend, DispatchBackoff,
                    Acknowledge, db
    <2> QED BY <1>1, <2>1
<1>6. CASE Tick \/ UNCHANGED vars
    BY <1>1, <1>6, Zenon DEF Tick, vars, db
<1> QED BY <1>2, <1>3, <1>4, <1>5, <1>6, OperatorMoves, Zenon DEF Next

-----------------------------------------------------------------------------
(* A step that writes a request slot leaves a good one in it. *)

NewSlot(r) == \E q : req' = [req EXCEPT ![r] = q] /\ SlotGood(q)

LEMMA ClockFacts ==
    ASSUME IInv
    PROVE  clock \in Nat /\ clock > 0 /\ lastToken \in Nat
BY DEF IInv, TypeOK

LEMMA ReturnSlot ==
    ASSUME IInv, NEW r \in Requests, Return(r), lastToken' \in Nat
    PROVE  NewSlot(r)
<1>1. req[r].job \in Jobs /\ clock \in Nat
    BY SlotFacts
<1>2. req' = [req EXCEPT ![r] = Returned(req[r].job, "other")]
    BY DEF Return, IInv, TypeOK
<1> QED BY <1>1, <1>2, ReturnedGood, Zenon DEF NewSlot

LEMMA ClaimCallSlot ==
    ASSUME IInv, NEW r \in Requests, NEW j \in Jobs, NEW w \in Workers,
           NEW d \in LeaseDurations, ClaimRefused(r, j) \/ ClaimRead(r, j, w, d)
    PROVE  NewSlot(r)
<1>1. lastToken' = lastToken /\ clock \in Nat /\ clock > 0 /\ lastToken' \in Nat
    BY ClockFacts DEF ClaimRefused, ClaimRead
<1>2. CASE req' = [req EXCEPT ![r] = Returned(j, "other")]
    BY <1>1, <1>2, ReturnedGood, Zenon DEF NewSlot
<1>3. CASE req' = [req EXCEPT ![r] = Begun("claim_exhausted", j, w, Null)]
    <2> DEFINE q == Begun("claim_exhausted", j, w, 0)
    <2>1. /\ q \in Request /\ q.pc = "claim_exhausted" /\ q.worker = w
          /\ q.token = 0 /\ q.now = clock /\ q.reply = "other"
        BY <1>1, BegunSlot DEF Steps
    <2>2. SlotGood(q)
        BY <1>1, <2>1 DEF SlotGood, Fit
    <2> QED BY <1>3, <2>2, Zenon DEF NewSlot
<1>4. CASE req' = [req EXCEPT ![r] = [Begun("claim_cas", j, w, Null) EXCEPT !.lease = d]]
    <2> DEFINE b == Begun("claim_cas", j, w, 0)
               q == [b EXCEPT !.lease = d]
    <2>1. /\ b \in Request /\ b.pc = "claim_cas" /\ b.worker = w
          /\ b.token = 0 /\ b.now = clock /\ b.reply = "other"
        BY <1>1, BegunSlot DEF Steps
    <2>2. /\ q \in Request /\ q.pc = "claim_cas" /\ q.worker = w /\ q.lease = d
          /\ q.token = 0 /\ q.now = clock /\ q.reply = "other"
        BY <2>1, Zenon DEF Request
    <2>3. SlotGood(q)
        <3> HIDE DEF q
        <3> QED BY <1>1, <2>2 DEF SlotGood, Fit
    <2> QED BY <1>4, <2>3, Zenon DEF NewSlot
<1> QED BY <1>2, <1>3, <1>4, Zenon DEF ClaimRefused, ClaimRead

LEMMA HeartbeatStartSlot ==
    ASSUME IInv, NEW r \in Requests, NEW j \in Jobs, NEW w \in Workers, NEW t \in Issued,
           NEW d \in LeaseDurations, HeartbeatStart(r, j, w, t, d)
    PROVE  NewSlot(r)
<1> DEFINE b == Begun("heartbeat", j, w, t)
           q == [b EXCEPT !.lease = d]
<1>1. /\ lastToken' = lastToken /\ job' = job /\ clock \in Nat /\ clock > 0
      /\ t \in Nat /\ 0 < t /\ t <= lastToken' /\ job[j].leasedAt <= clock
      /\ req' = [req EXCEPT ![r] = q]
    BY ClockFacts DEF HeartbeatStart, Issued, db, IInv, ClockReadings
<1>2. /\ b \in Request /\ b.pc = "heartbeat" /\ b.worker = w /\ b.job = j
      /\ b.token = t /\ b.now = clock /\ b.reply = "other"
    BY <1>1, BegunSlot DEF Steps
<1>3. /\ q \in Request /\ q.pc = "heartbeat" /\ q.worker = w /\ q.lease = d /\ q.job = j
      /\ q.token = t /\ q.now = clock /\ q.reply = "other"
    BY <1>2, Zenon DEF Request
<1>4. SlotGood(q)
    <2> HIDE DEF q
    <2> QED BY <1>1, <1>3 DEF SlotGood, Fit
<1> QED BY <1>1, <1>4, Zenon DEF NewSlot

LEMMA CompleteStartSlot ==
    ASSUME IInv, NEW r \in Requests, NEW j \in Jobs \ ModelessJobs, NEW w \in Workers, NEW t \in Issued,
           NEW a \in Artifacts, CompleteStart(r, j, w, t, a)
    PROVE  NewSlot(r)
<1> DEFINE b == Begun("complete_read", j, w, t)
           q == [b EXCEPT !.artifact = a]
<1>1. /\ lastToken' = lastToken /\ receipt' = receipt
      /\ clock \in Nat /\ clock > 0 /\ lastToken' \in Nat
      /\ t \in Nat /\ 0 < t /\ t <= lastToken'
    BY ClockFacts DEF CompleteStart, Issued, db
<1>2. CASE req' = [req EXCEPT ![r] = Replay(j, receipt[j], a)]
    BY <1>1, <1>2, ReplayGood, Zenon DEF NewSlot
<1>3. CASE req' = [req EXCEPT ![r] = q]
    <2>1. /\ b \in Request /\ b.pc = "complete_read" /\ b.worker = w /\ b.job = j
          /\ b.token = t /\ b.now = clock /\ b.reply = "other"
        BY <1>1, BegunSlot DEF Steps
    <2>2. /\ q \in Request /\ q.pc = "complete_read" /\ q.worker = w /\ q.artifact = a
          /\ q.job = j
          /\ q.token = t /\ q.now = clock /\ q.reply = "other"
        BY <2>1, Zenon DEF Request
    <2>3. SlotGood(q)
        <3> HIDE DEF q
        <3> QED BY <1>1, <2>2 DEF SlotGood, Fit
    <2> QED BY <1>3, <2>3, Zenon DEF NewSlot
<1> QED BY <1>2, <1>3, Zenon DEF CompleteStart

LEMMA FailReadSlot ==
    ASSUME IInv, NEW r \in Requests, NEW j \in Jobs, NEW w \in Workers, NEW t \in Issued,
           NEW retryable \in BOOLEAN, FailRead(r, j, w, t, retryable)
    PROVE  NewSlot(r)
<1>1. /\ lastToken' = lastToken /\ job' = job /\ job[j] \in JobRow
      /\ clock \in Nat /\ clock > 0 /\ lastToken' \in Nat
      /\ t \in Nat /\ 0 < t /\ t <= lastToken'
    BY ClockFacts DEF FailRead, Issued, db, IInv, TypeOK
<1>2. CASE req' = [req EXCEPT ![r] = Returned(j, "other")]
    BY <1>1, <1>2, ReturnedGood, Zenon DEF NewSlot
<1>3. CASE /\ ~Exhausted(job[j])
           /\ req' = [req EXCEPT ![r] = [Begun("fail_retry", j, w, t) EXCEPT
                                           !.until = clock + RetryDelay(job[j].attempts)]]
    <2> DEFINE b == Begun("fail_retry", j, w, t)
               until == clock + RetryDelay(job[j].attempts)
               q == [b EXCEPT !.until = until]
    <2>1. /\ b \in Request /\ b.pc = "fail_retry" /\ b.worker = w /\ b.job = j
          /\ b.token = t /\ b.now = clock /\ b.reply = "other"
        BY <1>1, BegunSlot DEF Steps
    <2>2. until \in Int
        <3>1. job[j].attempts \in Nat
            BY <1>1, RowConstants DEF JobRow
        <3> QED BY <1>1, <3>1, RetryDelayInt
    <2>3. /\ q \in Request /\ q.pc = "fail_retry" /\ q.worker = w /\ q.job = j
          /\ q.token = t /\ q.now = clock /\ q.reply = "other"
        <3> HIDE DEF until
        <3> QED BY <2>1, <2>2, Zenon DEF Request
    <2>4. SlotGood(q)
        <3> HIDE DEF q
        <3> QED BY <1>1, <1>3, <2>3 DEF SlotGood, Fit
    <2> QED BY <1>3, <2>4, Zenon DEF NewSlot
<1>4. ASSUME NEW reason \in Reasons,
             req' = [req EXCEPT ![r] = [Begun("fail_terminal", j, w, t) EXCEPT
                                           !.reason = reason]]
      PROVE  NewSlot(r)
    <2> DEFINE b == Begun("fail_terminal", j, w, t)
               q == [b EXCEPT !.reason = reason]
    <2>1. /\ b \in Request /\ b.pc = "fail_terminal" /\ b.worker = w
          /\ b.token = t /\ b.now = clock /\ b.reply = "other"
        BY <1>1, BegunSlot DEF Steps
    <2>2. /\ q \in Request /\ q.pc = "fail_terminal" /\ q.worker = w
          /\ q.token = t /\ q.now = clock /\ q.reply = "other"
        BY <2>1, Zenon DEF Request
    <2>3. SlotGood(q)
        <3> HIDE DEF q
        <3> QED BY <1>1, <2>2 DEF SlotGood, Fit
    <2> QED BY <1>4, <2>3, Zenon DEF NewSlot
<1>5. (IF Exhausted(job[j]) THEN "max_attempts_exhausted" ELSE "other") \in Reasons
    BY DEF Reasons
<1> QED BY <1>2, <1>3, <1>4, <1>5, Zenon DEF FailRead

\* A slot that goes on with its job: what the record updates below keep.
LEMMA OnwardSlot ==
    ASSUME IInv, NEW r \in Requests, NEW q \in Request,
           q.job = req[r].job, q.artifact = req[r].artifact, q.reply = req[r].reply,
           q.pc \notin {"heartbeat", "fail_retry"}, q.now <= clock, q.token <= lastToken',
           Fit(q), receipt' = receipt, req' = [req EXCEPT ![r] = q]
    PROVE  NewSlot(r)
<1>1. q.reply = "COMPLETED" => receipt'[q.job] = q.artifact
    BY DEF IInv, CompletedReplyTrue
<1>2. SlotGood(q)
    BY <1>1, Zenon DEF SlotGood
<1> QED BY <1>2, Zenon DEF NewSlot

LEMMA ClaimSlot ==
    ASSUME IInv, NEW r \in Requests,
           \/ ClaimExhausted(r) \/ ClaimCas(r) \/ ClaimMode(r) \/ ClaimFailClosed(r)
           \/ HeartbeatCas(r) \/ FailRetry(r) \/ FailTerminal(r) \/ RequestDies(r)
    PROVE  NewSlot(r)
<1>1. /\ req[r] \in Request /\ req[r].pc # "idle"
      /\ req[r].now <= clock /\ req[r].token <= lastToken /\ req[r].token \in Nat
      /\ lastToken \in Nat /\ Fit(req[r])
    BY SlotFacts, Zenon DEF ClaimExhausted, ClaimCas, ClaimMode, ClaimFailClosed,
        HeartbeatCas, FailRetry, FailTerminal, RequestDies
<1>2. CASE /\ ClaimCas(r) /\ lastToken' = lastToken + 1
           /\ req' = [req EXCEPT ![r].pc = "claim_mode", ![r].token = lastToken + 1]
    <2> DEFINE q == [req[r] EXCEPT !.pc = "claim_mode", !.token = lastToken + 1]
    <2>1. lastToken' = lastToken + 1 /\ lastToken + 1 \in Nat /\ lastToken + 1 > 0
          /\ receipt' = receipt
        BY <1>1, <1>2 DEF ClaimCas
    <2>2. req' = [req EXCEPT ![r] = q]
        BY <1>2 DEF IInv, TypeOK
    <2>3. /\ q \in Request /\ q.pc = "claim_mode" /\ q.token = lastToken + 1
          /\ q.now = req[r].now /\ q.job = req[r].job /\ q.artifact = req[r].artifact
          /\ q.reply = req[r].reply /\ q.worker = req[r].worker
        BY <1>1, <2>1, Zenon DEF Request, Steps
    <2> HIDE DEF q
    <2>4. Fit(q) /\ q.now <= clock /\ q.token <= lastToken'
        BY <1>1, <2>1, <2>3 DEF Fit
    <2> QED BY <2>1, <2>2, <2>3, <2>4, OnwardSlot
<1>3. CASE ClaimMode(r) /\ req' = [req EXCEPT ![r].pc = "claim_fail_closed"]
           /\ req[r].job \in ModelessJobs
    <2> DEFINE q == [req[r] EXCEPT !.pc = "claim_fail_closed"]
    <2>1. lastToken' = lastToken /\ receipt' = receipt /\ req[r].pc = "claim_mode"
        BY <1>3 DEF ClaimMode, db
    <2>2. req' = [req EXCEPT ![r] = q]
        BY <1>3 DEF IInv, TypeOK
    <2>3. /\ q \in Request /\ q.pc = "claim_fail_closed" /\ q.token = req[r].token
          /\ q.now = req[r].now /\ q.job = req[r].job /\ q.artifact = req[r].artifact
          /\ q.reply = req[r].reply /\ q.worker = req[r].worker
        BY <1>1, Zenon DEF Request, Steps
    <2> HIDE DEF q
    <2>4. Fit(q) /\ q.now <= clock /\ q.token <= lastToken'
        BY <1>1, <1>3, <2>1, <2>3 DEF Fit
    <2> QED BY <2>1, <2>2, <2>3, <2>4, OnwardSlot
<1>4. CASE Return(r)
    <2>1. lastToken' \in Nat
        BY <1>1 DEF ClaimExhausted, ClaimCas, ClaimMode, ClaimFailClosed, HeartbeatCas,
            FailRetry, FailTerminal, RequestDies
    <2> QED BY <1>4, <2>1, ReturnSlot
<1> QED BY <1>2, <1>3, <1>4, Zenon DEF ClaimExhausted, ClaimCas, ClaimMode, ClaimFailClosed,
           HeartbeatCas, FailRetry, FailTerminal, RequestDies

LEMMA CompleteSlot ==
    ASSUME IInv, NEW r \in Requests,
           CompleteRead(r) \/ CompleteBatch(r) \/ CompleteError(r) \/ CompleteRace(r)
    PROVE  NewSlot(r)
<1> DEFINE j == req[r].job
           a == req[r].artifact
<1>1. /\ req[r] \in Request /\ j \in Jobs /\ clock \in Nat
      /\ req[r].pc \in {"complete_read", "complete_batch", "complete_race"}
      /\ a \in Artifacts /\ req[r].token > 0
      /\ req[r].now <= clock /\ req[r].token <= lastToken /\ req[r].worker \in Workers
      /\ req[r].now > 0 /\ j \notin ModelessJobs
      /\ lastToken \in Nat /\ lastToken' = lastToken
    BY SlotFacts DEF CompleteRead, CompleteBatch, CompleteError, CompleteRace, Fit
<1>2. ASSUME req' = [req EXCEPT ![r] = Returned(j, "other")]
      PROVE  NewSlot(r)
    BY <1>1, <1>2, ReturnedGood, Zenon DEF NewSlot
<1>3. ASSUME NEW stored, receipt'[j] = stored, req' = [req EXCEPT ![r] = Replay(j, stored, a)]
      PROVE  NewSlot(r)
    BY <1>1, <1>3, ReplayGood, Zenon DEF NewSlot
<1>4. ASSUME NEW step \in {"complete_batch", "complete_race"}, NEW now \in Nat,
             now <= clock, now > 0, receipt' = receipt,
             req' = [req EXCEPT ![r] = [req[r] EXCEPT !.pc = step, !.now = now]]
      PROVE  NewSlot(r)
    <2> DEFINE q == [req[r] EXCEPT !.pc = step, !.now = now]
    <2>1. step \in Steps
        BY DEF Steps
    <2>2. /\ q \in Request /\ q.pc = step /\ q.now = now
          /\ q.token = req[r].token /\ q.job = j /\ q.artifact = a
          /\ q.reply = req[r].reply /\ q.worker = req[r].worker
        BY <1>1, <1>4, <2>1, Zenon DEF Request
    <2>3. req' = [req EXCEPT ![r] = q]
        BY <1>4
    <2> HIDE DEF q
    <2>4. Fit(q) /\ q.now <= clock /\ q.token <= lastToken'
          /\ q.pc \notin {"heartbeat", "fail_retry"}
        BY <1>1, <1>4, <2>2 DEF Fit
    <2> QED BY <1>4, <2>2, <2>3, <2>4, OnwardSlot
<1>5. ASSUME receipt' = receipt, req' = [req EXCEPT ![r].pc = "complete_race"]
      PROVE  NewSlot(r)
    <2>1. req' = [req EXCEPT ![r] = [req[r] EXCEPT !.pc = "complete_race", !.now = req[r].now]]
        BY <1>1, <1>5 DEF Request
    <2>2. req[r].now \in Nat
        BY SlotFacts
    <2> QED BY <1>1, <1>4, <1>5, <2>1, <2>2
<1>6. CASE CompleteRead(r)
    <2>1. receipt' = receipt
        BY <1>6 DEF CompleteRead, db
    <2>2. CASE job[j].status = "COMPLETED"
        <3>1. job[j].artifact = receipt'[j]
            BY <1>1, <2>1 DEF IInv, CompletionWhole
        <3>2. req' = [req EXCEPT ![r] = Replay(j, job[j].artifact, a)]
            BY <1>6, <2>2 DEF CompleteRead, IInv, TypeOK
        <3> QED BY <1>3, <3>1, <3>2
    <2>3. CASE req' = [req EXCEPT ![r] = [@ EXCEPT !.pc = "complete_batch", !.now = clock]]
        <3>1. req' = [req EXCEPT ![r] = [req[r] EXCEPT !.pc = "complete_batch", !.now = clock]]
            BY <2>3
        <3>2. clock <= clock /\ clock > 0
            BY ClockFacts
        <3> QED BY <1>1, <1>4, <2>1, <3>1, <3>2, Zenon
    <2> QED BY <1>2, <1>6, <2>2, <2>3 DEF CompleteRead
<1>7. CASE CompleteBatch(r)
    <2>1. CASE receipt' = receipt /\ req' = [req EXCEPT ![r].pc = "complete_race"]
        BY <1>5, <2>1
    <2>2. CASE /\ receipt'[j] = a
               /\ req' = [req EXCEPT ![r] = [Returned(j, "COMPLETED") EXCEPT !.artifact = a]]
        BY <1>1, <2>2, ReturnedWith, Zenon DEF NewSlot
    <2> QED BY <1>1, <1>2, <1>7, <2>1, <2>2 DEF CompleteBatch, IInv, TypeOK, db
<1>8. CASE CompleteError(r)
    BY <1>5, <1>8 DEF CompleteError, db
<1>9. CASE CompleteRace(r)
    <2>1. receipt' = receipt
        BY <1>9 DEF CompleteRace, db
    <2> QED BY <1>2, <1>3, <1>9, <2>1 DEF CompleteRace, IInv, TypeOK
<1> QED BY <1>6, <1>7, <1>8, <1>9

\* In every step each slot is unchanged or good.
LEMMA Slots ==
    ASSUME IInv, [Next]_vars
    PROVE  /\ req' \in [Requests -> Request]
           /\ \A r \in Requests : req'[r] = req[r] \/ SlotGood(req'[r])
<1>1. req \in [Requests -> Request]
    BY DEF IInv, TypeOK
<1>2. ASSUME NEW r \in Requests, NewSlot(r)
      PROVE  /\ req' \in [Requests -> Request]
             /\ \A i \in Requests : req'[i] = req[i] \/ SlotGood(req'[i])
    <2>1. PICK q : req' = [req EXCEPT ![r] = q] /\ SlotGood(q)
        BY <1>2 DEF NewSlot
    <2>2. q \in Request
        BY <2>1, Zenon DEF SlotGood
    <2> QED BY <1>1, <2>1, <2>2, Zenon
<1>3. CASE req' = req
    BY <1>1, <1>3
<1>4. ASSUME NEW r \in Requests, Call(r)
      PROVE  NewSlot(r)
    <2>1. CASE \E j \in Jobs : ClaimRefused(r, j)
        <3>1. PICK j \in Jobs : req' = [req EXCEPT ![r] = Returned(j, "other")] /\ lastToken' = lastToken
            BY <2>1, Zenon DEF ClaimRefused
        <3> QED BY <3>1, ReturnedGood, ClockFacts DEF NewSlot
    <2>2. CASE \E j \in Jobs, w \in Workers, d \in LeaseDurations : ClaimRead(r, j, w, d)
        BY <2>2, ClaimCallSlot, Zenon
    <2>3. CASE \E j \in Jobs \ ModelessJobs, w \in Workers, t \in Issued : FencedCall(r, j, w, t)
        BY <2>3, HeartbeatStartSlot, CompleteStartSlot, FailReadSlot, Zenon DEF FencedCall
    <2> QED BY <1>4, <2>1, <2>2, <2>3, Zenon DEF Call
<1>5. ASSUME NEW r \in Requests, Continue(r)
      PROVE  NewSlot(r)
    BY <1>5, ClaimSlot, CompleteSlot, Zenon DEF Continue
<1>6. ASSUME NEW c \in Crons, Scheduled(c)
      PROVE  req' = req
    BY <1>6, Zenon DEF Scheduled, FinalizeSelect, FinalizeBatch, RecoverSelect, RecoverBatch,
        RecoverSend, CronDies
<1>7. ASSUME NEW j \in Jobs, Operator(j) \/ Dispatcher(j)
      PROVE  req' = req
    BY <1>7, Zenon DEF Operator, Rearm, Rescue, RecoverTerminal, Reopen, Dispatcher,
        DispatchTake, DispatchSend, DispatchBackoff, Acknowledge
<1>8. CASE Tick \/ UNCHANGED vars
    BY <1>3, <1>8, Zenon DEF Tick, vars
<1> QED BY <1>2, <1>3, <1>4, <1>5, <1>6, <1>7, <1>8, Zenon DEF Next

-----------------------------------------------------------------------------
(* Scheduled slots *)

LEMMA BlankSeen == Blank \in SeenRow
BY RowConstants DEF Blank, Seen, NewJob, SeenRow

LEMMA SeenTyped ==
    ASSUME NEW row \in JobRow
    PROVE  Seen(row) \in SeenRow
BY DEF Seen, SeenRow, JobRow

LEMMA CronIdleTyped ==
    ASSUME NEW step \in CronSteps, NEW S \in SUBSET Jobs
    PROVE  /\ CronIdle \in CronSlot /\ CronIdle.pc = "idle" /\ CronIdle.now = 0
           /\ LET s == [CronIdle EXCEPT !.pc = step]
              IN  s \in CronSlot /\ s.pc = step /\ s.now = 0
           /\ LET s == [CronIdle EXCEPT !.pc = step, !.cands = S]
              IN  s \in CronSlot /\ s.pc = step /\ s.now = 0
BY BlankSeen, Zero, Zenon DEF CronIdle, CronSlot, CronSteps

\* A scheduled slot that the current step has written.
CronGood(s) ==
    /\ s \in CronSlot
    /\ s.now <= clock
    /\ s.pc = "finalize" =>
          \A j \in s.cands : Expired(s.seen[j], s.now) \/ AgedOut(s.seen[j], s.now)

LEMMA CronRest ==
    ASSUME IInv, NEW step \in CronSteps \ {"finalize"}, NEW S \in SUBSET Jobs
    PROVE  /\ CronGood([CronIdle EXCEPT !.pc = step, !.cands = S])
           /\ CronGood([CronIdle EXCEPT !.pc = step])
           /\ CronGood(CronIdle)
<1>1. ASSUME NEW s \in CronSlot, s.pc # "finalize", s.now = 0
      PROVE  CronGood(s)
    BY <1>1, ClockFacts DEF CronGood
<1>2. step \in CronSteps /\ step # "finalize" /\ "idle" # "finalize"
    OBVIOUS
<1> QED BY <1>1, <1>2, CronIdleTyped, Zenon

LEMMA SelectedGood ==
    ASSUME IInv, NEW step \in CronSteps, NEW S \in SUBSET Jobs,
           step = "finalize" => \A j \in S : Finalizable(job[j], clock)
    PROVE  CronGood(Selected(step, S))
<1> DEFINE s == Selected(step, S)
<1>1. /\ s.pc = step /\ s.now = clock /\ s.cands = S
      /\ s.seen = [j \in Jobs |-> IF j \in S THEN Seen(job[j]) ELSE Blank]
    BY DEF Selected
<1>2. ASSUME NEW j \in Jobs
      PROVE  s.seen[j] \in SeenRow
    BY <1>1, <1>2, BlankSeen, SeenTyped DEF IInv, TypeOK
<1>3. s \in CronSlot
    <2>1. s.seen \in [Jobs -> SeenRow]
        BY <1>1, <1>2, Zenon
    <2>2. clock \in Nat
        BY ClockFacts
    <2> QED BY <1>1, <2>1, <2>2, Zenon DEF Selected, CronSlot
<1>4. ASSUME step = "finalize", NEW j \in S
      PROVE  Expired(s.seen[j], s.now) \/ AgedOut(s.seen[j], s.now)
    <2>1. s.seen[j] = Seen(job[j]) /\ Finalizable(job[j], clock)
        BY <1>1, <1>4
    <2>2. s.seen[j].leaseExp = job[j].leaseExp /\ s.seen[j].leasedAt = job[j].leasedAt
        BY <2>1 DEF Seen
    <2> QED BY <1>1, <2>1, <2>2, Zenon DEF Finalizable, Expired, AgedOut
<1> HIDE DEF s
<1>5. clock <= clock
    BY ClockFacts
<1>6. CronGood(s)
    BY <1>1, <1>3, <1>4, <1>5, Zenon DEF CronGood
<1> QED BY <1>6 DEF s

LEMMA CronSlots ==
    ASSUME IInv, [Next]_vars
    PROVE  /\ cron' \in [Crons -> CronSlot]
           /\ \A c \in Crons : cron'[c] = cron[c] \/ CronGood(cron'[c])
<1>1. cron \in [Crons -> CronSlot]
    BY DEF IInv, TypeOK
<1>2. ASSUME NEW c \in Crons, NEW s, cron' = [cron EXCEPT ![c] = s], CronGood(s)
      PROVE  /\ cron' \in [Crons -> CronSlot]
             /\ \A i \in Crons : cron'[i] = cron[i] \/ CronGood(cron'[i])
    BY <1>1, <1>2, Zenon DEF CronGood
<1>3. CASE cron' = cron
    BY <1>1, <1>3
<1>4. ASSUME NEW c \in Crons, Scheduled(c)
      PROVE  \E s : cron' = [cron EXCEPT ![c] = s] /\ CronGood(s)
    <2> DEFINE Put(s) == cron' = [cron EXCEPT ![c] = s]
    <2>1. ASSUME NEW step \in CronSteps \ {"finalize"}, NEW S \in SUBSET Jobs,
                 Put(CronIdle) \/ Put([CronIdle EXCEPT !.pc = step])
                               \/ Put([CronIdle EXCEPT !.pc = step, !.cands = S])
          PROVE  \E s : Put(s) /\ CronGood(s)
        BY <2>1, CronRest, Zenon
    <2>2. /\ "recover_select" \in CronSteps \ {"finalize"} /\ "send" \in CronSteps \ {"finalize"}
          /\ {} \in SUBSET Jobs
        BY DEF CronSteps
    <2>3. CASE FinalizeSelect(c)
        <3>1. PICK S \in SUBSET {j \in Jobs : Finalizable(job[j], clock)} :
                  Put([CronIdle EXCEPT !.pc = "recover_select"]) \/ Put(Selected("finalize", S))
            BY <2>3, Zenon DEF FinalizeSelect, FirstOf
        <3>2. "finalize" \in CronSteps /\ S \in SUBSET Jobs
              /\ \A j \in S : Finalizable(job[j], clock)
            BY DEF CronSteps
        <3> QED BY <2>1, <2>2, <3>1, <3>2, SelectedGood, Zenon
    <2>4. CASE RecoverSelect(c)
        <3>1. PICK S \in SUBSET {j \in Jobs : LeaseRecoverable(job[j], clock)} :
                  Put(CronIdle) \/ Put(Selected("recover", S))
            BY <2>4, Zenon DEF RecoverSelect, FirstOf
        <3>2. "recover" \in CronSteps /\ "recover" # "finalize" /\ S \in SUBSET Jobs
            BY DEF CronSteps
        <3> QED BY <2>1, <2>2, <3>1, <3>2, SelectedGood, Zenon
    <2>5. CASE FinalizeBatch(c)
        BY <2>1, <2>2, <2>5, Zenon DEF FinalizeBatch
    <2>6. CASE RecoverBatch(c)
        <3> DEFINE hits == {j \in cron[c].cands : RecoverHits(job[j], cron[c].seen[j], cron[c].now)}
        <3>1. hits \in SUBSET Jobs
            BY <1>1 DEF CronSlot
        <3>2. Put(CronIdle) \/ Put([CronIdle EXCEPT !.pc = "send", !.cands = hits])
            BY <2>6, Zenon DEF RecoverBatch
        <3> HIDE DEF hits
        <3> QED BY <2>1, <2>2, <3>1, <3>2, Zenon
    <2>7. CASE RecoverSend(c)
        <3>1. PICK j \in cron[c].cands :
                  cron' = [cron EXCEPT ![c].cands = @ \ {j},
                                       ![c].pc = IF cron[c].cands = {j} THEN "idle" ELSE "send"]
            BY <2>7, Zenon DEF RecoverSend
        <3> DEFINE step == IF cron[c].cands = {j} THEN "idle" ELSE "send"
                   s == [cron[c] EXCEPT !.cands = cron[c].cands \ {j}, !.pc = step]
        <3>2. Put(s)
            BY <1>1, <3>1
        <3>3. /\ cron[c] \in CronSlot /\ cron[c].now <= clock /\ cron[c].cands \subseteq Jobs
              /\ step \in CronSteps /\ step # "finalize"
            BY <1>1 DEF CronSlot, CronSteps, IInv, ClockReadings
        <3>4. s \in CronSlot /\ s.pc = step /\ s.now = cron[c].now
            BY <3>3, Zenon DEF CronSlot
        <3> HIDE DEF s, step
        <3>5. CronGood(s)
            BY <3>3, <3>4 DEF CronGood
        <3> QED BY <3>2, <3>5, Zenon
    <2>8. CASE CronDies(c)
        BY <2>1, <2>2, <2>8, Zenon DEF CronDies
    <2> QED BY <1>4, <2>3, <2>4, <2>5, <2>6, <2>7, <2>8, Zenon DEF Scheduled
<1>5. ASSUME NEW r \in Requests, Call(r) \/ Continue(r)
      PROVE  cron' = cron
    BY <1>5, Zenon DEF Call, ClaimRefused, ClaimRead, FencedCall, HeartbeatStart, CompleteStart,
        FailRead, Continue, ClaimExhausted, ClaimCas, ClaimMode, ClaimFailClosed, HeartbeatCas,
        CompleteRead, CompleteBatch, CompleteError, CompleteRace, FailRetry, FailTerminal,
        RequestDies
<1>6. ASSUME NEW j \in Jobs, Operator(j) \/ Dispatcher(j)
      PROVE  cron' = cron
    BY <1>6, Zenon DEF Operator, Rearm, Rescue, RecoverTerminal, Reopen, Dispatcher,
        DispatchTake, DispatchSend, DispatchBackoff, Acknowledge
<1>7. CASE Tick \/ UNCHANGED vars
    BY <1>3, <1>7, Zenon DEF Tick, vars
<1> QED BY <1>2, <1>3, <1>4, <1>5, <1>6, <1>7, Zenon DEF Next

-----------------------------------------------------------------------------
(* The invariants about the rows of one job *)

AgreeAt(j) ==
    j \notin ModelessJobs =>
        /\ job[j].status = "PENDING"                 <=> order[j] = "PAID"
        /\ job[j].status \in {"PROCESSING", "RETRY"} <=> order[j] = "PROCESSING"
        /\ job[j].status = "COMPLETED"               <=> order[j] = "COMPLETED"
        /\ job[j].status = "FAILED"                  <=> order[j] = "FAILED"

LeadsAt(j) ==
    j \in ModelessJobs =>
        /\ job[j].status = "PENDING" <=> order[j] = "PAID"
        /\ job[j].status # "COMPLETED" /\ order[j] # "COMPLETED"
        /\ job[j].status = "FAILED" => order[j] = "FAILED"

ShapeAt(j) ==
    /\ job[j].status = "PROCESSING" <=> job[j].token # 0
    /\ job[j].status \in {"PENDING", "RETRY", "COMPLETED"} => Bare(job[j])
    /\ job[j].status = "PROCESSING" => ~Bare(job[j])
    /\ ~Bare(job[j]) => /\ job[j].owner \in Workers
                        /\ 0 < job[j].leasedAt
                        /\ job[j].leasedAt < job[j].leaseExp

BudgetAt(j) ==
    /\ job[j].attempts <= job[j].max
    /\ job[j].status \in {"PENDING", "RETRY"} => job[j].attempts < job[j].max

AgeAt(j) ==
    job[j].status = "PROCESSING" =>
        \E d \in LeaseDurations : job[j].leaseExp <= job[j].leasedAt + MaxJobAge + d

WholeAt(j) ==
    /\ job[j].artifact = receipt[j]
    /\ artifactRow[j] = receipt[j]
    /\ receipt[j] # NoArtifact <=> job[j].status = "COMPLETED"
    /\ receipt[j] # NoArtifact <=> order[j] = "COMPLETED"
    /\ delivery[j] <=> receipt[j] # NoArtifact

PastAt(j) == job[j].token <= lastToken /\ job[j].leasedAt <= clock

RowOK(j) ==
    AgreeAt(j) /\ LeadsAt(j) /\ ShapeAt(j) /\ BudgetAt(j) /\ AgeAt(j) /\ WholeAt(j) /\ PastAt(j)

\* The quantified invariants are RowOK of every job.
LEMMA RowsOK ==
    /\ IInv => \A j \in Jobs : RowOK(j)
    /\ (\A j \in Jobs : RowOK(j)) =>
           /\ JobOrderAgree /\ ModelessOrderLeads /\ LeaseShape /\ RetryHasAttempt /\ LeaseAgeBounded
           /\ CompletionWhole /\ \A j \in Jobs : PastAt(j)
BY ServiceConstants, Zenon DEF IInv, RowOK, AgreeAt, LeadsAt, ShapeAt, BudgetAt, AgeAt, WholeAt, PastAt, Bare, JobOrderAgree,
   ModelessOrderLeads, LeaseShape, RetryHasAttempt, LeaseAgeBounded, CompletionWhole, TokensIssued, ClockReadings

LEMMA RowTyped ==
    ASSUME IInv, NEW j \in Jobs
    PROVE  /\ job[j] \in JobRow
           /\ job[j].status \in JobStatus
           /\ job[j].token \in Nat /\ job[j].leasedAt \in Nat /\ job[j].leaseExp \in Nat
           /\ job[j].attempts \in Nat /\ job[j].max \in Nat
           /\ order[j] \in OrderStatus /\ receipt[j] \in Artifacts \cup {NoArtifact}
           /\ delivery[j] \in BOOLEAN
<1>1. job[j] \in JobRow
    BY DEF IInv, TypeOK
<1>2. job[j].attempts \in Nat /\ job[j].max \in Nat
    BY <1>1, RowConstants DEF JobRow
<1> QED BY <1>1, <1>2 DEF JobRow, IInv, TypeOK

\* Time passes and tokens are made; neither goes back.
LEMMA Counters ==
    ASSUME IInv, [Next]_vars
    PROVE  /\ clock' \in Nat /\ clock' > 0 /\ clock <= clock'
           /\ lastToken' \in Nat /\ lastToken <= lastToken'
<1>1. CASE UNCHANGED <<clock, lastToken>>
    BY <1>1, ClockFacts
<1>2. ASSUME NEW r \in Requests, Call(r)
      PROVE  UNCHANGED <<clock, lastToken>>
    BY <1>2, Zenon DEF Call, ClaimRefused, ClaimRead, FencedCall, HeartbeatStart, CompleteStart,
        FailRead
<1>3. ASSUME NEW r \in Requests, Continue(r)
      PROVE  clock' = clock /\ (lastToken' = lastToken \/ lastToken' = lastToken + 1)
    BY <1>3, Zenon DEF Continue, ClaimExhausted, ClaimCas, ClaimMode, ClaimFailClosed,
        HeartbeatCas, CompleteRead, CompleteBatch, CompleteError, CompleteRace, FailRetry,
        FailTerminal, RequestDies
<1>4. ASSUME NEW c \in Crons, Scheduled(c)
      PROVE  UNCHANGED <<clock, lastToken>>
    BY <1>4, Zenon DEF Scheduled, FinalizeSelect, FinalizeBatch, RecoverSelect, RecoverBatch,
        RecoverSend, CronDies
<1>5. ASSUME NEW j \in Jobs, Operator(j) \/ Dispatcher(j)
      PROVE  UNCHANGED <<clock, lastToken>>
    BY <1>5, Zenon DEF Operator, Rearm, Rescue, RecoverTerminal, Reopen, Dispatcher,
        DispatchTake, DispatchSend, DispatchBackoff, Acknowledge
<1>6. CASE clock' = clock /\ lastToken' = lastToken + 1
    BY <1>6, ClockFacts
<1>7. CASE clock' = clock + 1 /\ lastToken' = lastToken
    BY <1>7, ClockFacts
<1>8. UNCHANGED vars => UNCHANGED <<clock, lastToken>>
    BY DEF vars
<1>9. Tick => clock' = clock + 1 /\ lastToken' = lastToken
    BY DEF Tick
<1> QED BY <1>1, <1>2, <1>3, <1>4, <1>5, <1>6, <1>7, <1>8, <1>9, Zenon DEF Next

\* One move of the job keeps its rows in order.
LEMMA RowStep ==
    ASSUME IInv, NEW j \in Jobs, Move(j), job'[j] \in JobRow,
           clock' \in Nat, clock <= clock', lastToken' \in Nat, lastToken <= lastToken'
    PROVE  RowOK(j)'
<1> DEFINE row == job[j]
           new == job'[j]
<1>1. RowOK(j)
    BY RowsOK
<1>2. /\ row \in JobRow /\ row.status \in JobStatus
      /\ row.token \in Nat /\ row.leasedAt \in Nat /\ row.leaseExp \in Nat
      /\ row.attempts \in Nat /\ row.max \in Nat
      /\ order[j] \in OrderStatus /\ receipt[j] \in Artifacts \cup {NoArtifact}
      /\ delivery[j] \in BOOLEAN /\ clock \in Nat /\ lastToken \in Nat
    BY RowTyped, ClockFacts
<1>3. CASE Stay(j)
    BY <1>1, <1>2, <1>3 DEF Stay, Aside, RowOK, AgreeAt, LeadsAt, ShapeAt, BudgetAt, AgeAt, WholeAt,
        PastAt, Bare
<1>4. CASE ClaimMove(j)
    <2>1. PICK w \in Workers, now \in 1..clock, d \in LeaseDurations :
              /\ Claimable(row, order[j], now)
              /\ new = Claimed(row, w, lastToken + 1, now, d)
              /\ order'[j] = "PROCESSING" /\ lastToken' = lastToken + 1 /\ Aside(j)
        BY <1>4, Zenon DEF ClaimMove
    <2>2. /\ row.attempts < row.max /\ row.status \in {"PENDING", "RETRY", "PROCESSING"}
          /\ now \in Nat /\ 0 < now /\ now <= clock /\ d \in Nat /\ 0 < d
          /\ lastToken + 1 \in Nat /\ MaxJobAge \in Nat
        BY <1>2, <2>1, RowConstants DEF Claimable, Exhausted
    <2>3. /\ new.status = "PROCESSING" /\ new.owner = w /\ new.token = lastToken + 1
          /\ new.leasedAt = now /\ new.leaseExp = now + d
          /\ new.attempts = row.attempts + 1 /\ new.max = row.max
          /\ new.artifact = row.artifact
        <3>1. ~Exhausted(row) /\ row \in JobRow /\ lastToken + 1 \in Nat /\ now \in Nat
            BY <1>2, <2>2 DEF Exhausted
        <3> DEFINE claimed == Claimed(row, w, lastToken + 1, now, d)
        <3>2. /\ claimed.status = "PROCESSING" /\ claimed.owner = w
              /\ claimed.token = lastToken + 1
              /\ claimed.leasedAt = now /\ claimed.leaseExp = now + d
              /\ claimed.attempts = row.attempts + 1 /\ claimed.max = row.max
              /\ claimed.artifact = row.artifact
            <4> HIDE DEF row
            <4> QED BY <3>1, ClaimedRow
        <3>3. new = claimed
            BY <2>1
        <3> HIDE DEF claimed
        <3> QED BY <3>2, <3>3
    <2> HIDE DEF row, new
    <2>4. AgreeAt(j)' /\ LeadsAt(j)' /\ ShapeAt(j)' /\ BudgetAt(j)' /\ PastAt(j)'
        BY <1>2, <2>1, <2>2, <2>3 DEF row, new, AgreeAt, LeadsAt, ShapeAt, BudgetAt, PastAt, Bare
    <2>5. AgeAt(j)'
        BY <2>1, <2>2, <2>3 DEF row, new, AgeAt
    <2>6. WholeAt(j)'
        BY <1>1, <1>2, <2>1, <2>2, <2>3 DEF row, new, RowOK, WholeAt, Aside
    <2> QED BY <2>4, <2>5, <2>6 DEF RowOK
<1>5. CASE ExtendMove(j)
    <2>1. PICK now \in 1..clock, d \in LeaseDurations :
              /\ row.status = "PROCESSING"
              /\ row.leasedAt <= now /\ now - MaxJobAge <= row.leasedAt
              /\ new = Extended(row, now, d) /\ order'[j] = order[j] /\ Aside(j)
        BY <1>5, Zenon DEF ExtendMove
    <2>2. now \in Nat /\ 0 < now /\ d \in Nat /\ 0 < d /\ MaxJobAge \in Nat
        BY <1>2, <2>1, RowConstants
    <2>3. /\ new.leaseExp = now + d
          /\ new.status = row.status /\ new.owner = row.owner
          /\ new.token = row.token /\ new.leasedAt = row.leasedAt
          /\ new.attempts = row.attempts /\ new.max = row.max
          /\ new.artifact = row.artifact
        <3>1. row \in JobRow /\ now \in Nat /\ new = Extended(row, now, d)
            BY <1>2, <2>1, <2>2
        <3> HIDE DEF row, new
        <3> QED BY <3>1, ExtendedRow
    <2>4. ShapeAt(j)'
        <3>1. ~Bare(row) /\ ~Bare(new)
            BY <1>1, <2>1, <2>2, <2>3 DEF RowOK, ShapeAt, Bare
        <3>2. row.leasedAt < now + d /\ row.token # 0
            BY <1>1, <1>2, <2>1, <2>2 DEF RowOK, ShapeAt
        <3> QED BY <1>1, <1>2, <2>1, <2>3, <3>1, <3>2 DEF RowOK, ShapeAt
    <2>5. AgeAt(j)'
        BY <1>2, <2>1, <2>2, <2>3 DEF AgeAt
    <2>6. AgreeAt(j)' /\ LeadsAt(j)' /\ BudgetAt(j)' /\ PastAt(j)' /\ WholeAt(j)'
        BY <1>1, <1>2, <2>1, <2>2, <2>3 DEF RowOK, AgreeAt, LeadsAt, BudgetAt, PastAt, WholeAt, Aside
    <2> QED BY <2>4, <2>5, <2>6 DEF RowOK
<1>6. CASE CompleteMove(j)
    <2>1. PICK a \in Artifacts :
              /\ j \notin ModelessJobs
              /\ row.status = "PROCESSING" /\ order[j] = "PROCESSING"
              /\ new = Completed(row, a) /\ order'[j] = "COMPLETED"
              /\ receipt'[j] = a /\ artifactRow'[j] = a /\ delivery'[j] = TRUE
        BY <1>6, Zenon DEF CompleteMove
    <2>2. /\ new.status = "COMPLETED" /\ Bare(new) /\ new.token = 0
          /\ new.attempts = row.attempts /\ new.max = row.max /\ new.artifact = a
          /\ a # NoArtifact
        BY <1>2, <2>1, CompletedRow, RowConstants
    <2> QED BY <1>1, <1>2, <2>1, <2>2 DEF RowOK, AgreeAt, LeadsAt, ShapeAt, BudgetAt, AgeAt, WholeAt,
               PastAt, Bare
<1>7. CASE RetryMove(j)
    <2>1. PICK at \in Int :
              /\ row.status = "PROCESSING" /\ ~Exhausted(row)
              /\ new = Retried(row, at) /\ order'[j] = order[j] /\ Aside(j)
        BY <1>7, Zenon DEF RetryMove
    <2>2. /\ new.status = "RETRY" /\ Bare(new) /\ new.token = 0
          /\ new.attempts = row.attempts /\ new.max = row.max /\ new.artifact = row.artifact
        <3>1. row \in JobRow /\ new = Retried(row, at)
            BY <1>2, <2>1
        <3> HIDE DEF row, new
        <3> QED BY <3>1, RetriedRow
    <2> QED BY <1>1, <1>2, <2>1, <2>2 DEF RowOK, AgreeAt, LeadsAt, ShapeAt, BudgetAt, AgeAt, WholeAt,
               PastAt, Bare, Exhausted, Aside
<1>8. CASE FailMove(j)
    <2>1. PICK reason \in Reasons :
              /\ row.status = "PROCESSING"
              /\ new = Failed(row, reason) /\ FailOrder(j) /\ Aside(j)
        BY <1>8, Zenon DEF FailMove
    <2>2. /\ new.status = "FAILED" /\ Bare(new) /\ new.token = 0
          /\ new.attempts = row.attempts /\ new.max = row.max /\ new.artifact = row.artifact
        BY <1>2, <2>1, FailedRow
    <2> HIDE DEF row, new
    <2>3. AgreeAt(j)' /\ LeadsAt(j)'
        BY <1>1, <1>2, <2>1, <2>2 DEF row, new, RowOK, AgreeAt, LeadsAt, FailOrder,
            OrderStatus
    <2>4. ShapeAt(j)' /\ BudgetAt(j)' /\ AgeAt(j)' /\ PastAt(j)'
        BY <1>1, <1>2, <2>1, <2>2 DEF row, new, RowOK, ShapeAt, BudgetAt, AgeAt, PastAt, Bare
    <2>5. WholeAt(j)'
        BY <1>1, <2>1, <2>2 DEF row, new, RowOK, WholeAt, FailOrder, Aside
    <2> QED BY <2>3, <2>4, <2>5 DEF RowOK
<1>9. CASE FinalizeMove(j)
    <2>1. /\ row.status = "PROCESSING"
          /\ new = Finalized(row) /\ FailOrder(j) /\ Aside(j)
        BY <1>9, Zenon DEF FinalizeMove
    <2>2. /\ new.status = "FAILED" /\ new.token = 0 /\ new.owner = row.owner
          /\ new.leasedAt = row.leasedAt /\ new.leaseExp = row.leaseExp
          /\ new.attempts = row.attempts /\ new.max = row.max /\ new.artifact = row.artifact
        BY <1>2, <2>1, FinalizedRow
    <2> HIDE DEF row, new
    <2>3. AgreeAt(j)' /\ LeadsAt(j)'
        BY <1>1, <1>2, <2>1, <2>2 DEF row, new, RowOK, AgreeAt, LeadsAt, FailOrder,
            OrderStatus
    <2>4. ShapeAt(j)' /\ BudgetAt(j)' /\ AgeAt(j)' /\ PastAt(j)'
        BY <1>1, <1>2, <2>1, <2>2 DEF row, new, RowOK, ShapeAt, BudgetAt, AgeAt, PastAt, Bare
    <2>5. WholeAt(j)'
        BY <1>1, <2>1, <2>2 DEF row, new, RowOK, WholeAt, FailOrder, Aside
    <2> QED BY <2>3, <2>4, <2>5 DEF RowOK
<1>10. CASE ReopenMove(j)
    <2>1. /\ Reopenable(row) /\ order[j] = "FAILED" /\ receipt[j] = NoArtifact
          /\ new = Reopened(row) /\ order'[j] = "PROCESSING" /\ Aside(j)
        BY <1>10, Zenon DEF ReopenMove
    <2>2. /\ new.status = "RETRY" /\ Bare(new) /\ new.token = 0
          /\ new.attempts = row.attempts /\ new.max = row.max + 1
          /\ new.artifact = row.artifact
        BY <1>2, <2>1, ReopenedRow
    <2> QED BY <1>1, <1>2, <2>1, <2>2 DEF RowOK, AgreeAt, LeadsAt, ShapeAt, BudgetAt, AgeAt, WholeAt,
               PastAt, Bare, Reopenable, Aside
<1>11. CASE OrderOnlyMove(j)
    BY <1>1, <1>2, <1>11 DEF OrderOnlyMove, RowOK, AgreeAt, LeadsAt, ShapeAt, BudgetAt, AgeAt, WholeAt,
        PastAt, Bare, FailOrder, Aside
<1> QED BY <1>3, <1>4, <1>5, <1>6, <1>7, <1>8, <1>9, <1>10, <1>11 DEF Move

-----------------------------------------------------------------------------
(* Locals against rows *)

\* If a row still carries a token that a method has held since before this step,
\* it carried it before the step and is the same attempt under the same claim.
LEMMA TokenKeeps ==
    ASSUME IInv, NEW j \in Jobs, Move(j), NEW t \in Nat, t <= lastToken,
           job'[j].status = "PROCESSING", job'[j].token = t
    PROVE  /\ job[j].status = "PROCESSING" /\ job[j].token = t
           /\ job'[j].leasedAt = job[j].leasedAt
           /\ job'[j].attempts = job[j].attempts /\ job'[j].max = job[j].max
<1>1. job[j] \in JobRow /\ lastToken \in Nat /\ clock \in Nat
    BY RowTyped, ClockFacts
<1>2. CASE Stay(j) \/ OrderOnlyMove(j)
    BY <1>2 DEF Stay, OrderOnlyMove
<1>3. CASE ClaimMove(j)
    <2>1. PICK w \in Workers, now \in 1..clock, d \in LeaseDurations :
              Claimable(job[j], order[j], now) /\ job'[j] = Claimed(job[j], w, lastToken + 1, now, d)
        BY <1>3, Zenon DEF ClaimMove
    <2>2. now \in Nat /\ lastToken + 1 \in Nat /\ ~Exhausted(job[j])
        BY <1>1, <2>1 DEF Claimable
    <2>3. job'[j].token = lastToken + 1
        BY <1>1, <2>1, <2>2, ClaimedRow
    <2> QED BY <1>1, <2>3
<1>4. CASE ExtendMove(j)
    <2>1. PICK now \in 1..clock, d \in LeaseDurations :
              job[j].status = "PROCESSING" /\ job'[j] = Extended(job[j], now, d)
        BY <1>4, Zenon DEF ExtendMove
    <2>2. now \in Nat
        BY <1>1
    <2> DEFINE new == Extended(job[j], now, d)
    <2>3. /\ new.token = job[j].token /\ new.leasedAt = job[j].leasedAt
          /\ new.attempts = job[j].attempts /\ new.max = job[j].max
        BY <1>1, <2>2, ExtendedRow
    <2> QED BY <2>1, <2>3
<1>5. CASE CompleteMove(j)
    <2>1. PICK a \in Artifacts : job'[j] = Completed(job[j], a)
        BY <1>5, Zenon DEF CompleteMove
    <2> QED BY <1>1, <2>1, CompletedRow
<1>6. CASE RetryMove(j)
    <2>1. PICK at \in Int : job'[j] = Retried(job[j], at)
        BY <1>6, Zenon DEF RetryMove
    <2> QED BY <1>1, <2>1, RetriedRow
<1>7. CASE FailMove(j)
    <2>1. PICK reason \in Reasons : job'[j] = Failed(job[j], reason)
        BY <1>7, Zenon DEF FailMove
    <2> QED BY <1>1, <2>1, FailedRow
<1>8. CASE FinalizeMove(j)
    BY <1>1, <1>8, FinalizedRow DEF FinalizeMove
<1>9. CASE ReopenMove(j)
    BY <1>1, <1>9, ReopenedRow DEF ReopenMove
<1> QED BY <1>2, <1>3, <1>4, <1>5, <1>6, <1>7, <1>8, <1>9 DEF Move

\* A receipt that exists is not touched by any move, nor is its job.
LEMMA ReceiptStays ==
    ASSUME IInv, NEW j \in Jobs, Move(j), receipt[j] # NoArtifact
    PROVE  receipt'[j] = receipt[j] /\ job'[j] = job[j]
<1>1. job[j].status = "COMPLETED"
    BY DEF IInv, CompletionWhole
<1>2. CASE Stay(j) \/ OrderOnlyMove(j)
    BY <1>2 DEF Stay, OrderOnlyMove, Aside
<1> QED BY <1>1, <1>2 DEF Move, ClaimMove, ExtendMove, CompleteMove, RetryMove, FailMove,
           FinalizeMove, ReopenMove, Claimable, Reopenable

LEMMA LocalsStep ==
    ASSUME IInv, [Next]_vars
    PROVE  LocalsFit' /\ FencedReadsHold' /\ CompletedReplyTrue'
           /\ \A r \in Requests : req'[r].token <= lastToken' /\ req'[r].now <= clock'
<1>1. RowsMove
    BY Moves
<1>2. /\ req' \in [Requests -> Request]
      /\ \A r \in Requests : req'[r] = req[r] \/ SlotGood(req'[r])
    BY Slots
<1>3. /\ clock' \in Nat /\ clock <= clock' /\ lastToken' \in Nat /\ lastToken <= lastToken'
      /\ clock \in Nat /\ lastToken \in Nat
    BY Counters, ClockFacts
<1>4. ASSUME NEW r \in Requests
      PROVE  /\ Fit(req'[r])
             /\ StillMine(r)' =>
                   /\ req'[r].pc = "heartbeat" => job'[req'[r].job].leasedAt <= req'[r].now
                   /\ req'[r].pc = "fail_retry" => ~Exhausted(job'[req'[r].job])
             /\ req'[r].reply = "COMPLETED" => receipt'[req'[r].job] = req'[r].artifact
             /\ req'[r].token <= lastToken' /\ req'[r].now <= clock'
    <2>1. CASE SlotGood(req'[r])
        <3>1. req'[r].now \in Nat
            BY <1>2 DEF Request
        <3> QED BY <1>3, <2>1, <3>1 DEF SlotGood
    <2>2. CASE req'[r] = req[r]
        <3> DEFINE q == req[r]
                   j == req[r].job
        <3>1. /\ q \in Request /\ j \in Jobs /\ Fit(q) /\ q.token \in Nat /\ q.now \in Nat
              /\ q.token <= lastToken /\ q.now <= clock
            BY SlotFacts
        <3>2. Move(j)
            BY <1>1, <3>1 DEF RowsMove
        <3>3. q.token <= lastToken' /\ q.now <= clock'
            BY <1>3, <3>1
        <3>4. q.reply = "COMPLETED" => receipt'[j] = q.artifact
            <4>1. q.reply = "COMPLETED" => receipt[j] = q.artifact /\ q.artifact # NoArtifact
                BY <3>1, RowConstants DEF IInv, CompletedReplyTrue, Fit
            <4> QED BY <3>1, <3>2, <4>1, ReceiptStays
        <3>5. StillMine(r)' => /\ StillMine(r)
                               /\ job'[j].leasedAt = job[j].leasedAt
                               /\ job'[j].attempts = job[j].attempts
                               /\ job'[j].max = job[j].max
            BY <2>2, <3>1, <3>2, TokenKeeps DEF StillMine
        <3>6. StillMine(r) => /\ q.pc = "heartbeat" => job[j].leasedAt <= q.now
                              /\ q.pc = "fail_retry" => ~Exhausted(job[j])
            BY Zenon DEF IInv, FencedReadsHold
        <3> QED BY <2>2, <3>1, <3>3, <3>4, <3>5, <3>6 DEF Exhausted
    <2> QED BY <1>2, <2>1, <2>2
<1> QED BY <1>4, Zenon DEF LocalsFit, FencedReadsHold, CompletedReplyTrue

-----------------------------------------------------------------------------
(* The inductive invariant *)

LEMMA ReadyAndQueue ==
    ASSUME IInv, [Next]_vars
    PROVE  ready' \in [Jobs -> ReadyRow] /\ queue' \in [Jobs -> Nat]
<1>1. ready \in [Jobs -> ReadyRow] /\ queue \in [Jobs -> Nat]
    BY DEF IInv, TypeOK
<1>2. CASE UNCHANGED <<ready, queue>>
    BY <1>1, <1>2
<1>3. ASSUME NEW j \in Jobs
      PROVE  Enqueued(j) \in [Jobs -> Nat]
    BY <1>1, ServiceConstants DEF Enqueued
<1>4. ASSUME NEW r \in Requests, Call(r) \/ Continue(r)
      PROVE  UNCHANGED <<ready, queue>>
    BY <1>4, ZenonT(40) DEF Call, ClaimRefused, ClaimRead, FencedCall, HeartbeatStart, CompleteStart,
        FailRead, Continue, ClaimExhausted, ClaimCas, ClaimMode, ClaimFailClosed, HeartbeatCas,
        CompleteRead, CompleteBatch, CompleteError, CompleteRace, FailRetry, FailTerminal,
        RequestDies, db
<1>5. ASSUME NEW c \in Crons, Scheduled(c)
      PROVE  ready' = ready /\ queue' \in [Jobs -> Nat]
    <2>1. CASE RecoverSend(c)
        <3>1. cron[c].cands \subseteq Jobs
            BY DEF IInv, TypeOK, CronSlot
        <3> QED BY <1>1, <1>3, <2>1, <3>1, Zenon DEF RecoverSend, db
    <2>2. CASE UNCHANGED <<ready, queue>>
        BY <1>1, <2>2
    <2> QED BY <1>5, <2>1, <2>2, Zenon DEF Scheduled, FinalizeSelect, FinalizeBatch,
               RecoverSelect, RecoverBatch, CronDies, db
<1>6. ASSUME NEW j \in Jobs, Operator(j)
      PROVE  ready' \in [Jobs -> ReadyRow] /\ queue' = queue
    <2>1. NewReady \in ReadyRow
        BY DEF NewReady, ReadyRow
    <2>2. ready' = [ready EXCEPT ![j] = NewReady] /\ queue' = queue
        BY <1>6, Zenon DEF Operator, Rearm, Rescue, RecoverTerminal, Reopen
    <2> QED BY <1>1, <2>1, <2>2
<1>7. ASSUME NEW j \in Jobs, Dispatcher(j)
      PROVE  ready' \in [Jobs -> ReadyRow] /\ queue' \in [Jobs -> Nat]
    <2>1. CASE DispatchTake(j)
        BY <1>1, <2>1 DEF DispatchTake, ReadyRow
    <2>2. CASE DispatchSend(j)
        <3>1. queue' \in [Jobs -> Nat]
            BY <1>3, <2>2 DEF DispatchSend
        <3>2. CASE UNCHANGED ready
            BY <1>1, <3>1, <3>2
        <3>3. CASE ready' = [ready EXCEPT ![j].leased = FALSE, ![j].status = "SENT"]
            BY <1>1, <3>1, <3>3, Zenon DEF ReadyRow
        <3> QED BY <2>2, <3>2, <3>3 DEF DispatchSend
    <2>3. CASE DispatchBackoff(j)
        BY <1>1, <2>3, Zenon DEF DispatchBackoff, ReadyRow
    <2>4. CASE Acknowledge(j)
        BY <1>1, <2>4 DEF Acknowledge, db
    <2> QED BY <1>7, <2>1, <2>2, <2>3, <2>4 DEF Dispatcher
<1>8. CASE Tick \/ UNCHANGED vars
    BY <1>2, <1>8, Zenon DEF Tick, vars, db
<1> QED BY <1>2, <1>4, <1>5, <1>6, <1>7, <1>8, <1>1, Zenon DEF Next

LEMMA InitInvariant == Init => IInv
<1> SUFFICES ASSUME Init
             PROVE  IInv
    OBVIOUS
<1>1. NewJob \in JobRow
    BY RowConstants DEF NewJob, JobRow, JobStatus, Reasons
<1>2. NewReady \in ReadyRow
    BY DEF NewReady, ReadyRow
<1>3. CronIdle \in CronSlot /\ CronIdle.now = 0 /\ CronIdle.pc = "idle"
    <2>1. "idle" \in CronSteps /\ {} \in SUBSET Jobs
        BY DEF CronSteps
    <2> QED BY <2>1, CronIdleTyped
<1>4. ASSUME NEW j \in Jobs
      PROVE  LET q == Returned(j, "other")
             IN  /\ q \in Request /\ q.pc = "idle" /\ q.token = 0 /\ q.now = 0
                 /\ q.reply = "other"
    BY Zero, RowConstants, Zenon DEF Returned, Request, Replies, Steps, Reasons
<1>5. /\ clock = 1 /\ lastToken = 0
      /\ job = [j \in Jobs |-> NewJob] /\ order = [j \in Jobs |-> "PAID"]
      /\ receipt = [j \in Jobs |-> NoArtifact] /\ artifactRow = [j \in Jobs |-> NoArtifact]
      /\ delivery = [j \in Jobs |-> FALSE] /\ ready = [j \in Jobs |-> NewReady]
      /\ queue = [j \in Jobs |-> 0] /\ cron = [c \in Crons |-> CronIdle]
    BY DEF Init
<1>6. PICK j0 \in Jobs : req = [r \in Requests |-> Returned(j0, "other")]
    BY DEF Init
<1>7. /\ req \in [Requests -> Request]
      /\ \A r \in Requests : /\ req[r].pc = "idle" /\ req[r].token = 0 /\ req[r].now = 0
                            /\ req[r].reply = "other"
    BY <1>4, <1>6
<1>8. TypeOK
    <2>1. "PAID" \in OrderStatus
        BY DEF OrderStatus
    <2> QED BY <1>1, <1>2, <1>3, <1>5, <1>7, <2>1 DEF TypeOK
<1>9. \A j \in Jobs : RowOK(j)
    <2> SUFFICES ASSUME NEW j \in Jobs PROVE RowOK(j)
        OBVIOUS
    <2>1. /\ job[j].status = "PENDING" /\ job[j].owner = NoWorker /\ job[j].token = 0
          /\ job[j].leasedAt = 0 /\ job[j].leaseExp = 0
          /\ job[j].attempts = 0 /\ job[j].max = MaxAttempts /\ job[j].artifact = NoArtifact
          /\ order[j] = "PAID" /\ receipt[j] = NoArtifact /\ artifactRow[j] = NoArtifact
          /\ delivery[j] = FALSE
        BY <1>5 DEF NewJob
    <2> QED BY <1>5, <2>1, RowConstants DEF RowOK, AgreeAt, LeadsAt, ShapeAt, BudgetAt, AgeAt, WholeAt,
               PastAt, Bare
<1>10. LocalsFit /\ FencedReadsHold /\ CompletedReplyTrue
    BY <1>7 DEF LocalsFit, Fit, FencedReadsHold, CompletedReplyTrue
<1>11. TokensIssued /\ ClockReadings
    BY <1>3, <1>5, <1>7, <1>9 DEF RowOK, PastAt, TokensIssued, ClockReadings
<1>12. CandidatesFit
    BY <1>3, <1>5 DEF CandidatesFit
<1> QED BY <1>8, <1>9, <1>10, <1>11, <1>12, RowsOK, Zenon DEF IInv

LEMMA StepInvariant == IInv /\ [Next]_vars => IInv'
<1> SUFFICES ASSUME IInv, [Next]_vars
             PROVE  IInv'
    OBVIOUS
<1>1. RowsMove
    BY Moves
<1>2. /\ clock' \in Nat /\ clock' > 0 /\ clock <= clock'
      /\ lastToken' \in Nat /\ lastToken <= lastToken'
    BY Counters
<1>3. \A j \in Jobs : RowOK(j)'
    BY <1>1, <1>2, RowStep DEF RowsMove
<1>4. (\A j \in Jobs : RowOK(j))' =>
          /\ JobOrderAgree' /\ ModelessOrderLeads' /\ LeaseShape' /\ RetryHasAttempt' /\ LeaseAgeBounded'
          /\ CompletionWhole' /\ \A j \in Jobs : PastAt(j)'
    BY ServiceConstants, Zenon DEF RowOK, AgreeAt, LeadsAt, ShapeAt, BudgetAt, AgeAt, WholeAt, PastAt, Bare, JobOrderAgree,
       ModelessOrderLeads, LeaseShape, RetryHasAttempt, LeaseAgeBounded, CompletionWhole
<1>5. TypeOK'
    <2>1. ASSUME NEW j \in Jobs
          PROVE  /\ order'[j] \in OrderStatus
                 /\ receipt'[j] \in Artifacts \cup {NoArtifact}
                 /\ artifactRow'[j] \in Artifacts \cup {NoArtifact}
                 /\ delivery'[j] \in BOOLEAN
        <3>1. Move(j)
            BY <1>1, <2>1, Zenon DEF RowsMove
        <3>2. /\ order[j] \in OrderStatus
              /\ receipt[j] \in Artifacts \cup {NoArtifact}
              /\ artifactRow[j] \in Artifacts \cup {NoArtifact}
              /\ delivery[j] \in BOOLEAN
            BY DEF IInv, TypeOK
        <3> QED BY <3>1, <3>2, Zenon DEF Move, Stay, ClaimMove, ExtendMove, CompleteMove, RetryMove,
                   FailMove, FinalizeMove, ReopenMove, OrderOnlyMove, FailOrder, Aside, OrderStatus
    <2>2. /\ job' \in [Jobs -> JobRow]
          /\ order' \in [Jobs -> OrderStatus]
          /\ receipt' \in [Jobs -> Artifacts \cup {NoArtifact}]
          /\ artifactRow' \in [Jobs -> Artifacts \cup {NoArtifact}]
          /\ delivery' \in [Jobs -> BOOLEAN]
        BY <1>1, <2>1, Zenon DEF RowsMove, Tables
    <2> QED BY <1>2, <2>2, ReadyAndQueue, Slots, CronSlots DEF TypeOK
<1>6. LocalsFit' /\ FencedReadsHold' /\ CompletedReplyTrue'
    BY LocalsStep
<1>7. TokensIssued'
    BY <1>3, <1>4, LocalsStep, Zenon DEF PastAt, TokensIssued
<1>8. ASSUME NEW c \in Crons
      PROVE  /\ cron'[c].now <= clock'
             /\ cron'[c].pc = "finalize" => \A j \in cron'[c].cands :
                    Expired(cron'[c].seen[j], cron'[c].now) \/ AgedOut(cron'[c].seen[j], cron'[c].now)
    <2>1. cron[c].now <= clock /\ clock \in Nat
        BY ClockFacts DEF IInv, ClockReadings
    <2>2. cron'[c].now \in Nat /\ cron[c].now \in Nat
        BY CronSlots DEF CronSlot, IInv, TypeOK
    <2>3. CASE cron'[c] = cron[c]
        <3>1. cron[c].pc = "finalize" => \A j \in cron[c].cands :
                  Expired(cron[c].seen[j], cron[c].now) \/ AgedOut(cron[c].seen[j], cron[c].now)
            BY Zenon DEF IInv, CandidatesFit
        <3> QED BY <1>2, <2>1, <2>2, <2>3, <3>1
    <2>4. CASE CronGood(cron'[c])
        BY <1>2, <2>1, <2>2, <2>4 DEF CronGood
    <2> QED BY <2>3, <2>4, CronSlots
<1>9. ClockReadings'
    BY <1>3, <1>4, <1>8, LocalsStep, Zenon DEF PastAt, ClockReadings
<1>10. CandidatesFit'
    BY <1>8, Zenon DEF CandidatesFit
<1> QED BY <1>3, <1>4, <1>5, <1>6, <1>7, <1>9, <1>10, Zenon DEF IInv

\* The invariant of the whole service: what every reachable state satisfies, for any
\* number of jobs, workers, requests, scheduled invocations and attempts.
THEOREM Invariant == Spec => []IInv
<1> QED BY InitInvariant, StepInvariant, PTL DEF Spec

\* Every row, slot and counter keeps its type.
THEOREM TypeCorrect == Spec => []TypeOK
<1>1. IInv => TypeOK
    BY DEF IInv
<1> QED BY <1>1, Invariant, PTL

\* An order is FAILED, PROCESSING, COMPLETED exactly when its job says so, whatever
\* the interleaving of the methods that write the two in separate statements.
THEOREM JobAndOrderAgree == Spec => []JobOrderAgree
<1>1. IInv => JobOrderAgree
    BY DEF IInv
<1> QED BY <1>1, Invariant, PTL

\* An order without a mode is never delivered, and never outlives its FAILED job.
THEOREM ModelessOrdersLead == Spec => []ModelessOrderLeads
<1>1. IInv => ModelessOrderLeads
    BY DEF IInv
<1> QED BY <1>1, Invariant, PTL

\* Exactly a PROCESSING job has a lease, and residue is whole.
THEOREM LeasesWellShaped == Spec => []LeaseShape
<1>1. IInv => LeaseShape
    BY DEF IInv
<1> QED BY <1>1, Invariant, PTL

\* No job is left in RETRY with its attempts used up, although failJob's CAS does not
\* test them again: while the token matches they cannot have changed since its read.
THEOREM RetriesHaveAttempts == Spec => []RetryHasAttempt
<1>1. IInv => RetryHasAttempt
    BY DEF IInv
<1> QED BY <1>1, Invariant, PTL

\* Heartbeats prolong a lease by at most one extension past the age cap.
THEOREM LeasesAge == Spec => []LeaseAgeBounded
<1>1. IInv => LeaseAgeBounded
    BY DEF IInv
<1> QED BY <1>1, Invariant, PTL

\* The five statements of completeJob take effect together or not at all.
THEOREM CompletionIsWhole == Spec => []CompletionWhole
<1>1. IInv => CompletionWhole
    BY DEF IInv
<1> QED BY <1>1, Invariant, PTL

\* A COMPLETED reply is about the artifact that is stored, for every replay and race.
THEOREM CompletedRepliesTrue == Spec => []CompletedReplyTrue
<1>1. IInv => CompletedReplyTrue
    BY DEF IInv
<1> QED BY <1>1, Invariant, PTL

\* A completed job stays completed with the same receipt.
THEOREM CompletionIsForever == Spec => CompletedForever
<1>1. ASSUME IInv, [Next]_vars, NEW j \in Jobs, receipt[j] # NoArtifact
      PROVE  receipt'[j] = receipt[j] /\ job'[j].status = "COMPLETED"
    <2>1. Move(j)
        BY <1>1, Moves DEF RowsMove
    <2>2. receipt'[j] = receipt[j] /\ job'[j] = job[j]
        BY <1>1, <2>1, ReceiptStays
    <2> QED BY <1>1, <2>2 DEF IInv, CompletionWhole
<1>2. IInv /\ [Next]_vars =>
          [\A j \in Jobs : receipt[j] # NoArtifact =>
              receipt'[j] = receipt[j] /\ job'[j].status = "COMPLETED"]_vars
    BY <1>1
<1> QED BY <1>2, Invariant, PTL DEF Spec, CompletedForever

-----------------------------------------------------------------------------
(* The job service implements the contract *)

LEMMA ContractInit == Init => Contract!Init
<1> SUFFICES ASSUME Init PROVE Contract!Init
    OBVIOUS
<1>1. ASSUME NEW j \in Jobs
      PROVE  LifeOf(j) = [phase |-> "waiting", grants |-> 0, budget |-> MaxAttempts,
                          outcome |-> NoArtifact]
    BY DEF Init, NewJob, LifeOf, Phase
<1> QED BY <1>1, Zenon DEF Contract!Init

LEMMA LifeTypedNext ==
    ASSUME TypeOK', NEW j \in Jobs
    PROVE  LifeOf(j)' \in Contract!Life
<1>1. /\ job'[j] \in JobRow
      /\ receipt'[j] \in Artifacts \cup {NoArtifact} /\ delivery'[j] \in BOOLEAN
    BY DEF TypeOK
<1>2. job'[j].attempts \in Nat /\ job'[j].max \in Nat /\ job'[j].status \in JobStatus
    BY <1>1, RowConstants DEF JobRow
<1>3. Phase(job'[j].status) \in Contract!Phases
    BY <1>2 DEF Phase, JobStatus, Contract!Phases
<1> QED BY <1>1, <1>2, <1>3, Zenon DEF LifeOf, Contract!Life

LEMMA LifeStep ==
    ASSUME IInv, NEW j \in Jobs, Move(j)
    PROVE  LifeOf(j)' = LifeOf(j) \/ Contract!Moves(LifeOf(j), LifeOf(j)')
<1> DEFINE row == job[j]
           new == job'[j]
           sent == IF delivery[j] THEN receipt[j] ELSE NoArtifact
           sentNext == IF delivery'[j] THEN receipt'[j] ELSE NoArtifact
           old == LifeOf(j)
           then == LifeOf(j)'
<1>1. row \in JobRow /\ lastToken \in Nat /\ clock \in Nat
    BY RowTyped, ClockFacts
<1>2. /\ old = [phase |-> Phase(row.status), grants |-> row.attempts, budget |-> row.max,
                outcome |-> sent]
      /\ then = [phase |-> Phase(new.status), grants |-> new.attempts, budget |-> new.max,
                 outcome |-> sentNext]
      /\ Aside(j) => sentNext = sent
    BY Zenon DEF LifeOf, Aside
<1>3. /\ old.phase = Phase(row.status) /\ old.grants = row.attempts
      /\ old.budget = row.max /\ old.outcome = sent
      /\ then.phase = Phase(new.status) /\ then.grants = new.attempts
      /\ then.budget = new.max /\ then.outcome = sentNext
    <2> HIDE DEF sent, sentNext
    <2> QED BY <1>2
<1>4. /\ Phase("PENDING") = "waiting" /\ Phase("RETRY") = "waiting"
      /\ Phase("PROCESSING") = "held" /\ Phase("COMPLETED") = "delivered"
      /\ Phase("FAILED") = "failed"
    BY DEF Phase
<1>5. /\ row.status = "PROCESSING" => sent = NoArtifact
      /\ row.attempts \in Int /\ row.max \in Int
    BY <1>1, RowConstants DEF IInv, CompletionWhole, JobRow
<1> HIDE DEF old, then, sent, sentNext
<1>6. CASE Stay(j) \/ OrderOnlyMove(j)
    BY <1>2, <1>6, Zenon DEF Stay, OrderOnlyMove, old, then
<1>7. CASE ClaimMove(j)
    <2>1. PICK w \in Workers, now \in 1..clock, d \in LeaseDurations :
              /\ Claimable(row, order[j], now)
              /\ new = Claimed(row, w, lastToken + 1, now, d) /\ Aside(j)
        BY <1>7, Zenon DEF ClaimMove
    <2>2. now \in Nat /\ lastToken + 1 \in Nat /\ row.attempts < row.max /\ ~Exhausted(row)
        BY <1>1, <1>5, <2>1 DEF Claimable, Exhausted
    <2>3. new.status = "PROCESSING" /\ new.attempts = row.attempts + 1 /\ new.max = row.max
        <3> HIDE DEF row
        <3>1. LET c == Claimed(row, w, lastToken + 1, now, d)
              IN  c.status = "PROCESSING" /\ c.attempts = row.attempts + 1 /\ c.max = row.max
            BY <1>1, <2>2, ClaimedRow
        <3> QED BY <2>1, <3>1, Zenon
    <2>4. Phase(row.status) \in {"waiting", "held"}
        BY <1>4, <2>1, Zenon DEF Claimable
    <2>5. Contract!Granted(old, then)
        <3> HIDE DEF row, new
        <3> QED BY <1>2, <1>3, <1>4, <2>1, <2>2, <2>3, <2>4 DEF Contract!Granted, Contract!Same
    <2> QED BY <2>5, Zenon DEF old, then, Contract!Moves
<1>8. CASE ExtendMove(j)
    <2>1. PICK now \in 1..clock, d \in LeaseDurations :
              new = Extended(row, now, d) /\ Aside(j)
        BY <1>8, Zenon DEF ExtendMove
    <2>2. now \in Nat
        BY <1>1
    <2>3. new.status = row.status /\ new.attempts = row.attempts /\ new.max = row.max
        <3> HIDE DEF row
        <3>1. LET e == Extended(row, now, d)
              IN  e.status = row.status /\ e.attempts = row.attempts /\ e.max = row.max
            BY <1>1, <2>2, ExtendedRow
        <3> QED BY <2>1, <3>1, Zenon
    <2> QED BY <1>2, <2>1, <2>3, Zenon DEF old, then
<1>9. CASE CompleteMove(j)
    <2>1. PICK a \in Artifacts :
              /\ row.status = "PROCESSING" /\ new = Completed(row, a)
              /\ receipt'[j] = a /\ delivery'[j] = TRUE
        BY <1>9, Zenon DEF CompleteMove
    <2>2. new.status = "COMPLETED" /\ new.attempts = row.attempts /\ new.max = row.max
        BY <1>1, <2>1, CompletedRow
    <2>3. sentNext # NoArtifact
        BY <2>1, RowConstants DEF sentNext
    <2>4. Contract!Delivered(old, then)
        <3> HIDE DEF row, new
        <3> QED BY <1>3, <1>4, <1>5, <2>1, <2>2, <2>3 DEF Contract!Delivered
    <2> QED BY <2>4, Zenon DEF old, then, Contract!Moves
<1>10. CASE RetryMove(j)
    <2>1. PICK at \in Int :
              /\ row.status = "PROCESSING" /\ ~Exhausted(row)
              /\ new = Retried(row, at) /\ Aside(j)
        BY <1>10, Zenon DEF RetryMove
    <2>2. new.status = "RETRY" /\ new.attempts = row.attempts /\ new.max = row.max
        BY <1>1, <2>1, RetriedRow
    <2>3. Contract!Released(old, then)
        <3> HIDE DEF row, new
        <3> QED BY <1>2, <1>3, <1>4, <1>5, <2>1, <2>2 DEF Exhausted, Contract!Released, Contract!Same
    <2> QED BY <2>3, Zenon DEF old, then, Contract!Moves
<1>11. CASE FailMove(j) \/ FinalizeMove(j)
    <2>1. row.status = "PROCESSING" /\ Aside(j)
        BY <1>11, Zenon DEF FailMove, FinalizeMove
    <2>2. new.status = "FAILED" /\ new.attempts = row.attempts /\ new.max = row.max
        <3>1. CASE FailMove(j)
            <4>1. PICK reason \in Reasons : new = Failed(row, reason)
                BY <3>1, Zenon DEF FailMove
            <4> QED BY <1>1, <4>1, FailedRow
        <3>2. CASE FinalizeMove(j)
            BY <1>1, <3>2, FinalizedRow DEF FinalizeMove
        <3> QED BY <1>11, <3>1, <3>2
    <2>3. Contract!GivenUp(old, then)
        <3> HIDE DEF row, new
        <3> QED BY <1>2, <1>3, <1>4, <2>1, <2>2 DEF Contract!GivenUp, Contract!Same
    <2> QED BY <2>3, Zenon DEF old, then, Contract!Moves
<1>12. CASE ReopenMove(j)
    <2>1. Reopenable(row) /\ new = Reopened(row) /\ Aside(j)
        BY <1>12, Zenon DEF ReopenMove
    <2>2. new.status = "RETRY" /\ new.attempts = row.attempts /\ new.max = row.max + 1
        BY <1>1, <2>1, ReopenedRow
    <2>3. Contract!Reopened(old, then)
        <3> HIDE DEF row, new
        <3> QED BY <1>2, <1>3, <1>4, <1>5, <2>1, <2>2 DEF Reopenable, Contract!Reopened
    <2> QED BY <2>3, Zenon DEF old, then, Contract!Moves
<1> QED BY <1>6, <1>7, <1>8, <1>9, <1>10, <1>11, <1>12, Zenon DEF Move

\* What JobContract promises holds of the code's tables: the leases, compare-and-set
\* statements and batches implement it, for every value of the constants.
THEOREM Implements == Spec => ContractKept
<1>1. IInv /\ [Next]_vars => [Contract!Next]_([j \in Jobs |-> LifeOf(j)])
    <2> SUFFICES ASSUME IInv, [Next]_vars PROVE Contract!Next
        OBVIOUS
    <2>1. TypeOK'
        BY StepInvariant DEF IInv
    <2>2. \A j \in Jobs : LifeOf(j)' \in Contract!Life
        BY <2>1, LifeTypedNext
    <2>3. \A j \in Jobs : Move(j)
        BY Moves DEF RowsMove
    <2>4. \A j \in Jobs : LifeOf(j)' = LifeOf(j) \/ Contract!Moves(LifeOf(j), LifeOf(j)')
        BY <2>3, LifeStep
    <2> QED BY <2>2, <2>4, Zenon DEF Contract!Next
<1> QED BY <1>1, ContractInit, Invariant, PTL DEF Spec, ContractKept, Contract!Spec

-----------------------------------------------------------------------------
(* A live lease is ended by its holder, or by the age backstop *)

Ends(j) == job[j].status = "PROCESSING" /\ job[j].leaseExp > clock /\ Leaves(j)

Excused(j) == ByHolder(j) \/ (Exhausted(job[j]) /\ AgedOut(job[j], clock))

\* A slot that finished with the token the row carries is its holder.
LEMMA HolderEnds ==
    ASSUME IInv, NEW r \in Requests, NEW a \in Artifacts \cup {NoArtifact}, NEW answer,
           req[r].pc \in {"complete_batch", "fail_retry", "fail_terminal", "claim_fail_closed"},
           job[req[r].job].token = req[r].token,
           \/ Return(r)
           \/ req' = [req EXCEPT ![r] = Returned(req[r].job, answer)]
           \/ req' = [req EXCEPT ![r] = [Returned(req[r].job, answer) EXCEPT !.artifact = a]]
    PROVE  ByHolder(req[r].job)
<1>1. r \in DOMAIN req
    BY DEF IInv, TypeOK
<1>2. req'[r].pc = "idle"
    BY <1>1 DEF Return, Returned
<1> QED BY <1>2, Zenon DEF ByHolder

LEMMA RequestEnds ==
    ASSUME IInv, NEW r \in Requests, Continue(r), NEW j \in Jobs, Ends(j)
    PROVE  Excused(j)
<1> DEFINE q == req[r]
<1>1. /\ q.job \in Jobs /\ q.now <= clock /\ q.now \in Nat /\ clock \in Nat
      /\ job \in [Jobs -> JobRow] /\ order \in [Jobs -> OrderStatus]
      /\ job[j].leaseExp \in Nat
    BY SlotFacts, RowTyped DEF IInv, TypeOK
<1>2. ASSUME UNCHANGED job
      PROVE  FALSE
    BY <1>2 DEF Ends, Leaves
<1>3. j = q.job
    <2> SUFFICES ASSUME j # q.job
                 PROVE  job'[j] = job[j]
        BY DEF Ends, Leaves
    <2>1. CASE job' = job
        BY <2>1
    <2>2. CASE \E row : job' = [job EXCEPT ![q.job] = row]
        BY <1>1, <2>2
    <2> QED BY <2>1, <2>2, Zenon DEF Continue, ClaimExhausted, ClaimCas, ClaimMode,
               ClaimFailClosed, HeartbeatCas, CompleteRead, CompleteBatch, CompleteError,
               CompleteRace, FailRetry, FailTerminal, RequestDies, db
<1>4. CASE ClaimExhausted(r)
    BY <1>1, <1>2, <1>3, <1>4 DEF ClaimExhausted, Ends
<1>5. CASE ClaimCas(r)
    BY <1>1, <1>2, <1>3, <1>5 DEF ClaimCas, Ends, Claimable, Expired
<1>6. CASE ClaimFailClosed(r)
    <2>1. CASE job[j].token = q.token
        BY <1>3, <1>6, <2>1, HolderEnds DEF ClaimFailClosed, Excused
    <2>2. CASE job[j].token # q.token
        BY <1>1, <1>2, <1>3, <1>6, <2>2 DEF ClaimFailClosed
    <2> QED BY <2>1, <2>2
<1>7. CASE HeartbeatCas(r)
    <2>1. CASE job' = [job EXCEPT ![j] = Extended(job[j], q.now, q.lease)]
        <3>1. job'[j] = [job[j] EXCEPT !.leaseExp = q.now + q.lease]
            BY <1>1, <2>1 DEF Extended
        <3>2. job'[j].status = job[j].status /\ job'[j].token = job[j].token
            BY <1>1, <3>1 DEF JobRow
        <3> QED BY <3>2 DEF Ends, Leaves
    <2> QED BY <1>2, <1>3, <1>7, <2>1 DEF HeartbeatCas
<1>8. CASE CompleteBatch(r)
    <2>1. CASE HoldsLease(job[j], q.worker, q.token, q.now)
        <3>1. job[j].token = q.token /\ q.pc = "complete_batch"
            BY <1>3, <1>8, <2>1 DEF HoldsLease, CompleteBatch
        <3>2. job' # job
            BY <1>2
        <3>3. \/ req' = [req EXCEPT ![r] = Returned(q.job, "other")]
              \/ req' = [req EXCEPT ![r] = [Returned(q.job, "COMPLETED") EXCEPT
                                              !.artifact = q.artifact]]
            BY <1>3, <1>8, <3>2, Zenon DEF CompleteBatch, db
        <3>4. q.artifact \in Artifacts \cup {NoArtifact}
            BY SlotFacts DEF Request
        <3> QED BY <1>3, <3>1, <3>3, <3>4, HolderEnds DEF Excused
    <2>2. CASE ~HoldsLease(job[j], q.worker, q.token, q.now)
        BY <1>1, <1>2, <1>3, <1>8, <2>2 DEF CompleteBatch, db
    <2> QED BY <2>1, <2>2
<1>9. CASE FailRetry(r) \/ FailTerminal(r)
    <2>1. CASE HoldsLease(job[j], q.worker, q.token, q.now)
        BY <1>3, <1>9, <2>1, HolderEnds DEF FailRetry, FailTerminal, HoldsLease, Excused
    <2>2. CASE ~HoldsLease(job[j], q.worker, q.token, q.now)
        BY <1>1, <1>2, <1>3, <1>9, <2>2 DEF FailRetry, FailTerminal
    <2> QED BY <2>1, <2>2
<1> QED BY <1>2, <1>4, <1>5, <1>6, <1>7, <1>8, <1>9, Zenon DEF Continue, ClaimMode, CompleteRead,
           CompleteError, CompleteRace, RequestDies, db

LEMMA ScheduledEnds ==
    ASSUME IInv, NEW c \in Crons, Scheduled(c), NEW j \in Jobs, Ends(j)
    PROVE  Excused(j)
<1>1. /\ cron[c].now <= clock /\ cron[c].now \in Nat /\ clock \in Nat /\ MaxJobAge \in Nat
      /\ job[j].leaseExp \in Nat /\ job[j].leasedAt \in Nat
    BY ClockFacts, RowTyped, RowConstants DEF IInv, ClockReadings, TypeOK, CronSlot
<1>2. ASSUME job'[j] = job[j]
      PROVE  FALSE
    BY <1>2 DEF Ends, Leaves
<1>3. CASE FinalizeBatch(c)
    <2> DEFINE seen == cron[c].seen[j]
               now == cron[c].now
    <2>1. j \in cron[c].cands /\ FinalizeHits(job[j], seen, now)
        BY <1>2, <1>3, Zenon DEF FinalizeBatch
    <2>2. Expired(seen, now) \/ AgedOut(seen, now)
        BY <1>3, <2>1, Zenon DEF FinalizeBatch, IInv, CandidatesFit
    <2>3. ~Expired(seen, now)
        BY <1>1, <2>1 DEF FinalizeHits, Expired, Ends
    <2>4. job[j].leasedAt = seen.leasedAt /\ Exhausted(job[j])
        BY <2>1, <2>3, Zenon DEF FinalizeHits
    <2>5. AgedOut(job[j], clock)
        BY <1>1, <2>2, <2>3, <2>4 DEF AgedOut
    <2> QED BY <2>4, <2>5 DEF Excused
<1>4. CASE RecoverBatch(c)
    <2>1. RecoverHits(job[j], cron[c].seen[j], cron[c].now)
        BY <1>2, <1>4, Zenon DEF RecoverBatch
    <2> QED BY <1>1, <2>1 DEF RecoverHits, LeaseRecoverable, Expired, Ends
<1> QED BY <1>2, <1>3, <1>4, Zenon DEF Scheduled, FinalizeSelect, RecoverSelect, RecoverSend,
           CronDies, db

\* No claim, cron batch, operator recovery or late request ends a live lease of another.
THEOREM LiveLeasesRespected == Spec => LiveLeaseRespected
<1>1. ASSUME IInv, [Next]_vars, NEW j \in Jobs, Ends(j)
      PROVE  Excused(j)
    <2>1. ASSUME UNCHANGED job
          PROVE  FALSE
        BY <1>1, <2>1 DEF Ends, Leaves
    <2>2. ASSUME NEW i \in Jobs, Reopenable(job[i]), Reopen(i)
          PROVE  FALSE
        <3>1. job' = [job EXCEPT ![i] = Reopened(@)] /\ job[i].status = "FAILED"
            BY <2>2, Zenon DEF Reopen, Reopenable
        <3>2. job \in [Jobs -> JobRow]
            BY <1>1 DEF IInv, TypeOK
        <3> QED BY <1>1, <3>1, <3>2 DEF Ends, Leaves
    <2>3. ASSUME NEW i \in Jobs, Operator(i) \/ Dispatcher(i)
          PROVE  FALSE
        <3>1. ~Operator(i)
            BY <2>1, <2>2, Zenon DEF Operator, Rearm, Rescue, RecoverTerminal, Rescuable,
                Recoverable, db
        <3>2. ~Dispatcher(i)
            BY <2>1, Zenon DEF Dispatcher, DispatchTake, DispatchSend, DispatchBackoff,
                Acknowledge, db
        <3> QED BY <2>3, <3>1, <3>2
    <2>4. ASSUME NEW r \in Requests, Call(r)
          PROVE  FALSE
        BY <2>1, <2>4, ZenonT(40) DEF Call, ClaimRefused, ClaimRead, FencedCall, HeartbeatStart,
            CompleteStart, FailRead, db
    <2>5. ~(Tick \/ UNCHANGED vars)
        BY <2>1, Zenon DEF Tick, vars, db
    <2> QED BY <1>1, <2>3, <2>4, <2>5, RequestEnds, ScheduledEnds, Zenon DEF Next
<1>2. IInv /\ [Next]_vars =>
          [\A j \in Jobs :
              /\ job[j].status = "PROCESSING"
              /\ job[j].leaseExp > clock
              /\ Leaves(j)
              => ByHolder(j) \/ (Exhausted(job[j]) /\ AgedOut(job[j], clock))]_vars
    BY <1>1, Zenon DEF Ends, Excused
<1> QED BY <1>2, Invariant, PTL DEF Spec, LiveLeaseRespected
=============================================================================
