------------------------------- MODULE Runner -------------------------------
(***************************************************************************)
(* agent/src/runner.py with its clients, scratch directories and caches:   *)
(* one compute node that pulls queue messages, claims the job of each,     *)
(* builds its fonts in a worker thread, uploads and completes it, and      *)
(* acknowledges the message or gives it back.                              *)
(*                                                                         *)
(* The event loop handles one message at a time, but a build thread cannot *)
(* be stopped: when the wall of the job is hit the loop goes on to other   *)
(* messages while the thread is still at work.  The lease token of a job   *)
(* names an attempt <<job, n>>, its directory, its heartbeat and its       *)
(* thread.                                                                 *)
(*                                                                         *)
(* Abstractions.  A font is what it was made of, the attempt that made it  *)
(* and from what; the bytes of two runs may differ.  Sources, gates, HTTP and disks   *)
(* fail by choice.  The edge keeps of a job only what its replies depend   *)
(* on (module JobService has the rest); RETRY is READY.  The L2 model      *)
(* cache is never written under the atlas regime and is left out, as are   *)
(* orders with a preview and the division of an archive into parts.        *)
(*                                                                         *)
(* An operator X_Fault is X with a plausible slip, see D1Jobs.             *)
(***************************************************************************)
EXTENDS Integers, Sequences, FiniteSets

CONSTANTS
    Jobs,
    Family, Mode,       \* of the order of a job
    Binary,             \* styles of which an authorized binary font can be had
    Items,              \* its files: a sequence of [style, fmt]
    MaxAttempts,        \* max_attempts of a job
    BatchSize,          \* PULL_BATCH_SIZE
    Archiving,          \* whether there is a local archive (archive mode)
    MaxFaults           \* bound: how often the environment fails

Attempts == {a \in Jobs \X (1..10) : a[2] <= MaxAttempts[a[1]]}

Styles == UNION {{Items[j][i].style : i \in DOMAIN Items[j]} : j \in Jobs}

Sources == {<<Family[j], s>> : j \in Jobs, s \in Styles}

\* The archive identity of a file of an order.
Identity(j, i) == <<Family[j], Mode[j], Items[j][i].style, Items[j][i].fmt>>

Identities == UNION {{Identity(j, i) : i \in DOMAIN Items[j]} : j \in Jobs}

ASSUME RunnerConstants ==
    /\ Mode \in [Jobs -> {"ORIGINAL", "VIETNAMESE"}]
    /\ \A j \in Jobs : Len(Items[j]) \in Nat \ {0} /\ DOMAIN Items[j] = 1..Len(Items[j])
    /\ MaxAttempts \in [Jobs -> 1..10]
    /\ BatchSize \in Nat \ {0}
    /\ Archiving \in BOOLEAN
    /\ MaxFaults \in Nat

VARIABLES
    edge,               \* fulfillment_jobs, as far as replies depend on it
    queued,             \* visible messages of a job
    held,               \* messages of a job under a queue lease
    node,               \* the event loop
    thread,             \* build threads
    fenced,             \* attempts whose fenced_event is set
    beating,            \* attempts whose heartbeat loop runs
    wall,               \* how near the deadline of an attempt is
    dirs,               \* job directories on disk
    memory,             \* _atlas_reuse_state
    archive,            \* FinalFontArchive: index row and file
    observed,           \* sources with a completed collection in the store
    binaries,           \* AuthorizedBinaryCache
    faults              \* failures so far

vars == <<edge, queued, held, node, thread, fenced, beating, wall, dirs, memory,
          archive, observed, binaries, faults>>

messages == <<queued, held>>
caches == <<memory, archive, observed, binaries>>

Null == "none"

\* Where a file lies: in the directory of an attempt, or in a place that is not cleaned.
Durable == <<"durable", 0>>

NoThread == [pc |-> "none", made |-> <<>>, at |-> <<>>, fresh |-> {}, found |-> {}, code |-> Null]

\* leased: the jobs of the batch whose message is still under the lease of this pull.
IdleNode == [pc |-> "idle", batch |-> {}, leased |-> {}, job |-> Null, n |-> 0, i |-> 1,
             found |-> {}, code |-> Null]

This == <<node.job, node.n>>

\* The attempt is still the one the edge has granted the job to.
Holder(a) == edge[a[1]].status = "PROCESSING" /\ edge[a[1]].n = a[2]

Settled(j) == edge[j].status \in {"COMPLETED", "FAILED"}

\* The mapping f with x mapped to v.
With(f, x, v) == [y \in DOMAIN f \cup {x} |-> IF y = x THEN v ELSE f[y]]

Fault == faults < MaxFaults /\ faults' = faults + 1

NoFault == UNCHANGED faults

-----------------------------------------------------------------------------
Init ==
    /\ edge = [j \in Jobs |-> [status |-> "READY", n |-> 0, got |-> <<>>]]
    /\ queued = [j \in Jobs |-> 1]
    /\ held = [j \in Jobs |-> 0]
    /\ node = IdleNode
    /\ thread = [a \in Attempts |-> NoThread]
    /\ fenced = {} /\ beating = {} /\ dirs = {}
    /\ wall = [a \in Attempts |-> "open"]
    /\ memory = <<>>
    /\ archive = <<>>
    /\ observed = {}
    /\ binaries = [k \in Sources |-> Null]
    /\ faults = 0

(* The edge and the queue *)

\* A job that is not to be tried again fails; with attempts left it waits for a claim.
Released(j) == IF edge[j].n < MaxAttempts[j] THEN "READY" ELSE "FAILED"

\* A lease lapses - under a live heartbeat only by a failure - and the cron collects it
\* and sends a message for a job with attempts left; a failure to send is swallowed.
Lapse(j) ==
    LET woken == [queued EXCEPT ![j] = @ + 1]
    IN  /\ edge[j].status = "PROCESSING"
        /\ edge' = [edge EXCEPT ![j].status = Released(j)]
        /\ \/ /\ <<j, edge[j].n>> \notin beating /\ NoFault
              /\ queued' = IF Released(j) = "READY" THEN woken ELSE queued
           \/ /\ Fault
              /\ queued' \in {queued} \cup (IF Released(j) = "READY" THEN {woken} ELSE {})
        /\ UNCHANGED <<held, node, thread, fenced, beating, wall, dirs, caches>>

\* The visibility timeout: a message that is not acknowledged in time is visible again.
\* It is shorter than the wall and longer than any HTTP call, so it ends the lease of a
\* message in the batch only when much of the time of the job at hand is gone.
Redeliver(j) ==
    /\ \/ /\ j \in node.leased /\ node.n > 0 /\ wall[This] # "open"
          /\ node' = [node EXCEPT !.leased = @ \ {j}]
       \/ /\ held[j] > Cardinality({j} \cap node.leased)
          /\ UNCHANGED node
    /\ held' = [held EXCEPT ![j] = @ - 1]
    /\ queued' = [queued EXCEPT ![j] = @ + 1]
    /\ UNCHANGED <<edge, thread, fenced, beating, wall, dirs, caches, faults>>

(* One message, up to the claim *)

\* run_once: the messages of one pull are handled one after the other.
Pull ==
    /\ node.pc = "idle" /\ node.batch = {}
    /\ \E S \in SUBSET {j \in Jobs : queued[j] > 0} :
          /\ Cardinality(S) \in 1..BatchSize
          /\ node' = [node EXCEPT !.batch = S, !.leased = S]
          /\ queued' = [j \in Jobs |-> IF j \in S THEN queued[j] - 1 ELSE queued[j]]
          /\ held' = [j \in Jobs |-> IF j \in S THEN held[j] + 1 ELSE held[j]]
    /\ UNCHANGED <<edge, thread, fenced, beating, wall, dirs, caches, faults>>

Begin ==
    /\ node.pc = "idle"
    /\ \E j \in node.batch : node' = [node EXCEPT !.pc = "claim", !.job = j]
    /\ UNCHANGED <<edge, messages, thread, fenced, beating, wall, dirs, caches, faults>>

\* The job is claimed: directory and heartbeat of the attempt, and its wall is born.
ClaimGranted ==
    LET j == node.job
        a == <<j, edge[j].n + 1>>
    IN  /\ node.pc = "claim" /\ edge[j].status = "READY"
        /\ edge' = [edge EXCEPT ![j].status = "PROCESSING", ![j].n = @ + 1]
        /\ node' = [node EXCEPT !.pc = "probe", !.n = a[2]]
        /\ dirs' = dirs \cup {a}
        /\ beating' = beating \cup {a}
        /\ UNCHANGED <<messages, thread, fenced, wall, caches, faults>>

\* A message of a job that somebody is at is taken for a duplicate.
ClaimRefused_Acked ==
    /\ node.pc = "claim" /\ edge[node.job].status # "READY"
    /\ node' = [node EXCEPT !.pc = "ack"]
    /\ UNCHANGED <<edge, messages, thread, fenced, beating, wall, dirs, caches, faults>>

\* Nothing to do any more: acknowledge.  Somebody is at it: give back.
ClaimRefused ==
    LET j == node.job
    IN  /\ node.pc = "claim" /\ edge[j].status # "READY"
        /\ node' = [node EXCEPT !.pc = IF Settled(j) THEN "ack" ELSE "giveback"]
        /\ UNCHANGED <<edge, messages, thread, fenced, beating, wall, dirs, caches, faults>>

\* The answer is lost or malformed; the claim itself may have been granted.  An answer that
\* cannot be parsed ends the whole batch: run_loop starts over.
ClaimLost ==
    LET j == node.job
    IN  /\ node.pc = "claim" /\ Fault
        /\ edge' \in {edge} \cup
              (IF edge[j].status = "READY"
               THEN {[edge EXCEPT ![j].status = "PROCESSING", ![j].n = @ + 1]} ELSE {})
        /\ node' \in {[node EXCEPT !.pc = "giveback"], IdleNode}
        /\ UNCHANGED <<messages, thread, fenced, beating, wall, dirs, caches>>

(* One message, under the wall of its job: _execute_claimed_job *)

\* A row, its file and an attestation of that very file.
Hit(k) == Archiving /\ k \in DOMAIN archive /\ archive[k].attested = {archive[k].font}

Raised(code) == node' = [node EXCEPT !.pc = "fail", !.code = code]

Launched(a, t) ==
    /\ thread' = [thread EXCEPT ![a] = t]
    /\ node' = [node EXCEPT !.pc = "build"]

\* L1: the archive has every file of the order, and only then is it used as a whole.
Probe ==
    LET j == node.job
        all == Items[j]
    IN  /\ node.pc = "probe"
        /\ IF \A i \in DOMAIN all : Hit(Identity(j, i))
           THEN Launched(This, [NoThread EXCEPT !.pc = "seal",
                    !.made = [i \in DOMAIN all |-> archive[Identity(j, i)].font],
                    !.at = [i \in DOMAIN all |-> Durable]])
           ELSE /\ node' = [node EXCEPT !.pc = "acquire"]
                /\ UNCHANGED thread
        /\ UNCHANGED <<edge, messages, fenced, beating, wall, dirs, caches, faults>>

\* What acquisition of a source may come to: a binary font, if the source has one and the
\* order is ORIGINAL; else a completed collection of observations; or an error.
Acquired(j, src) ==
    \/ /\ Mode[j] = "ORIGINAL" /\ src[2] \in Binary
       /\ binaries' = [binaries EXCEPT ![src] = "good"]
       /\ node' = [node EXCEPT !.i = @ + 1, !.found = @ \cup {src[2]}]
       /\ UNCHANGED observed
    \/ /\ observed' = observed \cup {src}
       /\ node' = [node EXCEPT !.i = @ + 1]
       /\ UNCHANGED binaries
    \/ /\ \E code \in {"terminal", "retryable"} : Raised(code)
       /\ UNCHANGED <<observed, binaries>>

\* Of each file of the order in turn, what can be built from: a completed collection, the
\* L3 binary cache - where damage is an error - or the acquisition pipeline.
Acquire ==
    LET j == node.job
        src == <<Family[j], Items[j][node.i].style>>
        known == src \in observed \/ src[2] \in node.found
        l3 == IF Mode[j] = "ORIGINAL" THEN binaries[src] ELSE Null
    IN  /\ node.pc = "acquire" /\ node.i <= Len(Items[j])
        /\ \/ /\ known
              /\ node' = [node EXCEPT !.i = @ + 1]
              /\ UNCHANGED <<observed, binaries>>
           \/ /\ ~known /\ l3 = "damaged"
              /\ Raised("terminal")
              /\ UNCHANGED <<observed, binaries>>
           \/ /\ ~known /\ l3 = "good"
              /\ node' = [node EXCEPT !.i = @ + 1, !.found = @ \cup {src[2]}]
              /\ UNCHANGED <<observed, binaries>>
           \/ ~known /\ l3 = Null /\ Acquired(j, src)
        /\ UNCHANGED <<edge, messages, thread, fenced, beating, wall, dirs, memory, archive,
                       faults>>

StartBuild ==
    /\ node.pc = "acquire" /\ node.i > Len(Items[node.job])
    /\ Launched(This, [NoThread EXCEPT !.pc = "item", !.found = node.found])
    /\ UNCHANGED <<edge, messages, fenced, beating, wall, dirs, caches, faults>>

\* asyncio.to_thread returns.
Built ==
    LET t == thread[This]
    IN  /\ node.pc = "build" /\ t.pc \in {"done", "raised"}
        /\ IF t.pc = "done" THEN node' = [node EXCEPT !.pc = "upload"] ELSE Raised(t.code)
        /\ UNCHANGED <<edge, messages, thread, fenced, beating, wall, dirs, caches, faults>>

Cleaned == dirs' = dirs \ {This}

\* The heartbeat is not stopped.
Left_Beating(batch) ==
    /\ node' = [IdleNode EXCEPT !.batch = batch, !.leased = batch \cap node.leased]
    /\ UNCHANGED <<beating, thread, wall, fenced>>

\* The message is done with: the heartbeat is stopped, and nobody refers to the attempt any
\* more but its thread, if that is still at work.
Left(batch) ==
    /\ node' = [IdleNode EXCEPT !.batch = batch, !.leased = batch \cap node.leased]
    /\ beating' = beating \ {This}
    /\ IF node.n > 0 /\ thread[This].pc \in {"none", "done", "raised"}
       THEN /\ thread' = [thread EXCEPT ![This] = NoThread]
            /\ wall' = [wall EXCEPT ![This] = "open"]
            /\ fenced' = fenced \ {This}
       ELSE UNCHANGED <<thread, wall, fenced>>

Ended == Left(node.batch \ {node.job})

local == <<thread, wall, fenced>>

\* The artifact endpoint accepts it of the holder, unless the lease is nearly over.  A
\* fenced upload ends the message, which is neither acknowledged nor given back.
Upload ==
    /\ node.pc = "upload" /\ wall[This] # "over" /\ This \notin fenced
    /\ \/ Holder(This) /\ NoFault /\ node' = [node EXCEPT !.pc = "complete"]
          /\ UNCHANGED <<dirs, beating, local>>
       \/ NoFault /\ Cleaned /\ Ended
       \/ Fault /\ (node' = [node EXCEPT !.pc = "upfail"] \/ Raised("retryable"))
          /\ UNCHANGED <<dirs, beating, local>>
    /\ UNCHANGED <<edge, messages, caches>>

\* The D1 batch, if the attempt is the holder; the answer may be lost either way.
Complete ==
    LET j == node.job
        done == [edge EXCEPT ![j].status = "COMPLETED", ![j].got = thread[This].made]
    IN  /\ node.pc = "complete" /\ wall[This] # "over" /\ This \notin fenced
        /\ \/ /\ Holder(This) /\ NoFault
              /\ edge' = done
              /\ node' = [node EXCEPT !.pc = "finish"]
              /\ UNCHANGED <<dirs, beating, local>>
           \/ /\ ~Holder(This) /\ NoFault
              /\ Cleaned /\ Ended
              /\ UNCHANGED edge
           \/ /\ Fault                                         \* ambiguous
              /\ edge' \in {edge} \cup (IF Holder(This) THEN {done} ELSE {})
              /\ node' = [node EXCEPT !.pc = "giveback"] \/ Raised("retryable")
              /\ UNCHANGED <<dirs, beating, local>>
           \/ /\ Fault /\ Cleaned                              \* refused
              /\ node' = [node EXCEPT !.pc = "giveback"]
              /\ UNCHANGED <<edge, beating, local>>
        /\ UNCHANGED <<messages, caches>>

\* The liveness fence.
FenceSeen ==
    /\ node.pc \in {"upload", "complete"}
    /\ This \in fenced
    /\ Raised("fenced")
    /\ UNCHANGED <<edge, messages, thread, fenced, beating, wall, dirs, caches, faults>>

UnderWall ==
    \/ node.pc \in {"acquire", "build", "upload", "upfail", "complete", "finish"}
    \/ node.pc \in {"ack", "giveback"} /\ node.n > 0 /\ node.code = Null

\* The wall is hit at whichever await the message is: the heartbeat is stopped first.
WallHit ==
    /\ UnderWall /\ wall[This] = "over"
    /\ beating' = beating \ {This}
    /\ Raised("wall")
    /\ UNCHANGED <<edge, messages, thread, fenced, wall, dirs, caches, faults>>

-----------------------------------------------------------------------------
(* How a message ends *)

\* POST fail of the holder, retryable or not.
FailedAt(j, code) ==
    [edge EXCEPT ![j].status = IF code = "retryable" THEN Released(j) ELSE "FAILED"]

\* A fenced attempt just drops its message.  Otherwise the job is failed, and the answer
\* says what becomes of the message; without an answer it is given back.  An answer that
\* cannot be parsed ends the batch, and the directory stays.
Fail ==
    LET j == node.job
        failed == IF Holder(This) THEN FailedAt(j, node.code) ELSE edge
        waits == Holder(This) /\ failed[j].status = "READY"
    IN  /\ node.pc = "fail"
        /\ \/ /\ node.code = "fenced" /\ NoFault
              /\ Cleaned /\ Ended
              /\ UNCHANGED edge
           \/ /\ node.code # "fenced" /\ NoFault
              /\ edge' = failed
              /\ node' = [node EXCEPT !.pc = IF waits THEN "giveback" ELSE "ack"]
              /\ Cleaned /\ UNCHANGED <<beating, local>>
           \/ /\ node.code # "fenced" /\ Fault
              /\ edge' \in {edge, failed}
              /\ \/ /\ node' = [node EXCEPT !.pc = "giveback"]
                    /\ Cleaned /\ UNCHANGED <<beating, local>>
                 \/ /\ Left({})
                    /\ UNCHANGED dirs
        /\ UNCHANGED <<messages, caches>>

\* After a failed upload the job is failed too, and the answer is not looked at.
UploadFailed ==
    LET j == node.job
    IN  /\ node.pc = "upfail" /\ wall[This] # "over"
        /\ \/ NoFault /\ edge' = IF Holder(This) THEN FailedAt(j, "retryable") ELSE edge
           \/ Fault /\ UNCHANGED edge
        /\ node' = [node EXCEPT !.pc = "giveback"]
        /\ Cleaned
        /\ UNCHANGED <<messages, thread, fenced, beating, wall, caches>>

\* An acknowledgement that does not arrive is not repeated, nor is one of a lease the
\* queue has ended.
Acknowledge ==
    LET j == node.job
    IN  /\ node.pc \in {"ack", "finish"}
        /\ \/ NoFault /\ held' = [held EXCEPT ![j] = IF j \in node.leased THEN @ - 1 ELSE @]
           \/ Fault /\ UNCHANGED held
        /\ Cleaned /\ Ended
        /\ UNCHANGED <<edge, queued, caches>>

GiveBack ==
    LET j == node.job
    IN  /\ node.pc = "giveback"
        /\ \/ /\ NoFault
              /\ held' = [held EXCEPT ![j] = IF j \in node.leased THEN @ - 1 ELSE @]
              /\ queued' = [queued EXCEPT ![j] = IF j \in node.leased THEN @ + 1 ELSE @]
           \/ Fault /\ UNCHANGED messages
        /\ Ended
        /\ UNCHANGED <<edge, dirs, caches>>

-----------------------------------------------------------------------------
(* The build thread: _sync_build_validate_and_package *)

Clear(a) == a \notin fenced /\ wall[a] = "open"

Step(a, t) == thread' = [thread EXCEPT ![a] = t]

Failing(a, code) == Step(a, [thread[a] EXCEPT !.pc = "raised", !.code = code])

\* Files, of job a[1], that the thread has not made yet.
Wanted(a) == Identity(a[1], Len(thread[a].made) + 1)

Missing(a) == Len(thread[a].made) < Len(Items[a[1]])

\* The next file is font f, in place p, to be archived if it passed a gate here.
Made(a, f, p, gated) ==
    LET i == Len(thread[a].made) + 1
    IN  Step(a, [thread[a] EXCEPT !.pc = "item",
                    !.made = Append(@, f),
                    !.at = Append(@, p),
                    !.fresh = IF gated /\ Archiving THEN @ \cup {i} ELSE @])

Exists(p) == p = Durable \/ p \in dirs

\* One path for all the formats of an order.
FontOf_Fault(k, a, from) ==
    [of |-> [k EXCEPT ![4] = Items[a[1]][1].fmt], run |-> a, from |-> from]

FontOf(k, a, from) == [of |-> k, run |-> a, from |-> from]

\* The checks between two files, before packaging and after it stop the thread.
ThreadStops(a) ==
    /\ thread[a].pc \in {"item", "seal", "check"} /\ ~Clear(a)
    /\ Failing(a, IF a \in fenced THEN "fenced" ELSE "wall")
    /\ dirs' = IF thread[a].pc = "check" /\ a \notin fenced THEN dirs \ {a} ELSE dirs
    /\ UNCHANGED <<edge, messages, node, fenced, beating, wall, caches, faults>>

\* A gate, a source, the validator, the disk or the index of the archive fails.
ThreadRaises(a) ==
    /\ \/ /\ thread[a].pc \in {"item", "run"}
          /\ \E code \in {"terminal", "retryable"} : Failing(a, code)
       \/ /\ thread[a].pc \in {"put", "insert", "attest", "seal"}
          /\ Failing(a, "retryable")
    /\ UNCHANGED <<edge, messages, node, fenced, beating, wall, dirs, caches, faults>>

\* L1 for one file.
TakeArchived(a) ==
    /\ thread[a].pc = "item" /\ Missing(a) /\ Clear(a)
    /\ Hit(Wanted(a))
    /\ Made(a, archive[Wanted(a)].font, Durable, FALSE)
    /\ UNCHANGED <<edge, messages, node, fenced, beating, wall, dirs, caches, faults>>

\* L3: a binary font is converted and passes the gate; for ORIGINAL orders only.
TakeBinary(a) ==
    LET k == Wanted(a)
    IN  /\ thread[a].pc = "item" /\ Missing(a) /\ Clear(a)
        /\ ~Hit(k) /\ k[3] \in thread[a].found /\ k[2] = "ORIGINAL"
        /\ Made(a, FontOf(k, a, "binary"), a, TRUE)
        /\ dirs' = dirs \cup {a}
        /\ UNCHANGED <<edge, messages, node, fenced, beating, wall, caches, faults>>

\* L4, for which Acquire has found or made the observations: the atlas run of this style
\* that is remembered, whichever order it was made for, or a new one.
TakeRun(a) ==
    LET k == Wanted(a)
        run == memory[k[3]]
    IN  /\ thread[a].pc = "item" /\ Missing(a) /\ Clear(a)
        /\ ~Hit(k) /\ ~(k[3] \in thread[a].found /\ k[2] = "ORIGINAL")
        /\ \/ /\ k[3] \notin DOMAIN memory
              /\ Step(a, [thread[a] EXCEPT !.pc = "run"])
           \/ /\ k[3] \in DOMAIN memory /\ Exists(run.at)
              /\ Made(a, FontOf(<<run.family, run.mode, k[3], k[4]>>, run.by, "atlas"), run.at, TRUE)
           \/ /\ k[3] \in DOMAIN memory /\ ~Exists(run.at)
              /\ Failing(a, "retryable")
        /\ UNCHANGED <<edge, messages, node, fenced, beating, wall, dirs, caches, faults>>

\* A run ends with fonts in the durable cache of the job or, when a binary or the fonts of
\* an earlier run of the job won, in the directory of the attempt; it is remembered.
RunEnds(a) ==
    LET k == Wanted(a)
        src == <<k[1], k[3]>>
    IN  /\ thread[a].pc = "run"
        /\ k[2] = "ORIGINAL" => binaries[src] # "damaged"
        /\ \E p \in {a, Durable} :
              /\ memory' = With(memory, k[3],
                               [family |-> k[1], mode |-> k[2], by |-> a, at |-> p])
              /\ Made(a, FontOf(k, a, "atlas"), p, TRUE)
              /\ dirs' = IF p = a THEN dirs \cup {a} ELSE dirs
        /\ UNCHANGED <<edge, messages, node, fenced, beating, wall, archive, observed,
                       binaries, faults>>

\* All gates have passed: what was made here is archived, file by file.
GatesPassed(a) ==
    /\ thread[a].pc = "item" /\ ~Missing(a) /\ Clear(a)
    /\ Step(a, [thread[a] EXCEPT !.pc = IF thread[a].fresh = {} THEN "seal" ELSE "put"])
    /\ UNCHANGED <<edge, messages, node, fenced, beating, wall, dirs, caches, faults>>

NextFresh(a) == CHOOSE i \in thread[a].fresh : \A h \in thread[a].fresh : i <= h

\* The variables of the loop over the files, after the loop.
Entry_Last(a) == Identity(a[1], Len(thread[a].made))

Entry(a) == Identity(a[1], NextFresh(a))

\* archive.put: an entry that is there already stays.
ArchiveLooks(a) ==
    /\ thread[a].pc = "put"
    /\ IF Exists(thread[a].at[NextFresh(a)])
       THEN Step(a, [thread[a] EXCEPT !.pc = IF Entry(a) \in DOMAIN archive
                                             THEN "attest" ELSE "insert"])
       ELSE Failing(a, "retryable")
    /\ UNCHANGED <<edge, messages, node, fenced, beating, wall, dirs, caches, faults>>

\* The file is copied and synced, and the index row replaced, without attestation.
ArchiveInserts(a) ==
    /\ thread[a].pc = "insert"
    /\ archive' = With(archive, Entry(a),
                      [font |-> thread[a].made[NextFresh(a)], attested |-> {}])
    /\ Step(a, [thread[a] EXCEPT !.pc = "attest"])
    /\ UNCHANGED <<edge, messages, node, fenced, beating, wall, dirs, memory, observed,
                   binaries, faults>>

\* put_attested: the attestation of the font made here, whatever the row holds.
ArchiveAttests(a) ==
    LET i == NextFresh(a)
        rest == thread[a].fresh \ {i}
    IN  /\ thread[a].pc = "attest"
        /\ archive' = [archive EXCEPT ![Entry(a)].attested = {thread[a].made[i]}]
        /\ Step(a, [thread[a] EXCEPT !.fresh = rest,
                                     !.pc = IF rest = {} THEN "seal" ELSE "put"])
        /\ UNCHANGED <<edge, messages, node, fenced, beating, wall, dirs, memory, observed,
                       binaries, faults>>

\* package_job_output reads the files and writes the archive of the order.
Package(a) ==
    /\ thread[a].pc = "seal" /\ Clear(a)
    /\ \/ /\ \A i \in DOMAIN thread[a].at : Exists(thread[a].at[i])
          /\ Step(a, [thread[a] EXCEPT !.pc = "check"])
       \/ /\ \E i \in DOMAIN thread[a].at : ~Exists(thread[a].at[i])
          /\ Failing(a, "retryable")
    /\ dirs' = dirs \cup {a}
    /\ UNCHANGED <<edge, messages, node, fenced, beating, wall, caches, faults>>

Checked(a) ==
    /\ thread[a].pc = "check" /\ Clear(a)
    /\ Step(a, [thread[a] EXCEPT !.pc = "done"])
    /\ UNCHANGED <<edge, messages, node, fenced, beating, wall, dirs, caches, faults>>

Thread(a) ==
    \/ ThreadStops(a) \/ ThreadRaises(a)
    \/ TakeArchived(a) \/ TakeBinary(a) \/ TakeRun(a) \/ RunEnds(a) \/ GatesPassed(a)
    \/ ArchiveLooks(a) \/ ArchiveInserts(a) \/ ArchiveAttests(a)
    \/ Package(a) \/ Checked(a)

-----------------------------------------------------------------------------
(* Heartbeat, time and crashes *)

\* A beat is answered 409.
BeatFenced(a) ==
    /\ a \in beating /\ ~Holder(a)
    /\ fenced' = fenced \cup {a}
    /\ beating' = beating \ {a}
    /\ UNCHANGED <<edge, messages, node, thread, wall, dirs, caches, faults>>

\* Beats fail for so long that the lease is taken for lost.
BeatsLost(a) ==
    /\ a \in beating /\ a \notin fenced /\ Fault
    /\ fenced' = fenced \cup {a}
    /\ UNCHANGED <<edge, messages, node, thread, beating, wall, dirs, caches>>

\* The wall comes near - the thread keeps a margin - and is over.
TimePasses(a) ==
    /\ a = This /\ UnderWall /\ wall[a] # "over"
    /\ wall' = [wall EXCEPT ![a] = IF @ = "open" THEN "near" ELSE "over"]
    /\ UNCHANGED <<edge, messages, node, thread, fenced, beating, dirs, caches, faults>>

\* The process ends and is started again.  Memory and threads are gone; directories of
\* yesterday are pruned, that of the binary cache among them; what was written to it
\* without sync may be lost with the power.
Crash ==
    /\ Fault
    /\ node' = IdleNode
    /\ thread' = [a \in Attempts |-> NoThread]
    /\ wall' = [a \in Attempts |-> "open"]
    /\ memory' = <<>>
    /\ beating' = {} /\ fenced' = {}
    /\ \E old \in SUBSET dirs : dirs' = dirs \ old
    /\ \E bad \in SUBSET Sources :
          binaries' = [k \in Sources |-> IF k \in bad /\ binaries[k] = "good" THEN "damaged"
                                         ELSE binaries[k]]
    /\ UNCHANGED <<edge, messages, archive, observed>>

-----------------------------------------------------------------------------
Message ==
    \/ Pull \/ Begin \/ ClaimGranted \/ ClaimRefused \/ Probe \/ StartBuild \/ Built
    \/ Upload \/ Complete \/ FenceSeen \/ WallHit \/ Fail \/ UploadFailed
    \/ Acknowledge \/ GiveBack

Next ==
    \/ Message \/ ClaimLost \/ Acquire \/ Crash
    \/ \E a \in Attempts : Thread(a) \/ BeatFenced(a) \/ BeatsLost(a) \/ TimePasses(a)
    \/ \E j \in Jobs : Lapse(j) \/ Redeliver(j)

Spec == Init /\ [][Next]_vars

\* The loop goes on and its HTTP calls end by their timeouts, time passes, the cron and
\* the queue do their part.  Nothing is assumed of acquisition and of build threads: they
\* may hang.
Fairness ==
    /\ WF_vars(Message)
    /\ \A a \in Attempts : WF_vars(TimePasses(a))
    /\ \A j \in Jobs : WF_vars(Lapse(j)) /\ WF_vars(Redeliver(j))

FairSpec == Spec /\ Fairness

-----------------------------------------------------------------------------
(* Properties *)

Ordered(j) == {Items[j][i].style : i \in DOMAIN Items[j]}

\* A font may stand for an identity: it has its style and format, and the family and mode of
\* the very order it was made for.  That is another order than the one it stands for only if
\* the font is of an atlas run, of an order for the same style: a remembered run is known by
\* its style alone.
StandsFor(font, k) ==
    LET maker == font.run[1]
    IN  /\ font.of = <<Family[maker], Mode[maker], k[3], k[4]>>
        /\ font.of # k => font.from = "atlas" /\ k[3] \in Ordered(maker)

\* What the edge delivers for an order are its files: as many, each in its style and format,
\* and of its family and mode too, unless an atlas run of another order for that style was
\* taken for it.
ArtifactOfJob ==
    \A j \in Jobs : edge[j].status = "COMPLETED" =>
        /\ Len(edge[j].got) = Len(Items[j])
        /\ \A i \in DOMAIN Items[j] : StandsFor(edge[j].got[i], Identity(j, i))

\* A hit of the archive, whichever threads archived at the same time and whatever broke off
\* between the row and its attestation, is the font of its identity or - with the same
\* exception - of an atlas run of another order for the style.
HitIsOwn == \A k \in Identities : Hit(k) => StandsFor(archive[k].font, k)

Fewer(j) == queued'[j] + held'[j] < queued[j] + held[j]

\* A message goes out of the queue only when its job is settled, or when the attempt that
\* drops it had the job and has lost it.
AckJustified ==
    [][\A j \in Jobs : Fewer(j) =>
                Settled(j) \/ (node.job = j /\ node.n > 0 /\ ~Holder(This))]_vars

\* However acquisition and build threads hang, no job stays PROCESSING and no message goes
\* round for ever, and every job is settled unless there was a failure (a
\* refused fail call may leave a job in RETRY that no message names).
EveryJobSettles ==
    \A j \in Jobs : <>[](/\ queued[j] = 0
                         /\ held[j] = 0
                         /\ edge[j].status # "PROCESSING"
                         /\ (faults = 0 => Settled(j)))
=============================================================================
