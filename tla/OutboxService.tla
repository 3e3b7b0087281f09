---------------------------- MODULE OutboxService ----------------------------
(***************************************************************************)
(* edge/src/services/outbox-service.ts: dispatchPendingEvents, run by the  *)
(* scheduled() handler every minute and by POST /internal/outbox/dispatch, *)
(* so that two of them may overlap.                                        *)
(*                                                                         *)
(* A dispatcher selects a batch of due events and works through it: take a *)
(* lease on the event, hand its items over - one queue message for         *)
(* JOB_READY, one Telegram document per part for DELIVERY_READY - and mark *)
(* it SENT, or back off.  "now" is read once for the whole batch, and the  *)
(* events are those of the select: their payload, which holds the parts    *)
(* already confirmed, may have been changed since.                         *)
(*                                                                         *)
(* Abstractions.  An event is named by its created_at.  Everything the     *)
(* delivery of an event looks up first (payload, order, mode, chat, bot,   *)
(* bucket, receipt, the parts in R2) ends in the same way when it is       *)
(* missing or wrong, as does an exception while sending: the event backs   *)
(* off.  An event in poison always ends so.                                *)
(*                                                                         *)
(* An operator X_Fault is X with a plausible slip, see D1Jobs.             *)
(***************************************************************************)
EXTENDS Integers, FiniteSets

CONSTANTS
    Events,             \* outbox_events, numbered by created_at
    Deliveries,         \* those of type DELIVERY_READY; the others are JOB_READY
    MayFail,            \* those that may be such as can never be handed over
    NumParts,           \* artifact parts of an order
    Dispatchers,        \* invocations that may overlap
    BatchSize,          \* LIMIT of the select
    LeaseLength,        \* 30 s
    BaseDelay,          \* 5 s
    DelayCap,           \* 300 s
    RearmBelow,         \* bound: attempts at which an event is no more rearmed
    FaultsUntil,        \* bound: when the environment stops failing
    MaxTime             \* bound: ticks of the clock

ASSUME OutboxConstants ==
    /\ Events \subseteq Nat
    /\ Deliveries \subseteq Events
    /\ MayFail \subseteq Events
    /\ NumParts \in Nat \ {0}
    /\ BatchSize \in Nat \ {0}
    /\ LeaseLength \in Nat \ {0}
    /\ BaseDelay \in Nat \ {0}
    /\ DelayCap \in Nat \ {0}
    /\ RearmBelow \in Nat
    /\ FaultsUntil \in Int
    /\ MaxTime \in Nat
    /\ IsFiniteSet(Dispatchers)

VARIABLES
    poison,             \* the events that can never be handed over
    clock,              \* Date.now()
    lastToken,          \* how many dispatch lease tokens have got into a row
    row,                \* outbox_events
    copies,             \* how often the environment got each item since the
                        \* event was last made PENDING
    disp                \* dispatchers

vars == <<poison, clock, lastToken, row, copies, disp>>

Null == 0

Items(e) == IF e \in Deliveries THEN 1..NumParts ELSE {1}

Parts == 1..NumParts

Row == [status    : {"PENDING", "SENT"},
        token     : Nat,
        leaseExp  : Nat,
        attempts  : Nat,
        nextAt    : Int,
        confirmed : SUBSET Parts]

NewRow == [status |-> "PENDING", token |-> Null, leaseExp |-> Null, attempts |-> 0,
           nextAt |-> Null, confirmed |-> {}]

\* A dispatcher: the batch still to be done with the payloads and attempts as
\* selected, and of the event in hand its token and the parts it believes confirmed.
Dispatcher == [pc     : {"idle", "take", "send", "confirm", "mark", "backoff"},
               now    : Nat,
               todo   : SUBSET Events,
               seen   : [Events -> [attempts : Nat, confirmed : SUBSET Parts]],
               token  : Nat,
               local  : SUBSET Parts]

Unseen == [attempts |-> 0, confirmed |-> {}]

Idle == [pc |-> "idle", now |-> 0, todo |-> {}, seen |-> [e \in Events |-> Unseen],
         token |-> Null, local |-> {}]

Oldest(S) == CHOOSE e \in S : \A f \in S : e <= f

\* The event a dispatcher has in hand.
Current(d) == Oldest(disp[d].todo)

Free_Unowned(r, now) == r.leaseExp = Null

Free(r, now) == r.leaseExp <= now

Due_NoLease(r, now) == r.status = "PENDING" /\ r.nextAt <= now

Due(r, now) == r.status = "PENDING" /\ r.nextAt <= now /\ Free(r, now)

Fenced_StatusOnly(r, t) == r.status = "PENDING"

\* The fence of every write that ends an attempt.
Fenced(r, t) == r.status = "PENDING" /\ r.token = t

Delay(attempts) ==
    LET delay == BaseDelay * 2^(attempts - 1)
    IN  IF delay < DelayCap THEN delay ELSE DelayCap

FaultAllowed == clock <= FaultsUntil

-----------------------------------------------------------------------------
Init ==
    /\ poison \in SUBSET MayFail
    /\ clock = 1
    /\ lastToken = 0
    /\ row = [e \in Events |-> NewRow]
    /\ copies = [e \in Events |-> [i \in Items(e) |-> 0]]
    /\ disp = [d \in Dispatchers |-> Idle]

\* On to the next event of the batch.
Passed(q) ==
    LET e == Oldest(q.todo)
        rest == q.todo \ {e}
    IN  IF rest = {} THEN Idle
        ELSE [q EXCEPT !.pc = "take", !.todo = rest, !.token = Null, !.local = {},
                       !.seen[e] = Unseen]

Proceed(d) == disp' = [disp EXCEPT ![d] = Passed(@)]

\* The oldest BatchSize due events, if any.
Start(d) ==
    LET due == {e \in Events : Due(row[e], clock)}
    IN  /\ disp[d].pc = "idle"
        /\ \E S \in SUBSET due :
              /\ Cardinality(S) = IF Cardinality(due) < BatchSize
                                  THEN Cardinality(due) ELSE BatchSize
              /\ \A e \in S, f \in due \ S : e <= f
              /\ disp' = [disp EXCEPT ![d] = IF S = {} THEN Idle ELSE
                    [Idle EXCEPT !.pc = "take", !.now = clock, !.todo = S,
                        !.seen = [e \in Events |->
                            IF e \in S THEN [attempts  |-> row[e].attempts,
                                             confirmed |-> row[e].confirmed]
                                       ELSE Unseen]]]
        /\ UNCHANGED <<poison, clock, lastToken, row, copies>>

\* Where work on an event goes on when the parts in "have" are confirmed.
Ahead(e, have) == IF Items(e) \subseteq have THEN "mark" ELSE "send"

\* The lease, counted from the start of the batch.
Take(d) ==
    LET e == Current(d)
        t == lastToken + 1
    IN  /\ disp[d].pc = "take"
        /\ IF Due(row[e], disp[d].now)
           THEN /\ row' = [row EXCEPT ![e].token = t,
                                      ![e].leaseExp = disp[d].now + LeaseLength,
                                      ![e].attempts = @ + 1]
                /\ lastToken' = t
                /\ disp' = [disp EXCEPT ![d].token = t,
                                        ![d].local = disp[d].seen[e].confirmed,
                                        ![d].pc = Ahead(e, disp[d].seen[e].confirmed)]
           ELSE /\ Proceed(d)
                /\ UNCHANGED <<row, lastToken>>
        /\ UNCHANGED <<poison, clock, copies>>

\* queue.send({job_id}).
SendJob(d) ==
    LET e == Current(d)
    IN  /\ disp[d].pc = "send"
        /\ e \notin Deliveries \cup poison
        /\ copies' = [copies EXCEPT ![e][1] = @ + 1]
        /\ disp' = [disp EXCEPT ![d].pc = "mark"]
        /\ UNCHANGED <<poison, clock, lastToken, row>>

SendPart_Forgotten(d) ==
    LET e == Current(d)
        p == Oldest(Parts \ disp[d].local)
    IN  /\ disp[d].pc = "send"
        /\ e \in Deliveries \ poison
        /\ copies' = [copies EXCEPT ![e][p] = @ + 1]
        /\ disp' = [disp EXCEPT ![d].pc = "confirm"]
        /\ UNCHANGED <<poison, clock, lastToken, row>>

\* sendDocument of the first part not confirmed.
SendPart(d) ==
    LET e == Current(d)
        p == Oldest(Parts \ disp[d].local)
    IN  /\ disp[d].pc = "send"
        /\ e \in Deliveries \ poison
        /\ copies' = [copies EXCEPT ![e][p] = @ + 1]
        /\ disp' = [disp EXCEPT ![d].pc = "confirm", ![d].local = @ \cup {p}]
        /\ UNCHANGED <<poison, clock, lastToken, row>>

\* The parts confirmed so far are written to the row, whoever holds it now.
Confirm(d) ==
    LET e == Current(d)
    IN  /\ disp[d].pc = "confirm"
        /\ row' = [row EXCEPT ![e].confirmed = disp[d].local]
        /\ disp' = [disp EXCEPT ![d].pc = Ahead(e, disp[d].local)]
        /\ UNCHANGED <<poison, clock, lastToken, copies>>

MarkSent(d) ==
    LET e == Current(d)
    IN  /\ disp[d].pc = "mark"
        /\ row' = IF Fenced(row[e], disp[d].token)
                  THEN [row EXCEPT ![e].status = "SENT", ![e].token = Null,
                                   ![e].leaseExp = Null]
                  ELSE row
        /\ Proceed(d)
        /\ UNCHANGED <<poison, clock, lastToken, copies>>

\* A check fails or a call throws - also one that has done its work.
Throw(d) ==
    /\ disp[d].pc \in {"send", "confirm", "mark"}
    /\ FaultAllowed \/ Current(d) \in poison
    /\ disp' = [disp EXCEPT ![d].pc = "backoff"]
    /\ UNCHANGED <<poison, clock, lastToken, row, copies>>

\* The delay counts from the attempts as selected.
BackOff(d) ==
    LET e == Current(d)
    IN  /\ disp[d].pc = "backoff"
        /\ row' = IF Fenced(row[e], disp[d].token)
                  THEN [row EXCEPT ![e].token = Null, ![e].leaseExp = Null,
                                   ![e].nextAt =
                                       clock + Delay(disp[d].seen[e].attempts + 1)]
                  ELSE row
        /\ Proceed(d)
        /\ UNCHANGED <<poison, clock, lastToken, copies>>

\* No queue is bound: the event is passed over and keeps its lease until it lapses.
PassOver(d) ==
    /\ FaultAllowed
    /\ disp[d].pc = "send"
    /\ Current(d) \notin Deliveries
    /\ Proceed(d)
    /\ UNCHANGED <<poison, clock, lastToken, row, copies>>

\* The isolate dies, or a write outside the try blocks throws.
Die(d) ==
    /\ FaultAllowed
    /\ disp[d].pc # "idle"
    /\ disp' = [disp EXCEPT ![d] = Idle]
    /\ UNCHANGED <<poison, clock, lastToken, row, copies>>

\* An operator recovery of the job service asks for JOB_READY again.
Rearm(e) ==
    /\ e \notin Deliveries
    /\ row[e].status = "SENT" /\ row[e].attempts < RearmBelow
    /\ row' = [row EXCEPT ![e].status = "PENDING", ![e].token = Null,
                          ![e].leaseExp = Null, ![e].nextAt = Null]
    /\ copies' = [copies EXCEPT ![e] = [i \in Items(e) |-> 0]]
    /\ UNCHANGED <<poison, clock, lastToken, disp>>

Tick ==
    /\ clock < MaxTime
    /\ clock' = clock + 1
    /\ UNCHANGED <<poison, lastToken, row, copies, disp>>

Work(d) ==
    \/ Take(d) \/ SendJob(d) \/ SendPart(d) \/ Confirm(d) \/ MarkSent(d) \/ BackOff(d)

Next ==
    \/ \E d \in Dispatchers : Start(d) \/ Work(d) \/ Throw(d) \/ PassOver(d) \/ Die(d)
    \/ \E e \in Events : Rearm(e)
    \/ Tick

Spec == Init /\ [][Next]_vars

\* The cron starts a dispatcher every minute and an invocation gets on with its batch;
\* time passes.  Nothing is assumed of when the environment fails, only that from
\* FaultsUntil on it fails no more.
Fairness ==
    /\ WF_vars(Tick)
    /\ \A d \in Dispatchers :
          /\ WF_vars(Start(d))
          /\ WF_vars(Work(d) \/ (Throw(d) /\ Current(d) \in poison))

FairSpec == Spec /\ Fairness

-----------------------------------------------------------------------------
(* Properties *)

TypeOK ==
    /\ poison \subseteq MayFail
    /\ clock \in Nat /\ clock > 0
    /\ lastToken \in Nat
    /\ row \in [Events -> Row]
    /\ DOMAIN copies = Events
    /\ \A e \in Events : copies[e] \in [Items(e) -> Nat]
    /\ disp \in [Dispatchers -> Dispatcher]

\* An item is handed over at most once per attempt on its event, however many
\* dispatchers overlap: the customer is not sent a part twice by one attempt, nor by an
\* attempt that another one's progress should have spared - as far as attempts go.
OneCopyPerAttempt ==
    \A e \in Events : \A i \in Items(e) : copies[e][i] <= row[e].attempts

\* Nobody takes an event whose lease is live or whose backoff is running by the real
\* clock, although a dispatcher decides by a "now" of long ago.
LiveDispatchRespected ==
    [][\A e \in Events :
          row'[e].token \notin {row[e].token, Null}
              => row[e].leaseExp <= clock /\ row[e].nextAt <= clock]_vars

\* What is taken for handed over has been; a JOB_READY event has no progress.
Truthful(e, have, got) ==
    IF e \in Deliveries THEN \A p \in have : got[e][p] > 0 ELSE have = {}

\* A dispatcher at work on event e, beside the rows and copies as they are.
InHand(q, e, rows, got) ==
    /\ Truthful(e, q.local, got)
    /\ q.pc = "send" => ~(Items(e) \subseteq q.local)
    /\ q.pc = "confirm" => e \in Deliveries
    /\ q.pc = "mark" => IF e \in Deliveries THEN q.local = Parts
                       ELSE Fenced(rows[e], q.token) => got[e][1] > 0

\* A dispatcher's token has been issued, its clock is not ahead, its progress is true.
Sound(q, rows, got, issued, now) ==
    /\ q.token <= issued /\ q.now <= now
    /\ q.pc # "idle" <=> q.todo # {}
    /\ q.pc \notin {"idle", "take"} => q.token > 0
    /\ \A e \in q.todo : Truthful(e, q.seen[e].confirmed, got)
    /\ q.todo # {} => InHand(q, Oldest(q.todo), rows, got)

RowsSound ==
    \A e \in Events :
        row[e].token <= lastToken /\ Truthful(e, row[e].confirmed, copies)

\* The inductive invariant: nothing is skipped that the environment never got, and a
\* dispatcher that has lost its lease has lost the fence for good.
IInv ==
    /\ TypeOK
    /\ RowsSound
    /\ \A d \in Dispatchers : Sound(disp[d], row, copies, lastToken, clock)

\* The abstract specification: an item is owed while the environment has no copy.
Owed == [e \in Events |-> {i \in Items(e) : copies[e][i] = 0}]

Done == {e \in Events : row[e].status = "SENT"}

Contract ==
    INSTANCE OutboxContract WITH
        Repeatable <- Events \ Deliveries, owed <- Owed, done <- Done

\* SENT is never said of an event with an item the environment has not got since it was
\* last asked for - by a dispatcher that lost its lease, after a rearm, or otherwise.
AtLeastOnce == Contract!Spec

\* Every event that can be handed over is SENT in the end, or the clock of the instance
\* has stopped before its lease or its backoff ran out.  In particular a dead dispatcher,
\* a lost reply or an older event that always fails keeps none of them waiting for ever.
NothingLeftDue ==
    \A e \in Events :
        <>[](\/ e \in poison
             \/ row[e].status = "SENT"
             \/ row[e].leaseExp > clock
             \/ row[e].nextAt > clock)

=============================================================================
