--------------------------------- MODULE Payments ---------------------------------
(***************************************************************************)
(* Bank transfers reported by SePay (sepay-webhook.ts) and the batch that  *)
(* turns one into a payment, a job, an event and a paid order              *)
(* (payment-service.ts).  SePay may report a transfer twice, also at once, *)
(* and reports it again when it got no answer or a 500.                    *)
(***************************************************************************)
EXTENDS Naturals, Sequences, FiniteSets

CONSTANTS
    Transactions,       \* the transfers users make
    Desks               \* reports handled at the same time

VARIABLES
    orders,             \* rows of orders, by number
    payments,           \* rows of payments
    jobs, events,       \* rows of fulfillment_jobs and outbox_events
    bank,               \* transfers made
    desk,               \* handlers of reports
    answered            \* transfers SePay got a 200 for

tills == <<payments, jobs, events, bank, desk, answered>>

NoTransfer == [order |-> 0, exact |-> FALSE]

Free == [order |-> 0, transaction |-> 0]

PaymentsInit ==
    /\ payments = {} /\ jobs = <<>> /\ events = <<>>
    /\ bank = [x \in Transactions |-> NoTransfer] /\ desk = [d \in Desks |-> Free]
    /\ answered = {}

\* A user transfers money quoting the code of an order.
Pay(x) ==
    /\ bank[x] = NoTransfer
    /\ x > 1 => \A y \in Transactions : y < x => bank[y] # NoTransfer
    /\ \E o \in DOMAIN orders, exact \in BOOLEAN :
          bank' = [bank EXCEPT ![x] = [order |-> o, exact |-> exact]]
    /\ UNCHANGED <<orders, payments, jobs, events, desk, answered>>

\* Validation, and the first idempotency check: another amount, or a known transfer, is
\* answered at once.
Report(d, x) ==
    /\ bank[x] # NoTransfer /\ desk[d] = Free
    /\ IF bank[x].exact /\ ~\E p \in payments : p.transaction = x
       THEN /\ desk' = [desk EXCEPT ![d] = [order |-> bank[x].order, transaction |-> x]]
            /\ UNCHANGED answered
       ELSE answered' = answered \cup {x} /\ UNCHANGED desk
    /\ UNCHANGED <<orders, payments, jobs, events, bank>>

Awaiting(o) == orders[o].status = "AWAITING_PAYMENT"

\* The rows of a batch that violates no unique index.
Receipt_Fault(o, x) == {[order |-> o, transaction |-> x]}
Receipt(o, x) == IF Awaiting(o) THEN {[order |-> o, transaction |-> x]} ELSE {}

\* The four statements, each under the whole predicate; a violated index undoes them all
\* and the transfer turns out to be known.  The answer may be lost.
Settle(d) ==
    LET o == desk[d].order  x == desk[d].transaction
    IN  /\ desk[d] # Free
        /\ IF \E p \in payments : p.transaction = x
           THEN UNCHANGED <<orders, payments, jobs, events>>
           ELSE /\ payments' = payments \cup Receipt(o, x)
                /\ IF Awaiting(o)
                   THEN /\ jobs' = Append(jobs, o) /\ events' = Append(events, o)
                        /\ orders' = [orders EXCEPT ![o].status = "PAID"]
                   ELSE UNCHANGED <<orders, jobs, events>>
        /\ answered' \in {answered, answered \cup {x}}
        /\ desk' = [desk EXCEPT ![d] = Free]
        /\ UNCHANGED bank

\* The worker dies, or D1 fails, before the batch.
Lost(d) ==
    /\ desk[d] # Free
    /\ desk' = [desk EXCEPT ![d] = Free]
    /\ UNCHANGED <<orders, payments, jobs, events, bank, answered>>

PaymentsNext ==
    \/ \E x \in Transactions : Pay(x)
    \/ \E d \in Desks, x \in Transactions : Report(d, x)
    \/ \E d \in Desks : Settle(d) \/ Lost(d)

-----------------------------------------------------------------------------
Rows(o) == {p \in payments : p.order = o}
RowsIn(table, o) == {i \in DOMAIN table : table[i] = o}

\* However transfers are repeated, race and die, an order is paid exactly when one payment,
\* one job and one event of it are on record, and it is paid once a transfer of the exact
\* amount was answered, for SePay will not report that one again.
PaidWhole ==
    /\ \A o \in DOMAIN orders :
          LET n == IF orders[o].status = "PAID" THEN 1 ELSE 0
          IN  /\ Cardinality(Rows(o)) = n
              /\ Cardinality(RowsIn(jobs, o)) = n
              /\ Cardinality(RowsIn(events, o)) = n
    /\ \A x \in answered : bank[x].exact => orders[bank[x].order].status = "PAID"
=============================================================================
