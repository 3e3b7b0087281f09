------------------------ MODULE OutboxServiceProofs ------------------------
(***************************************************************************)
(* Proofs about OutboxService, for every set of events and dispatchers and *)
(* every batch size, lease length, delay and number of parts.              *)
(***************************************************************************)
EXTENDS OutboxService, FiniteSetTheorems, WellFoundedInduction, TLAPS

USE DEF Null

-----------------------------------------------------------------------------
(* Slots: what the steps of a dispatcher make of its record *)

LEMMA OldestIn ==
    ASSUME NEW S \in SUBSET Nat, S # {}
    PROVE  Oldest(S) \in S
<1>1. PICK x \in S : \A y \in S : <<y, x>> \notin OpToRel(<, Nat)
    BY NatLessThanWellFounded, WFMin, Zenon
<1>2. \A y \in S : ~(y < x)
    BY <1>1, Zenon DEF OpToRel
<1>3. \A y \in S : x <= y
    BY <1>2
<1> QED BY <1>3, Zenon DEF Oldest

LEMMA OldestEvent ==
    ASSUME NEW S \in SUBSET Events, S # {}
    PROVE  Oldest(S) \in S /\ Oldest(S) \in Events
BY OldestIn, OutboxConstants

LEMMA OldestPart ==
    ASSUME NEW S \in SUBSET Parts, S # {}
    PROVE  Oldest(S) \in S /\ Oldest(S) \in Parts
<1>1. Parts \subseteq Nat
    BY OutboxConstants DEF Parts
<1> QED BY <1>1, OldestIn

LEMMA ItemsOf ==
    ASSUME NEW e \in Events
    PROVE  /\ e \in Deliveries => Items(e) = Parts
           /\ e \notin Deliveries => Items(e) = {1}
           /\ Items(e) # {}
BY OutboxConstants DEF Items, Parts

LEMMA IdleTyped ==
    /\ Idle \in Dispatcher
    /\ Idle.pc = "idle" /\ Idle.todo = {} /\ Idle.token = 0 /\ Idle.now = 0
BY DEF Idle, Dispatcher, Unseen

LEMMA PassedSlot ==
    ASSUME NEW q \in Dispatcher, q.todo # {}
    PROVE  LET e == Oldest(q.todo)
               new == Passed(q)
           IN  /\ new \in Dispatcher
               /\ \/ new = Idle
                  \/ /\ new.pc = "take" /\ new.todo = q.todo \ {e} /\ new.todo # {}
                     /\ new.token = 0 /\ new.local = {} /\ new.now = q.now
                     /\ \A f \in new.todo : new.seen[f] = q.seen[f]
<1> DEFINE e == Oldest(q.todo)
<1>1. e \in q.todo /\ e \in Events
    BY OldestEvent DEF Dispatcher
<1>2. CASE q.todo \ {e} = {}
    BY <1>2, IdleTyped, Zenon DEF Passed
<1>3. CASE q.todo \ {e} # {}
    <2> DEFINE rest == q.todo \ {e}
               seen == [q.seen EXCEPT ![e] = Unseen]
    <2>1. /\ seen \in [Events -> [attempts : Nat, confirmed : SUBSET Parts]]
          /\ \A f \in rest : seen[f] = q.seen[f]
        BY <1>1 DEF Unseen, Dispatcher
    <2>2. Passed(q) = [q EXCEPT !.pc = "take", !.todo = rest, !.token = 0,
                                !.local = {}, !.seen = seen]
        BY <1>3, Zenon DEF Passed
    <2>3. rest \in SUBSET Events /\ 0 \in Nat /\ {} \in SUBSET Parts
        BY DEF Dispatcher
    <2> HIDE DEF rest, seen
    <2>4. Passed(q) \in Dispatcher
        BY <2>1, <2>2, <2>3 DEF Dispatcher
    <2>5. LET new == Passed(q)
          IN  /\ new.pc = "take" /\ new.todo = rest /\ new.token = 0
              /\ new.local = {} /\ new.now = q.now /\ new.seen = seen
        BY <2>2 DEF Dispatcher
    <2> QED BY <1>3, <2>1, <2>4, <2>5, Zenon DEF rest
<1> QED BY <1>2, <1>3

LEMMA IdleSound ==
    ASSUME NEW rows, NEW got, NEW issued \in Nat, NEW now \in Nat
    PROVE  Sound(Idle, rows, got, issued, now)
BY IdleTyped DEF Sound

LEMMA PassedSound ==
    ASSUME NEW q \in Dispatcher, q.todo # {},
           NEW rows, NEW got, NEW issued \in Nat, NEW now \in Nat,
           Sound(q, rows, got, issued, now)
    PROVE  Sound(Passed(q), rows, got, issued, now)
<1>1. CASE Passed(q) = Idle
    BY <1>1, IdleSound, Zenon
<1>2. CASE Passed(q) # Idle
    <2> DEFINE new == Passed(q)
    <2>1. /\ new.pc = "take" /\ new.todo \subseteq q.todo /\ new.todo # {}
          /\ new.token = 0 /\ new.local = {} /\ new.now = q.now
          /\ \A f \in new.todo : new.seen[f] = q.seen[f]
        BY <1>2, PassedSlot, Zenon
    <2>2. \A f \in new.todo : Truthful(f, new.seen[f].confirmed, got)
        BY <2>1, Zenon DEF Sound
    <2>3. InHand(new, Oldest(new.todo), rows, got)
        BY <2>1, Zenon DEF InHand, Truthful
    <2> HIDE DEF new
    <2>4. new.token <= issued /\ new.now <= now
        BY <2>1 DEF Sound, Dispatcher
    <2> QED BY <2>1, <2>2, <2>3, <2>4, Zenon DEF Sound, new
<1> QED BY <1>1, <1>2

-----------------------------------------------------------------------------
(* What a step leaves of what other dispatchers rely on *)

\* Clock and tokens only grow, no part of a delivery is taken back, and a fence that
\* holds has held before and its message is still with the queue.
Lasting ==
    /\ lastToken <= lastToken' /\ clock <= clock'
    /\ \A e \in Deliveries : \A p \in Parts : copies[e][p] > 0 => copies'[e][p] > 0
    /\ \A e \in Events \ Deliveries : \A t \in 1..lastToken :
          Fenced(row'[e], t) => Fenced(row[e], t) /\ (copies[e][1] > 0 => copies'[e][1] > 0)

LEMMA TruthLasts ==
    ASSUME Lasting, NEW e \in Events, NEW have \in SUBSET Parts, Truthful(e, have, copies)
    PROVE  Truthful(e, have, copies')
BY Zenon DEF Lasting, Truthful

LEMMA SlotLasts ==
    ASSUME TypeOK, lastToken' \in Nat, clock' \in Nat, Lasting,
           NEW q \in Dispatcher, Sound(q, row, copies, lastToken, clock)
    PROVE  Sound(q, row', copies', lastToken', clock')
<1>1. q.token <= lastToken' /\ q.now <= clock'
    BY DEF Lasting, Sound, TypeOK, Dispatcher
<1>2. ASSUME NEW e \in q.todo
      PROVE  Truthful(e, q.seen[e].confirmed, copies')
    <2>1. e \in Events /\ q.seen[e].confirmed \in SUBSET Parts
        BY DEF Dispatcher
    <2> QED BY <2>1, TruthLasts, Zenon DEF Sound
<1>3. ASSUME q.todo # {}
      PROVE  InHand(q, Oldest(q.todo), row', copies')
    <2> DEFINE e == Oldest(q.todo)
    <2>1. e \in Events /\ q.local \in SUBSET Parts
        BY <1>3, OldestEvent DEF Dispatcher
    <2>2. InHand(q, e, row, copies)
        BY <1>3 DEF Sound
    <2> HIDE DEF e
    <2>3. Truthful(e, q.local, copies')
        BY <2>1, <2>2, TruthLasts, Zenon DEF InHand
    <2>4. ASSUME q.pc = "mark", e \notin Deliveries, Fenced(row'[e], q.token)
          PROVE  copies'[e][1] > 0
        <3>1. q.token \in 1..lastToken
            BY <2>4, SMT DEF Sound, Dispatcher, TypeOK
        <3> QED BY <2>1, <2>2, <2>4, <3>1, Zenon DEF Lasting, InHand
    <2> QED BY <2>2, <2>3, <2>4, Zenon DEF InHand, e
<1> QED BY <1>1, <1>2, <1>3, Zenon DEF Sound

LEMMA Still ==
    ASSUME TypeOK, UNCHANGED <<lastToken, clock, row, copies>>
    PROVE  Lasting
BY DEF Lasting, TypeOK

\* A step of one dispatcher preserves the invariant when its rows and its slot are right.
LEMMA StepOfOne ==
    ASSUME IInv, NEW d \in Dispatchers, NEW q \in Dispatcher,
           disp' = [disp EXCEPT ![d] = q],
           poison' = poison, clock' = clock, lastToken' \in Nat,
           row' \in [Events -> Row],
           DOMAIN copies' = Events, \A e \in Events : copies'[e] \in [Items(e) -> Nat],
           Lasting, RowsSound', Sound(q, row', copies', lastToken', clock')
    PROVE  IInv'
<1>1. TypeOK'
    BY Zenon DEF IInv, TypeOK
<1>2. ASSUME NEW x \in Dispatchers
      PROVE  Sound(disp[x], row, copies, lastToken, clock)'
    <2>1. CASE x = d
        BY <2>1, Zenon DEF IInv, TypeOK
    <2>2. CASE x # d
        <3>1. disp'[x] = disp[x] /\ disp[x] \in Dispatcher /\ clock' \in Nat
            BY <2>2, Zenon DEF IInv, TypeOK
        <3>2. Sound(disp[x], row', copies', lastToken', clock')
            BY <3>1, SlotLasts, Zenon DEF IInv
        <3> QED BY <3>1, <3>2, Zenon
    <2> QED BY <2>1, <2>2
<1> QED BY <1>1, <1>2, Zenon DEF IInv

-----------------------------------------------------------------------------
(* The invariant *)

LEMMA InitIInv == Init => IInv
<1> SUFFICES ASSUME Init PROVE IInv
    OBVIOUS
<1>1. NewRow \in Row
    BY DEF NewRow, Row
<1>2. \A e \in Events : copies[e] \in [Items(e) -> Nat]
    BY DEF Init
<1>3. TypeOK
    BY <1>1, <1>2, IdleTyped, SMT DEF Init, TypeOK
<1>4. RowsSound
    BY <1>3 DEF Init, RowsSound, NewRow, Truthful
<1>5. \A d \in Dispatchers : disp[d] = Idle
    BY DEF Init
<1>6. lastToken \in Nat /\ clock \in Nat
    BY <1>3 DEF TypeOK
<1> QED BY <1>3, <1>4, <1>5, <1>6, IdleSound, Zenon DEF IInv

\* A dispatcher with an event in hand.
LEMMA Busy ==
    ASSUME IInv, NEW d \in Dispatchers, disp[d].pc # "idle"
    PROVE  /\ disp[d] \in Dispatcher
           /\ disp[d].todo # {} /\ Current(d) \in disp[d].todo /\ Current(d) \in Events
           /\ Sound(disp[d], row, copies, lastToken, clock)
           /\ InHand(disp[d], Current(d), row, copies)
           /\ lastToken \in Nat /\ clock \in Nat
<1>1. disp[d] \in Dispatcher /\ lastToken \in Nat /\ clock \in Nat
    BY DEF IInv, TypeOK
<1>2. Sound(disp[d], row, copies, lastToken, clock) /\ disp[d].todo # {}
    BY DEF IInv, Sound
<1>3. disp[d].todo \in SUBSET Events
    BY <1>1 DEF Dispatcher
<1> QED BY <1>1, <1>2, <1>3, OldestEvent, Zenon DEF Sound, Current

\* A step that only goes on, with rows that may have lost a lease.
LEMMA Proceeding ==
    ASSUME IInv, NEW d \in Dispatchers, disp[d].pc # "idle", Proceed(d),
           UNCHANGED <<poison, clock, lastToken, copies>>,
           row' \in [Events -> Row], Lasting, RowsSound'
    PROVE  IInv'
<1>1. /\ disp[d] \in Dispatcher /\ disp[d].todo # {} /\ lastToken \in Nat /\ clock \in Nat
      /\ Sound(disp[d], row, copies, lastToken, clock)
    BY Busy
<1>2. Sound(disp[d], row', copies', lastToken', clock')
    BY <1>1, SlotLasts, Zenon DEF IInv
<1>3. Sound(Passed(disp[d]), row', copies', lastToken', clock')
    BY <1>1, <1>2, PassedSound, Zenon
<1>4. Passed(disp[d]) \in Dispatcher
    BY <1>1, PassedSlot, IdleTyped, Zenon
<1>5. disp' = [disp EXCEPT ![d] = Passed(disp[d])]
    BY Zenon DEF Proceed
<1> QED BY <1>1, <1>3, <1>4, <1>5, StepOfOne, Zenon DEF IInv, TypeOK

\* A step that changes nothing but its slot.
LEMMA SlotOnly ==
    ASSUME IInv, NEW d \in Dispatchers, NEW q \in Dispatcher,
           disp' = [disp EXCEPT ![d] = q], UNCHANGED <<poison, clock, lastToken, row, copies>>,
           Sound(q, row, copies, lastToken, clock)
    PROVE  IInv'
<1>1. Lasting
    BY Still DEF IInv
<1>2. RowsSound'
    BY DEF IInv, RowsSound
<1> QED BY <1>1, <1>2, StepOfOne, Zenon DEF IInv, TypeOK

LEMMA Starts ==
    ASSUME IInv, NEW d \in Dispatchers, Start(d)
    PROVE  IInv'
<1>1. clock \in Nat /\ lastToken \in Nat /\ row \in [Events -> Row]
    BY DEF IInv, TypeOK
<1>2. PICK S \in SUBSET Events :
        disp' = [disp EXCEPT ![d] = IF S = {} THEN Idle ELSE
                    [Idle EXCEPT !.pc = "take", !.now = clock, !.todo = S,
                        !.seen = [e \in Events |->
                            IF e \in S THEN [attempts  |-> row[e].attempts,
                                             confirmed |-> row[e].confirmed]
                                       ELSE Unseen]]]
    BY Zenon DEF Start
<1>3. CASE S = {}
    BY <1>1, <1>2, <1>3, IdleTyped, IdleSound, SlotOnly, Zenon DEF Start
<1>4. CASE S # {}
    <2> DEFINE seen == [e \in Events |->
                            IF e \in S THEN [attempts  |-> row[e].attempts,
                                             confirmed |-> row[e].confirmed]
                                       ELSE Unseen]
               q == [Idle EXCEPT !.pc = "take", !.now = clock, !.todo = S, !.seen = seen]
    <2>1. seen \in [Events -> [attempts : Nat, confirmed : SUBSET Parts]]
        BY <1>1 DEF Unseen, Row
    <2>2. \A e \in S : seen[e].confirmed = row[e].confirmed
        OBVIOUS
    <2>3. disp' = [disp EXCEPT ![d] = q]
        BY <1>2, <1>4
    <2> HIDE DEF seen
    <2>4. /\ q \in Dispatcher
          /\ q.pc = "take" /\ q.now = clock /\ q.todo = S /\ q.seen = seen
          /\ q.token = 0 /\ q.local = {}
        BY <1>1, <2>1 DEF Dispatcher, Idle
    <2> HIDE DEF q
    <2>5. \A e \in q.todo : Truthful(e, q.seen[e].confirmed, copies)
        BY <2>2, <2>4, Zenon DEF IInv, RowsSound
    <2>6. InHand(q, Oldest(q.todo), row, copies)
        BY <2>4, Zenon DEF InHand, Truthful
    <2>7. Sound(q, row, copies, lastToken, clock)
        BY <1>1, <1>4, <2>4, <2>5, <2>6 DEF Sound
    <2> QED BY <2>3, <2>4, <2>7, SlotOnly, Zenon DEF Start
<1> QED BY <1>3, <1>4

\* The record of a slot that went on to another await of the same event.
Slot(q, pc, have) == [q EXCEPT !.pc = pc, !.local = have]

LEMMA SlotFields ==
    ASSUME NEW q \in Dispatcher, NEW have \in SUBSET Parts,
           NEW pc \in {"send", "confirm", "mark", "backoff"}
    PROVE  /\ Slot(q, pc, have) \in Dispatcher
           /\ Slot(q, pc, have).pc = pc /\ Slot(q, pc, have).local = have
           /\ Slot(q, pc, have).token = q.token /\ Slot(q, pc, have).now = q.now
           /\ Slot(q, pc, have).todo = q.todo /\ Slot(q, pc, have).seen = q.seen
BY DEF Dispatcher, Slot

LEMMA SlotHas ==
    ASSUME NEW q \in Dispatcher, NEW have, NEW pc
    PROVE  Slot(q, pc, have).pc = pc /\ Slot(q, pc, have).local = have
BY DEF Dispatcher, Slot

LEMMA GoesOnSound ==
    ASSUME NEW q \in Dispatcher, NEW new \in Dispatcher,
           NEW rows, NEW got, NEW issued \in Nat, NEW now \in Nat,
           Sound(q, rows, got, issued, now), q.todo # {},
           new.pc \in {"send", "confirm", "mark", "backoff"},
           new.token \in 1..issued, new.now = q.now, new.todo = q.todo, new.seen = q.seen,
           InHand(new, Oldest(q.todo), rows, got)
    PROVE  Sound(new, rows, got, issued, now)
<1>1. new.token <= issued /\ new.token > 0 /\ new.pc # "idle"
    OBVIOUS
<1> QED BY <1>1, Zenon DEF Sound

\* What Ahead chooses is right.
LEMMA AheadInHand ==
    ASSUME NEW e \in Events, NEW have \in SUBSET Parts, NEW rows, NEW got,
           Truthful(e, have, got), NEW q \in Dispatcher,
           q.local = have, q.pc = Ahead(e, have)
    PROVE  InHand(q, e, rows, got)
<1>1. CASE e \in Deliveries
    <2>1. Items(e) = Parts
        BY <1>1, ItemsOf
    <2>2. /\ q.pc = "mark" => have = Parts
          /\ q.pc = "send" => ~(Items(e) \subseteq have)
        BY <2>1 DEF Ahead
    <2> QED BY <1>1, <2>2, Zenon DEF InHand
<1>2. CASE e \notin Deliveries
    <2>1. have = {} /\ Items(e) # {}
        BY <1>2, ItemsOf, Zenon DEF Truthful
    <2>2. q.pc = "send" /\ ~(Items(e) \subseteq have)
        BY <2>1 DEF Ahead
    <2> QED BY <1>2, <2>2 DEF InHand
<1> QED BY <1>1, <1>2

LEMMA Takes ==
    ASSUME IInv, NEW d \in Dispatchers, Take(d)
    PROVE  IInv'
<1> DEFINE e == Current(d)
           t == lastToken + 1
<1>1. /\ disp[d] \in Dispatcher /\ disp[d].todo # {} /\ e \in disp[d].todo /\ e \in Events
      /\ Sound(disp[d], row, copies, lastToken, clock)
      /\ lastToken \in Nat /\ clock \in Nat
    BY Busy, Zenon DEF Take
<1>2. row \in [Events -> Row] /\ UNCHANGED <<poison, clock, copies>>
    BY Zenon DEF IInv, TypeOK, Take
<1>3. CASE Due(row[e], disp[d].now)
    <2> DEFINE have == disp[d].seen[e].confirmed
               new == [row[e] EXCEPT !.token = t, !.leaseExp = disp[d].now + LeaseLength,
                                     !.attempts = @ + 1]
               q == [disp[d] EXCEPT !.token = t, !.local = have, !.pc = Ahead(e, have)]
    <2>1. /\ row' = [row EXCEPT ![e] = new] /\ lastToken' = t
          /\ disp' = [disp EXCEPT ![d] = q]
        BY <1>3, Zenon DEF Take
    <2>2. /\ new \in Row /\ new.token = t /\ new.confirmed = row[e].confirmed
          /\ new.status = row[e].status
        <3>1. disp[d].now + LeaseLength \in Nat /\ t \in Nat
            BY <1>1, OutboxConstants DEF Dispatcher
        <3>a. row[e] \in Row
            BY <1>1, <1>2
        <3>2. row[e].attempts + 1 \in Nat
            BY <3>a DEF Row
        <3> HIDE DEF e, t
        <3> QED BY <3>1, <3>a, <3>2, Zenon DEF Row
    <2>3. have \in SUBSET Parts /\ Truthful(e, have, copies) /\ t \in Nat
        BY <1>1 DEF Dispatcher, Sound
    <2>4. row' \in [Events -> Row] /\ row'[e] = new /\ \A f \in Events \ {e} : row'[f] = row[f]
        BY <1>1, <1>2, <2>1, <2>2, Zenon
    <2> HIDE DEF new, e, have
    <2>5. Lasting
        <3>1. ASSUME NEW f \in Events \ Deliveries, NEW u \in 1..lastToken, Fenced(row'[f], u)
              PROVE  Fenced(row[f], u)
            <4>1. t # u
                BY <1>1
            <4> QED BY <2>2, <2>4, <3>1, <4>1, Zenon DEF Fenced
        <3> QED BY <1>1, <1>2, <2>1, <3>1 DEF Lasting
    <2>6. RowsSound'
        <3>1. ASSUME NEW f \in Events
              PROVE  row'[f].token <= lastToken' /\ row'[f].confirmed = row[f].confirmed
            <4>1. row[f].token <= lastToken /\ row[f].token \in Nat
                BY <1>2 DEF IInv, RowsSound, Row
            <4> QED BY <1>1, <2>1, <2>2, <2>4, <4>1
        <3> QED BY <1>2, <3>1, Zenon DEF IInv, RowsSound
    <2>7. Ahead(e, have) \in {"send", "confirm", "mark", "backoff"}
        BY Zenon DEF Ahead
    <2>8. /\ q \in Dispatcher /\ q.pc = Ahead(e, have) /\ q.token = t /\ q.local = have
          /\ q.now = disp[d].now /\ q.todo = disp[d].todo /\ q.seen = disp[d].seen
        <3> DEFINE next == Ahead(e, have)
        <3>1. q = [disp[d] EXCEPT !.token = t, !.local = have, !.pc = next]
            OBVIOUS
        <3>2. next \in {"send", "confirm", "mark", "backoff"}
            BY <2>7
        <3> HIDE DEF q, t
        <3>3. disp[d] \in Dispatcher
            BY <1>1
        <3> HIDE DEF next
        <3>4. /\ q \in Dispatcher /\ q.pc = next /\ q.token = t /\ q.local = have
              /\ q.now = disp[d].now /\ q.todo = disp[d].todo /\ q.seen = disp[d].seen
            BY <2>3, <3>1, <3>2, <3>3 DEF Dispatcher
        <3> QED BY <3>4 DEF next
    <2> HIDE DEF q
    <2>9. Sound(disp[d], row', copies', lastToken', clock')
        BY <1>1, <1>2, <2>1, <2>3, <2>5, SlotLasts, Zenon DEF IInv
    <2>10. InHand(q, e, row', copies')
        BY <1>1, <1>2, <2>3, <2>8, AheadInHand, Zenon
    <2>11. t \in 1..lastToken'
        BY <1>1, <2>1
    <2>12. Sound(q, row', copies', lastToken', clock')
        BY <1>1, <1>2, <2>1, <2>3, <2>7, <2>8, <2>9, <2>10, <2>11, GoesOnSound, Zenon DEF e, Current
    <2> QED BY <1>2, <2>1, <2>3, <2>4, <2>5, <2>6, <2>8, <2>12, StepOfOne, Zenon DEF IInv, TypeOK
<1>4. CASE ~Due(row[e], disp[d].now)
    <2>1. Proceed(d) /\ UNCHANGED <<row, lastToken>>
        BY <1>4, Zenon DEF Take
    <2>2. Lasting /\ RowsSound'
        BY <1>2, <2>1, Still DEF IInv, RowsSound
    <2> QED BY <1>2, <2>1, <2>2, Proceeding, Zenon DEF Take
<1> QED BY <1>3, <1>4

\* A further await of the attempt in hand, with the same rows.
LEMMA GoesOn ==
    ASSUME IInv, NEW d \in Dispatchers, disp[d].pc \in {"send", "confirm", "mark"},
           NEW have \in SUBSET Parts, NEW pc \in {"send", "confirm", "mark", "backoff"},
           disp' = [disp EXCEPT ![d] = Slot(disp[d], pc, have)],
           UNCHANGED <<poison, clock, lastToken>>,
           row' \in [Events -> Row],
           DOMAIN copies' = Events, \A e \in Events : copies'[e] \in [Items(e) -> Nat],
           Lasting, RowsSound',
           InHand(Slot(disp[d], pc, have), Current(d), row', copies')
    PROVE  IInv'
<1> DEFINE q == Slot(disp[d], pc, have)
<1>1. /\ disp[d] \in Dispatcher /\ disp[d].todo # {}
      /\ Sound(disp[d], row, copies, lastToken, clock)
      /\ lastToken \in Nat /\ clock \in Nat
    BY Busy
<1>2. /\ q \in Dispatcher /\ q.pc = pc /\ q.local = have /\ q.token = disp[d].token
      /\ q.now = disp[d].now /\ q.todo = disp[d].todo /\ q.seen = disp[d].seen
    <2>0. q \in Dispatcher
        BY <1>1, SlotFields
    <2>1. q.pc = pc /\ q.local = have
        BY <1>1, SlotFields
    <2>2. q.token = disp[d].token /\ q.now = disp[d].now
        BY <1>1, SlotFields
    <2>3. q.todo = disp[d].todo /\ q.seen = disp[d].seen
        BY <1>1, SlotFields
    <2> QED BY <2>0, <2>1, <2>2, <2>3
<1>3. q.token \in 1..lastToken
    BY <1>1, <1>2, SMT DEF Sound, Dispatcher
<1>4. disp' = [disp EXCEPT ![d] = q]
    OBVIOUS
<1>5. InHand(q, Oldest(disp[d].todo), row', copies')
    BY Zenon DEF Current
<1> HIDE DEF q
<1>6. Sound(disp[d], row', copies', lastToken', clock')
    BY <1>1, SlotLasts, Zenon DEF IInv
<1>7. Sound(q, row', copies', lastToken', clock')
    BY <1>1, <1>2, <1>3, <1>5, <1>6, GoesOnSound, Zenon
<1> QED BY <1>1, <1>2, <1>4, <1>7, StepOfOne, Zenon DEF IInv, TypeOK

\* One more copy of an item with the environment.
LEMMA Handed ==
    ASSUME IInv, NEW e \in Events, NEW i \in Items(e),
           copies' = [copies EXCEPT ![e][i] = @ + 1], UNCHANGED <<lastToken, clock, row>>
    PROVE  /\ DOMAIN copies' = Events
           /\ \A f \in Events : copies'[f] \in [Items(f) -> Nat]
           /\ copies'[e][i] > 0
           /\ \A f \in Events : \A j \in Items(f) : copies[f][j] > 0 => copies'[f][j] > 0
           /\ Lasting /\ RowsSound'
<1>1. DOMAIN copies = Events /\ \A f \in Events : copies[f] \in [Items(f) -> Nat]
    BY DEF IInv, TypeOK
<1>2. /\ DOMAIN copies' = Events
      /\ copies'[e] = [copies[e] EXCEPT ![i] = @ + 1]
      /\ \A f \in Events \ {e} : copies'[f] = copies[f]
    BY <1>1
<1>3. copies'[e] \in [Items(e) -> Nat] /\ copies'[e][i] > 0
    BY <1>1, <1>2
<1>4. \A f \in Events : \A j \in Items(f) : copies[f][j] > 0 => copies'[f][j] > 0
    BY <1>1, <1>2
<1>5. \A f \in Deliveries : f \in Events /\ Items(f) = Parts
    BY ItemsOf, OutboxConstants
<1>6. \A f \in Events \ Deliveries : 1 \in Items(f)
    BY ItemsOf
<1>7. Lasting
    BY <1>4, <1>5, <1>6 DEF Lasting, IInv, TypeOK
<1>8. RowsSound'
    <2>1. ASSUME NEW f \in Events
          PROVE  Truthful(f, row'[f].confirmed, copies')
        <3>1. row[f].confirmed \in SUBSET Parts
            BY DEF IInv, TypeOK, Row
        <3> QED BY <1>7, <3>1, TruthLasts, Zenon DEF IInv, RowsSound
    <2> QED BY <2>1, Zenon DEF IInv, RowsSound
<1> QED BY <1>1, <1>2, <1>3, <1>4, <1>7, <1>8

LEMMA SendsJob ==
    ASSUME IInv, NEW d \in Dispatchers, SendJob(d)
    PROVE  IInv'
<1> DEFINE e == Current(d)
           have == disp[d].local
<1>1. disp[d].pc = "send" /\ e \notin Deliveries
    BY DEF SendJob
<1>2. /\ disp[d] \in Dispatcher /\ e \in Events /\ InHand(disp[d], e, row, copies)
    BY <1>1, Busy
<1>3. have \in SUBSET Parts /\ 1 \in Items(e)
    BY <1>1, <1>2, ItemsOf DEF Dispatcher
<1>4. /\ copies' = [copies EXCEPT ![e][1] = @ + 1]
      /\ UNCHANGED <<poison, clock, lastToken, row>>
    BY DEF SendJob
<1>5. /\ DOMAIN copies' = Events /\ \A f \in Events : copies'[f] \in [Items(f) -> Nat]
      /\ copies'[e][1] > 0 /\ Lasting /\ RowsSound'
    BY <1>2, <1>3, <1>4, Handed
<1>6. disp' = [disp EXCEPT ![d] = Slot(disp[d], "mark", have)]
    BY <1>2 DEF Slot, SendJob, IInv, TypeOK, Dispatcher
<1>7. InHand(Slot(disp[d], "mark", have), e, row', copies')
    <2> DEFINE q == Slot(disp[d], "mark", have)
    <2>1. q.pc = "mark" /\ q.local = have
        BY <1>2, SlotHas
    <2>2. have = {}
        BY <1>1, <1>2 DEF InHand, Truthful
    <2> HIDE DEF q, e, have
    <2> QED BY <1>1, <1>5, <2>1, <2>2 DEF InHand, Truthful, q
<1> HIDE DEF e
<1> QED BY <1>1, <1>3, <1>4, <1>5, <1>6, <1>7, GoesOn, Zenon DEF e, IInv, TypeOK

LEMMA SendsPart ==
    ASSUME IInv, NEW d \in Dispatchers, SendPart(d)
    PROVE  IInv'
<1> DEFINE e == Current(d)
           p == Oldest(Parts \ disp[d].local)
           have == disp[d].local \cup {p}
<1>1. disp[d].pc = "send" /\ e \in Deliveries
    BY DEF SendPart
<1>2. /\ disp[d] \in Dispatcher /\ e \in Events /\ InHand(disp[d], e, row, copies)
    BY <1>1, Busy
<1>3. Items(e) = Parts
    BY <1>1, <1>2, ItemsOf
<1>4. p \in Parts
    <2>1. Parts \ disp[d].local # {}
        BY <1>1, <1>2, <1>3 DEF InHand
    <2> QED BY <2>1, OldestPart
<1>5. have \in SUBSET Parts
    BY <1>2, <1>4 DEF Dispatcher
<1>6. /\ copies' = [copies EXCEPT ![e][p] = @ + 1]
      /\ UNCHANGED <<poison, clock, lastToken, row>>
    BY DEF SendPart
<1>7. /\ DOMAIN copies' = Events /\ \A f \in Events : copies'[f] \in [Items(f) -> Nat]
      /\ copies'[e][p] > 0 /\ Lasting /\ RowsSound'
    BY <1>2, <1>3, <1>4, <1>6, Handed
<1>8. disp' = [disp EXCEPT ![d] = Slot(disp[d], "confirm", have)]
    BY <1>2 DEF SendPart, Slot
<1>9. InHand(Slot(disp[d], "confirm", have), e, row', copies')
    <2> HIDE DEF e, p, have
    <2> DEFINE q == Slot(disp[d], "confirm", have)
    <2>1. q.pc = "confirm" /\ q.local = have
        BY <1>2, SlotHas
    <2>2. Truthful(e, disp[d].local, copies')
        <3>1. disp[d].local \in SUBSET Parts /\ Truthful(e, disp[d].local, copies)
            BY <1>2 DEF Dispatcher, InHand
        <3> QED BY <1>2, <1>7, <3>1, TruthLasts, Zenon
    <2> HIDE DEF q
    <2>3. Truthful(e, have, copies')
        BY <1>1, <1>7, <2>2, Zenon DEF Truthful, have
    <2> QED BY <1>1, <2>1, <2>3 DEF InHand, q
<1> HIDE DEF e, have
<1> QED BY <1>1, <1>5, <1>6, <1>7, <1>8, <1>9, GoesOn, Zenon DEF e, IInv, TypeOK

LEMMA Confirms ==
    ASSUME IInv, NEW d \in Dispatchers, Confirm(d)
    PROVE  IInv'
<1> DEFINE e == Current(d)
           have == disp[d].local
           new == [row[e] EXCEPT !.confirmed = have]
<1>1. disp[d].pc = "confirm" /\ UNCHANGED <<poison, clock, lastToken, copies>>
    BY DEF Confirm
<1>2. /\ disp[d] \in Dispatcher /\ e \in Events /\ InHand(disp[d], e, row, copies)
      /\ lastToken \in Nat /\ clock \in Nat
    BY <1>1, Busy
<1>3. have \in SUBSET Parts /\ Truthful(e, have, copies)
    BY <1>2 DEF Dispatcher, InHand
<1>4. row \in [Events -> Row] /\ row[e] \in Row
    BY <1>2 DEF IInv, TypeOK
<1>5. /\ new \in Row /\ new.token = row[e].token /\ new.status = row[e].status
      /\ new.confirmed = have
    BY <1>3, <1>4 DEF Row
<1>6. row' = [row EXCEPT ![e] = new]
    BY DEF Confirm
<1> HIDE DEF new, e, have
<1>7. row' \in [Events -> Row] /\ row'[e] = new /\ \A f \in Events \ {e} : row'[f] = row[f]
    BY <1>2, <1>4, <1>5, <1>6, Zenon
<1>8. \A f \in Events : row'[f].token = row[f].token /\ row'[f].status = row[f].status
    BY <1>5, <1>7, Zenon
<1>9. Lasting
    BY <1>1, <1>2, <1>8 DEF Lasting, Fenced
<1>10. RowsSound'
    <2>1. ASSUME NEW f \in Events
          PROVE  Truthful(f, row'[f].confirmed, copies')
        BY <1>1, <1>3, <1>5, <1>7, Zenon DEF IInv, RowsSound
    <2> QED BY <1>1, <1>8, <2>1, Zenon DEF IInv, RowsSound
<1> DEFINE next == Ahead(e, have)
<1>11. next \in {"send", "confirm", "mark", "backoff"}
    BY DEF Ahead
<1>12. disp' = [disp EXCEPT ![d] = Slot(disp[d], next, have)]
    BY <1>2 DEF Confirm, Slot, Dispatcher, e, have
<1>13. InHand(Slot(disp[d], next, have), e, row', copies')
    <2>1. /\ Slot(disp[d], next, have) \in Dispatcher
          /\ Slot(disp[d], next, have).pc = next /\ Slot(disp[d], next, have).local = have
        BY <1>2, <1>3, <1>11, SlotFields
    <2>2. Truthful(e, have, copies')
        BY <1>1, <1>3, Zenon
    <2> QED BY <1>2, <1>3, <2>1, <2>2, AheadInHand
<1> HIDE DEF next
<1> QED BY <1>1, <1>3, <1>7, <1>9, <1>10, <1>11, <1>12, <1>13, GoesOn, Zenon DEF e, IInv, TypeOK

\* The two fenced writes that end an attempt take the lease away.
LEMMA Released ==
    ASSUME IInv, NEW e \in Events, NEW new \in Row, row[e].token > 0,
           new.token = 0, new.confirmed = row[e].confirmed,
           row' = [row EXCEPT ![e] = new], UNCHANGED <<poison, clock, lastToken, copies>>
    PROVE  row' \in [Events -> Row] /\ Lasting /\ RowsSound'
<1>1. row \in [Events -> Row] /\ lastToken \in Nat /\ clock \in Nat
    BY DEF IInv, TypeOK
<1>2. row' \in [Events -> Row] /\ row'[e] = new /\ \A f \in Events \ {e} : row'[f] = row[f]
    BY <1>1
<1>3. Lasting
    <2>1. ASSUME NEW f \in Events \ Deliveries, NEW t \in 1..lastToken, Fenced(row'[f], t)
          PROVE  Fenced(row[f], t)
        BY <1>2, <2>1 DEF Fenced
    <2> QED BY <1>1, <2>1 DEF Lasting
<1>4. RowsSound'
    <2>1. 0 <= lastToken
        BY <1>1
    <2>2. ASSUME NEW f \in Events
          PROVE  row'[f].token <= lastToken /\ Truthful(f, row'[f].confirmed, copies)
        BY <1>2, <2>1, Zenon DEF IInv, RowsSound
    <2> QED BY <2>2, Zenon DEF RowsSound
<1> QED BY <1>2, <1>3, <1>4

LEMMA DelayInt ==
    ASSUME NEW n \in Nat
    PROVE  Delay(n) \in Int
BY OutboxConstants, SMT DEF Delay

LEMMA EndsAttempt ==
    ASSUME IInv, NEW d \in Dispatchers, MarkSent(d) \/ BackOff(d)
    PROVE  IInv'
<1> DEFINE e == Current(d)
<1>1. /\ disp[d].pc \in {"mark", "backoff"} /\ Proceed(d)
      /\ UNCHANGED <<poison, clock, lastToken, copies>>
    BY Zenon DEF MarkSent, BackOff
<1>2. /\ disp[d] \in Dispatcher /\ e \in Events /\ clock \in Nat
      /\ Sound(disp[d], row, copies, lastToken, clock)
    BY <1>1, Busy
<1>3. row[e] \in Row
    BY <1>2 DEF IInv, TypeOK
<1>4. CASE Fenced(row[e], disp[d].token)
    <2>1. row[e].token > 0
        BY <1>1, <1>2, <1>4 DEF Fenced, Sound
    <2>2. CASE MarkSent(d)
        <3> DEFINE new == [row[e] EXCEPT !.status = "SENT", !.token = 0, !.leaseExp = 0]
        <3>1. row' = [row EXCEPT ![e] = new]
            BY <1>4, <2>2 DEF MarkSent
        <3>2. new \in Row /\ new.token = 0 /\ new.confirmed = row[e].confirmed
            BY <1>3 DEF Row
        <3> HIDE DEF new, e
        <3> QED BY <1>1, <1>2, <2>1, <3>1, <3>2, Released, Proceeding
    <2>3. CASE BackOff(d)
        <3> DEFINE at == clock + Delay(disp[d].seen[e].attempts + 1)
                   new == [row[e] EXCEPT !.token = 0, !.leaseExp = 0, !.nextAt = at]
        <3>1. row' = [row EXCEPT ![e] = new]
            BY <1>4, <2>3 DEF BackOff
        <3>2. at \in Int
            <4>1. disp[d].seen[e].attempts + 1 \in Nat
                BY <1>2 DEF Dispatcher
            <4> QED BY <1>2, <4>1, DelayInt
        <3> HIDE DEF at
        <3>3. new \in Row /\ new.token = 0 /\ new.confirmed = row[e].confirmed
            BY <1>3, <3>2 DEF Row
        <3> HIDE DEF new, e
        <3> QED BY <1>1, <1>2, <2>1, <3>1, <3>3, Released, Proceeding
    <2> QED BY <2>2, <2>3
<1>5. CASE ~Fenced(row[e], disp[d].token)
    <2>1. row' = row
        BY <1>5 DEF MarkSent, BackOff
    <2>2. Lasting /\ RowsSound' /\ row' \in [Events -> Row]
        BY <1>1, <2>1, Still DEF IInv, RowsSound, TypeOK
    <2> QED BY <1>1, <2>2, Proceeding
<1> QED BY <1>4, <1>5

LEMMA Throws ==
    ASSUME IInv, NEW d \in Dispatchers, Throw(d)
    PROVE  IInv'
<1> DEFINE have == disp[d].local
<1>1. /\ disp[d].pc \in {"send", "confirm", "mark"}
      /\ UNCHANGED <<poison, clock, lastToken, row, copies>>
    BY DEF Throw
<1>2. /\ disp[d] \in Dispatcher /\ Current(d) \in Events
      /\ InHand(disp[d], Current(d), row, copies)
    BY <1>1, Busy
<1>3. have \in SUBSET Parts
    BY <1>2 DEF Dispatcher
<1>4. disp' = [disp EXCEPT ![d] = Slot(disp[d], "backoff", have)]
    BY <1>2 DEF Throw, Slot, Dispatcher
<1>5. InHand(Slot(disp[d], "backoff", have), Current(d), row', copies')
    <2>1. /\ Slot(disp[d], "backoff", have).pc = "backoff"
          /\ Slot(disp[d], "backoff", have).local = have
        BY <1>2, SlotHas
    <2> QED BY <1>1, <1>2, <2>1 DEF InHand
<1>6. Lasting /\ RowsSound'
    BY <1>1, Still DEF IInv, RowsSound
<1> HIDE DEF have
<1> QED BY <1>1, <1>3, <1>4, <1>5, <1>6, GoesOn, Zenon DEF IInv, TypeOK

LEMMA PassesOver ==
    ASSUME IInv, NEW d \in Dispatchers, PassOver(d)
    PROVE  IInv'
<1>1. /\ disp[d].pc # "idle" /\ Proceed(d)
      /\ UNCHANGED <<poison, clock, lastToken, row, copies>>
    BY DEF PassOver
<1>2. Lasting /\ RowsSound' /\ row' \in [Events -> Row]
    BY <1>1, Still DEF IInv, RowsSound, TypeOK
<1> QED BY <1>1, <1>2, Proceeding

LEMMA Dies ==
    ASSUME IInv, NEW d \in Dispatchers, Die(d)
    PROVE  IInv'
<1>1. lastToken \in Nat /\ clock \in Nat
    BY DEF IInv, TypeOK
<1> QED BY <1>1, IdleTyped, IdleSound, SlotOnly, Zenon DEF Die

LEMMA Ticks ==
    ASSUME IInv, Tick
    PROVE  IInv'
<1>1. clock \in Nat /\ clock' \in Nat /\ clock' > 0 /\ lastToken \in Nat
    BY DEF IInv, TypeOK, Tick
<1>2. UNCHANGED <<poison, lastToken, row, copies, disp>>
    BY DEF Tick
<1>3. Lasting
    BY <1>1, <1>2 DEF Lasting, Tick
<1>4. TypeOK'
    BY <1>1, <1>2 DEF IInv, TypeOK
<1>5. ASSUME NEW d \in Dispatchers
      PROVE  Sound(disp[d], row', copies', lastToken', clock')
    BY <1>1, <1>2, <1>3, SlotLasts, Zenon DEF IInv, TypeOK
<1>6. \A d \in Dispatchers : Sound(disp[d], row, copies, lastToken, clock)'
    BY <1>2, <1>5, Zenon
<1>7. RowsSound'
    BY <1>2 DEF IInv, RowsSound
<1> QED BY <1>4, <1>6, <1>7 DEF IInv

\* A rearmed event has neither a copy with the queue nor a fence that holds.
LEMMA Rearms ==
    ASSUME IInv, NEW e \in Events, Rearm(e)
    PROVE  IInv'
<1> DEFINE new == [row[e] EXCEPT !.status = "PENDING", !.token = 0, !.leaseExp = 0, !.nextAt = 0]
           none == [i \in Items(e) |-> 0]
<1>1. /\ e \notin Deliveries /\ UNCHANGED <<poison, clock, lastToken, disp>>
      /\ row' = [row EXCEPT ![e] = new]
      /\ copies' = [copies EXCEPT ![e] = none]
    BY DEF Rearm
<1>2. row \in [Events -> Row] /\ row[e] \in Row /\ lastToken \in Nat /\ clock \in Nat
    BY DEF IInv, TypeOK
<1>3. new \in Row /\ new.token = 0 /\ new.confirmed = row[e].confirmed
    <2>1. 0 \in Nat /\ 0 \in Int
        OBVIOUS
    <2> QED BY <1>2, <2>1, Zenon DEF Row
<1>4. none \in [Items(e) -> Nat]
    OBVIOUS
<1> HIDE DEF new, none
<1>5. row' \in [Events -> Row] /\ row'[e] = new /\ \A f \in Events \ {e} : row'[f] = row[f]
    BY <1>1, <1>2, <1>3
<1>6. DOMAIN copies = Events /\ \A f \in Events : copies[f] \in [Items(f) -> Nat]
    BY DEF IInv, TypeOK
<1>7. DOMAIN copies' = Events /\ copies'[e] = none /\ \A f \in Events \ {e} : copies'[f] = copies[f]
    BY <1>1, <1>6
<1>8. \A f \in Events : copies'[f] \in [Items(f) -> Nat]
    BY <1>4, <1>6, <1>7, Zenon
<1>9. Lasting
    <2>1. ASSUME NEW f \in Events \ Deliveries, NEW t \in 1..lastToken, Fenced(row'[f], t)
          PROVE  f # e /\ Fenced(row[f], t) /\ copies'[f] = copies[f]
        BY <1>3, <1>5, <1>7, <2>1 DEF Fenced
    <2>2. \A f \in Deliveries : copies'[f] = copies[f]
        BY <1>1, <1>7, OutboxConstants
    <2> QED BY <1>1, <1>2, <2>1, <2>2 DEF Lasting
<1>10. RowsSound'
    <2>1. ASSUME NEW f \in Events
          PROVE  row'[f].token <= lastToken /\ Truthful(f, row'[f].confirmed, copies')
        <3>1. row'[f].token <= lastToken
            BY <1>2, <1>3, <1>5 DEF IInv, RowsSound
        <3>2. Truthful(f, row[f].confirmed, copies)
            BY DEF IInv, RowsSound
        <3>3. row[f].confirmed \in SUBSET Parts /\ row'[f].confirmed = row[f].confirmed
            BY <1>2, <1>3, <1>5 DEF Row
        <3> QED BY <1>9, <3>1, <3>2, <3>3, TruthLasts
    <2> QED BY <1>1, <2>1, Zenon DEF RowsSound
<1>11. TypeOK'
    BY <1>1, <1>5, <1>7, <1>8, Zenon DEF IInv, TypeOK
<1>12. ASSUME NEW d \in Dispatchers
       PROVE  Sound(disp[d], row', copies', lastToken', clock')
    BY <1>1, <1>2, <1>9, SlotLasts, Zenon DEF IInv, TypeOK
<1>13. \A d \in Dispatchers : Sound(disp[d], row, copies, lastToken, clock)'
    BY <1>1, <1>12, Zenon
<1> QED BY <1>10, <1>11, <1>13 DEF IInv

LEMMA Stutters ==
    ASSUME IInv, UNCHANGED vars
    PROVE  IInv'
<1>1. UNCHANGED <<poison, clock, lastToken, row, copies, disp>>
    BY DEF vars
<1>2. TypeOK' /\ RowsSound'
    BY <1>1 DEF IInv, TypeOK, RowsSound
<1>3. \A d \in Dispatchers : Sound(disp[d], row, copies, lastToken, clock)'
    BY <1>1, Zenon DEF IInv
<1> QED BY <1>2, <1>3 DEF IInv

LEMMA Step == IInv /\ [Next]_vars => IInv'
BY Starts, Takes, SendsJob, SendsPart, Confirms, EndsAttempt, Throws, PassesOver, Dies, Rearms,
   Ticks, Stutters, Zenon DEF Next, Work

\* Types, fresh tokens and true progress, for every instance: no dispatcher believes an
\* item handed over that was not, however leases lapse and batches overlap.
THEOREM Invariant == Spec => []IInv
<1> QED BY InitIInv, Step, PTL DEF Spec

-----------------------------------------------------------------------------
(* Leases *)

\* Nobody takes an event whose lease is live, or whose backoff is running, by the real clock.
THEOREM LiveDispatchesRespected == Spec => LiveDispatchRespected
<1>1. ASSUME IInv, [Next]_vars, NEW e \in Events, row'[e].token \notin {row[e].token, 0}
      PROVE  row[e].leaseExp <= clock /\ row[e].nextAt <= clock
    <2>1. row \in [Events -> Row] /\ clock \in Nat /\ row[e] \in Row
        BY <1>1 DEF IInv, TypeOK
    <2>2. CASE \E d \in Dispatchers : Take(d)
        <3>1. PICK d \in Dispatchers : Take(d)
            BY <2>2
        <3>2. Current(d) = e /\ Due(row[e], disp[d].now)
            BY <1>1, <2>1, <3>1 DEF Take
        <3>3. disp[d].now <= clock /\ disp[d].now \in Nat
            BY <1>1 DEF IInv, TypeOK, Sound, Dispatcher
        <3> QED BY <2>1, <3>2, <3>3 DEF Due, Free, Row
    <2>3. CASE \E d \in Dispatchers : Confirm(d) \/ MarkSent(d) \/ BackOff(d)
        <3>1. PICK d \in Dispatchers : Confirm(d) \/ MarkSent(d) \/ BackOff(d)
            BY <2>3
        <3>2. row'[e].token \in {row[e].token, 0}
            BY <2>1, <3>1 DEF Confirm, MarkSent, BackOff, Row
        <3> QED BY <1>1, <3>2
    <2>4. CASE \E f \in Events : Rearm(f)
        BY <1>1, <2>1, <2>4 DEF Rearm, Row
    <2>5. CASE row' = row
        BY <1>1, <2>5
    <2> QED BY <1>1, <2>2, <2>3, <2>4, <2>5, Zenon DEF Next, Work, Start, SendJob, SendPart, Throw,
            PassOver, Die, Tick, vars
<1>2. IInv /\ [Next]_vars =>
        [\A e \in Events :
            row'[e].token \notin {row[e].token, 0}
                => row[e].leaseExp <= clock /\ row[e].nextAt <= clock]_vars
    BY <1>1, Zenon
<1> QED BY <1>2, Invariant, PTL DEF Spec, LiveDispatchRespected, Null

-----------------------------------------------------------------------------
(* The outbox implements its contract *)

LEMMA HandStep ==
    ASSUME IInv, NEW e \in Events, NEW i \in Items(e),
           copies' = [copies EXCEPT ![e][i] = @ + 1], row' = row
    PROVE  Contract!Next
<1>1. DOMAIN copies = Events /\ \A f \in Events : copies[f] \in [Items(f) -> Nat]
    BY DEF IInv, TypeOK
<1>2. /\ copies'[e] = [copies[e] EXCEPT ![i] = @ + 1]
      /\ \A f \in Events \ {e} : copies'[f] = copies[f]
    BY <1>1
<1>3. {j \in Items(e) : copies'[e][j] = 0} = {j \in Items(e) : copies[e][j] = 0} \ {i}
    <2>1. copies[e] \in [Items(e) -> Nat]
        BY <1>1
    <2> HIDE <1>1
    <2>2. copies'[e][i] > 0 /\ \A j \in Items(e) \ {i} : copies'[e][j] = copies[e][j]
        BY <1>2, <2>1
    <2> QED BY <2>2
<1>4. Owed' = [Owed EXCEPT ![e] = @ \ {i}]
    <2>1. \A f \in Events \ {e} : Owed'[f] = Owed[f]
        BY <1>2 DEF Owed
    <2>2. Owed'[e] = Owed[e] \ {i}
        BY <1>3 DEF Owed
    <2>3. DOMAIN Owed = Events /\ DOMAIN Owed' = Events /\ Owed' = [f \in Events |-> Owed'[f]]
        BY DEF Owed
    <2> QED BY <2>1, <2>2, <2>3, Zenon
<1>5. Done' = Done
    BY DEF Done
<1> QED BY <1>4, <1>5 DEF Contract!Next, Contract!Hand

LEMMA RestStep ==
    ASSUME UNCHANGED copies, \A e \in Events : row'[e].status = row[e].status
    PROVE  UNCHANGED <<Owed, Done>>
BY DEF Owed, Done

LEMMA FinishStep ==
    ASSUME IInv, NEW d \in Dispatchers, MarkSent(d), Fenced(row[Current(d)], disp[d].token)
    PROVE  Contract!Next
<1> DEFINE e == Current(d)
<1>1. disp[d].pc = "mark"
    BY DEF MarkSent
<1>2. disp[d] \in Dispatcher /\ e \in Events /\ InHand(disp[d], e, row, copies)
    BY <1>1, Busy
<1>3. /\ row \in [Events -> Row] /\ copies' = copies
      /\ row' = [row EXCEPT ![e].status = "SENT", ![e].token = 0, ![e].leaseExp = 0]
    BY DEF IInv, TypeOK, MarkSent
<1>4. Owed' = Owed /\ Done' = Done \cup {e}
    <2>1. row'[e].status = "SENT" /\ \A f \in Events \ {e} : row'[f] = row[f]
        BY <1>2, <1>3 DEF Row
    <2> QED BY <1>2, <1>3, <2>1 DEF Owed, Done
<1>5. \A i \in Items(e) : copies[e][i] > 0
    BY <1>1, <1>2, ItemsOf DEF InHand, Truthful
<1>6. Owed[e] = {}
    BY <1>2, <1>5 DEF Owed
<1> HIDE DEF e
<1> QED BY <1>2, <1>4, <1>6, Zenon DEF Contract!Next, Contract!Finish

LEMMA AskStep ==
    ASSUME IInv, NEW e \in Events, Rearm(e)
    PROVE  Contract!Next
<1>1. /\ e \in Events \ Deliveries /\ row[e].status = "SENT" /\ row \in [Events -> Row]
      /\ row' = [row EXCEPT ![e].status = "PENDING", ![e].token = 0, ![e].leaseExp = 0,
                            ![e].nextAt = 0]
      /\ copies' = [copies EXCEPT ![e] = [i \in Items(e) |-> 0]] /\ DOMAIN copies = Events
    BY DEF Rearm, IInv, TypeOK
<1>2. row'[e].status = "PENDING" /\ \A f \in Events \ {e} : row'[f] = row[f]
    BY <1>1 DEF Row
<1>3. /\ copies'[e] = [i \in Items(e) |-> 0]
      /\ \A f \in Events \ {e} : copies'[f] = copies[f]
    BY <1>1
<1>4. Done' = Done \ {e} /\ e \in Done
    BY <1>1, <1>2 DEF Done
<1>5. {i \in Items(e) : copies'[e][i] = 0} = Items(e)
    BY <1>3
<1>6. Owed' = [Owed EXCEPT ![e] = Items(e)]
    BY <1>3, <1>5 DEF Owed
<1> QED BY <1>1, <1>4, <1>6, Zenon DEF Contract!Next, Contract!AskAgain

LEMMA ContractStep == IInv /\ [Next]_vars => [Contract!Next]_<<Owed, Done>>
<1> SUFFICES ASSUME IInv, [Next]_vars, ~UNCHANGED <<Owed, Done>>
             PROVE  Contract!Next
    OBVIOUS
<1>1. row \in [Events -> Row]
    BY DEF IInv, TypeOK
<1>2. ASSUME NEW d \in Dispatchers, SendJob(d) \/ SendPart(d)
      PROVE  Contract!Next
    <2>1. Current(d) \in Events /\ InHand(disp[d], Current(d), row, copies) /\ disp[d].pc = "send"
        BY <1>2, Busy DEF SendJob, SendPart
    <2>2. CASE SendJob(d)
        BY <2>1, <2>2, ItemsOf, HandStep DEF SendJob
    <2>3. CASE SendPart(d)
        <3>1. Items(Current(d)) = Parts
            BY <2>1, <2>3, ItemsOf DEF SendPart
        <3>2. Oldest(Parts \ disp[d].local) \in Parts
            <4>1. Parts \ disp[d].local # {}
                BY <2>1, <3>1 DEF InHand
            <4> QED BY <4>1, OldestPart
        <3> QED BY <2>1, <2>3, <3>1, <3>2, HandStep DEF SendPart
    <2> QED BY <1>2, <2>2, <2>3
<1>3. ASSUME NEW d \in Dispatchers, Take(d) \/ Confirm(d) \/ BackOff(d)
      PROVE  FALSE
    <2>1. copies' = copies /\ \A e \in Events : row'[e].status = row[e].status
        BY <1>1, <1>3 DEF Take, Confirm, BackOff, Row
    <2> QED BY <2>1, RestStep
<1>4. ASSUME NEW d \in Dispatchers, MarkSent(d)
      PROVE  Contract!Next
    <2>1. CASE ~Fenced(row[Current(d)], disp[d].token)
        BY <1>4, <2>1, RestStep DEF MarkSent
    <2> QED BY <1>4, <2>1, FinishStep
<1>5. ASSUME UNCHANGED <<row, copies>>
      PROVE  FALSE
    BY <1>5, RestStep
<1> QED BY <1>2, <1>3, <1>4, <1>5, AskStep, Zenon DEF Next, Work, Start, Throw, PassOver, Die,
        Tick, vars

\* The outbox implements OutboxContract: SENT is said of an event only when every item has
\* been handed over since it was last asked for, whoever else was at work on it.
THEOREM Implements == Spec => AtLeastOnce
<1>1. Init => Contract!Init
    <2> SUFFICES ASSUME Init PROVE Contract!Init
        OBVIOUS
    <2>1. Owed = [e \in Events |-> Items(e)]
        BY DEF Init, Owed
    <2>2. Done = {}
        BY DEF Init, Done, NewRow
    <2> QED BY <2>1, <2>2, Zenon DEF Contract!Init
<1> QED BY <1>1, ContractStep, Invariant, PTL DEF Spec, AtLeastOnce, Contract!Spec

-----------------------------------------------------------------------------
(* Copies and attempts *)

\* Dispatcher q may yet hand over item i of event e in the attempt it is at.
MaySend(q, e, i) ==
    /\ q.todo # {} /\ Oldest(q.todo) = e
    /\ IF e \in Deliveries THEN q.pc \in {"send", "confirm"} /\ i \notin q.local
       ELSE q.pc = "send"

Senders(e, i) == {d \in Dispatchers : MaySend(disp[d], e, i)}

\* The copies there are, and those that are still to come of attempts at work, are not
\* more than the attempts: this is inductive, and OneCopyPerAttempt alone is not.
WithinAttempts ==
    \A e \in Events : \A i \in Items(e) :
        copies[e][i] + Cardinality(Senders(e, i)) <= row[e].attempts

LEMMA Counts ==
    ASSUME IInv, NEW e \in Events, NEW i \in Items(e)
    PROVE  /\ copies[e][i] \in Nat /\ row[e].attempts \in Nat
           /\ IsFiniteSet(Senders(e, i)) /\ Cardinality(Senders(e, i)) \in Nat
<1>1. copies[e][i] \in Nat /\ row[e].attempts \in Nat
    BY DEF IInv, TypeOK, Row
<1>2. Senders(e, i) \in SUBSET Dispatchers
    BY DEF Senders
<1> QED BY <1>1, <1>2, FS_Subset, FS_CardinalityType, OutboxConstants

\* Nobody is added to those who may send, and nothing is sent.
LEMMA NoneAdded ==
    ASSUME IInv, IInv', NEW e \in Events, NEW i \in Items(e),
           copies[e][i] + Cardinality(Senders(e, i)) <= row[e].attempts,
           copies'[e][i] <= copies[e][i], row[e].attempts <= row'[e].attempts,
           \A x \in Dispatchers : MaySend(disp'[x], e, i) => MaySend(disp[x], e, i)
    PROVE  copies'[e][i] + Cardinality(Senders(e, i)') <= row'[e].attempts
<1>1. Senders(e, i)' \in SUBSET Senders(e, i)
    BY DEF Senders
<1>2. Cardinality(Senders(e, i)') <= Cardinality(Senders(e, i))
    BY <1>1, Counts, FS_Subset
<1>3. copies'[e][i] \in Nat /\ row'[e].attempts \in Nat /\ Cardinality(Senders(e, i)') \in Nat
    <2>1. copies'[e][i] \in Nat /\ row'[e].attempts \in Nat
        BY DEF IInv, TypeOK, Row
    <2> QED BY <1>1, <2>1, Counts, FS_Subset, FS_CardinalityType
<1> QED BY <1>2, <1>3, Counts

\* One more attempt, and one more dispatcher that may send.
LEMMA OneAdded ==
    ASSUME IInv, IInv', NEW e \in Events, NEW i \in Items(e), NEW d \in Dispatchers,
           copies[e][i] + Cardinality(Senders(e, i)) <= row[e].attempts,
           copies'[e][i] = copies[e][i], row'[e].attempts = row[e].attempts + 1,
           \A x \in Dispatchers \ {d} : disp'[x] = disp[x]
    PROVE  copies'[e][i] + Cardinality(Senders(e, i)') <= row'[e].attempts
<1> DEFINE S == Senders(e, i)
           more == S \cup {d}
<1>1. IsFiniteSet(S) /\ Cardinality(S) \in Nat
    BY Counts
<1>2. Senders(e, i)' \in SUBSET more
    BY DEF Senders
<1>3. IsFiniteSet(more) /\ Cardinality(more) <= Cardinality(S) + 1 /\ Cardinality(more) \in Nat
    <2> HIDE DEF S
    <2>1. /\ IsFiniteSet(more)
          /\ Cardinality(more) = IF d \in S THEN Cardinality(S) ELSE Cardinality(S) + 1
        BY <1>1, FS_AddElement
    <2> QED BY <1>1, <2>1
<1> HIDE DEF more
<1>4. Cardinality(Senders(e, i)') <= Cardinality(more) /\ Cardinality(Senders(e, i)') \in Nat
    BY <1>2, <1>3, FS_Subset, FS_CardinalityType
<1> QED BY <1>1, <1>3, <1>4, Counts

\* One more copy, and one dispatcher less that may send it.
LEMMA OneSent ==
    ASSUME IInv, IInv', NEW e \in Events, NEW i \in Items(e), NEW d \in Dispatchers,
           copies[e][i] + Cardinality(Senders(e, i)) <= row[e].attempts,
           copies'[e][i] = copies[e][i] + 1, row'[e].attempts = row[e].attempts,
           MaySend(disp[d], e, i), ~MaySend(disp'[d], e, i),
           \A x \in Dispatchers \ {d} : disp'[x] = disp[x]
    PROVE  copies'[e][i] + Cardinality(Senders(e, i)') <= row'[e].attempts
<1> DEFINE S == Senders(e, i)
           less == S \ {d}
<1>1. IsFiniteSet(S) /\ Cardinality(S) \in Nat
    BY Counts
<1>2. Senders(e, i)' \in SUBSET less /\ d \in S
    BY DEF Senders
<1>3. IsFiniteSet(less) /\ Cardinality(less) = Cardinality(S) - 1
    <2> HIDE DEF S
    <2> QED BY <1>1, <1>2, FS_RemoveElement
<1> HIDE DEF less
<1>4. Cardinality(Senders(e, i)') <= Cardinality(less) /\ Cardinality(Senders(e, i)') \in Nat
    BY <1>2, <1>3, FS_Subset, FS_CardinalityType
<1> QED BY <1>1, <1>3, <1>4, Counts

\* What the counts need to know of a step of dispatcher d that hands nothing over and takes
\* no lease: it does not become one that may send what it might not have sent before.
LEMMA QuietStep ==
    ASSUME IInv, IInv', WithinAttempts, NEW d \in Dispatchers,
           copies' = copies, \A e \in Events : row'[e].attempts = row[e].attempts,
           \A x \in Dispatchers \ {d} : disp'[x] = disp[x],
           NEW e \in Events, NEW i \in Items(e),
           MaySend(disp'[d], e, i) => MaySend(disp[d], e, i)
    PROVE  copies'[e][i] + Cardinality(Senders(e, i)') <= row'[e].attempts
<1>1. \A x \in Dispatchers : MaySend(disp'[x], e, i) => MaySend(disp[x], e, i)
    OBVIOUS
<1>2. copies'[e][i] <= copies[e][i] /\ row[e].attempts <= row'[e].attempts
    BY Counts
<1> QED BY <1>1, <1>2, NoneAdded DEF WithinAttempts

LEMMA ProceedQuiet ==
    ASSUME IInv, NEW d \in Dispatchers, disp[d].pc # "idle", Proceed(d), NEW e, NEW i
    PROVE  /\ ~MaySend(disp'[d], e, i)
           /\ \A x \in Dispatchers \ {d} : disp'[x] = disp[x]
<1>1. disp[d] \in Dispatcher /\ disp[d].todo # {} /\ disp \in [Dispatchers -> Dispatcher]
    BY Busy DEF IInv, TypeOK
<1>2. disp'[d] = Passed(disp[d]) /\ \A x \in Dispatchers \ {d} : disp'[x] = disp[x]
    BY <1>1 DEF Proceed
<1>3. Passed(disp[d]).pc = "idle" \/ Passed(disp[d]).pc = "take"
    BY <1>1, PassedSlot, IdleTyped, Zenon
<1> QED BY <1>2, <1>3 DEF MaySend

LEMMA TakeCounts ==
    ASSUME IInv, IInv', WithinAttempts, NEW d \in Dispatchers, Take(d),
           NEW e \in Events, NEW i \in Items(e)
    PROVE  copies'[e][i] + Cardinality(Senders(e, i)') <= row'[e].attempts
<1>1. /\ row \in [Events -> Row] /\ disp \in [Dispatchers -> Dispatcher]
      /\ disp[d].pc = "take" /\ copies' = copies
    BY DEF IInv, TypeOK, Take
<1>2. CASE ~Due(row[Current(d)], disp[d].now)
    <2>1. Proceed(d) /\ row' = row
        BY <1>2 DEF Take
    <2> QED BY <1>1, <2>1, ProceedQuiet, QuietStep
<1>3. CASE Due(row[Current(d)], disp[d].now)
    <2>1. \A x \in Dispatchers \ {d} : disp'[x] = disp[x]
        BY <1>1, <1>3 DEF Take
    <2>2. CASE Current(d) = e
        <3>1. row'[e].attempts = row[e].attempts + 1
            BY <1>1, <1>3, <2>2 DEF Take, Row
        <3> QED BY <1>1, <2>1, <3>1, OneAdded DEF WithinAttempts
    <2>3. CASE Current(d) # e
        <3>1. \A f \in Events : f # Current(d) => row'[f] = row[f]
            BY <1>1, <1>3 DEF Take
        <3>2. disp'[d].todo = disp[d].todo
            BY <1>1, <1>3 DEF Take, Dispatcher
        <3>3. ~MaySend(disp'[d], e, i)
            BY <2>3, <3>2 DEF MaySend, Current
        <3>4. \A x \in Dispatchers : MaySend(disp'[x], e, i) => MaySend(disp[x], e, i)
            BY <2>1, <3>3
        <3>5. copies'[e][i] <= copies[e][i] /\ row[e].attempts <= row'[e].attempts
            BY <1>1, <2>3, <3>1, Counts
        <3> QED BY <3>4, <3>5, NoneAdded DEF WithinAttempts
    <2> QED BY <2>2, <2>3
<1> QED BY <1>2, <1>3

LEMMA SendCounts ==
    ASSUME IInv, IInv', WithinAttempts, NEW d \in Dispatchers, SendJob(d) \/ SendPart(d),
           NEW e \in Events, NEW i \in Items(e)
    PROVE  copies'[e][i] + Cardinality(Senders(e, i)') <= row'[e].attempts
<1> DEFINE c == Current(d)
           p == IF c \in Deliveries THEN Oldest(Parts \ disp[d].local) ELSE 1
<1>1. /\ disp[d].pc = "send" /\ row' = row /\ copies' = [copies EXCEPT ![c][p] = @ + 1]
      /\ c \in Deliveries =>
            disp' = [disp EXCEPT ![d].pc = "confirm", ![d].local = @ \cup {p}]
      /\ c \notin Deliveries => disp' = [disp EXCEPT ![d].pc = "mark"]
    <2>1. CASE SendJob(d)
        BY <2>1 DEF SendJob
    <2>2. CASE SendPart(d)
        BY <2>2 DEF SendPart
    <2> QED BY <2>1, <2>2
<1>2. /\ disp[d] \in Dispatcher /\ disp[d].todo # {} /\ c \in Events
      /\ InHand(disp[d], c, row, copies)
    BY <1>1, Busy
<1>3. p \in Items(c) /\ (c \in Deliveries => p \notin disp[d].local)
    <2>1. CASE c \in Deliveries
        <3>1. Items(c) = Parts /\ Parts \ disp[d].local # {}
            BY <1>1, <1>2, <2>1, ItemsOf DEF InHand
        <3> QED BY <2>1, <3>1, OldestPart
    <2>2. CASE c \notin Deliveries
        BY <1>2, <2>2, ItemsOf
    <2> QED BY <2>1, <2>2
<1> HIDE DEF p
<1>4. /\ DOMAIN copies = Events /\ \A f \in Events : copies[f] \in [Items(f) -> Nat]
      /\ disp \in [Dispatchers -> Dispatcher]
    BY DEF IInv, TypeOK
<1>5. \A x \in Dispatchers \ {d} : disp'[x] = disp[x]
    BY <1>1, <1>4
<1>6. /\ disp'[d].todo = disp[d].todo
      /\ c \in Deliveries => disp'[d].local = disp[d].local \cup {p}
      /\ c \notin Deliveries => disp'[d].pc = "mark"
    <2>1. CASE c \in Deliveries
        BY <1>1, <1>2, <1>4, <2>1 DEF Dispatcher
    <2>2. CASE c \notin Deliveries
        BY <1>1, <1>2, <1>4, <2>2 DEF Dispatcher
    <2> QED BY <2>1, <2>2
<1>7. CASE e = c /\ i = p
    <2>1. copies'[e][i] = copies[e][i] + 1
        BY <1>1, <1>2, <1>3, <1>4, <1>7
    <2>2. MaySend(disp[d], e, i)
        BY <1>1, <1>2, <1>3, <1>7 DEF MaySend, Current
    <2>3. ~MaySend(disp'[d], e, i)
        BY <1>6, <1>7 DEF MaySend
    <2> QED BY <1>1, <1>5, <2>1, <2>2, <2>3, OneSent DEF WithinAttempts
<1>8. CASE ~(e = c /\ i = p)
    <2>1. copies'[e][i] = copies[e][i]
        BY <1>1, <1>2, <1>3, <1>4, <1>8
    <2>2. MaySend(disp'[d], e, i) => MaySend(disp[d], e, i)
        BY <1>1, <1>6 DEF MaySend, Current
    <2>3. \A x \in Dispatchers : MaySend(disp'[x], e, i) => MaySend(disp[x], e, i)
        BY <1>5, <2>2
    <2>4. copies'[e][i] <= copies[e][i] /\ row[e].attempts <= row'[e].attempts
        BY <1>1, <2>1, Counts
    <2> QED BY <2>3, <2>4, NoneAdded DEF WithinAttempts
<1> QED BY <1>7, <1>8

LEMMA OtherCounts ==
    ASSUME IInv, IInv', WithinAttempts, NEW d \in Dispatchers,
           Start(d) \/ Confirm(d) \/ MarkSent(d) \/ BackOff(d) \/ Throw(d) \/ PassOver(d) \/ Die(d),
           NEW e \in Events, NEW i \in Items(e)
    PROVE  copies'[e][i] + Cardinality(Senders(e, i)') <= row'[e].attempts
<1>1. /\ copies' = copies /\ row \in [Events -> Row] /\ disp \in [Dispatchers -> Dispatcher]
      /\ disp[d] \in Dispatcher
    BY DEF IInv, TypeOK, Start, Confirm, MarkSent, BackOff, Throw, PassOver, Die
<1>2. \A f \in Events : row'[f].attempts = row[f].attempts
    <2>1. CASE Start(d) \/ Throw(d) \/ PassOver(d) \/ Die(d)
        <3>1. row' = row
            BY <2>1, Zenon DEF Start, Throw, PassOver, Die
        <3> QED BY <3>1
    <2>2. CASE Confirm(d)
        BY <1>1, <2>2 DEF Row, Confirm
    <2>3. CASE MarkSent(d)
        BY <1>1, <2>3 DEF Row, MarkSent
    <2>4. CASE BackOff(d)
        BY <1>1, <2>4 DEF Row, BackOff
    <2> QED BY <2>1, <2>2, <2>3, <2>4
<1>3. CASE MarkSent(d) \/ BackOff(d) \/ PassOver(d)
    BY <1>1, <1>2, <1>3, ProceedQuiet, QuietStep DEF MarkSent, BackOff, PassOver
<1>4. CASE Start(d) \/ Throw(d) \/ Die(d)
    <2>1. /\ disp'[d].pc \in {"idle", "take", "backoff"}
          /\ \A x \in Dispatchers \ {d} : disp'[x] = disp[x]
        <3>1. CASE Start(d)
            <4>1. PICK S \in SUBSET Events :
                    disp' = [disp EXCEPT ![d] = IF S = {} THEN Idle ELSE
                                [Idle EXCEPT !.pc = "take", !.now = clock, !.todo = S,
                                    !.seen = [f \in Events |->
                                        IF f \in S THEN [attempts  |-> row[f].attempts,
                                                         confirmed |-> row[f].confirmed]
                                                   ELSE Unseen]]]
                BY <3>1, Zenon DEF Start
            <4> DEFINE seen == [f \in Events |->
                                    IF f \in S THEN [attempts  |-> row[f].attempts,
                                                     confirmed |-> row[f].confirmed]
                                               ELSE Unseen]
            <4> HIDE DEF seen
            <4>2. disp' = [disp EXCEPT ![d] = IF S = {} THEN Idle ELSE
                                [Idle EXCEPT !.pc = "take", !.now = clock, !.todo = S,
                                             !.seen = seen]]
                BY <4>1, Zenon DEF seen
            <4> QED BY <1>1, <4>2 DEF Idle
        <3>2. CASE Throw(d)
            BY <1>1, <3>2 DEF Throw, Dispatcher
        <3>3. CASE Die(d)
            BY <1>1, <3>3 DEF Die, Idle
        <3> QED BY <1>4, <3>1, <3>2, <3>3
    <2> QED BY <1>1, <1>2, <2>1, QuietStep DEF MaySend
<1>5. CASE Confirm(d)
    <2>1. disp[d].pc = "confirm" /\ Current(d) \in Deliveries
        BY <1>5, Busy DEF Confirm, InHand
    <2>2. /\ disp'[d].todo = disp[d].todo /\ disp'[d].local = disp[d].local
          /\ \A x \in Dispatchers \ {d} : disp'[x] = disp[x]
        BY <1>1, <1>5 DEF Confirm, Dispatcher
    <2>3. MaySend(disp'[d], e, i) => MaySend(disp[d], e, i)
        BY <2>1, <2>2 DEF MaySend, Current
    <2> QED BY <1>1, <1>2, <2>2, <2>3, QuietStep
<1> QED BY <1>3, <1>4, <1>5

LEMMA CountsStep == IInv /\ IInv' /\ WithinAttempts /\ [Next]_vars => WithinAttempts'
<1> SUFFICES ASSUME IInv, IInv', WithinAttempts, [Next]_vars, NEW e \in Events, NEW i \in Items(e)
             PROVE  copies'[e][i] + Cardinality(Senders(e, i)') <= row'[e].attempts
    BY DEF WithinAttempts
<1>1. CASE \E f \in Events : Rearm(f)
    <2>1. PICK f \in Events : Rearm(f)
        BY <1>1
    <2>2. copies'[e][i] <= copies[e][i]
        <3>1. DOMAIN copies = Events
            BY DEF IInv, TypeOK
        <3> QED BY <2>1, <3>1, Counts DEF Rearm
    <2>3. row[e].attempts <= row'[e].attempts /\ disp' = disp
        <3>1. row \in [Events -> Row]
            BY DEF IInv, TypeOK
        <3> QED BY <2>1, <3>1, Counts DEF Rearm, Row
    <2> QED BY <2>2, <2>3, NoneAdded DEF WithinAttempts
<1>2. CASE Tick \/ UNCHANGED vars
    <2>1. UNCHANGED <<row, copies, disp>>
        BY <1>2 DEF Tick, vars
    <2>2. copies'[e][i] <= copies[e][i] /\ row[e].attempts <= row'[e].attempts
        BY <2>1, Counts
    <2> QED BY <2>1, <2>2, NoneAdded DEF WithinAttempts
<1> QED BY <1>1, <1>2, TakeCounts, SendCounts, OtherCounts, Zenon DEF Next, Work

\* An attempt hands an item over at most once: no more copies than attempts.
THEOREM OneCopyAnAttempt == Spec => []OneCopyPerAttempt
<1>1. Init => WithinAttempts
    <2> SUFFICES ASSUME Init, NEW e \in Events, NEW i \in Items(e)
                 PROVE  copies[e][i] + Cardinality(Senders(e, i)) <= row[e].attempts
        BY DEF WithinAttempts
    <2>1. copies[e][i] = 0 /\ row[e].attempts = 0
        BY DEF Init, NewRow
    <2>2. Senders(e, i) = {}
        BY IdleTyped DEF Init, Senders, MaySend
    <2> QED BY <2>1, <2>2, FS_EmptySet
<1>2. IInv /\ WithinAttempts => OneCopyPerAttempt
    <2> SUFFICES ASSUME IInv, WithinAttempts, NEW e \in Events, NEW i \in Items(e)
                 PROVE  copies[e][i] <= row[e].attempts
        BY DEF OneCopyPerAttempt
    <2> QED BY Counts DEF WithinAttempts
<1> QED BY <1>1, <1>2, CountsStep, Invariant, PTL DEF Spec
=============================================================================
