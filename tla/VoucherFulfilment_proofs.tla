----------------------- MODULE VoucherFulfilment_proofs -----------------------
(***************************************************************************)
(* Proofs about VoucherFulfilment, for any number of payments, plans,      *)
(* vouchers, events and concurrent requests, and any number of faults.     *)
(*                                                                         *)
(* None of the safety invariants is inductive on its own: what a request   *)
(* in flight may do next depends on what it saw.  RequestInv says what is  *)
(* still true of each request, whatever the other requests, the managers   *)
(* and the provider did since its previous step.                           *)
(***************************************************************************)
EXTENDS VoucherFulfilment, TLAPS

\* What request r saw still holds: charges and recorded evidence are never
\* withdrawn, sales never undone.
Sound(r) ==
  LET q == request[r] IN
  /\ q.step # "idle" /\ q.event # NoEvent => q.payment = EventRef[q.event]
  /\ q.step \in {"verified", "recorded"} => charge[q.payment] = "paid"
  /\ q.step = "recorded" => payment[q.payment].verified
  /\ q.step = "answered" /\ q.outcome = "failed" => payment[q.payment].verified
  /\ q.step = "answered" /\ q.outcome \in Accepted /\ q.event # NoEvent
       => Fulfilled(q.payment)

RequestInv == \A r \in Requests : Sound(r)

\* The provider only knows references whose row was committed first.
RowInv == \A p \in Payments : charge[p] # "none" => payment[p].status # "absent"

\* The part of the invariant that is about rows and not about requests.
RowsInv == /\ EachVoucherSoldOnce
           /\ SoldOnlyWhenPaid
           /\ NothingDroppedUnsold
           /\ OneDeliveryPerSale
           /\ RowInv

IInv == TypeOK /\ RowsInv /\ RequestInv

-----------------------------------------------------------------------------
(* Type correctness.                                                       *)

\* What the helpers of a request's steps do to the request record: the record
\* keeps its type, and only the step, or the step and the outcome, change.
LEMMA AdvanceTyped ==
  ASSUME TypeOK, NEW r \in Requests, NEW s \in Steps, NEW t \in Steps, Advance(r, s, t)
  PROVE  request' \in [Requests -> RequestRecord]
BY DEF TypeOK, Advance, RequestRecord

\* The same of a request that is answered.
LEMMA AnswerTyped ==
  ASSUME TypeOK, NEW r \in Requests, NEW s \in Steps, NEW o \in Outcomes, Answer(r, s, o)
  PROVE  request' \in [Requests -> RequestRecord]
BY DEF TypeOK, Answer, RequestRecord, Steps

\* The empty slot is a request record.
LEMMA IdleTyped == Idle \in RequestRecord
BY PaymentAssumption DEF Idle, RequestRecord, Steps, Outcomes

\* The initial state, with no row written and no request made, is well typed.
LEMMA TypeInit == Init => TypeOK
BY IdleTyped, FaultAssumption
   DEF Init, TypeOK, ChargeStates, PaymentRow, NoPayment

\* Every step of a purchase, webhook, retry, manager or provider keeps the types.
LEMMA TypeStep == TypeOK /\ [Next]_vars => TypeOK'
<1> SUFFICES ASSUME TypeOK, [Next]_vars PROVE TypeOK'
  OBVIOUS
<1> USE FaultAssumption
<1>1. ASSUME NEW p \in Payments, NEW pl \in Plans, InitializePayment(p, pl) PROVE TypeOK'
  <2>1. [payment[p] EXCEPT !.status = "pending", !.plan = pl] \in PaymentRow
    BY DEF TypeOK, PaymentRow
  <2>2. payment' \in [Payments -> PaymentRow]
    BY <1>1, <2>1 DEF InitializePayment, TypeOK
  <2>3. charge' \in [Payments -> ChargeStates]
    BY <1>1 DEF InitializePayment, TypeOK, ChargeStates
  <2> QED
    BY <1>1, <2>2, <2>3 DEF TypeOK, InitializePayment
<1>2. ASSUME NEW p \in Payments, CompleteCharge(p) PROVE TypeOK'
  BY <1>2 DEF TypeOK, CompleteCharge, ChargeStates, db
<1>3. ASSUME NEW r \in Requests, NEW e \in Events, ReceiveEvent(r, e) PROVE TypeOK'
  <2>1. EventRef[e] \in Payments
    BY EventAssumption
  <2>2. request' \in [Requests -> RequestRecord]
    BY <1>3, <2>1 DEF TypeOK, ReceiveEvent, RequestRecord, Steps, Outcomes
  <2> QED
    BY <1>3, <2>2 DEF TypeOK, ReceiveEvent, db
<1>4. ASSUME NEW r \in Requests, NEW p \in Payments, RequestRetry(r, p) PROVE TypeOK'
  BY <1>4 DEF TypeOK, RequestRetry, RequestRecord, Steps, Outcomes, db
<1>5. ASSUME NEW r \in Requests, VerifyCharge(r) PROVE TypeOK'
  BY <1>5, AdvanceTyped, AnswerTyped DEF VerifyCharge, TypeOK, Steps, Outcomes, db
<1>6. ASSUME NEW r \in Requests, ProviderOutage(r) PROVE TypeOK'
  BY <1>6, AnswerTyped DEF ProviderOutage, Fault, TypeOK, Steps, Outcomes, db
<1>7. ASSUME NEW r \in Requests, RecordEvidence(r) PROVE TypeOK'
  <2>1. request[r].payment \in Payments
    BY DEF TypeOK, RequestRecord
  <2>2. payment' \in [Payments -> PaymentRow]
    BY <1>7, <2>1 DEF RecordEvidence, TypeOK, PaymentRow
  <2> QED
    BY <1>7, <2>2, AdvanceTyped DEF RecordEvidence, TypeOK, Steps
<1>8. ASSUME NEW r \in Requests, DropDuplicate(r) PROVE TypeOK'
  BY <1>8, AnswerTyped DEF DropDuplicate, TypeOK, Steps, Outcomes, db
<1>9. ASSUME NEW r \in Requests, Fulfil(r) PROVE TypeOK'
  <2> DEFINE p == request[r].payment
  <2>1. p \in Payments /\ request[r].event \in Events \cup {NoEvent}
    BY DEF TypeOK, RequestRecord
  <2>2. PICK v \in VouchersFor(p) :
          /\ issued' = issued \cup {v}
          /\ payment' = [payment EXCEPT ![p] = SoldRow(p, v)]
    BY <1>9 DEF Fulfil
  <2>3. v \in Vouchers
    BY <2>1, <2>2 DEF VouchersFor, TypeOK, PaymentRow
  <2>4. SoldRow(p, v) \in PaymentRow
    <3>1. payment[p] \in PaymentRow
      BY <2>1 DEF TypeOK
    <3>2. QueueDelivery(p) \in Nat
      BY <3>1 DEF QueueDelivery, PaymentRow
    <3> QED
      BY <2>3, <3>1, <3>2 DEF SoldRow, PaymentRow
  <2>5. payment' \in [Payments -> PaymentRow]
    BY <2>1, <2>2, <2>4 DEF TypeOK
  <2>6. request' \in [Requests -> RequestRecord]
    BY <1>9, AnswerTyped DEF Fulfil, Steps, Outcomes
  <2>7. processed' \subseteq Events
    BY <1>9, <2>1 DEF Fulfil, TypeOK
  <2> QED
    BY <1>9, <2>2, <2>3, <2>5, <2>6, <2>7 DEF Fulfil, TypeOK
<1>10. ASSUME NEW r \in Requests, RefuseFulfilment(r) PROVE TypeOK'
  BY <1>10, AnswerTyped DEF RefuseFulfilment, TypeOK, Steps, Outcomes, db
<1>11. ASSUME NEW r \in Requests, FulfilmentError(r) PROVE TypeOK'
  BY <1>11, AnswerTyped DEF FulfilmentError, Fault, TypeOK, Steps, Outcomes, db
<1>12. ASSUME NEW r \in Requests, Respond(r) PROVE TypeOK'
  <2>1. request' \in [Requests -> RequestRecord]
    BY <1>12, IdleTyped DEF Respond, TypeOK
  <2>2. acked' \subseteq Events
    BY <1>12 DEF Respond, TypeOK, RequestRecord
  <2> QED
    BY <1>12, <2>1, <2>2 DEF Respond, TypeOK, db
<1>13. ASSUME NEW r \in Requests, Crash(r) PROVE TypeOK'
  BY <1>13, IdleTyped DEF Crash, Fault, TypeOK, db
<1>14. ASSUME NEW pl \in Plans, TogglePlan(pl) PROVE TypeOK'
  BY <1>14 DEF TogglePlan, TypeOK
<1>15. ASSUME NEW pl \in Plans, DeletePlan(pl) PROVE TypeOK'
  BY <1>15 DEF DeletePlan, TypeOK, PaymentRow
<1>16. CASE ToggleTenant
  BY <1>16 DEF ToggleTenant, TypeOK
<1>17. CASE UNCHANGED vars
  BY <1>17 DEF vars, db, TypeOK
<1> QED
  BY <1>1, <1>2, <1>3, <1>4, <1>5, <1>6, <1>7, <1>8, <1>9, <1>10, <1>11, <1>12,
     <1>13, <1>14, <1>15, <1>16, <1>17
     DEF Next, Customer, Receive, Work, Failure, Management

\* Every reachable state is well typed.
THEOREM TypeCorrect == Spec => []TypeOK
BY TypeInit, TypeStep, PTL DEF Spec

-----------------------------------------------------------------------------
(* The inductive invariant.                                                *)

\* What no step of any process takes back.
Monotone ==
  \A p \in Payments :
    /\ charge[p] = "paid" => charge'[p] = "paid"
    /\ payment[p].verified => payment'[p].verified
    /\ Fulfilled(p) => payment'[p].voucher = payment[p].voucher

\* A request that does not move in a monotone step stays sound.
LEMMA StaysSound ==
  ASSUME TypeOK, Monotone, NEW r \in Requests, Sound(r), request'[r] = request[r]
  PROVE  Sound(r)'
<1>1. request[r].payment \in Payments
  BY DEF TypeOK, RequestRecord
<1>2. \A p \in Payments : Fulfilled(p) => Fulfilled(p)'
  BY DEF Monotone, Fulfilled
<1> QED
  BY <1>1, <1>2 DEF Sound, Monotone

\* What the request that moves looks like afterwards.
LEMMA AdvanceRecord ==
  ASSUME TypeOK, NEW r \in Requests, NEW s, NEW t, Advance(r, s, t)
  PROVE  /\ request[r].step = s /\ request'[r].step = t
         /\ request'[r].event = request[r].event
         /\ request'[r].payment = request[r].payment
BY DEF TypeOK, Advance, RequestRecord

\* What a request that answers looks like afterwards: same event and payment.
LEMMA AnswerRecord ==
  ASSUME TypeOK, NEW r \in Requests, NEW s, NEW o, Answer(r, s, o)
  PROVE  /\ request[r].step = s
         /\ request'[r].step = "answered" /\ request'[r].outcome = o
         /\ request'[r].event = request[r].event
         /\ request'[r].payment = request[r].payment
BY DEF TypeOK, Answer, RequestRecord

\* The moves of one request leave the others as they are.
LEMMA OthersStay ==
  ASSUME TypeOK, NEW r \in Requests,
         \/ \E s, t : Advance(r, s, t)
         \/ \E s, o : Answer(r, s, o)
  PROVE  \A i \in Requests \ {r} : request'[i] = request[i]
BY DEF TypeOK, Advance, Answer

\* A step that changes neither rows nor charges keeps that part.
LEMMA RowsUnchanged ==
  ASSUME RowsInv, UNCHANGED <<charge, acked, db>>
  PROVE  RowsInv' /\ Monotone
BY DEF RowsInv, db, EachVoucherSoldOnce, SoldOnlyWhenPaid, NothingDroppedUnsold,
       OneDeliveryPerSale, RowInv, Fulfilled, Monotone

\* No row, no request: the inductive invariant holds initially.
LEMMA InvInit == Init => IInv
<1> SUFFICES ASSUME Init PROVE IInv
  OBVIOUS
<1>1. TypeOK
  BY TypeInit
<1>2. RowsInv
  BY NullAssumption DEF Init, RowsInv, EachVoucherSoldOnce, SoldOnlyWhenPaid,
     NothingDroppedUnsold, OneDeliveryPerSale, RowInv, Fulfilled, NoPayment
<1>3. RequestInv
  BY DEF Init, RequestInv, Sound, Idle
<1> QED
  BY <1>1, <1>2, <1>3 DEF IInv

\* The fulfilment transaction keeps the rows consistent: the voucher it links
\* is the payment's own or one that no row has.
LEMMA FulfilKeepsRows ==
  ASSUME IInv, NEW r \in Requests, Fulfil(r),
         NEW p \in Payments, p = request[r].payment
  PROVE  RowsInv' /\ Monotone /\ Fulfilled(p)'
<1>1. /\ p \in Payments
      /\ request[r].event \in Events \cup {NoEvent}
      /\ payment \in [Payments -> PaymentRow]
  BY DEF IInv, TypeOK, RequestRecord
<1>2. request[r].step = "recorded"
  BY DEF Fulfil, Answer
<1>3. /\ charge[p] = "paid" /\ payment[p].verified
      /\ request[r].event # NoEvent => p = EventRef[request[r].event]
  BY <1>2 DEF IInv, RequestInv, Sound
<1>4. PICK v \in VouchersFor(p) :
        /\ issued' = issued \cup {v}
        /\ payment' = [payment EXCEPT ![p] = SoldRow(p, v)]
  BY DEF Fulfil
<1>5. /\ \A q \in Payments \ {p} : payment'[q] = payment[q]
      /\ payment'[p].voucher = v /\ payment'[p].status = "success"
      /\ payment'[p].verified /\ payment'[p].jobs = QueueDelivery(p)
  BY <1>1, <1>3, <1>4 DEF SoldRow, PaymentRow
<1>6. /\ v # NoVoucher
      /\ Fulfilled(p) => v = payment[p].voucher
      /\ ~Fulfilled(p) => v \notin issued
  BY <1>1, NullAssumption DEF VouchersFor, Fulfilled
<1>7. \A q \in Payments \ {p} : payment[q].voucher = v => ~Fulfilled(q)
  BY <1>1, <1>6 DEF IInv, RowsInv, EachVoucherSoldOnce, Fulfilled
<1>8. Fulfilled(p)' /\ \A q \in Payments : Fulfilled(q) => Fulfilled(q)'
  BY <1>5, <1>6 DEF Fulfilled
<1>9. EachVoucherSoldOnce'
  <2>1. issued' = {payment'[q].voucher : q \in Payments} \ {NoVoucher}
    BY <1>1, <1>4, <1>5, <1>6 DEF IInv, RowsInv, EachVoucherSoldOnce, Fulfilled
  <2>2. ASSUME NEW q \in Payments, NEW s \in Payments,
               Fulfilled(q)', payment'[q].voucher = payment'[s].voucher
        PROVE  q = s
    BY <1>1, <1>5, <1>7, <2>2 DEF IInv, RowsInv, EachVoucherSoldOnce, Fulfilled
  <2> QED
    BY <2>1, <2>2 DEF EachVoucherSoldOnce
<1>10. SoldOnlyWhenPaid'
  BY <1>3, <1>5, <1>8 DEF IInv, RowsInv, SoldOnlyWhenPaid, Fulfilled, Fulfil
<1>11. NothingDroppedUnsold'
  <2>1. \A e \in Events : EventRef[e] \in Payments
    BY EventAssumption
  <2>2. acked' = acked /\ processed' = processed \cup ({request[r].event} \ {NoEvent})
    BY DEF Fulfil
  <2>3. acked \subseteq Events /\ processed \subseteq Events
    BY DEF IInv, TypeOK
  <2>4. \A e \in acked \cup processed : Fulfilled(EventRef[e])
    BY DEF IInv, RowsInv, NothingDroppedUnsold
  <2> QED
    BY <1>1, <1>3, <1>8, <2>1, <2>2, <2>3, <2>4 DEF NothingDroppedUnsold, Fulfilled
<1>12. OneDeliveryPerSale'
  BY <1>1, <1>5, <1>6, <1>8 DEF IInv, RowsInv, OneDeliveryPerSale, QueueDelivery, Fulfilled
<1>13. RowInv'
  BY <1>5 DEF IInv, RowsInv, RowInv, Fulfil
<1>14. Monotone
  BY <1>3, <1>5, <1>6 DEF Monotone, Fulfilled, Fulfil
<1> QED
  BY <1>8, <1>9, <1>10, <1>11, <1>12, <1>13, <1>14 DEF RowsInv

\* Every step of a customer, a request or a manager keeps the inductive invariant.
LEMMA InvStep == IInv /\ [Next]_vars => IInv'
<1> SUFFICES ASSUME IInv, [Next]_vars PROVE IInv'
  OBVIOUS
<1>1. TypeOK /\ TypeOK' /\ RowsInv /\ RequestInv
  BY TypeStep DEF IInv
<1> SUFFICES RowsInv' /\ RequestInv'
  BY <1>1 DEF IInv
<1>2. ASSUME NEW r \in Requests, RowsInv', Monotone, Sound(r)',
             \A i \in Requests \ {r} : request'[i] = request[i]
      PROVE  RowsInv' /\ RequestInv'
  BY <1>1, <1>2, StaysSound DEF RequestInv
<1>3. ASSUME RowsInv', Monotone, UNCHANGED request PROVE RowsInv' /\ RequestInv'
  BY <1>1, <1>3, StaysSound DEF RequestInv
<1>4. ASSUME NEW p \in Payments, NEW pl \in Plans, InitializePayment(p, pl)
      PROVE  RowsInv' /\ RequestInv'
  <2>1. payment'[p] = [payment[p] EXCEPT !.status = "pending", !.plan = pl]
    BY <1>1, <1>4 DEF InitializePayment, TypeOK
  <2>2. /\ payment'[p].voucher = payment[p].voucher /\ payment'[p].status = "pending"
        /\ payment'[p].verified = payment[p].verified /\ payment'[p].jobs = payment[p].jobs
    BY <1>1, <2>1 DEF TypeOK, PaymentRow
  <2>3. \A q \in Payments \ {p} : payment'[q] = payment[q] /\ charge'[q] = charge[q]
    BY <1>1, <1>4 DEF InitializePayment, TypeOK
  <2>4. charge[p] = "none" /\ ~Fulfilled(p)
    BY <1>1, <1>4 DEF InitializePayment, RowsInv, RowInv, SoldOnlyWhenPaid
  <2>5. Monotone
    BY <2>2, <2>3, <2>4 DEF Monotone
  <2>6. \A q \in Payments : payment'[q].voucher = payment[q].voucher
    BY <2>2, <2>3
  <2>7. EachVoucherSoldOnce'
    BY <1>1, <1>4, <2>6 DEF InitializePayment, RowsInv, EachVoucherSoldOnce, Fulfilled
  <2>8. SoldOnlyWhenPaid' /\ OneDeliveryPerSale' /\ RowInv'
    BY <1>1, <2>2, <2>3, <2>4
       DEF RowsInv, SoldOnlyWhenPaid, OneDeliveryPerSale, RowInv, Fulfilled
  <2>9. NothingDroppedUnsold'
    BY <1>1, <1>4, <2>6, EventAssumption
       DEF InitializePayment, RowsInv, NothingDroppedUnsold, Fulfilled, TypeOK
  <2> QED
    BY <1>3, <1>4, <2>5, <2>7, <2>8, <2>9 DEF InitializePayment, RowsInv
<1>5. ASSUME NEW p \in Payments, CompleteCharge(p) PROVE RowsInv' /\ RequestInv'
  <2>1. Monotone
    BY <1>1, <1>5 DEF CompleteCharge, Monotone, TypeOK, db
  <2>2. RowsInv'
    BY <1>1, <1>5 DEF CompleteCharge, TypeOK, db, RowsInv, EachVoucherSoldOnce,
       SoldOnlyWhenPaid, NothingDroppedUnsold, OneDeliveryPerSale, RowInv, Fulfilled
  <2> QED
    BY <1>3, <1>5, <2>1, <2>2 DEF CompleteCharge
<1>6. ASSUME NEW r \in Requests, NEW e \in Events, ReceiveEvent(r, e)
      PROVE  RowsInv' /\ RequestInv'
  <2>1. RowsInv' /\ Monotone
    BY <1>1, <1>6, RowsUnchanged DEF ReceiveEvent
  <2>2. payment[EventRef[e]].status # "absent"
    BY <1>1, <1>6, EventAssumption DEF ReceiveEvent, RowsInv, RowInv
  <2>3. /\ request'[r] = [step |-> "received", event |-> e, payment |-> EventRef[e],
                          outcome |-> "none"]
        /\ \A i \in Requests \ {r} : request'[i] = request[i]
    BY <1>1, <1>6, <2>2 DEF ReceiveEvent, TypeOK
  <2>4. Sound(r)'
    BY <2>3 DEF Sound
  <2> QED
    BY <1>2, <2>1, <2>3, <2>4
<1>7. ASSUME NEW r \in Requests, NEW p \in Payments, RequestRetry(r, p)
      PROVE  RowsInv' /\ RequestInv'
  <2>1. RowsInv' /\ Monotone
    BY <1>1, <1>7, RowsUnchanged DEF RequestRetry
  <2>2. /\ request'[r] = [step |-> "received", event |-> NoEvent, payment |-> p,
                          outcome |-> "none"]
        /\ \A i \in Requests \ {r} : request'[i] = request[i]
    BY <1>1, <1>7 DEF RequestRetry, TypeOK
  <2>3. Sound(r)'
    BY <2>2 DEF Sound
  <2> QED
    BY <1>2, <2>1, <2>2, <2>3
<1>8. ASSUME NEW r \in Requests, NEW s, NEW o, Answer(r, s, o), o \notin Accepted,
             s \in {"received", "recorded"}, o = "failed" => s = "recorded",
             UNCHANGED <<charge, acked, db>>
      PROVE  RowsInv' /\ RequestInv'
  <2>1. RowsInv' /\ Monotone
    BY <1>1, <1>8, RowsUnchanged
  <2>2. \A i \in Requests \ {r} : request'[i] = request[i]
    BY <1>1, <1>8, OthersStay
  <2>3. Sound(r)'
    BY <1>1, <1>8, AnswerRecord DEF RequestInv, Sound, db, Accepted
  <2> QED
    BY <1>2, <2>1, <2>2, <2>3
<1>9. ASSUME NEW r \in Requests, VerifyCharge(r) PROVE RowsInv' /\ RequestInv'
  <2>1. CASE charge[request[r].payment] = "paid"
    <3>1. Advance(r, "received", "verified") /\ UNCHANGED <<charge, acked, db>>
      BY <1>9, <2>1 DEF VerifyCharge
    <3>2. RowsInv' /\ Monotone
      BY <1>1, <3>1, RowsUnchanged
    <3>3. \A i \in Requests \ {r} : request'[i] = request[i]
      BY <1>1, <3>1, OthersStay
    <3>4. Sound(r)'
      BY <1>1, <2>1, <3>1, AdvanceRecord DEF RequestInv, Sound
    <3> QED
      BY <1>2, <3>2, <3>3, <3>4
  <2>2. CASE charge[request[r].payment] # "paid"
    BY <1>8, <1>9, <2>2 DEF VerifyCharge, Accepted
  <2> QED
    BY <2>1, <2>2
<1>10. ASSUME NEW r \in Requests, RecordEvidence(r) PROVE RowsInv' /\ RequestInv'
  <2>1. PICK p \in Payments : p = request[r].payment
    BY <1>1 DEF TypeOK, RequestRecord
  <2>2. payment'[p] = [payment[p] EXCEPT !.verified = TRUE]
    BY <1>1, <1>10, <2>1 DEF RecordEvidence, TypeOK
  <2>3. /\ payment'[p].voucher = payment[p].voucher /\ payment'[p].verified
        /\ payment'[p].status = payment[p].status /\ payment'[p].jobs = payment[p].jobs
    BY <1>1, <2>2 DEF TypeOK, PaymentRow
  <2>4. \A q \in Payments \ {p} : payment'[q] = payment[q]
    BY <1>1, <1>10, <2>1 DEF RecordEvidence, TypeOK
  <2>5. Monotone
    BY <1>10, <2>3, <2>4 DEF Monotone, RecordEvidence
  <2>6. \A q \in Payments : payment'[q].voucher = payment[q].voucher
    BY <2>3, <2>4
  <2>7. EachVoucherSoldOnce'
    BY <1>1, <1>10, <2>6 DEF RecordEvidence, RowsInv, EachVoucherSoldOnce, Fulfilled
  <2>8. NothingDroppedUnsold'
    BY <1>1, <1>10, <2>6, EventAssumption
       DEF RecordEvidence, RowsInv, NothingDroppedUnsold, Fulfilled, TypeOK
  <2>9. SoldOnlyWhenPaid' /\ OneDeliveryPerSale' /\ RowInv'
    BY <1>1, <1>10, <2>3, <2>4
       DEF RecordEvidence, RowsInv, SoldOnlyWhenPaid, OneDeliveryPerSale, RowInv, Fulfilled
  <2>10. \A i \in Requests \ {r} : request'[i] = request[i]
    BY <1>1, <1>10, OthersStay DEF RecordEvidence
  <2>11. Sound(r)'
    <3>1. /\ request[r].step = "verified" /\ request'[r].step = "recorded"
          /\ request'[r].event = request[r].event /\ request'[r].payment = p
      BY <1>1, <1>10, <2>1, AdvanceRecord DEF RecordEvidence
    <3> QED
      BY <1>1, <1>10, <2>1, <2>3, <3>1 DEF RecordEvidence, RequestInv, Sound
  <2> QED
    BY <1>2, <2>5, <2>7, <2>8, <2>9, <2>10, <2>11 DEF RowsInv
<1>11. ASSUME NEW r \in Requests, DropDuplicate(r) PROVE RowsInv' /\ RequestInv'
  <2>1. RowsInv' /\ Monotone
    BY <1>1, <1>11, RowsUnchanged DEF DropDuplicate
  <2>2. \A i \in Requests \ {r} : request'[i] = request[i]
    BY <1>1, <1>11, OthersStay DEF DropDuplicate
  <2>3. Fulfilled(EventRef[request[r].event])
    BY <1>1, <1>11 DEF DropDuplicate, DuplicateEvent, RowsInv, NothingDroppedUnsold
  <2>4. Sound(r)'
    BY <1>1, <1>11, <2>3, AnswerRecord
       DEF DropDuplicate, RequestInv, Sound, Fulfilled, db
  <2> QED
    BY <1>2, <2>1, <2>2, <2>4
<1>12. ASSUME NEW r \in Requests, Fulfil(r) PROVE RowsInv' /\ RequestInv'
  <2>1. PICK p \in Payments : p = request[r].payment
    BY <1>1 DEF TypeOK, RequestRecord
  <2>2. RowsInv' /\ Monotone /\ Fulfilled(p)'
    BY <1>12, <2>1, FulfilKeepsRows
  <2>3. \A i \in Requests \ {r} : request'[i] = request[i]
    BY <1>1, <1>12, OthersStay DEF Fulfil
  <2>4. /\ request[r].step = "recorded" /\ request'[r].step = "answered"
        /\ request'[r].outcome = "ok"
        /\ request'[r].event = request[r].event /\ request'[r].payment = p
    BY <1>1, <1>12, <2>1, AnswerRecord DEF Fulfil
  <2>5. Sound(r)'
    BY <1>1, <2>1, <2>2, <2>4 DEF RequestInv, Sound, Fulfilled
  <2> QED
    BY <1>2, <2>2, <2>3, <2>5
<1>13. ASSUME NEW r \in Requests, Respond(r) PROVE RowsInv' /\ RequestInv'
  <2>1. \A e \in acked' \cup processed' : Fulfilled(EventRef[e])
    BY <1>1, <1>13
       DEF Respond, RowsInv, NothingDroppedUnsold, RequestInv, Sound, db
  <2>2. RowsInv' /\ Monotone
    BY <1>1, <1>13, <2>1 DEF Respond, db, RowsInv, EachVoucherSoldOnce, SoldOnlyWhenPaid,
       NothingDroppedUnsold, OneDeliveryPerSale, RowInv, Fulfilled, Monotone
  <2>3. request'[r] = Idle /\ \A i \in Requests \ {r} : request'[i] = request[i]
    BY <1>1, <1>13 DEF Respond, TypeOK
  <2>4. Sound(r)'
    BY <2>3 DEF Sound, Idle
  <2> QED
    BY <1>2, <2>2, <2>3, <2>4
<1>14. ASSUME NEW r \in Requests, Crash(r) PROVE RowsInv' /\ RequestInv'
  <2>1. RowsInv' /\ Monotone
    BY <1>1, <1>14, RowsUnchanged DEF Crash
  <2>2. request'[r] = Idle /\ \A i \in Requests \ {r} : request'[i] = request[i]
    BY <1>1, <1>14 DEF Crash, TypeOK
  <2>3. Sound(r)'
    BY <2>2 DEF Sound, Idle
  <2> QED
    BY <1>2, <2>1, <2>2, <2>3
<1>15. ASSUME NEW r \in Requests, RefuseFulfilment(r) \/ FulfilmentError(r)
       PROVE  RowsInv' /\ RequestInv'
  BY <1>8, <1>15 DEF RefuseFulfilment, FulfilmentError, Accepted
<1>16. ASSUME NEW r \in Requests, ProviderOutage(r) PROVE RowsInv' /\ RequestInv'
  BY <1>8, <1>16 DEF ProviderOutage, Accepted
<1>17. ASSUME NEW pl \in Plans, TogglePlan(pl) PROVE RowsInv' /\ RequestInv'
  <2>1. RowsInv' /\ Monotone
    BY <1>1, <1>17 DEF TogglePlan, RowsInv, EachVoucherSoldOnce, SoldOnlyWhenPaid,
       NothingDroppedUnsold, OneDeliveryPerSale, RowInv, Fulfilled, Monotone
  <2> QED
    BY <1>3, <1>17, <2>1 DEF TogglePlan
<1>18. ASSUME NEW pl \in Plans, DeletePlan(pl) PROVE RowsInv' /\ RequestInv'
  <2>1. \A q \in Payments :
          /\ payment'[q].voucher = payment[q].voucher
          /\ payment'[q].verified = payment[q].verified
          /\ payment'[q].status = payment[q].status /\ payment'[q].jobs = payment[q].jobs
    BY <1>1, <1>18 DEF DeletePlan, TypeOK, PaymentRow
  <2>2. Monotone
    BY <1>18, <2>1 DEF Monotone, DeletePlan
  <2>3. EachVoucherSoldOnce'
    BY <1>1, <1>18, <2>1 DEF DeletePlan, RowsInv, EachVoucherSoldOnce, Fulfilled
  <2>4. NothingDroppedUnsold'
    BY <1>1, <1>18, <2>1, EventAssumption
       DEF DeletePlan, RowsInv, NothingDroppedUnsold, Fulfilled, TypeOK
  <2>5. SoldOnlyWhenPaid' /\ OneDeliveryPerSale' /\ RowInv'
    BY <1>1, <1>18, <2>1
       DEF DeletePlan, RowsInv, SoldOnlyWhenPaid, OneDeliveryPerSale, RowInv, Fulfilled
  <2> QED
    BY <1>3, <1>18, <2>2, <2>3, <2>4, <2>5 DEF DeletePlan, RowsInv
<1>19. CASE ToggleTenant
  <2>1. RowsInv' /\ Monotone
    BY <1>1, <1>19 DEF ToggleTenant, RowsInv, EachVoucherSoldOnce, SoldOnlyWhenPaid,
       NothingDroppedUnsold, OneDeliveryPerSale, RowInv, Fulfilled, Monotone
  <2> QED
    BY <1>3, <1>19, <2>1 DEF ToggleTenant
<1>20. CASE UNCHANGED vars
  BY <1>1, <1>3, <1>20, RowsUnchanged DEF vars
<1> QED
  BY <1>4, <1>5, <1>6, <1>7, <1>9, <1>10, <1>11, <1>12, <1>13, <1>14, <1>15, <1>16,
     <1>17, <1>18, <1>19, <1>20
     DEF Next, Customer, Receive, Work, Failure, Management

\* The inductive invariant holds in every reachable state.
THEOREM Invariance == Spec => []IInv
BY InvInit, InvStep, PTL DEF Spec

\* Each customer voucher belongs to exactly one payment, however notifications,
\* retries, crashes and management interleave.
THEOREM EachVoucherSoldOnceAlways == Spec => []EachVoucherSoldOnce
<1>1. IInv => EachVoucherSoldOnce
  BY DEF IInv, RowsInv
<1> QED
  BY <1>1, Invariance, PTL

\* No voucher without a charge confirmed for the right amount.
THEOREM SoldOnlyWhenPaidAlways == Spec => []SoldOnlyWhenPaid
<1>1. IInv => SoldOnlyWhenPaid
  BY DEF IInv, RowsInv
<1> QED
  BY <1>1, Invariance, PTL

\* No event is acknowledged or marked processed before its voucher is sold.
THEOREM NothingDroppedUnsoldAlways == Spec => []NothingDroppedUnsold
<1>1. IInv => NothingDroppedUnsold
  BY DEF IInv, RowsInv
<1> QED
  BY <1>1, Invariance, PTL

\* A failed fulfilment leaves the payment visible as verified.
THEOREM EvidenceSurvivesFailureAlways == Spec => []EvidenceSurvivesFailure
<1>1. IInv => EvidenceSurvivesFailure
  BY DEF IInv, RequestInv, Sound, EvidenceSurvivesFailure
<1> QED
  BY <1>1, Invariance, PTL

\* Exactly one automatic delivery per sale to a customer with an email.
THEOREM OneDeliveryPerSaleAlways == Spec => []OneDeliveryPerSale
<1>1. IInv => OneDeliveryPerSale
  BY DEF IInv, RowsInv
<1> QED
  BY <1>1, Invariance, PTL

-----------------------------------------------------------------------------
(* The refinement of VoucherSale.                                          *)

\* Every step of the handlers is a step of the sale or leaves it alone.
LEMMA SaleStep == IInv /\ IInv' /\ [Next]_vars => [Sale!SaleNext]_(Sale!saleVars)
<1> SUFFICES ASSUME IInv, IInv', [Next]_vars
             PROVE  Sale!SaleNext \/ UNCHANGED Sale!saleVars
  OBVIOUS
<1> DEFINE Paid == {p \in Payments : charge[p] = "paid"}
           Sold == [p \in Payments |-> payment[p].voucher]
<1>1. TypeOK
  BY DEF IInv
<1>2. ASSUME Paid' = Paid, Sold' = Sold PROVE UNCHANGED Sale!saleVars
  BY <1>2 DEF Sale!saleVars
<1>3. ASSUME charge' = charge, \A q \in Payments : payment'[q].voucher = payment[q].voucher
      PROVE  UNCHANGED Sale!saleVars
  BY <1>2, <1>3
<1>4. ASSUME NEW p \in Payments, NEW pl \in Plans, InitializePayment(p, pl)
      PROVE  UNCHANGED Sale!saleVars
  <2>1. Paid' = Paid
    BY <1>1, <1>4 DEF IInv, RowsInv, RowInv, InitializePayment, TypeOK
  <2>2. \A q \in Payments : payment'[q].voucher = payment[q].voucher
    BY <1>1, <1>4 DEF InitializePayment, TypeOK, PaymentRow
  <2> QED
    BY <1>2, <2>1, <2>2
<1>5. ASSUME NEW p \in Payments, CompleteCharge(p)
      PROVE  Sale!SaleNext \/ UNCHANGED Sale!saleVars
  <2>1. Sold' = Sold
    BY <1>5 DEF CompleteCharge, db
  <2>2. CASE charge' = [charge EXCEPT ![p] = "paid"]
    <3>1. Paid' = Paid \cup {p}
      BY <1>1, <2>2 DEF TypeOK
    <3>2. Sale!Confirm(p)
      BY <2>1, <3>1 DEF Sale!Confirm
    <3> QED
      BY <3>2 DEF Sale!SaleNext
  <2>3. CASE charge' = [charge EXCEPT ![p] = "mismatched"]
    <3>1. Paid' = Paid
      BY <1>1, <1>5, <2>3 DEF CompleteCharge, TypeOK
    <3> QED
      BY <1>2, <2>1, <3>1
  <2> QED
    BY <1>5, <2>2, <2>3 DEF CompleteCharge
<1>6. ASSUME NEW r \in Requests, RecordEvidence(r) PROVE UNCHANGED Sale!saleVars
  <2>1. request[r].payment \in Payments
    BY <1>1 DEF TypeOK, RequestRecord
  <2>2. \A q \in Payments : payment'[q].voucher = payment[q].voucher
    BY <1>1, <1>6, <2>1 DEF RecordEvidence, TypeOK, PaymentRow
  <2> QED
    BY <1>3, <1>6, <2>2 DEF RecordEvidence
<1>7. ASSUME NEW r \in Requests, Fulfil(r)
      PROVE  Sale!SaleNext \/ UNCHANGED Sale!saleVars
  <2>1. PICK p \in Payments : p = request[r].payment
    BY <1>1 DEF TypeOK, RequestRecord
  <2>2. PICK v \in VouchersFor(p) : payment' = [payment EXCEPT ![p] = SoldRow(p, v)]
    BY <1>7, <2>1 DEF Fulfil
  <2>3. /\ \A q \in Payments \ {p} : payment'[q].voucher = payment[q].voucher
        /\ payment'[p].voucher = v
    BY <1>1, <2>2 DEF SoldRow, TypeOK, PaymentRow
  <2>4. p \in Paid /\ Paid' = Paid
    BY <1>7, <2>1 DEF IInv, RequestInv, Sound, Fulfil, Answer
  <2>5. CASE Fulfilled(p)
    <3>1. v = payment[p].voucher
      BY <2>2, <2>5 DEF VouchersFor, Fulfilled
    <3> QED
      BY <1>3, <1>7, <2>3, <3>1 DEF Fulfil
  <2>6. CASE ~Fulfilled(p)
    <3>1. v \in Vouchers \ issued
      BY <2>2, <2>6 DEF VouchersFor, Fulfilled
    <3>2. \A q \in Payments : payment[q].voucher # v
      BY <3>1, NullAssumption DEF IInv, RowsInv, EachVoucherSoldOnce
    <3>3. v \in Sale!Unsold
      BY <3>1, <3>2 DEF Sale!Unsold
    <3>4. Sold' = [Sold EXCEPT ![p] = v]
      BY <2>3
    <3>5. Sale!Exchange(p)
      BY <2>4, <2>6, <3>3, <3>4 DEF Sale!Exchange, Fulfilled
    <3> QED
      BY <3>5 DEF Sale!SaleNext
  <2> QED
    BY <2>5, <2>6
<1>8. ASSUME NEW pl \in Plans, DeletePlan(pl) PROVE UNCHANGED Sale!saleVars
  <2>1. \A q \in Payments : payment'[q].voucher = payment[q].voucher
    BY <1>1, <1>8 DEF DeletePlan, TypeOK, PaymentRow
  <2> QED
    BY <1>3, <1>8, <2>1 DEF DeletePlan
<1>9. ASSUME charge' = charge, payment' = payment PROVE UNCHANGED Sale!saleVars
  BY <1>3, <1>9
<1>10. ASSUME NEW r \in Requests,
              \/ Receive(r) \/ Failure(r) \/ VerifyCharge(r) \/ DropDuplicate(r)
              \/ RefuseFulfilment(r) \/ Respond(r)
       PROVE  UNCHANGED Sale!saleVars
  BY <1>9, <1>10 DEF Receive, ReceiveEvent, RequestRetry, Failure, ProviderOutage,
     FulfilmentError, Crash, VerifyCharge, DropDuplicate, RefuseFulfilment, Respond, db
<1>11. CASE ToggleTenant \/ (\E pl \in Plans : TogglePlan(pl)) \/ UNCHANGED vars
  BY <1>9, <1>11 DEF ToggleTenant, TogglePlan, vars, db
<1> QED
  BY <1>4, <1>5, <1>6, <1>7, <1>8, <1>10, <1>11 DEF Next, Customer, Work, Management

\* The handlers implement the exactly-once sale: a confirmed payment is exchanged
\* for one fresh voucher, and no sale is ever changed.
THEOREM Refinement == Spec => ExactlyOnceSale
<1>1. Init => Sale!SaleInit
  BY DEF Init, NoPayment, Sale!SaleInit
<1> QED
  BY <1>1, SaleStep, Invariance, PTL DEF Spec, ExactlyOnceSale, Sale!SaleSpec
==============================================================================
