-------------------------- MODULE VoucherFulfilment --------------------------
(***************************************************************************)
(* From a customer's payment to a voucher: the checkout that records a     *)
(* pending PaymentTransaction, Paystack's at-least-once webhooks, the      *)
(* manager's recovery retry, and the plan and tenant changes that race     *)
(* them (src/apps/payments/views.py, webhooks.py, recovery.py,             *)
(* recovery_api.py and src/apps/vouchers).                                 *)
(*                                                                         *)
(* A request is split where the code is: the lookup, the call to the       *)
(* provider, the autocommit write of verified_at, the fulfilment           *)
(* transaction, and the response.  The fulfilment transaction is one step: *)
(* it first takes the unique event row, then the payment's row lock        *)
(* (webhooks.py:108, recovery.py:32), and everything it reads or writes    *)
(* about the payment afterwards is guarded by them.                        *)
(***************************************************************************)
EXTENDS Integers, FiniteSets

CONSTANTS Payments,   \* payment references
          Plans,      \* internet plans of the tenant
          Vouchers,   \* access codes generate_credentials can return
          Events,     \* Paystack event ids (data.id)
          EventRef,   \* the payment each event is about (data.reference)
          Emailed,    \* payments whose row has a customer_email
          Requests,   \* web requests that may be in flight at once
          MaxFaults,  \* bound on outages, database errors and crashes
          NoPlan,     \* PaymentTransaction.plan after SET_NULL
          NoVoucher,  \* PaymentTransaction.voucher when NULL
          NoEvent     \* in place of an event: the request is a recovery retry

ASSUME PaymentAssumption == Payments # {}
ASSUME EventAssumption == EventRef \in [Events -> Payments]
ASSUME EmailAssumption == Emailed \subseteq Payments
ASSUME NullAssumption == /\ NoPlan \notin Plans
                         /\ NoVoucher \notin Vouchers
                         /\ NoEvent \notin Events
ASSUME FaultAssumption == MaxFaults \in Nat

VARIABLES
  charge,       \* Paystack: the state of each reference's charge
  acked,        \* Paystack: events answered 200, no longer redelivered
  plan,         \* InternetPlan rows: active, inactive or deleted
  tenantActive, \* Tenant.is_active
  payment,      \* PaymentTransaction rows and the number of their deliveries
  issued,       \* customer Voucher rows, with their radcheck rows
  processed,    \* PaystackWebhookEvent rows with processed = True
  request,      \* what each web request in flight has done so far
  faults        \* faults so far, at most MaxFaults

db == <<plan, tenantActive, payment, issued, processed>>
vars == <<charge, acked, db, request, faults>>

ChargeStates == {"none", "open", "paid", "mismatched"}
Steps == {"idle", "received", "verified", "recorded", "answered"}
Outcomes == {"none", "ok", "duplicate", "ignored", "mismatch", "outage", "failed"}

\* Mutant: a failed fulfilment is answered 200 as well.
AcceptedFailure == {"ok", "duplicate", "ignored", "failed"}

\* Responses with status 200, after which Paystack stops redelivering.
Accepted == {"ok", "duplicate", "ignored"}

PaymentRow == [status : {"absent", "pending", "success"}, plan : Plans \cup {NoPlan},
               voucher : Vouchers \cup {NoVoucher}, verified : BOOLEAN, jobs : Nat]

RequestRecord == [step : Steps, event : Events \cup {NoEvent}, payment : Payments,
                  outcome : Outcomes]

NoPayment == [status |-> "absent", plan |-> NoPlan, voucher |-> NoVoucher,
              verified |-> FALSE, jobs |-> 0]

Idle == [step |-> "idle", event |-> NoEvent, payment |-> CHOOSE p \in Payments : TRUE,
         outcome |-> "none"]

Init == /\ charge = [p \in Payments |-> "none"]
        /\ acked = {}
        /\ plan = [pl \in Plans |-> "active"]
        /\ tenantActive = TRUE
        /\ payment = [p \in Payments |-> NoPayment]
        /\ issued = {}
        /\ processed = {}
        /\ request = [r \in Requests |-> Idle]
        /\ faults = 0

-----------------------------------------------------------------------------
(* Checkout, the customer and the provider.                                *)

\* InitializePaymentView: the pending row first, then the provider's charge.
\* When the provider cannot be reached the row stays, with no charge to pay.
InitializePayment(p, pl) ==
  /\ payment[p].status = "absent"
  /\ plan[pl] = "active" /\ tenantActive
  /\ payment' = [payment EXCEPT ![p] = [@ EXCEPT !.status = "pending", !.plan = pl]]
  /\ \E reached \in BOOLEAN :
       charge' = [charge EXCEPT ![p] = IF reached THEN "open" ELSE "none"]
  /\ UNCHANGED <<acked, plan, tenantActive, issued, processed, request, faults>>

\* The customer completes the charge; "mismatched" is a success for another
\* amount or currency than the one on the payment row.
CompleteCharge(p) ==
  /\ charge[p] = "open"
  /\ \E c \in {"paid", "mismatched"} : charge' = [charge EXCEPT ![p] = c]
  /\ UNCHANGED <<acked, db, request, faults>>

-----------------------------------------------------------------------------
(* A request's steps.                                                      *)

\* A request at step s moves to step t; Answer also fixes its outcome.
Advance(r, s, t) == /\ request[r].step = s
                    /\ request' = [request EXCEPT ![r].step = t]

Answer(r, s, o) ==
  /\ request[r].step = s
  /\ request' = [request EXCEPT ![r] = [@ EXCEPT !.step = "answered", !.outcome = o]]

Fault == faults < MaxFaults /\ faults' = faults + 1

\* Mutant: the lookup of the payment leaves out those that are still pending.
ReceiveForSettled(r, e) ==
  LET p == EventRef[e]
      known == payment[p].status = "success" IN
  /\ request[r].step = "idle"
  /\ charge[p] \in {"paid", "mismatched"}
  /\ request' = [request EXCEPT ![r] =
       [step |-> IF known THEN "received" ELSE "answered", event |-> e, payment |-> p,
        outcome |-> IF known THEN "none" ELSE "ignored"]]
  /\ UNCHANGED <<charge, acked, db, faults>>

\* paystack_webhook up to the event type: Paystack sends (and resends, and may
\* send twice) the charge.success event of a completed charge.
ReceiveEvent(r, e) ==
  LET p == EventRef[e]
      known == payment[p].status # "absent" IN
  /\ request[r].step = "idle"
  /\ charge[p] \in {"paid", "mismatched"}
  /\ request' = [request EXCEPT ![r] =
       [step |-> IF known THEN "received" ELSE "answered", event |-> e, payment |-> p,
        outcome |-> IF known THEN "none" ELSE "ignored"]]
  /\ UNCHANGED <<charge, acked, db, faults>>

\* PaymentRecoveryViewSet.retry, before its call to the provider.
RequestRetry(r, p) ==
  /\ request[r].step = "idle"
  /\ payment[p].status # "absent"
  /\ request' = [request EXCEPT ![r] =
       [step |-> "received", event |-> NoEvent, payment |-> p, outcome |-> "none"]]
  /\ UNCHANGED <<charge, acked, db, faults>>

\* verify_transaction, then the comparison with status, amount and currency.
VerifyCharge(r) ==
  /\ IF charge[request[r].payment] = "paid"
     THEN Advance(r, "received", "verified")
     ELSE Answer(r, "received", "mismatch")
  /\ UNCHANGED <<charge, acked, db, faults>>

ProviderOutage(r) == /\ Fault
                     /\ Answer(r, "received", "outage")
                     /\ UNCHANGED <<charge, acked, db>>

\* verified_at is written in autocommit mode, before the fulfilment transaction.
RecordEvidence(r) ==
  /\ Advance(r, "verified", "recorded")
  /\ payment' = [payment EXCEPT ![request[r].payment].verified = TRUE]
  /\ UNCHANGED <<charge, acked, plan, tenantActive, issued, processed, faults>>

\* generate_vouchers' conditions for the plan the payment row still names.
Sellable(p) == /\ tenantActive
               /\ payment[p].plan \in Plans
               /\ plan[payment[p].plan] = "active"

\* Mutant: every call queues a job.
QueueEachTime(p) == payment[p].jobs + IF p \in Emailed THEN 1 ELSE 0

\* queue_credential_delivery: the email job of a fulfilled payment, once.
QueueDelivery(p) == IF p \in Emailed /\ payment[p].jobs = 0 THEN 1 ELSE payment[p].jobs

\* The payment row fulfill_verified_voucher saves.
SoldRow(p, v) == [payment[p] EXCEPT !.voucher = v, !.status = "success",
                                    !.jobs = QueueDelivery(p)]

\* Mutants: a voucher for every call; a username another row may have.
VouchersForEachCall(p) == IF Sellable(p) THEN Vouchers \ issued ELSE {}
VouchersOnceMore(p) == IF payment[p].voucher # NoVoucher THEN {payment[p].voucher}
                       ELSE IF Sellable(p) THEN Vouchers ELSE {}

\* The vouchers fulfil_verified_voucher may leave on the payment: the one it
\* has, or a new one under a username no row has.
VouchersFor(p) == IF payment[p].voucher # NoVoucher THEN {payment[p].voucher}
                  ELSE IF Sellable(p) THEN Vouchers \ issued ELSE {}

DuplicateEvent(r) == request[r].event # NoEvent /\ request[r].event \in processed

\* The event row is found processed: nothing else happens.
DropDuplicate(r) == /\ DuplicateEvent(r)
                    /\ Answer(r, "recorded", "duplicate")
                    /\ UNCHANGED <<charge, acked, db, faults>>

\* The fulfilment transaction commits: voucher, status, delivery job and, for
\* a webhook, the processed event row, together.
Fulfil(r) ==
  LET p == request[r].payment IN
  /\ ~DuplicateEvent(r)
  /\ Answer(r, "recorded", "ok")
  /\ \E v \in VouchersFor(p) :
       /\ issued' = issued \cup {v}
       /\ payment' = [payment EXCEPT ![p] = SoldRow(p, v)]
  /\ processed' = processed \cup ({request[r].event} \ {NoEvent})
  /\ UNCHANGED <<charge, acked, plan, tenantActive, faults>>

\* No plan, an inactive plan or tenant: the transaction rolls back.
RefuseFulfilment(r) ==
  /\ ~DuplicateEvent(r)
  /\ payment[request[r].payment].voucher = NoVoucher
  /\ ~Sellable(request[r].payment)
  /\ Answer(r, "recorded", "failed")
  /\ UNCHANGED <<charge, acked, db, faults>>

\* Any other exception inside the transaction rolls it back as well.
FulfilmentError(r) == /\ Fault
                      /\ Answer(r, "recorded", "failed")
                      /\ UNCHANGED <<charge, acked, db>>

\* The response reaches the caller; a 200 ends the event's redelivery.
Respond(r) ==
  /\ request[r].step = "answered"
  /\ request' = [request EXCEPT ![r] = Idle]
  /\ acked' = IF request[r].outcome \in Accepted
              THEN acked \cup ({request[r].event} \ {NoEvent}) ELSE acked
  /\ UNCHANGED <<charge, db, faults>>

\* The worker process dies or the connection is lost, at any point.
Crash(r) == /\ Fault
            /\ request[r].step # "idle"
            /\ request' = [request EXCEPT ![r] = Idle]
            /\ UNCHANGED <<charge, acked, db>>

-----------------------------------------------------------------------------
(* Plan and tenant management.                                             *)

\* PATCH plans/{id}: is_active is editable.
TogglePlan(pl) ==
  /\ plan[pl] # "deleted"
  /\ plan' = [plan EXCEPT ![pl] = IF @ = "active" THEN "inactive" ELSE "active"]
  /\ UNCHANGED <<charge, acked, tenantActive, payment, issued, processed, request, faults>>

\* DELETE plans/{id}: vouchers PROTECT their plan, payments SET_NULL it.
DeletePlan(pl) ==
  /\ plan[pl] # "deleted"
  /\ \A p \in Payments : payment[p].plan = pl => payment[p].voucher = NoVoucher
  /\ plan' = [plan EXCEPT ![pl] = "deleted"]
  /\ payment' = [p \in Payments |->
       [payment[p] EXCEPT !.plan = IF @ = pl THEN NoPlan ELSE @]]
  /\ UNCHANGED <<charge, acked, tenantActive, issued, processed, request, faults>>

\* PATCH tenants/{id} by the platform: is_active is editable.
ToggleTenant ==
  /\ tenantActive' = ~tenantActive
  /\ UNCHANGED <<charge, acked, plan, payment, issued, processed, request, faults>>

-----------------------------------------------------------------------------
Customer == \/ \E p \in Payments, pl \in Plans : InitializePayment(p, pl)
            \/ \E p \in Payments : CompleteCharge(p)

Work(r) == \/ VerifyCharge(r)
           \/ RecordEvidence(r)
           \/ DropDuplicate(r)
           \/ Fulfil(r)
           \/ RefuseFulfilment(r)
           \/ Respond(r)

Failure(r) == ProviderOutage(r) \/ FulfilmentError(r) \/ Crash(r)

Management == \/ \E pl \in Plans : TogglePlan(pl) \/ DeletePlan(pl)
              \/ ToggleTenant

Receive(r) == \/ \E e \in Events : ReceiveEvent(r, e)
              \/ \E p \in Payments : RequestRetry(r, p)

Next == \/ Customer
        \/ \E r \in Requests : Receive(r) \/ Work(r) \/ Failure(r)
        \/ Management

Spec == Init /\ [][Next]_vars

\* A request that is running runs on, and Paystack redelivers what was not
\* accepted.  Nothing is assumed of customers, managers or retries.
Fairness == /\ \A r \in Requests : WF_vars(Work(r))
            /\ \A e \in Events : SF_vars(e \notin acked /\ \E r \in Requests : ReceiveEvent(r, e))

LiveSpec == Spec /\ Fairness

-----------------------------------------------------------------------------
(* Properties.                                                             *)

\* Every variable has its type.
TypeOK == /\ charge \in [Payments -> ChargeStates]
          /\ acked \subseteq Events
          /\ plan \in [Plans -> {"active", "inactive", "deleted"}]
          /\ tenantActive \in BOOLEAN
          /\ payment \in [Payments -> PaymentRow]
          /\ issued \subseteq Vouchers
          /\ processed \subseteq Events
          /\ request \in [Requests -> RequestRecord]
          /\ faults \in 0 .. MaxFaults

Fulfilled(p) == payment[p].voucher # NoVoucher

\* However often and however concurrently a payment is notified or retried, the
\* customer vouchers in the database are exactly those payments point to, and
\* no two payments point to the same one: none is lost, none is issued twice.
EachVoucherSoldOnce ==
  /\ issued = {payment[p].voucher : p \in Payments} \ {NoVoucher}
  /\ \A p, q \in Payments :
       Fulfilled(p) /\ payment[p].voucher = payment[q].voucher => p = q

\* A voucher, and the status success, exist only for a charge that the provider
\* confirms for the right amount and whose evidence (verified_at) is recorded.
SoldOnlyWhenPaid ==
  \A p \in Payments :
    /\ Fulfilled(p) <=> payment[p].status = "success"
    /\ Fulfilled(p) => charge[p] = "paid" /\ payment[p].verified

\* Paystack is never told that an event needs no redelivery, and the event is
\* never marked processed, before its payment has the voucher.
NothingDroppedUnsold ==
  \A e \in acked \cup processed : Fulfilled(EventRef[e])

\* "Verified evidence is retained when voucher fulfillment fails, yielding
\* paid_unfulfilled" (API_IMPLEMENTATION_REPORT.md): a request that answers that
\* fulfilment failed leaves the payment visible as verified.
EvidenceSurvivesFailure ==
  \A r \in Requests :
    request[r].step = "answered" /\ request[r].outcome = "failed"
      => payment[request[r].payment].verified

\* The access code's email is queued in the transaction that sells the voucher:
\* a sold voucher has one automatic delivery, an unsold one has none.
OneDeliveryPerSale ==
  \A p \in Payments :
    payment[p].jobs = IF Fulfilled(p) /\ p \in Emailed THEN 1 ELSE 0

\* Refinement: all of this is the one-step sale of VoucherSale.
Sale == INSTANCE VoucherSale WITH
          paid <- {p \in Payments : charge[p] = "paid"},
          sold <- [p \in Payments |-> payment[p].voucher]
ExactlyOnceSale == Sale!SaleSpec

\* A payment the provider confirms gets its voucher in spite of crashes, outages
\* and rollbacks, once its plan and tenant stay active.
PaidIsFulfilled ==
  \A e \in Events :
    LET p == EventRef[e] IN
    <>[]Sellable(p) => (charge[p] = "paid" ~> Fulfilled(p))

\* The comment of recovery.py:28-29, "Failed voucher issuance must remain visible
\* as paid_unfulfilled and recoverable": a verified payment without a voucher
\* still names the plan that a retry needs.
PaidStaysRecoverable ==
  \A p \in Payments :
    payment[p].verified /\ ~Fulfilled(p) => payment[p].plan # NoPlan
==============================================================================
