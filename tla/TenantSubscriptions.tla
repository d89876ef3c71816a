------------------------- MODULE TenantSubscriptions -------------------------
(***************************************************************************)
(* A tenant's subscription to the platform (src/apps/subscriptions).  An   *)
(* owner checks out a plan, Paystack's webhook completes the payment, as   *)
(* often as it is delivered, and a timer marks subscriptions that are over.*)
(*                                                                         *)
(* complete_payment locks the payment, the tenant and the subscription in  *)
(* this order and reads the clock in between.  Deliveries carry different  *)
(* event ids here, so that only these locks keep them apart.               *)
(***************************************************************************)
EXTENDS Integers, FiniteSetsExt

CONSTANTS Payments,   \* payments that may be made
          SubscriptionPlans,
          Days,       \* plan -> duration_days
          Deliveries, \* parallel webhook requests
          TrialEnd,   \* when a trial ends that started at 0, before the behaviours do
          MaxTime,    \* the clock stops here: a bound
          Nobody,     \* the holder of a row that is not locked
          NotSet      \* a column without a value

ASSUME DaysAssumption == Days \in [SubscriptionPlans -> Nat \ {0}]
ASSUME TimeAssumption == TrialEnd \in Nat \ 0 .. 1 /\ MaxTime \in Nat
ASSUME NullAssumption == /\ Nobody \notin Deliveries
                         /\ NotSet \notin SubscriptionPlans \cup Payments \cup Nat

VARIABLES
  payment,      \* SubscriptionPayment rows
  paid,         \* Paystack: the payments the owner has paid
  subscription, \* the tenant's TenantSubscription row: its status ("none" without a
                \* row, "trial", "active", "expired" or "cancelled"), start and end
  now,          \* the clock, in days
  delivery,     \* what each webhook request is doing
  holder,       \* the delivery that has locked the tenant's row
  late          \* history: payments that found the subscription over only
                \* because the clock moved on after complete_payment had read it

subscriptionVars == <<payment, paid, subscription, now, delivery, holder, late>>

\* status: "none", "pending" or "success"; plan: the plan it pays for; completed: a day.
NoPayment == [status |-> "none", plan |-> NotSet, completed |-> NotSet]

\* step: "idle", "verified", or the row that complete_payment has locked last
\* ("payment", "tenant", "subscription"); at: its "now".
IdleDelivery == [step |-> "idle", payment |-> NotSet, at |-> NotSet]

\* The platform's administrators may have given the tenant a trial, or cancelled one.
SubscriptionInit ==
  /\ payment = [p \in Payments |-> NoPayment]
  /\ paid = {}
  /\ subscription \in [status : {"none"}, started : {0}, expires : {0}]
                \cup [status : {"trial", "cancelled"}, started : {0}, expires : {TrialEnd}]
  /\ now = 1
  /\ delivery = [d \in Deliveries |-> IdleDelivery]
  /\ holder = Nobody
  /\ late = {}

\* TenantSubscription.is_active at the given time.
ActiveAt(time) == subscription.status \in {"trial", "active"} /\ subscription.expires > time

\* SubscriptionCheckoutView: the row stays, whether Paystack answers or not.
Checkout(p, plan) ==
  /\ payment[p].status = "none"
  /\ payment' = [payment EXCEPT ![p] = [NoPayment EXCEPT !.status = "pending", !.plan = plan]]
  /\ UNCHANGED <<paid, subscription, now, delivery, holder, late>>

\* The owner pays.
Pay(p) ==
  /\ payment[p].status # "none"
  /\ paid' = paid \cup {p}
  /\ UNCHANGED <<payment, subscription, now, delivery, holder, late>>

\* Paystack delivers an event, first or again, and the charge is verified.
Receive(d, p) ==
  /\ delivery[d].step = "idle"
  /\ p \in paid
  /\ delivery' = [delivery EXCEPT ![d] = [IdleDelivery EXCEPT !.step = "verified",
                                                             !.payment = p]]
  /\ UNCHANGED <<payment, paid, subscription, now, holder, late>>

Doing(d, step) == delivery[d].step = step
InTransaction(d) == delivery[d].step \in {"payment", "tenant", "subscription"}
GoTo(d, step) == delivery' = [delivery EXCEPT ![d].step = step]
End(d) == delivery' = [delivery EXCEPT ![d] = IdleDelivery]

PaymentUnlocked(p) == \A d \in Deliveries : InTransaction(d) => delivery[d].payment # p

\* Mutant: the status is not looked at again under the lock.
LockAnyPayment(d) ==
  /\ Doing(d, "verified")
  /\ PaymentUnlocked(delivery[d].payment)
  /\ GoTo(d, "payment")
  /\ UNCHANGED <<payment, paid, subscription, now, holder, late>>

\* Lock the payment; nothing more to do for a completed one.
LockPayment(d) ==
  LET p == delivery[d].payment IN
  /\ Doing(d, "verified")
  /\ PaymentUnlocked(p)
  /\ IF payment[p].status = "success" THEN End(d) ELSE GoTo(d, "payment")
  /\ UNCHANGED <<payment, paid, subscription, now, holder, late>>

\* Lock the tenant, then read the clock.
LockTenant(d) ==
  /\ Doing(d, "payment")
  /\ holder = Nobody
  /\ holder' = d
  /\ delivery' = [delivery EXCEPT ![d].step = "tenant", ![d].at = now]
  /\ UNCHANGED <<payment, paid, subscription, now, late>>

\* Lock the subscription, if there is one.
LockSubscription(d) ==
  /\ Doing(d, "tenant")
  /\ GoTo(d, "subscription")
  /\ UNCHANGED <<payment, paid, subscription, now, holder, late>>

\* Extend a running subscription from its end, start another one now, and commit.
Commit(d) ==
  LET p == delivery[d].payment
      at == delivery[d].at
      base == IF ActiveAt(now) THEN subscription.expires ELSE at IN
  /\ Doing(d, "subscription")
  /\ subscription' = [status |-> "active",
                      started |-> IF ActiveAt(now) THEN subscription.started ELSE at,
                      expires |-> base + Days[payment[p].plan]]
  /\ payment' = [payment EXCEPT ![p].status = "success", ![p].completed = at]
  /\ late' = IF subscription.status # "cancelled" /\ subscription.expires > at
                /\ ~ActiveAt(now)
             THEN late \cup {p} ELSE late
  /\ End(d)
  /\ holder' = Nobody
  /\ UNCHANGED <<paid, now>>

\* A database error or a crash: the transaction is rolled back, and Paystack
\* will deliver the event again.
AbortDelivery(d) ==
  /\ ~Doing(d, "idle")
  /\ End(d)
  /\ holder' = IF holder = d THEN Nobody ELSE holder
  /\ UNCHANGED <<payment, paid, subscription, now, late>>

\* expire_due_subscriptions: one update, which waits for the subscription's lock.
Expire ==
  /\ \A d \in Deliveries : ~Doing(d, "subscription")
  /\ subscription.status \in {"trial", "active"}
  /\ subscription.expires <= now
  /\ subscription' = [subscription EXCEPT !.status = "expired"]
  /\ UNCHANGED <<payment, paid, now, delivery, holder, late>>

\* A day passes.
Tick ==
  /\ now < MaxTime
  /\ now' = now + 1
  /\ UNCHANGED <<payment, paid, subscription, delivery, holder, late>>

SubscriptionNext ==
  \/ Tick \/ Expire
  \/ \E p \in Payments : \/ Pay(p)
                         \/ \E plan \in SubscriptionPlans : Checkout(p, plan)
                         \/ \E d \in Deliveries : Receive(d, p)
  \/ \E d \in Deliveries : \/ LockPayment(d) \/ LockTenant(d)
                           \/ LockSubscription(d) \/ Commit(d) \/ AbortDelivery(d)

SubscriptionSpec == SubscriptionInit /\ [][SubscriptionNext]_subscriptionVars

-----------------------------------------------------------------------------
(* Properties.                                                             *)

Completed == {p \in Payments : payment[p].status = "success"}

\* The payments made in the running term of the subscription, and where it began:
\* a trial that was paid on before it ended counts in full.
InTerm(p) == p \in Completed /\ payment[p].completed >= subscription.started
TermBase == IF subscription.started = 0 THEN TrialEnd ELSE subscription.started
DaysOf(p) == Days[payment[p].plan]
DaysPaid == MapThenSumSet(DaysOf, {p \in Payments : InTerm(p)})

\* The subscription ends exactly the paid days after its term began, whatever
\* is delivered twice, at once, rolled back or expired in between, and is
\* marked expired only when it is over.  The one exception: a term that runs out
\* while complete_payment waits for the subscription's row.
PaidTimeIsHonoured ==
  /\ subscription.status = "expired" => subscription.expires <= now
  /\ Completed # {} /\ late = {} => subscription.expires = TermBase + DaysPaid
===============================================================================
