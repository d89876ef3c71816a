# Verification of the Yarotech RADIUS backend

TLA+ specifications of those parts of this Django backend whose correctness depends on what runs
at the same time, in which order things are delivered, and what happens when a process dies half
way: voucher sales, email delivery, agent wallets, subscriptions, router provisioning and
onboarding, session disconnects behind idempotency keys, the life of a voucher, the accounts that
may act for a tenant, and the tokens and links that let somebody act for an account. TLC checks
each module on small instances. TLAPS proves every safety property that these runs check, and the
refinements, for every value of the constants.

Contents: [1 the system](#1-the-system) · [2 hard behaviours](#2-what-is-hard) · [3
modules](#3-the-modules-and-the-code) · [4 runs](#4-what-the-runs-check-and-show) · [5
fairness](#5-fairness) · [6 proofs](#6-what-is-proved) · [7 findings](#7-findings) · [8 not
modelled](#8-what-is-not-modelled-and-why) · [9 plan](#9-plan) · [10 running it](#10-running-it)

## 1 The system

A multi-tenant API for hotspot providers: a modular Django monolith under `src/apps`, one
PostgreSQL database, several gunicorn processes, and command-line jobs started by systemd timers
or run as services (`src/deploy`). Nothing is shared between processes except the database, a
cache for rate limits, and the outside world: Paystack, the email provider, FreeRADIUS (which
reads the same database), and a VPS reached by SSH that terminates the WireGuard tunnels.

| Component | State it keeps | Operations that change it | Meets the others at | What makes it correct |
| --- | --- | --- | --- | --- |
| Checkout, webhooks, fulfilment (`payments/views.py`, `webhooks.py`, `recovery.py`, `recovery_api.py`, `vouchers/services.py`) | `PaymentTransaction`, `PaystackWebhookEvent`, `Voucher`, `Radcheck` | checkout, webhook, manager's retry | plans and tenants (deactivated or deleted meanwhile), email queue | one confirmed payment is one voucher, however often and however concurrently it is notified; nothing is acknowledged unsold; evidence survives failure; a paid customer gets the voucher in the end |
| Email delivery (`payments/delivery.py`, `process_payment_deliveries`) | `PaymentDelivery` | queue with the sale, manual resend, sweep, claim, send, record | fulfilment | no second email without an operator's acknowledgement; recorded outcomes are true, final, and reached |
| Agent wallets (`agents/services.py`, `management_api.py`, `views.py`) | `AgentProfile`, `AgentWallet`, `AgentWalletFundingPayment` | fund, credit (webhook), spend on vouchers, suspend, edit a profile | webhooks, voucher generation, plans, tenants | money is conserved; a suspension is effective at once; no deadlock |
| Subscriptions (`subscriptions/services.py`) | `SubscriptionPayment`, `TenantSubscription` | checkout, completion (webhook), expiry (timer) | webhooks | every paid day is counted exactly once |
| Router provisioning (`routers/operations.py`, `operation_api.py`, `provisioning_views.py`, `provisioners.py`, `views.py`) | `NASDevice`, `RouterOperation`, request ids in the cache, the peers of the VPS | request, claim, run over SSH, finish, take over, signed internal call, edit, delete | the VPS | one provisioning at a time per router; its configuration stands still meanwhile; the status is true of the VPS; every operation finishes |
| Idempotent commands (`core/commands.py`) | `ApiCommand` | reserve, handle, store response | every decorated view | at most one execution per key; agreeing replies |
| Voucher lifecycle (`vouchers/views.py`, `services.py`, `sync_vouchers`, `expire_vouchers`) | `Voucher`, `Radcheck` | create, edit, delete, activate, disable, expire, synchronise | FreeRADIUS, sales, wallets | the rows that let someone in are those of usable vouchers; what is over expires |
| Memberships, assignments, invitations (`tenants/views.py`, `tenants/serializers.py`, `accounts/staff_api.py`) | `TenantMembership`, `StaffAssignment`, `StaffInvitation` | create, change, remove, assign, invite, revoke, accept | permissions of every view | a tenant keeps an owner; an account is not member and staff assignee at once; an invitation is spent once |
| Router onboarding and secrets (`routers/state_machine.py`, `operation_api.py`, `services.py`, `views.py`) | `onboarding_state`, `nas_secret`, `RouterAuditEvent`, `RouterOnboardingCheck`, FreeRADIUS's `nas` | transitions, RADIUS test, replacement of a secret, recorded outcomes | router provisioning (queue and internal endpoint), FreeRADIUS | the trail is a path of allowed transitions to the state shown; a secret is replaced knowingly; the nas row and the peer check tell what is |
| Accounts, tokens, password reset (`accounts/views.py`, `session_api.py`) | `User`, refresh tokens and their blacklist, emailed links | register, log in, refresh, log out, edit, change, reset, deactivate | every authenticated view | an old password's tokens are dead; a reset link works once; a logged-out session has no token |
| Live sessions, CoA client (`dashboard/views.py`, `routers/selectors.py`, `radius_client.py`) | none of their own: `NASDevice`, `Radacct`, `AuditEvent` | disconnect a session by one packet | idempotent commands, router table, FreeRADIUS | one packet per key; reply and trail agree; only the tenant's own sessions |
| Tenant scoping, permissions, audit (`core/api.py`, `core/permissions.py`, `core/mixins.py`) | `AuditEvent` | audit row inside each change | every view | not modelled |
| Encryption of secrets, WhatsApp routing, IoT devices, dashboards, health, schema | rows of their own | independent edits | | not modelled |

## 2 What is hard

No two tests of the repository run two transactions in an interleaving chosen to hurt, and most of
its bugs would need exactly that. `PROJECT.json` lists the hazards at their lines; in groups:

- **At-least-once delivery.** Paystack repeats an event until it gets a 200, may use two event ids
  for one charge, and may deliver twice at once, to fulfilment, wallets and subscriptions.
- **Autocommit between transactions.** `verified_at` is committed before the fulfilment
  transaction and must survive its rollback; a router is marked `deploying` before SSH.
- **Processes that die or stall** while they hold a job, a lease or a reservation: a five-minute
  sweep (email), a lease with attempt counter (routers), or deliberately nothing (idempotency
  keys, internal provisioning calls).
- **Answers that do not tell.** An email call that times out may have sent; `wg set` may work and
  `wg-quick save` fail; a Disconnect-Request that is not answered may have arrived.
- **Two writers of one fact.** The queue and the internal endpoint both record an outcome, in the
  router's status, its version and its peer check; a secret lives in the router and in the `nas`
  row, under an address that edits and provisioning change.
- **Reads that age.** `get_object` and serializers read before the lock; activation, disabling,
  expiry, synchronisation and the membership checks act on what was read; `request.user` is the
  row that authentication fetched, and a profile, of an account, an agent or a tenant, is saved
  with every column that was read.
- **Keys that are not keys.** `ip_address` is unique neither among routers nor apart from their
  tunnel addresses, but the `nas` table and the accounting rows are looked up by it.
- **Lock order.** Spending locks agent, tenant and wallet, crediting a payment and the wallet;
  subscriptions payment, tenant and subscription.

## 3 The modules and the code

Component modules stand alone, but for two compositions: `RouterOnboarding` extends
`RouterProvisioning`, and `SessionDisconnect` extends `IdempotentCommand`. `MC<Module>.tla`
extends a module for TLC, `<Module>.cfg` gives its constants values, `<Module>_proofs.tla` holds
its proofs. Three proof modules serve two components: `SessionDisconnect_proofs` also
`IdempotentCommand`, `RouterOnboarding_proofs` also `RouterProvisioning`, and
`PaystackLedgers_proofs` is about `AgentWallet` and `TenantSubscriptions`, which share the lemmas
about sums. `PROJECT.json` `map` names the lines behind each definition. An operator introduced by
a comment "Mutant:" is a plausible bug of the definition after it, never part of the
specification.

The granularity is that of the database under READ COMMITTED. A transaction that takes a row lock
first, and touches nothing that other transactions change without that lock, is one action. Where
code reads, waits, or locks step by step, the steps are actions. A lock that matters for order or
blocking is explicit state (`lock`, `holder`, `Locked`, `Unlocked`).

### VoucherFulfilment, and what it implements: VoucherSale

`VoucherSale` is the promise: a confirmed payment is exchanged once for a voucher nobody else has,
and a sale is never undone. `VoucherFulfilment` is the code.

| State | Code |
| --- | --- |
| `payment` | `PaymentTransaction`: status, plan, voucher, `verified_at`, and the number of delivery jobs |
| `processed` | `PaystackWebhookEvent` with `processed=True`; an unprocessed row is never committed, the insert is in the fulfilment transaction |
| `issued` | customer `Voucher` rows with their `Radcheck` rows |
| `plan`, `tenantActive` | what `fulfill_verified_voucher` re-reads |
| `charge`, `acked` | Paystack: the charge, and which events got a 200 |
| `request` | the local state of each `paystack_webhook` or `retry` in flight |

`InitializePayment` is the checkout view (its row stays when Paystack is down); `ReceiveEvent` the
signature, lookup and event type; `VerifyCharge`/`ProviderOutage` the call to
`verify_transaction`; `RecordEvidence` the autocommitted `verified_at`; `Fulfil`, `DropDuplicate`,
`RefuseFulfilment` and `FulfilmentError` the outcomes of the fulfilment transaction; `Respond` the
answer; `Crash` the loss of the process. `RequestRetry` enters the same path without an event.
Plans are toggled and deleted (`SET_NULL` on the payment), tenants toggled, at any time.

### CredentialDelivery

`jobs` is the table `PaymentDelivery` in insertion order, `worker` the local state of each
`process_payment_deliveries`, `mails` what the provider accepted, `acks` the acknowledgements of
operators. `FulfilAndQueue` and `Deliver` create jobs, `Sweep`, `Claim`, `Send` and `Record` are
the four stages of `run_one_delivery`, `Age` lets five minutes pass. A worker may stall anywhere
and go on later, `Crash` removes it.

### AgentWallet

`lock` records which request has locked which row (agents, tenant, wallets, funding payments);
each `select_for_update` is an action that waits for it. `SpendLockAgent` to `SpendCommit` follow
`generate_voucher_from_wallet`; `CreditLockPayment` to `CreditCommit` follow
`complete_wallet_funding`. The balance is an integer column with an upper limit,
`MaxBalance`: a credit beyond it fails and rolls back. `charged` is the cost of the vouchers that
left the wallet. Agent and tenant row are locked in one action: they are always taken in this
order and nobody locks the tenant's row first.

Three kinds of request write a status. `ChangeStatus` (approve, suspend) and `ChangeTenant` (the
platform's PATCH of `is_active`) set it. An agent's PATCH of its own profile
(`agents/views.py:21-29`), a manager's of the tenant's profile (`tenants/views.py:100-109`) and
the platform's of a tenant's other fields read the row without a lock (`FetchAgent`,
`FetchTenant`) and save all of it later (`SaveEdit`), the status as it was read: `edit` is what
each of them has in memory. `suspended` collects the rows whose last decision was a suspension,
`undone` those of them to which such a save has written another status since.

### RouterProvisioning

`router` is `NASDevice`, `ops` `RouterOperation` in creation order with lease and attempt counter,
`worker` each `process_router_operations`, `call` each signed internal request, `seen` the request
ids remembered against replay, `peers` the keys configured on the VPS. `RequestOperation` is the
API that queues; `Claim`, `RunSsh`, `Finish` the worker; `ExpireLease` time passing; `Submit`,
`Dispatch`, `CallSsh`, `CompleteCall` and `Withdraw` the internal endpoint; `CreateRouter`,
`EditRouter` and `DeleteRouter` the view (a router created under an id that was deleted stands for
a new row, on which nobody is at work). `SshResults` gives the effects SSH can have with each
result, partial ones included. A router's key stands for key, tunnel address and endpoint
together. History variables: `overrun` (a worker has run beyond its lease), `abandoned` (an
internal call died), `current` (routers unedited since their last outcome).

### IdempotentCommand, and what it implements: AtMostOnce

`command` is the `ApiCommand` row of each scope and key, `request` the local state of the
decorator: `Reserve` inserts or reads the row (`Verdict` picks replay, conflict, in progress),
`Handle` runs the view, `Complete` stores the response, `Crash` loses the process at any point,
before or after the handler. `runs` counts executions. An exception the framework turns into an
error response is an outcome like any other; one that nothing handles leaves the row reserved.

### SessionDisconnect: a handler behind the decorator

`DisconnectSessionView.post` in place of the handler that `IdempotentCommand` leaves open. A key's
scope holds path and tenant, so a key stands for one session and one tenant (`Subject`). The view
reads in autocommit, and each query is a step: `ReadOwn` and `DropAmbiguous` are the two queries
of `tenant_radius_addresses`, `FindSession` and `FindRouter` those of the view, `Send` the packet
and its answer, or none. `Return` ends the handler with the response, `Log` is its audit event.
Its insert can fail once the router has answered: the router that was read is gone
(`IntegrityError`, 409), or the database is (503). The response is then an error, which the
decorator stores like any other (`InsertFailed`). In between, `Configure` creates and edits
routers, `Delete` removes one, and with it its audit events (`CASCADE`), `StartSession` and
`StopSession` are FreeRADIUS, and `Die` is the decorator's crash at any of these steps. `sent`
and `events` name the routers that packets and events were about; a deleted router does not come
back, a new one has another id. Only WireGuard addresses are unique in the code, so two routers,
of two tenants, can have one `ip_address`. `outdated` collects requests in whose course the router
table changed.

### RouterOnboarding, on top of RouterProvisioning

`sheet` holds the router's onboarding state, secret and `ip_address`, `trail` its audit events
that show a state (the internal endpoint's among them), `check` its
`wireguard_peer` row, `nas` FreeRADIUS's table, `copy` what each manager's request has fetched,
with a version that every save of the router makes `Outdated`. `Move` is
`RouterStateMachine.transition`, `Test` the RADIUS test with its event, `ReplaceSecret` the
replacement with its version check, `Register` the upsert of the `nas` row. Every step of
RouterProvisioning is composed with what it does to these tables: `Create`, `Edit`, `Delete`,
`Queue`, `RecordOutcome` (the worker), `Mark` and `RecordCall` (the internal endpoint); the rest
are in `Elsewhere`. `Address` is `radius_ip`: the tunnel address, which is unique and here travels
with the key, or else `ip_address`, which nothing keeps apart from the addresses of other routers,
tunnel addresses included. So a `nas` row can be several routers' row, and registering one's
secret overwrites that of the others (`Overwritten`). `ReplaceElsewhere` is such a replacement on
a router outside `Routers`, of another tenant perhaps. Histories: `behind` (re-addressed, given a
secret, or overwritten, and not registered since) and `blind` (the last outcome was a failed
internal request).

### AccountSessions

One account. `account` is the `User` row, with a number for each password ever set, because each
is salted anew; `refresh` the refresh tokens with the blacklist and the session they descend from;
`access` the password digests that access tokens carry; `links` the reset links, each made of the
password and the address it was issued under; `request` the row that each request has read.
`Authenticate` then `SaveProfile`, `ChangePassword` or `CheckLogout`, and after that `Logout`;
`OpenAdmin` then `SaveAdmin` (Django's form for users, which saves the whole row too); `CheckLink`
then `ConfirmReset`; `CheckRefresh` then `Rotate`: reading and writing are separate, and any
request may `Leave`. A logout blacklists its token whether or not somebody else has meanwhile, and
so does a refresh. `restored` collects passwords put back by saving an outdated row, `raced`
sessions of which two requests revoked one token, both having found it standing.

### TenantAccounts

Each request is two actions: `Read` (fetch and validate) and a write (`Create`, `Update`,
`Destroy`, `Assign`, `Unassign`, `Accept`). Membership writes are serialised by the tenant's row
and check the last owner against the role that was read. `Locked` is the invitation's lock, held
from reading to writing by an acceptance. `Assign` is the creation of an assignment and the edit
of one, which inserts the row again if it was taken away meanwhile. The history `stale` collects
users written to on a reading that no longer held.

### VoucherLifecycle

`voucher` and `rows` are the tables. `Create`, `Edit` and `Destroy` lock and look again: one
action each. `Fetch` then `Activate` or `Disable`, `ExpireList` then `ExpireWrite`, `SyncList`
then `SyncOne` read first and write later. A `Radcheck` row carries the voucher it was written
for, so that a voucher that takes over a username is told from its predecessor. `stale` collects
vouchers touched by a write on an outdated reading.

### TenantSubscriptions

`LockPayment`, `LockTenant` (which also reads the clock), `LockSubscription` and `Commit` are
`complete_payment`; `Expire` is `expire_due_subscriptions`; `AbortDelivery` a rollback. Deliveries
carry different event ids, so that only these locks keep them apart. An administrator's trial or
cancellation is in the initial states. `late` collects payments that found the term over only
because the clock moved between the two readings of it (`services.py:24` and `:37`). In PostgreSQL
the first query, which joins the tenant, already locks its row; the model locks it second and so
allows more interleavings, not fewer.

## 4 What the runs check and show

| Run | Instance | States | Shows |
| --- | --- | --- | --- |
| `VoucherFulfilment` | 2 payments, one notified under two event ids and one sold on a manager's retry, 1 plan, 2 vouchers, 2 requests, 1 fault | 383 000 | `EachVoucherSoldOnce`, `NothingDroppedUnsold`, `OneDeliveryPerSale`, `PaidIsFulfilled`; `ExactlyOnceSale`: refinement of VoucherSale |
| `CredentialDelivery` | 2 payments, 2 workers, 3 jobs, 2 crashes | 178 000 | `NoUnacknowledgedDuplicate`, `OutcomesAreTrue`, `OutcomesAreFinal`, `EveryJobSettles` |
| `AgentWallet` | 1 agent, 2 fundings, 1 plan, 2 requests, 1 profile edit at a time, 1 crash, balance up to 3 | 259 000 | `TypeOK`, `MoneyConserved`, `NoSaleAfterSuspensionUnlessUndone`, `EveryRequestEnds` |
| `RouterProvisioning` | 2 routers, 1 key, 2 workers, 1 internal call at a time, 1 queued operation, 2 faults | 734 000 | `OneProvisioningAtATime`, `ConfigurationHeldStill`, `FinishedByItsHolder`, `StatusIsTrue`, `DeployingHasOwner`, `EveryOperationFinishes` |
| `RouterOnboarding` | 1 router and others at its addresses, 1 key, 1 `ip_address`, 2 secrets, 2 managers, 1 worker, 1 call, 2 events, 1 fault | 2 111 000, symmetry | `OnboardingTypeOK`, `TrailLeadsToState`, `ReplacedKnowingly`, `NasRowFollowsSecret`, `PeerCheckTellsStatus` |
| `SessionDisconnect` | 2 requests with one key and two payloads, 2 routers of their tenant, 1 of another, 1 address, 1 session, 1 crash | 277 000 | `OnePacketPerKey`, `ReplyMatchesTrail`, `OwnSessionsUnlessOutdated`, `RepliesAgree`, `AmbiguousStaysReserved`, `EveryRequestEnds`; `KeepsThePromise`: refinement of AtMostOnce |
| `TenantAccounts` | 2 users, 5 requests, an invitation each | 684 000, symmetry | `OwnerRemainsUnlessStale`, `SeparateUnlessStale`, `InvitationIsSpent` |
| `AccountSessions` | 2 requests, 3 refresh tokens, 1 address, 3 passwords | 2 596 000, symmetry | `SessionsEndWithPasswordUnlessStale`, `OneTimeLinksUnlessStale`, `LogoutEndsSessionUnlessRaced` |
| `VoucherLifecycle` | 2 vouchers, 2 usernames, 1 login, 1 manager, time 0..2 | 926 000 | `AccessFollowsStatusUnlessStale`, `OverdueVouchersExpire` |
| `TenantSubscriptions` | 3 payments, plans of 1 and 2 days, 2 deliveries, time 1..4 | 464 000 | `PaidTimeIsHonoured` |
| `VoucherFulfilmentPlanDeleted` | as VoucherFulfilment, but 3 events, 3 vouchers | | violation: `PaidStaysRecoverable` (section 7) |
| `TenantAccountsOwner` | as TenantAccounts | | violation: `FinalOwnerStays` (section 7) |

The type invariants, and a few invariants that only serve others (`SoldOnlyWhenPaid`,
`EvidenceSurvivesFailure`, `OnlyNewestIsLive`, `RunsAtMostOnce`), are proved for all constants
instead of run; `AgentWallet`'s is both, because it is what keeps a balance within its column, and
`RouterOnboarding`'s is both too. `TenantSubscriptions` states none to run: its types are
`RowsOK`, a part of the invariant that is proved. Each property of a passing run is paired in
`PROJECT.json` with a mutant of the code under which the same run finds it violated.

**Bounds, and why they are enough.** Every property is about one payment, router, key or account,
or about two of them meeting; each instance has two of whatever can collide, and a third where a
third shows something new: a third job so that a resend can meet a resend, a third password so
that a reset can meet a change of one that was already changed, five account requests because a
second account must join, be promoted and be removed while the owner steps down.
`VoucherFulfilment` and `RouterProvisioning` check safety and liveness on one instance, which
liveness keeps small: of two operations that exclude each other, one is the queue's and the other
the internal endpoint's, which can follow each other without end. What these bounds leave out of
safety, several queued operations and more events, vouchers and workers, section 6 proves. In
`RouterOnboarding` there is one router (two of them are beyond seven million states before the
search ends): its tables are written per router and meet only in the rows of `nas`, and what
another router can do to its row, whichever address they share, is `ReplaceElsewhere`. Several
routers that share addresses with each other are in the proof. In `AgentWallet` a plan has one
price, because it is read once and only compared with the balance; a funding buys two vouchers,
and the balance holds one funding and a half, so that a credit can find it too full. In
`AccountSessions` the account keeps its address, because a link is spent with the password; three
refresh tokens let two requests refresh a session, or one refresh it and another log it out, next
to a second session. `MaxFaults`, `MaxCrashes`,
`MaxOps`, `MaxJobs`, `MaxEvents`, `MaxPasswords`, `MaxTime` and `MaxBalance` bound counters that
have no bound in the code (the column of a balance has one, which `MaxBalance` stands for, and
which two fundings exceed). Memberships are created once per user and one invitation is made per
user: `joined` and `invitation`. Symmetry is used only in runs without liveness.

`CHECK_DEADLOCK FALSE` is set where the system may come to rest: when all operations are used up,
when every request has been answered, when every account request has been made.

**Properties with "unless".** `…UnlessStale` says what the code achieves where it does not achieve
what one would like: the rule fails only after a write that rested on an outdated reading. What
counts as outdated is recorded by the action that writes, by comparing what the request read with
what is there now. So these properties rule out every other way of failing, and the exception is
as narrow as the race. The wish itself, where the repository states it, is a violation run.
`StatusIsTrue` excepts workers that outlive their lease in the same way, `DeployingHasOwner`
internal calls that died, `NasRowFollowsSecret` routers in `behind`, `PeerCheckTellsStatus`
routers in `blind`, and `PaidTimeIsHonoured` payments in `late`.
`NoSaleAfterSuspensionUnlessUndone` excepts rows in `undone`, and only those: a suspended agent
whose tenant's suspension alone was undone still sells nothing. `LogoutEndsSessionUnlessRaced`
excepts sessions in `raced`.

## 5 Fairness

- `VoucherFulfilment`: weak fairness of each request's own steps (a thread of a running server
  goes on, or crashes, and crashes are bounded); strong fairness of redelivery of each event not
  yet acknowledged: Paystack retries, and a busy server that frees its threads again and again
  will take one. `PaidIsFulfilled` assumes that the plan and the tenant are active from some time
  on.
- `CredentialDelivery`, `RouterProvisioning`: weak fairness of each worker, because both commands
  are to be run every 30 to 60 seconds (`.env.example`, `API_IMPLEMENTATION_REPORT.md:196-222`),
  and of the passing of the five minutes or of the lease.
- `AgentWallet`: strong fairness of each request's steps: PostgreSQL queues waiters on a row lock,
  so a waiting transaction is not overtaken for ever. A lock-order deadlock would violate
  `EveryRequestEnds` under any fairness.
- `SessionDisconnect`: weak fairness of each request's steps (`Proceed`): every query, the packet
  with its time-out, and the decorator's writes end; none of crashes, arrivals, edits or sessions.
- `VoucherLifecycle`: weak fairness of the maintenance timer (every five minutes); none of
  managers, logins, the clock, or the synchronisation, which is a manual command.
- `TenantAccounts`, `AccountSessions`, `RouterOnboarding`, `TenantSubscriptions`: safety only.

## 6 What is proved

All proofs assume only the named `ASSUME`s of the modules, and hold for any number of requests,
payments, keys, users, routers, workers and faults. The `ASSUME`s give constants their types and
say that a null value is no real value; `AgentWallet` also needs that there are agents, fundings,
plans, prices and quantities at all (`IdleAssumption`), and `SessionDisconnect` that the routers
are finitely many (`DeviceAssumption`), without which counting them means nothing. Nothing is
assumed of addresses. TLC evaluates each of the `ASSUME`s in the module's run. In each proof
module the
invariant is `IInv` (`DInv` for the disconnection, `OInv` for the onboarding, `SubscriptionInv`
for the subscriptions), one lemma per action shows that the action keeps it, and the theorems
follow from it; the invariant is needed because what a request may write depends on what it read
some steps ago.

**VoucherFulfilment_proofs.** `TypeCorrect`, `EachVoucherSoldOnceAlways`,
`SoldOnlyWhenPaidAlways`, `NothingDroppedUnsoldAlways`, `EvidenceSurvivesFailureAlways`,
`OneDeliveryPerSaleAlways`, and `Refinement` (`Spec => ExactlyOnceSale`). The invariants are about
rows, but what a request may write depends on what it saw earlier. `IInv` therefore adds
`RequestInv`: a request that has verified its payment still finds the charge paid, one that has
recorded the evidence finds it recorded, one that answered 200 finds its payment fulfilled. These
stay true whatever others do, because charges, evidence and sales are never withdrawn, which a
lemma states once for all steps. `RowInv` adds that the provider knows only references whose row
was committed first. The refinement maps each step but `CompleteCharge` and `Fulfil` to a stutter.

**SessionDisconnect_proofs.** First, for any handler (`Spec` of `IdempotentCommand`):
`TypeCorrect`, `RunsAtMostOnceAlways`, `RepliesAgreeAlways`, `AmbiguousStaysReservedAlways`,
`Refinement` (`Spec => KeepsThePromise`). That a handler runs once is not inductive: it needs that
a key is reserved by one request at a time (`OneHolder`), that this request finds the row as it
left it (`Tracked`), and that the row tells how far the command has come (`CommandInv`). Then
`DisconnectIsIdempotent`: the disconnection's behaviours are the decorator's, so all of this holds
of the endpoint (`DisconnectRepliesAgree`, `DisconnectStaysReserved`, `DisconnectRefinement`).
Last, of the handler itself: `OnePacketPerKeyAlways`, `ReplyMatchesTrailAlways` and
`OwnSessionsUnlessOutdatedAlways`, from an invariant (`DisconnectInvariant`) that ties a request's
step to the router it has sent its packet to, the events of a key to that router and to the stored
response, and a request's readings to the router table as long as that has not changed.

**CredentialDelivery_proofs.** `TypeCorrect`, `OnlyNewestIsLiveAlways`,
`NoUnacknowledgedDuplicateAlways`, `OutcomesAreTrueAlways`, `OutcomesAreFinalAlways`. A job sends
at most once, because it is claimed once (`HeldInv`), so a payment has at most as many emails as
jobs that may have sent one (`MailInv`). All of these but the newest were left behind by an
acknowledged resend (`AckInv`), because only the newest job is ever live (`LiveInv`).

**RouterOnboarding_proofs.** First, of `RouterProvisioning`: `TypeCorrect`,
`OneProvisioningAlways`, `ConfigurationHeldStillAlways`, `FinishedByItsHolderAlways`,
`StatusIsTrueAlways`, `DeployingHasOwnerAlways`. Whoever is at work on a router has reserved it,
alone (`ExclusiveInv`); a worker holds the operation it claimed until a later claim (`HoldInv`),
which without an overrun lease never comes while it works (`FreshInv`); keys are unique
(`KeyInv`), so no two SSH calls touch one peer and their outcomes stay true (`PeerInv`). Then
`OnboardingIsProvisioning` (`OnboardingSpec => Spec`): each composed step is a provisioning step
or leaves its variables alone, so all of this holds with managers at work on the same rows. Last,
of the onboarding: `OnboardingTypeCorrect`, `TrailLeadsToStateAlways`,
`NasRowFollowsSecretAlways`, `PeerCheckTellsStatusAlways`, and `ReplacedKnowinglyAlways`, an
action property. The invariant `OInv` adds to the provisioning's that a copy which is not outdated
is the router (`CopyInv`), what is on record for a router that nobody works on and for one that is
gone (`CheckInv`), and router by router what the three tables say (`NasOK`, `CheckOK`, `TrailOK`).
No two addresses are taken to differ: whoever registers a secret at an address notes the routers
of that address that have another, so that of every other router the row is what it was or is its
own secret (`Registered`, for a router among them or elsewhere). A trail is walked by position
(`Moves`, `StandsAt`): an event appended to it keeps all earlier ones where they stand.

**PaystackLedgers_proofs.** First, lemmas about folds over finite sets: a sum exists
(`SumExists`), does not depend on the order in which it is taken (`SumRemoves`), and on nothing
but the values added (`SumAgrees`). They need induction over data, which is done here by the size
of a set: of the subsets for which a claim fails one would be smallest, because every set of
numbers has a least element, and losing an element it would fail for a smaller one
(`SmallestSubset`).

Of `AgentWallet`: `TypeCorrect` (balances stay within their column),
`NoSaleAfterSuspensionAlways`, `LedgerMovesTogether`, `MoneyConservedAlways`. The invariant is
`Guarded`, what a transaction has read under a row lock is still so when it writes, and
`SuspensionsStand`, a suspended row that no save has undone does show the suspension. So a sale,
which holds both rows and found them active, meets no suspension that stands; and each step keeps
balance and charges together or credits one more funding, for the first time
(`LedgerMovesTogether`), from which the sum follows.

Of `TenantSubscriptions`: `SubscriptionInvariant`, `DaysMoveOncePerPayment`,
`PaidTimeIsHonouredAlways`. A delivery that is under way has its payment to itself (`Apart`),
which was paid and is still pending, and has read the clock after the term began and after all
completed payments (`DeliveryOK`); these were completed before the subscription ends
(`PaymentOK`). So a step leaves the end of the subscription where it is, or moves it once for one
more payment (`DaysMoveOncePerPayment`): a commit adds its days to the running term (`CommitSum`),
or it begins another, in which no earlier payment counts (`CommitTerm`).

**VoucherLifecycle_proofs.** `TypeCorrect`, `AccessFollowsStatusUnlessStaleAlways`. `RowInv` is
the property row by row; what it needs besides are two facts about processes that work on earlier
readings: the timer has listed all that it will find overdue (`DueInv`), and what the
synchronisation still has to look at is never deleted (`ListedInv`).

**AccountSessions_proofs.** `TypeCorrect`, `SessionsEndWithPassword`, `OneTimeLinks`,
`LogoutEndsSession`. The account's password is the newest or a restored one (`PasswordInv`), a
link that was used is for a password that is not the account's unless restored (`LinkInv`), and a
session that was not raced has one valid token at most, and none once a token of it was logged out
(`SessionInv`).

**TenantAccounts_proofs.** `TypeCorrect`, `OwnerRemains`, `Separate`, `InvitationSpentAlways`. The
strengthening says what a request between reading and writing carries (`ReadingInv`), and that an
acceptance under way is the only one of its invitation, which is still pending (`AcceptanceInv`).
One lemma per action; the core of `OwnerRemains` is `CheckLeavesAnOwner`: the last-owner check is
right for a role that is still the one it read.

**Only model-checked.** Everything temporal beyond safety: liveness under fairness and `ENABLED`
are out of the prover's reach, so `PaidIsFulfilled`, `EveryJobSettles`, both `EveryRequestEnds`,
`EveryOperationFinishes` and `OverdueVouchersExpire` stay with TLC. Every invariant, action
property and refinement of a passing run is proved.

## 7 Findings

1. **A paid voucher can become unrecoverable** (`VoucherFulfilmentPlanDeleted`).
   `recovery.py:28-29`: failed issuance "must remain visible as paid_unfulfilled and recoverable".
   A manager may delete a plan that has no vouchers while a payment for it is pending or failing;
   `SET_NULL` clears the payment's plan, and every retry fails with "Payment plan is unavailable."
2. **A tenant can lose its last owner** (`TenantAccountsOwner`). `tenants/views.py:76`: "The final
   tenant owner cannot be removed." The check runs under the tenant's lock but on an instance that
   was fetched before it, and the save writes that instance back: a request that read the role
   before a promotion removes an owner unseen.

Further observations, visible in the exceptions of passing properties rather than in runs of their
own:

- An account can end with both a membership and an assignment when both are validated before
  either is written (`tenants/serializers.py:25`, `staff_api.py:32`).
- A voucher disabled between the reading and the writing of a login's activation is active again,
  without `Radcheck` rows (`vouchers/services.py:57`).
- Saving a profile writes every column as `request.user` was read, so a password changed or reset
  meanwhile is put back, and with it the tokens and links of the old one (`accounts/views.py:74`);
  the admin site's form for users does the same. The repository promises the revocation without
  such an exception (`src/README.md`, quoted at the properties).
- An agent's PATCH of its profile, or a manager's of the tenant's, that was begun before a
  suspension and saved after it makes the agent or tenant active again, and the wallet can be
  spent (`agents/views.py:21`, `tenants/views.py:107`). The agent's own profile view is enough.
- A refresh that comes between a logout's check of its token and the blacklisting leaves the new
  token valid, and the logout is answered 204 (`accounts/session_api.py:18`, `:21`).
- A disconnect that the router has acknowledged is stored, and replayed, as an error when the
  insert of its audit event fails, because the router was deleted meanwhile for instance
  (`dashboard/views.py:144`, `core/exceptions.py:15-21`): no event tells of the packet.
- A router given the `ip_address`, or as `ip_address` the tunnel address, of another can overwrite
  that one's `nas` row by replacing its own secret, across tenants (`routers/models.py:30`,
  `:65-68`, `routers/services.py:47-60`): RADIUS then knows the other by a secret it does not
  have.
- The internal endpoint's failure path updates one column: neither `updated_at`, by which a
  manager's page is known to be outdated, nor the peer check changes
  (`routers/provisioning_views.py:174-201`).
- The `nas` row is written only when a secret is replaced while the router is deployed. A secret
  replaced earlier, or an address that changes later, is not registered by provisioning.
- An address given to another tenant's router carries the accounting rows that are still open
  there along with it (`routers/selectors.py:12`).

## 8 What is not modelled, and why

- Signatures, HMACs, tokens, encryption, formats and wording: no state machine. A request whose
  signature is wrong changes nothing.
- The Django admin, which can edit any row, except its form for users, without that for their
  password; migrations.
- Requests without an idempotency key: they bypass the decorator.
- `Emailed` is a constant: the address is set at checkout; a row without one comes from edits
  outside the checkout.
- Effects of SSH that arrive after the failure was recorded: at the time-out (30 s) the client is
  killed, and the model takes the remote command to be over, with or without its effect.
- Tunnel addresses apart from keys in `RouterOnboarding`: a router that has a key but no tunnel
  address, or the reverse, is there a router without a key, or with another one.
- The `radius_auth` check, which nothing reads back.
- Expiry of tokens and links: an expired one is one that nobody presents. Throttling of logins,
  resets and internal calls, whose counters live in the cache.
- Agents and platform administrators among the users of `TenantAccounts`: their rows are validated
  away from both tables.
- The caller of `activate_voucher`: its docstring says FreeRADIUS post-auth, but nothing in the
  repository calls it except a test. `Fetch` and `Activate` assume no more than a caller that
  fetches a voucher, of any status, and passes it on.
- `Radcheck` rows that hold a plan's limits; the synchronisation restores the password row only.
- RADIUS packets' bytes, the listing of live sessions, dashboards, health, schema: no state of
  their own. Encryption of secrets: a conversion of one column. IoT devices and WhatsApp routes:
  independent edits of one row. Audit events: written inside the transaction they record, so
  present exactly when it is.

## 9 Plan

Done, in the order of importance: fulfilment with its abstraction; delivery; wallets;
provisioning; idempotent commands with their abstraction; memberships and invitations; voucher
lifecycle; subscriptions; account sessions and password reset; router onboarding on top of
provisioning; disconnection of live sessions behind the idempotent decorator. Proofs of the safety
of all of them.

Next, model:
1. `WebhookDispatch`: the one endpoint `paystack_webhook` over the three kinds of payment,
   composed of the sale, a wallet credit and a subscription payment as abstract specifications
   (`VoucherSale`, an abstract wallet ledger, an abstract subscription), so that routing by
   reference, the shared event table and acknowledgement are checked across kinds.
2. Creation of agents, and agents and platform administrators in `TenantAccounts`, so that these
   components become complete.
3. An abstract specification of provisioning (a router is what its last accepted command says),
   and its refinement by queue and internal endpoint together.

Next, prove:
1. What `StatusIsTrue` and the properties with "unless" say of routers, vouchers and accounts that
   were never written on an outdated reading, as one step of an abstract specification each.
2. That wallets and subscriptions refine one abstract ledger, of which `LedgerMovesTogether` and
   `DaysMoveOncePerPayment` are the steps.

## 10 Running it

In this directory: `tlc -config VoucherFulfilment.cfg MCVoucherFulfilment.tla` (`PROJECT.json`
names module and configuration of every run), `tlapm VoucherFulfilment_proofs.tla`. The longest
run takes about two minutes with two workers, all proofs together a few minutes.

