------------------------------ MODULE AgentWallet ------------------------------
(***************************************************************************)
(* An agent's prepaid wallet: funding through Paystack, and vouchers       *)
(* bought from the balance (src/apps/agents/services.py, models.py,        *)
(* management_api.py, views.py).  The two services read rows, compute in   *)
(* memory and save; what keeps them apart are the row locks they take, so  *)
(* the locks are part of the model and every request is split at each one. *)
(* Nothing a transaction wrote is visible before its commit, so the writes *)
(* are in its last step.                                                   *)
(***************************************************************************)
EXTENDS Integers, Folds

CONSTANTS Agents,      \* agents of one tenant, each with its wallet
          Fundings,    \* references of AgentWalletFundingPayment
          Plans,       \* the tenant's internet plans
          Requests,    \* web requests that may be in flight at once
          Editors,     \* requests that edit an agent's or the tenant's row
          Amounts,     \* amounts the funding form accepts
          Prices,      \* prices a plan may have
          Quantities,  \* vouchers an agent asks for at once
          MaxBalance,  \* the largest value of PositiveIntegerField
          MaxCrashes,  \* bound on crashes and database errors
          Free         \* the holder of an unlocked row

ASSUME AmountAssumption == /\ Amounts \subseteq Nat \ {0}
                           /\ Prices \subseteq Nat
                           /\ Quantities \subseteq 1 .. 100
ASSUME BoundAssumption == MaxBalance \in Nat /\ MaxCrashes \in Nat
ASSUME FreeAssumption == Free \notin Requests
\* An idle request shows some agent, funding, plan, price and quantity.
ASSUME IdleAssumption == {} \notin {Agents, Fundings, Plans, Prices, Quantities}

VARIABLES
  agent,        \* AgentProfile.status
  tenantActive, \* Tenant.is_active
  plan,         \* InternetPlan.is_active and price
  balance,      \* AgentWallet.balance
  funding,      \* AgentWalletFundingPayment rows
  confirmed,    \* Paystack: fundings whose charge succeeded
  charged,      \* sum of amount_charged over the agent's voucher allocations
  lock,         \* the transaction that holds each row's lock
  request,      \* what each transaction in flight has read
  crashes,      \* crashes and database errors so far, at most MaxCrashes
  edit,         \* the row each editor has read, and its status then
  suspended,    \* history: rows whose last decision was to suspend
  undone        \* history: those whose status a save of an older row has replaced

managed == <<agent, tenantActive, edit, suspended, undone>>
vars == <<managed, plan, balance, funding, confirmed, charged, lock, request, crashes>>
rows == <<managed, plan, balance, funding, confirmed, charged>>

AgentRow(a) == <<"agent", a>>
WalletRow(a) == <<"wallet", a>>
FundingRow(f) == <<"funding", f>>
TenantRow == <<"tenant">>
Rows == {AgentRow(a) : a \in Agents} \cup {WalletRow(a) : a \in Agents}
        \cup {FundingRow(f) : f \in Fundings} \cup {TenantRow}

Statuses == {"pending", "active", "suspended"}

\* What a request that edits a row has in memory; the tenant's is_active is a status.
Edit == [row : {AgentRow(a) : a \in Agents} \cup {TenantRow}, status : Statuses]
NoEdit == <<>>

\* step: the last thing the transaction did; read: the balance it has in memory.
RequestRecord ==
  [step : {"idle", "spend", "spend_agent", "spend_plan", "spend_wallet",
           "credit", "credit_payment", "credit_wallet"},
   agent : Agents, funding : Fundings, plan : Plans, quantity : Quantities,
   price : Prices, read : 0 .. MaxBalance]

Any(S) == CHOOSE x \in S : TRUE
Idle == [step |-> "idle", agent |-> Any(Agents), funding |-> Any(Fundings),
         plan |-> Any(Plans), quantity |-> Any(Quantities), price |-> Any(Prices), read |-> 0]

Init == /\ agent = [a \in Agents |-> "pending"]
        /\ tenantActive = TRUE
        /\ plan \in [Plans -> [active : {TRUE}, price : Prices]]
        /\ balance = [a \in Agents |-> 0]
        /\ funding = [f \in Fundings |-> [status |-> "absent", agent |-> Any(Agents), amount |-> 0]]
        /\ confirmed = {}
        /\ charged = [a \in Agents |-> 0]
        /\ lock = [row \in Rows |-> Free]
        /\ request = [r \in Requests |-> Idle]
        /\ crashes = 0
        /\ edit = [e \in Editors |-> NoEdit]
        /\ suspended = {} /\ undone = {}

-----------------------------------------------------------------------------
(* Transactions and row locks.                                             *)

Unlocked(S) == \A row \in S : lock[row] = Free

\* select_for_update: wait for the rows, then read on.
Lock(r, S) == /\ Unlocked(S)
              /\ lock' = [row \in Rows |-> IF row \in S THEN r ELSE lock[row]]

\* The end of r's transaction: its locks are released.
Finish(r) == /\ lock' = [row \in Rows |-> IF lock[row] = r THEN Free ELSE lock[row]]
             /\ request' = [request EXCEPT ![r] = Idle]

At(r, s) == request[r].step = s
Goto(r, record) == request' = [request EXCEPT ![r] = record]

\* An exception: nothing was written.
RollBack(r) == Finish(r) /\ UNCHANGED <<rows, crashes>>

-----------------------------------------------------------------------------
(* generate_voucher_from_wallet.                                           *)

\* The view: IsAgent reads the profile without a lock.
StartSpend(r, a, pl, q) ==
  /\ At(r, "idle")
  /\ agent[a] = "active" /\ tenantActive
  /\ Goto(r, [Idle EXCEPT !.step = "spend", !.agent = a, !.plan = pl, !.quantity = q])
  /\ UNCHANGED <<rows, lock, crashes>>

\* Mutant: the status is checked without a lock.
SpendCheckAgent(r) ==
  /\ At(r, "spend")
  /\ IF agent[request[r].agent] = "active" /\ tenantActive
     THEN /\ Goto(r, [request[r] EXCEPT !.step = "spend_agent"])
          /\ UNCHANGED <<rows, lock, crashes>>
     ELSE RollBack(r)

\* The agent row and, through select_related, its tenant row are locked.
SpendLockAgent(r) ==
  /\ At(r, "spend")
  /\ Unlocked({AgentRow(request[r].agent), TenantRow})
  /\ IF agent[request[r].agent] = "active" /\ tenantActive
     THEN /\ Lock(r, {AgentRow(request[r].agent), TenantRow})
          /\ Goto(r, [request[r] EXCEPT !.step = "spend_agent"])
          /\ UNCHANGED <<rows, crashes>>
     ELSE RollBack(r)

\* The plan is read without a lock; its price is what this transaction charges.
SpendReadPlan(r) ==
  /\ At(r, "spend_agent")
  /\ LET pl == plan[request[r].plan] IN
     IF pl.active
     THEN /\ Goto(r, [request[r] EXCEPT !.step = "spend_plan", !.price = pl.price])
          /\ UNCHANGED <<rows, lock, crashes>>
     ELSE RollBack(r)

\* Mutant: the wallet is read without a lock.
SpendReadWallet(r) ==
  /\ At(r, "spend_plan")
  /\ Goto(r, [request[r] EXCEPT !.step = "spend_wallet", !.read = balance[request[r].agent]])
  /\ UNCHANGED <<rows, lock, crashes>>

\* Locking the wallet row also reads the balance.
SpendLockWallet(r) ==
  LET a == request[r].agent IN
  /\ At(r, "spend_plan")
  /\ Lock(r, {WalletRow(a)})
  /\ Goto(r, [request[r] EXCEPT !.step = "spend_wallet", !.read = balance[a]])
  /\ UNCHANGED <<rows, crashes>>

\* Debit, vouchers and allocations, unless the balance is too small or the plan
\* was deactivated since (generate_vouchers looks it up again).
SpendCommit(r) ==
  LET a == request[r].agent
      cost == request[r].price * request[r].quantity IN
  /\ At(r, "spend_wallet")
  /\ IF request[r].read >= cost /\ plan[request[r].plan].active
     THEN /\ balance' = [balance EXCEPT ![a] = request[r].read - cost]
          /\ charged' = [charged EXCEPT ![a] = @ + cost]
          /\ Finish(r)
          /\ UNCHANGED <<managed, plan, funding, confirmed, crashes>>
     ELSE RollBack(r)

-----------------------------------------------------------------------------
(* Funding.                                                                *)

\* AgentWalletViewSet.fund: the pending row of a new reference.
Fund(f, a, amount) ==
  /\ funding[f].status = "absent"
  /\ agent[a] = "active" /\ tenantActive
  /\ funding' = [funding EXCEPT ![f] = [status |-> "pending", agent |-> a, amount |-> amount]]
  /\ UNCHANGED <<managed, plan, balance, confirmed, charged, lock, request, crashes>>

\* The agent completes the charge at Paystack.
ConfirmCharge(f) ==
  /\ funding[f].status # "absent" /\ f \notin confirmed
  /\ confirmed' = confirmed \cup {f}
  /\ UNCHANGED <<managed, plan, balance, funding, charged, lock, request, crashes>>

\* A webhook (one of several, perhaps) has verified the charge and calls
\* complete_wallet_funding with the row it read.
StartCredit(r, f) ==
  /\ At(r, "idle")
  /\ f \in confirmed
  /\ Goto(r, [Idle EXCEPT !.step = "credit", !.funding = f])
  /\ UNCHANGED <<rows, lock, crashes>>

CreditLockPayment(r) ==
  LET f == request[r].funding IN
  /\ At(r, "credit")
  /\ Unlocked({FundingRow(f)})
  /\ IF funding[f].status = "success" THEN RollBack(r)
     ELSE /\ Lock(r, {FundingRow(f)})
          /\ Goto(r, [request[r] EXCEPT !.step = "credit_payment", !.agent = funding[f].agent])
          /\ UNCHANGED <<rows, crashes>>

CreditLockWallet(r) ==
  LET a == request[r].agent IN
  /\ At(r, "credit_payment")
  /\ Lock(r, {WalletRow(a)})
  /\ Goto(r, [request[r] EXCEPT !.step = "credit_wallet", !.read = balance[a]])
  /\ UNCHANGED <<rows, crashes>>

\* Mutants: the new balance is not bounded; the agent's row is updated last, which
\* waits for whoever has locked it.
CreditUnbounded(r) ==
  LET f == request[r].funding IN
  /\ At(r, "credit_wallet")
  /\ funding' = [funding EXCEPT ![f].status = "success"]
  /\ balance' = [balance EXCEPT ![request[r].agent] = request[r].read + funding[f].amount]
  /\ Finish(r)
  /\ UNCHANGED <<managed, plan, confirmed, charged, crashes>>
CreditThenAgent(r) ==
  LET credited == request[r].read + funding[request[r].funding].amount IN
  /\ At(r, "credit_wallet")
  /\ Unlocked({AgentRow(request[r].agent)})
  /\ IF credited <= MaxBalance
     THEN /\ funding' = [funding EXCEPT ![request[r].funding].status = "success"]
          /\ balance' = [balance EXCEPT ![request[r].agent] = credited]
          /\ Finish(r)
          /\ UNCHANGED <<managed, plan, confirmed, charged, crashes>>
     ELSE RollBack(r)

\* Payment and wallet change together; a balance the column cannot hold is a
\* database error, which rolls both back.
CreditCommit(r) ==
  LET f == request[r].funding
      credited == request[r].read + funding[f].amount IN
  /\ At(r, "credit_wallet")
  /\ IF credited <= MaxBalance
     THEN /\ funding' = [funding EXCEPT ![f].status = "success"]
          /\ balance' = [balance EXCEPT ![request[r].agent] = credited]
          /\ Finish(r)
          /\ UNCHANGED <<managed, plan, confirmed, charged, crashes>>
     ELSE RollBack(r)

\* A database error or a crash ends a transaction at any step.
Abort(r) == /\ crashes < MaxCrashes
            /\ ~At(r, "idle")
            /\ crashes' = crashes + 1
            /\ Finish(r)
            /\ UNCHANGED rows

-----------------------------------------------------------------------------
(* Management.                                                             *)

\* A decision stands until the next one, or until it is undone.
Decide(row, suspend) ==
  /\ suspended' = IF suspend THEN suspended \cup {row} ELSE suspended \ {row}
  /\ undone' = undone \ {row}

\* AgentManagementViewSet.approve and suspend, under the agent's lock: only the
\* status is saved.
ChangeStatus(a, status) ==
  /\ Unlocked({AgentRow(a)})
  /\ agent' = [agent EXCEPT ![a] = status]
  /\ Decide(AgentRow(a), status = "suspended")
  /\ UNCHANGED <<tenantActive, edit, plan, balance, funding, confirmed, charged, lock, request,
                 crashes>>

\* The platform's PATCH of is_active waits for the row's lock like any UPDATE.
ChangeTenant(active) ==
  /\ Unlocked({TenantRow})
  /\ tenantActive' = active
  /\ Decide(TenantRow, ~active)
  /\ UNCHANGED <<agent, edit, plan, balance, funding, confirmed, charged, lock, request, crashes>>

\* An agent's PATCH of its profile, a manager's or the platform's of the tenant's
\* other fields: the row is read without a lock.
FetchAgent(e, a) ==
  /\ edit[e] = NoEdit
  /\ edit' = [edit EXCEPT ![e] = [row |-> AgentRow(a), status |-> agent[a]]]
  /\ UNCHANGED <<agent, tenantActive, suspended, undone, plan, balance, funding, confirmed,
                 charged, lock, request, crashes>>

FetchTenant(e) ==
  /\ edit[e] = NoEdit
  /\ edit' = [edit EXCEPT ![e] =
       [row |-> TenantRow, status |-> IF tenantActive THEN "active" ELSE "suspended"]]
  /\ UNCHANGED <<agent, tenantActive, suspended, undone, plan, balance, funding, confirmed,
                 charged, lock, request, crashes>>

\* The save writes every column, the status as it was read; it waits for the row.
SaveEdit(e) ==
  LET row == edit[e].row
      status == edit[e].status IN
  /\ edit[e] # NoEdit
  /\ Unlocked({row})
  /\ agent' = [a \in Agents |-> IF row = AgentRow(a) THEN status ELSE agent[a]]
  /\ tenantActive' = IF row = TenantRow THEN status = "active" ELSE tenantActive
  /\ undone' = IF <<agent, tenantActive>>' = <<agent, tenantActive>> THEN undone
               ELSE undone \cup ({row} \cap suspended)
  /\ edit' = [edit EXCEPT ![e] = NoEdit]
  /\ UNCHANGED <<suspended, plan, balance, funding, confirmed, charged, lock, request, crashes>>

\* An edit that is refused, or whose process is gone.
DropEdit(e) ==
  /\ edit[e] # NoEdit
  /\ edit' = [edit EXCEPT ![e] = NoEdit]
  /\ UNCHANGED <<agent, tenantActive, suspended, undone, plan, balance, funding, confirmed,
                 charged, lock, request, crashes>>

\* PATCH plans/{id}: price and is_active; nobody locks plan rows.
EditPlan(pl) ==
  /\ \E row \in [active : BOOLEAN, price : Prices] : plan' = [plan EXCEPT ![pl] = row]
  /\ UNCHANGED <<managed, balance, funding, confirmed, charged, lock, request, crashes>>

-----------------------------------------------------------------------------
Step(r) == \/ SpendLockAgent(r)
           \/ SpendReadPlan(r)
           \/ SpendLockWallet(r)
           \/ SpendCommit(r)
           \/ CreditLockPayment(r)
           \/ CreditLockWallet(r)
           \/ CreditCommit(r)

Start(r) == \/ \E a \in Agents, pl \in Plans, q \in Quantities : StartSpend(r, a, pl, q)
            \/ \E f \in Fundings : StartCredit(r, f)

Outside == \/ \E f \in Fundings, a \in Agents, amount \in Amounts : Fund(f, a, amount)
           \/ \E f \in Fundings : ConfirmCharge(f)
           \/ \E a \in Agents, status \in {"active", "suspended"} : ChangeStatus(a, status)
           \/ \E pl \in Plans : EditPlan(pl)
           \/ \E active \in BOOLEAN : ChangeTenant(active)

Editing(e) == FetchTenant(e) \/ SaveEdit(e) \/ DropEdit(e) \/ \E a \in Agents : FetchAgent(e, a)

Next == \/ Outside
        \/ \E e \in Editors : Editing(e)
        \/ \E r \in Requests : Start(r) \/ Step(r) \/ Abort(r)

Spec == Init /\ [][Next]_vars

\* PostgreSQL grants a row lock to its waiters in turn, so a transaction that
\* keeps asking gets it: strong fairness of each request's steps.
LiveSpec == Spec /\ \A r \in Requests : SF_vars(Step(r))

-----------------------------------------------------------------------------
(* Properties.                                                             *)

\* Every variable has its type.
TypeOK == /\ agent \in [Agents -> Statuses]
          /\ tenantActive \in BOOLEAN
          /\ plan \in [Plans -> [active : BOOLEAN, price : Prices]]
          /\ balance \in [Agents -> 0 .. MaxBalance]
          /\ funding \in [Fundings -> [status : {"absent", "pending", "success"},
                                       agent : Agents, amount : Amounts \cup {0}]]
          /\ confirmed \subseteq Fundings
          /\ charged \in [Agents -> Nat]
          /\ lock \in [Rows -> Requests \cup {Free}]
          /\ request \in [Requests -> RequestRecord]
          /\ crashes \in 0 .. MaxCrashes
          /\ edit \in [Editors -> Edit \cup {NoEdit}]
          /\ undone \subseteq suspended /\ suspended \subseteq Rows

\* The fundings completed for agent a.
Credited(a) == {f \in Fundings : funding[f].status = "success" /\ funding[f].agent = a}

SumOver(S, Value(_)) == MapThenFoldSet(LAMBDA x, y : x + y, 0, Value, Any, S)

\* Money is neither made nor lost: what an agent has and what its vouchers cost
\* is what its completed fundings brought, whatever ran concurrently or failed.
MoneyConserved ==
  \A a \in Agents :
    balance[a] + charged[a] = SumOver(Credited(a), LAMBDA f : funding[f].amount)

\* Once a manager's suspension (of the agent, or of the tenant) is committed no
\* voucher leaves the wallet, not even through a request that began before, unless
\* the profile was saved since with the status that somebody had read earlier.
NoSaleAfterSuspensionUnlessUndone ==
  [][\A a \in Agents : charged'[a] # charged[a] =>
       {AgentRow(a), TenantRow} \cap suspended \subseteq undone]_vars

\* No lock order can make requests wait for each other for ever.
EveryRequestEnds == \A r \in Requests : ~At(r, "idle") ~> At(r, "idle")
================================================================================
