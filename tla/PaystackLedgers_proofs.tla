------------------------- MODULE PaystackLedgers_proofs -------------------------
(***************************************************************************)
(* Proofs about AgentWallet, for any number of agents, fundings, plans and *)
(* concurrent requests, any prices and any number of crashes, and about    *)
(* TenantSubscriptions, for any number of payments, plans and deliveries,  *)
(* any durations and as much time as one likes: what Paystack's confirmed  *)
(* payments become, money in a wallet and days of a subscription, and what *)
(* the rows of both add up to.                                             *)
(*                                                                         *)
(* Both rest on row locks: what a transaction has read under a lock is     *)
(* still so when it writes (Guarded, DeliveryOK).  So each step adds at    *)
(* most one payment to a ledger (LedgerStep, DaysStep).  The folds that    *)
(* sum them up exist over a finite set and do not depend on the order      *)
(* (SumRemoves), by induction on the size of the set.                      *)
(***************************************************************************)
EXTENDS AgentWallet, TenantSubscriptions, FiniteSetTheorems, WellFoundedInduction, TLAPS

-----------------------------------------------------------------------------
(* Sums over finite sets.                                                  *)

LEMMA LeastExists ==
  ASSUME NEW S, S \subseteq Nat, S # {}
  PROVE  \E m \in S : \A n \in S : m <= n
<1>1. PICK m \in S : \A n \in S : <<n, m>> \notin OpToRel(<, Nat)
  BY NatLessThanWellFounded, WFMin
<1>2. \A n \in S : ~(n < m)
  BY <1>1 DEF OpToRel
<1> QED
  BY <1>2

LEMMA AnyIs ==
  ASSUME NEW S, S # {}
  PROVE  Any(S) \in S
BY DEF Any

\* g adds up the values v over each set of D, as MapThenFoldSet does.
Adds(v, D, g) ==
  g = [s \in D |-> IF s = {} THEN 0 ELSE v[Any(s)] + g[s \ {Any(s)}]]

\* The subsets of S with at most n elements.
UpTo(S, n) == {s \in SUBSET S : Cardinality(s) <= n}

LEMMA SubsetCardinality ==
  ASSUME NEW S, IsFiniteSet(S), NEW s \in SUBSET S
  PROVE  /\ IsFiniteSet(s) /\ Cardinality(s) \in Nat
         /\ Cardinality(s) <= Cardinality(S)
         /\ \A x \in s : s \ {x} \in SUBSET S /\ Cardinality(s \ {x}) = Cardinality(s) - 1
         /\ Cardinality(s) = 0 <=> s = {}
<1>1. IsFiniteSet(s) /\ Cardinality(s) <= Cardinality(S)
  BY FS_Subset
<1>2. Cardinality(s) \in Nat
  BY <1>1, FS_CardinalityType
<1>3. \A x \in s : Cardinality(s \ {x}) = Cardinality(s) - 1
  BY <1>1, FS_RemoveElement
<1>4. Cardinality(s) = 0 <=> s = {}
  BY <1>1, FS_EmptySet
<1> QED
  BY <1>1, <1>2, <1>3, <1>4

\* Among some subsets of a finite set there is one that loses its place among
\* them whichever element it loses.
LEMMA SmallestSubset ==
  ASSUME NEW S, IsFiniteSet(S), NEW Bad \in SUBSET SUBSET S, Bad # {}
  PROVE  \E t \in Bad : \A x \in t : t \ {x} \notin Bad
<1> DEFINE Sizes == {Cardinality(t) : t \in Bad}
<1>1. Sizes \subseteq Nat /\ Sizes # {}
  BY SubsetCardinality
<1>2. PICK m \in Sizes : \A k \in Sizes : m <= k
  BY <1>1, LeastExists
<1>3. PICK t \in Bad : Cardinality(t) = m
  BY <1>2
<1>4. ASSUME NEW x \in t, t \ {x} \in Bad PROVE FALSE
  <2>1. Cardinality(t) \in Nat /\ Cardinality(t \ {x}) = Cardinality(t) - 1
    BY SubsetCardinality
  <2>2. Cardinality(t) <= Cardinality(t \ {x})
    BY <1>2, <1>3, <1>4
  <2> QED
    BY <2>1, <2>2
<1> QED
  BY <1>4

LEMMA SumUpTo ==
  ASSUME NEW S, IsFiniteSet(S), NEW v, NEW n \in Nat
  PROVE  \E g : Adds(v, UpTo(S, n), g)
<1> DEFINE Bad == {m \in Nat : ~ \E g : Adds(v, UpTo(S, m), g)}
<1> SUFFICES ASSUME Bad # {} PROVE FALSE
  OBVIOUS
<1>1. PICK m \in Bad : \A k \in Bad : m <= k
  BY LeastExists
<1>2. CASE m = 0
  <2>1. \A s \in UpTo(S, 0) : s = {}
    BY SubsetCardinality DEF UpTo
  <2> DEFINE g == [s \in UpTo(S, 0) |-> 0]
  <2>2. Adds(v, UpTo(S, 0), g)
    BY <2>1 DEF Adds
  <2> QED
    BY <1>1, <1>2, <2>2
<1>3. CASE m # 0
  <2>1. PICK k \in Nat : m = k + 1
    BY <1>1, <1>3
  <2>2. PICK g : Adds(v, UpTo(S, k), g)
    BY <1>1, <2>1
  <2> DEFINE h == [s \in UpTo(S, m) |-> IF s = {} THEN 0 ELSE v[Any(s)] + g[s \ {Any(s)}]]
  <2>3. ASSUME NEW s \in UpTo(S, k) PROVE h[s] = g[s]
    <3>1. s \in UpTo(S, m)
      BY <2>1, SubsetCardinality DEF UpTo
    <3> QED
      BY <2>2, <3>1 DEF Adds
  <2>4. ASSUME NEW s \in UpTo(S, m), s # {} PROVE s \ {Any(s)} \in UpTo(S, k)
    BY <2>1, <2>4, SubsetCardinality, AnyIs DEF UpTo
  <2>5. Adds(v, UpTo(S, m), h)
    BY <2>3, <2>4 DEF Adds
  <2> QED
    BY <1>1, <2>5
<1> QED
  BY <1>2, <1>3

\* The fold is a function: it is built for ever larger subsets.
LEMMA SumExists ==
  ASSUME NEW S, IsFiniteSet(S), NEW v
  PROVE  \E g : Adds(v, SUBSET S, g)
<1>1. Cardinality(S) \in Nat
  BY FS_CardinalityType
<1>2. UpTo(S, Cardinality(S)) = SUBSET S
  BY SubsetCardinality DEF UpTo
<1> QED
  BY <1>1, <1>2, SumUpTo

\* Two such functions agree wherever the values they add do.
LEMMA SumAgrees ==
  ASSUME NEW S, NEW T, IsFiniteSet(S), S \subseteq T, NEW v, NEW w, \A x \in S : v[x] = w[x],
         NEW g, NEW h, Adds(v, SUBSET S, g), Adds(w, SUBSET T, h)
  PROVE  \A s \in SUBSET S : g[s] = h[s]
<1> DEFINE Bad == {t \in SUBSET S : g[t] # h[t]}
<1> SUFFICES ASSUME Bad # {} PROVE FALSE
  OBVIOUS
<1>1. PICK t \in Bad : \A x \in t : t \ {x} \notin Bad
  BY SmallestSubset
<1>2. t # {}
  BY <1>1 DEF Adds
<1>3. Any(t) \in t /\ t \ {Any(t)} \notin Bad
  BY <1>1, <1>2, AnyIs
<1>4. v[Any(t)] = w[Any(t)] /\ t \ {Any(t)} \in SUBSET S
  BY <1>3
<1>5. g[t] = v[Any(t)] + g[t \ {Any(t)}] /\ h[t] = w[Any(t)] + h[t \ {Any(t)}]
  BY <1>2 DEF Adds
<1> QED
  BY <1>1, <1>3, <1>4, <1>5

LEMMA SumIsNatural ==
  ASSUME NEW S, IsFiniteSet(S), NEW v, \A x \in S : v[x] \in Nat, NEW g,
         Adds(v, SUBSET S, g), NEW s \in SUBSET S
  PROVE  g[s] \in Nat
<1> DEFINE Bad == {t \in SUBSET S : g[t] \notin Nat}
<1> SUFFICES ASSUME Bad # {} PROVE FALSE
  OBVIOUS
<1>1. PICK t \in Bad : \A x \in t : t \ {x} \notin Bad
  BY SmallestSubset
<1>2. t # {}
  BY <1>1 DEF Adds
<1>3. Any(t) \in t /\ t \ {Any(t)} \notin Bad
  BY <1>1, <1>2, AnyIs
<1>4. v[Any(t)] \in Nat /\ t \ {Any(t)} \in SUBSET S
  BY <1>3
<1>5. g[t] = v[Any(t)] + g[t \ {Any(t)}]
  BY <1>2 DEF Adds
<1> QED
  BY <1>1, <1>3, <1>4, <1>5

\* Whichever element is taken out first: the sum does not depend on the order.
LEMMA SumRemoves ==
  ASSUME NEW S, IsFiniteSet(S), NEW v, \A x \in S : v[x] \in Nat, NEW g,
         Adds(v, SUBSET S, g), NEW s \in SUBSET S, NEW f \in s
  PROVE  g[s] = v[f] + g[s \ {f}]
<1> DEFINE Bad == {t \in SUBSET S : \E x \in t : g[t] # v[x] + g[t \ {x}]}
<1> SUFFICES ASSUME Bad # {} PROVE FALSE
  OBVIOUS
<1>1. PICK t \in Bad : \A x \in t : t \ {x} \notin Bad
  BY SmallestSubset
<1>2. PICK x \in t : g[t] # v[x] + g[t \ {x}]
  BY <1>1
<1>3. PICK y \in t : g[t] = v[y] + g[t \ {y}]
  BY <1>2, AnyIs DEF Adds
<1>4. \A z \in t : t \ {z} \in SUBSET S /\ t \ {z} \notin Bad
  BY <1>1
<1>5. g[t \ {y}] = v[x] + g[(t \ {y}) \ {x}]
  BY <1>2, <1>3, <1>4
<1>6. g[t \ {x}] = v[y] + g[(t \ {y}) \ {x}]
  <2>1. (t \ {y}) \ {x} = (t \ {x}) \ {y}
    OBVIOUS
  <2> QED
    BY <1>2, <1>3, <1>4, <2>1
<1>7. v[x] \in Nat /\ v[y] \in Nat /\ g[(t \ {y}) \ {x}] \in Nat
  BY SumIsNatural
<1> HIDE DEF Bad
<1>8. PICK a \in Nat, b \in Nat, c \in Nat : a = v[x] /\ b = v[y] /\ c = g[(t \ {y}) \ {x}]
  BY <1>7
<1>9. g[t] = b + (a + c) /\ v[x] + g[t \ {x}] = a + (b + c)
  BY <1>3, <1>5, <1>6, <1>8
<1> QED
  BY <1>2, <1>9

LEMMA AddsOnce ==
  ASSUME NEW S, IsFiniteSet(S), NEW v, NEW g, Adds(v, SUBSET S, g), NEW h
  PROVE  Adds(v, SUBSET S, h) <=> h = g
<1> SUFFICES ASSUME Adds(v, SUBSET S, h) PROVE h = g
  OBVIOUS
<1>1. PICK T, w : T = S /\ w = v
  OBVIOUS
<1>2. \A s \in SUBSET S : h[s] = g[s]
  <2>1. Adds(w, SUBSET T, h) /\ S \subseteq T /\ \A x \in S : v[x] = w[x]
    BY <1>1
  <2> QED
    BY <2>1, SumAgrees
<1> QED
  BY <1>2 DEF Adds

-----------------------------------------------------------------------------
(* Agent wallets.                                                          *)

Spending(r) == request[r].step \in {"spend_agent", "spend_plan", "spend_wallet"}
Reading(r) == request[r].step \in {"spend_wallet", "credit_wallet"}
Crediting(r) == request[r].step \in {"credit_payment", "credit_wallet"}

\* What a transaction has locked and read.
Guarded(r) ==
  /\ Spending(r) => /\ lock[AgentRow(request[r].agent)] = r /\ lock[TenantRow] = r
                    /\ agent[request[r].agent] = "active" /\ tenantActive
  /\ Reading(r) => /\ lock[WalletRow(request[r].agent)] = r
                   /\ request[r].read = balance[request[r].agent]
  /\ Crediting(r) => /\ lock[FundingRow(request[r].funding)] = r
                     /\ funding[request[r].funding].status = "pending"
                     /\ funding[request[r].funding].agent = request[r].agent
  /\ At(r, "credit") => funding[request[r].funding].status # "absent"

\* Paystack confirms what has been ordered.
ConfirmedInv == \A f \in confirmed : funding[f].status # "absent"

\* A suspension holds until the next decision, or until an older row is saved.
SuspensionsStand ==
  /\ \A a \in Agents : AgentRow(a) \in suspended \ undone => agent[a] # "active"
  /\ TenantRow \in suspended \ undone => ~tenantActive

IInv == TypeOK /\ (\A r \in Requests : Guarded(r)) /\ ConfirmedInv /\ SuspensionsStand

-----------------------------------------------------------------------------
(* Requests and locks.                                                     *)

LEMMA IdleRequest == Idle \in RequestRecord /\ Idle.step = "idle"
<1>1. /\ Any(Agents) \in Agents /\ Any(Fundings) \in Fundings /\ Any(Plans) \in Plans
      /\ Any(Prices) \in Prices /\ Any(Quantities) \in Quantities
  <2>1. ASSUME NEW S, S # {} PROVE Any(S) \in S
    BY <2>1 DEF Any
  <2> QED
    BY <2>1, IdleAssumption
<1> QED
  BY <1>1, BoundAssumption DEF Idle, RequestRecord

LEMMA AmountIsNatural == \A amount \in Amounts \cup {0} : amount \in Nat
<1> SUFFICES ASSUME NEW amount \in Amounts PROVE amount \in Nat
  OBVIOUS
<1> QED
  BY AmountAssumption

LEMMA RowsExist ==
  /\ TenantRow \in Rows
  /\ \A a \in Agents : AgentRow(a) \in Rows /\ WalletRow(a) \in Rows
  /\ \A f \in Fundings : FundingRow(f) \in Rows
BY DEF Rows

LEMMA SetRequest ==
  ASSUME TypeOK, NEW r \in Requests, NEW record \in RequestRecord,
         request' = [request EXCEPT ![r] = record]
  PROVE  /\ request' \in [Requests -> RequestRecord]
         /\ request'[r] = record
         /\ \A s \in Requests \ {r} : request'[s] = request[s]
BY DEF TypeOK

\* A lock is taken from nobody.
LEMMA LockStep ==
  ASSUME TypeOK, NEW r \in Requests, NEW S, Lock(r, S)
  PROVE  /\ lock' \in [Rows -> Requests \cup {Free}]
         /\ \A row \in Rows : row \in S => lock'[row] = r
         /\ \A row \in Rows : lock[row] # Free => lock'[row] = lock[row]
<1>1. /\ lock \in [Rows -> Requests \cup {Free}]
      /\ lock' = [row \in Rows |-> IF row \in S THEN r ELSE lock[row]]
      /\ \A row \in S : lock[row] = Free
  BY DEF TypeOK, Lock, Unlocked
<1> QED
  BY <1>1

\* The end of a transaction frees its own locks only.
LEMMA FinishStep ==
  ASSUME TypeOK, NEW r \in Requests, Finish(r)
  PROVE  /\ lock' \in [Rows -> Requests \cup {Free}]
         /\ \A s \in Requests \ {r}, row \in Rows : lock[row] = s => lock'[row] = s
         /\ request' \in [Requests -> RequestRecord]
         /\ request'[r].step = "idle"
         /\ \A s \in Requests \ {r} : request'[s] = request[s]
<1>1. /\ lock \in [Rows -> Requests \cup {Free}]
      /\ lock' = [row \in Rows |-> IF lock[row] = r THEN Free ELSE lock[row]]
  BY DEF TypeOK, Finish
<1>2. \A s \in Requests \ {r}, row \in Rows : lock[row] = s => lock'[row] = s
  BY <1>1
<1>3. lock' \in [Rows -> Requests \cup {Free}]
  BY <1>1
<1>4. request' = [request EXCEPT ![r] = Idle]
  BY DEF Finish
<1> QED
  BY <1>2, <1>3, <1>4, SetRequest, IdleRequest

\* A transaction stays guarded while its locks are kept and what they protect stays.
LEMMA StaysGuarded ==
  ASSUME TypeOK, NEW s \in Requests, Guarded(s), request'[s] = request[s],
         \A row \in Rows : lock[row] = s => lock'[row] = s,
         \A a \in Agents : lock[AgentRow(a)] = s => agent'[a] = agent[a],
         lock[TenantRow] = s => tenantActive' = tenantActive,
         \A a \in Agents : lock[WalletRow(a)] = s => balance'[a] = balance[a],
         \A f \in Fundings : lock[FundingRow(f)] = s /\ funding[f].status = "pending"
                               => funding'[f] = funding[f],
         \A f \in Fundings : funding[f].status # "absent" => funding'[f].status # "absent"
  PROVE  Guarded(s)'
<1>1. request[s].agent \in Agents /\ request[s].funding \in Fundings
  BY DEF TypeOK, RequestRecord
<1>2. Spending(s) => /\ lock'[AgentRow(request[s].agent)] = s /\ lock'[TenantRow] = s
                     /\ agent'[request[s].agent] = "active" /\ tenantActive'
  <2>1. ASSUME Spending(s) PROVE lock[AgentRow(request[s].agent)] = s /\ lock[TenantRow] = s
    BY <2>1 DEF Guarded
  <2>2. ASSUME Spending(s)
        PROVE  lock'[AgentRow(request[s].agent)] = s /\ lock'[TenantRow] = s
    BY <1>1, <2>1, <2>2, RowsExist
  <2>3. ASSUME Spending(s) PROVE agent'[request[s].agent] = "active"
    BY <1>1, <2>1, <2>3 DEF Guarded
  <2>4. ASSUME Spending(s) PROVE tenantActive'
    <3>1. tenantActive
      BY <2>4 DEF Guarded
    <3>2. tenantActive' = tenantActive
      BY <2>1, <2>4
    <3> QED
      BY <3>1, <3>2
  <2> QED
    BY <2>2, <2>3, <2>4
<1>3. Reading(s) => /\ lock'[WalletRow(request[s].agent)] = s
                    /\ request[s].read = balance'[request[s].agent]
  BY <1>1, RowsExist DEF Guarded
<1>4. Crediting(s) => /\ lock'[FundingRow(request[s].funding)] = s
                      /\ funding'[request[s].funding].status = "pending"
                      /\ funding'[request[s].funding].agent = request[s].agent
  BY <1>1, RowsExist DEF Guarded
<1>5. At(s, "credit") => funding'[request[s].funding].status # "absent"
  BY <1>1 DEF Guarded
<1> QED
  BY <1>2, <1>3, <1>4, <1>5 DEF Guarded, Spending, Reading, Crediting, At

LEMMA InvInit == Init => IInv
<1> SUFFICES ASSUME Init PROVE IInv
  OBVIOUS
<1>1. /\ request = [r \in Requests |-> Idle] /\ confirmed = {}
      /\ funding = [f \in Fundings |-> [status |-> "absent", agent |-> Any(Agents), amount |-> 0]]
      /\ agent = [a \in Agents |-> "pending"] /\ tenantActive = TRUE
      /\ plan \in [Plans -> [active : {TRUE}, price : Prices]]
      /\ balance = [a \in Agents |-> 0] /\ charged = [a \in Agents |-> 0]
      /\ lock = [row \in Rows |-> Free] /\ crashes = 0
      /\ edit = [e \in Editors |-> NoEdit] /\ suspended = {} /\ undone = {}
  BY DEF Init
<1>2. Any(Agents) \in Agents
  BY IdleAssumption DEF Any
<1>3. TypeOK
  <2>1. /\ agent \in [Agents -> Statuses] /\ tenantActive \in BOOLEAN
        /\ edit \in [Editors -> Edit \cup {NoEdit}]
        /\ undone \subseteq suspended /\ suspended \subseteq Rows
    BY <1>1 DEF Statuses
  <2>2. plan \in [Plans -> [active : BOOLEAN, price : Prices]]
    <3>1. ASSUME NEW pl \in Plans PROVE plan[pl] \in [active : BOOLEAN, price : Prices]
      <4>1. plan[pl] \in [active : {TRUE}, price : Prices]
        BY <1>1
      <4> QED
        BY <4>1
    <3>2. plan = [pl \in Plans |-> plan[pl]]
      BY <1>1
    <3> QED
      BY <3>1, <3>2
  <2>3. balance \in [Agents -> 0 .. MaxBalance] /\ charged \in [Agents -> Nat]
    BY <1>1, BoundAssumption
  <2>4. funding \in [Fundings -> [status : {"absent", "pending", "success"},
                                 agent : Agents, amount : Amounts \cup {0}]]
    BY <1>1, <1>2
  <2>5. lock \in [Rows -> Requests \cup {Free}] /\ request \in [Requests -> RequestRecord]
    BY <1>1, IdleRequest
  <2>6. crashes \in 0 .. MaxCrashes /\ confirmed \subseteq Fundings
    BY <1>1, BoundAssumption
  <2> QED
    BY <2>1, <2>2, <2>3, <2>4, <2>5, <2>6 DEF TypeOK
<1>4. \A r \in Requests : request[r].step = "idle"
  BY <1>1, IdleRequest
<1>5. \A r \in Requests : Guarded(r)
  BY <1>4 DEF Guarded, Spending, Reading, Crediting, At
<1> QED
  BY <1>1, <1>3, <1>5 DEF IInv, ConfirmedInv, SuspensionsStand

-----------------------------------------------------------------------------
(* Steps of a transaction that write nothing.                              *)

LEMMA QuietStep ==
  ASSUME IInv, NEW r \in Requests, UNCHANGED rows, crashes' \in 0 .. MaxCrashes,
         lock' \in [Rows -> Requests \cup {Free}],
         \A s \in Requests \ {r}, row \in Rows : lock[row] = s => lock'[row] = s,
         request' \in [Requests -> RequestRecord],
         \A s \in Requests \ {r} : request'[s] = request[s],
         Guarded(r)'
  PROVE  IInv'
<1>1. TypeOK /\ \A s \in Requests : Guarded(s)
  BY DEF IInv
<1>2. /\ UNCHANGED <<agent, tenantActive, plan, balance, funding, confirmed, charged>>
      /\ UNCHANGED <<edit, suspended, undone>>
  BY DEF rows, managed
<1>3. TypeOK'
  BY <1>1, <1>2 DEF TypeOK
<1>4. ASSUME NEW s \in Requests \ {r} PROVE Guarded(s)'
  BY <1>1, <1>2, StaysGuarded
<1>5. ConfirmedInv' /\ SuspensionsStand'
  BY <1>2 DEF IInv, ConfirmedInv, SuspensionsStand
<1> QED
  BY <1>3, <1>4, <1>5 DEF IInv

LEMMA RollBackStep ==
  ASSUME IInv, NEW r \in Requests, RollBack(r) \/ Abort(r)
  PROVE  IInv'
<1>1. TypeOK /\ Finish(r) /\ UNCHANGED rows
  BY DEF IInv, RollBack, Abort
<1>2. crashes' \in 0 .. MaxCrashes
  BY BoundAssumption DEF IInv, TypeOK, RollBack, Abort
<1>3. /\ lock' \in [Rows -> Requests \cup {Free}]
      /\ \A s \in Requests \ {r}, row \in Rows : lock[row] = s => lock'[row] = s
      /\ request' \in [Requests -> RequestRecord]
      /\ request'[r].step = "idle"
      /\ \A s \in Requests \ {r} : request'[s] = request[s]
  BY <1>1, FinishStep
<1>4. Guarded(r)'
  BY <1>3 DEF Guarded, Spending, Reading, Crediting, At
<1> QED
  BY <1>1, <1>2, <1>3, <1>4, QuietStep

\* The request moves on, with no new lock or with some.
LEMMA GotoStep ==
  ASSUME IInv, NEW r \in Requests, NEW record \in RequestRecord, Goto(r, record),
         UNCHANGED <<rows, crashes>>,
         lock' = lock \/ \E S : Lock(r, S),
         request'[r] = record => Guarded(r)'
  PROVE  IInv'
<1>1. TypeOK /\ request' = [request EXCEPT ![r] = record] /\ crashes' \in 0 .. MaxCrashes
  BY DEF IInv, Goto, TypeOK
<1>2. /\ request' \in [Requests -> RequestRecord] /\ request'[r] = record
      /\ \A s \in Requests \ {r} : request'[s] = request[s]
  BY <1>1, SetRequest
<1>3. /\ lock' \in [Rows -> Requests \cup {Free}]
      /\ \A s \in Requests \ {r}, row \in Rows : lock[row] = s => lock'[row] = s
  <2>1. CASE lock' = lock
    BY <1>1, <2>1 DEF TypeOK
  <2>2. CASE \E S : Lock(r, S)
    BY <1>1, <2>2, LockStep, FreeAssumption
  <2> QED
    BY <2>1, <2>2
<1> QED
  BY <1>1, <1>2, <1>3, QuietStep


LEMMA InvStart ==
  ASSUME IInv, NEW r \in Requests, Start(r)
  PROVE  IInv'
<1>1. CASE \E a \in Agents, pl \in Plans, q \in Quantities : StartSpend(r, a, pl, q)
  <2>1. PICK a \in Agents, pl \in Plans, q \in Quantities : StartSpend(r, a, pl, q)
    BY <1>1
  <2>2. PICK record : record = [Idle EXCEPT !.step = "spend", !.agent = a, !.plan = pl,
                                            !.quantity = q]
    OBVIOUS
  <2>3. record \in RequestRecord /\ record.step = "spend"
    BY <2>2, IdleRequest DEF RequestRecord
  <2>4. Goto(r, record) /\ UNCHANGED <<rows, crashes>> /\ lock' = lock
    BY <2>1, <2>2 DEF StartSpend
  <2>5. request'[r] = record => Guarded(r)'
    BY <2>3 DEF Guarded, Spending, Reading, Crediting, At
  <2> QED
    BY <2>3, <2>4, <2>5, GotoStep
<1>2. CASE \E f \in Fundings : StartCredit(r, f)
  <2>1. PICK f \in Fundings : StartCredit(r, f)
    BY <1>2
  <2>2. PICK record : record = [Idle EXCEPT !.step = "credit", !.funding = f]
    OBVIOUS
  <2>3. record \in RequestRecord /\ record.step = "credit" /\ record.funding = f
    BY <2>2, IdleRequest DEF RequestRecord, Idle
  <2>4. Goto(r, record) /\ UNCHANGED <<rows, crashes>> /\ lock' = lock
    BY <2>1, <2>2 DEF StartCredit
  <2>5. funding'[f].status # "absent"
    BY <2>1, <2>4 DEF StartCredit, IInv, ConfirmedInv, rows
  <2>6. request'[r] = record => Guarded(r)'
    BY <2>3, <2>5 DEF Guarded, Spending, Reading, Crediting, At
  <2> QED
    BY <2>3, <2>4, <2>6, GotoStep
<1> QED
  BY <1>1, <1>2 DEF Start

LEMMA InvSpendLockAgent ==
  ASSUME IInv, NEW r \in Requests, SpendLockAgent(r)
  PROVE  IInv'
<1>1. CASE RollBack(r)
  BY <1>1, RollBackStep
<1>2. CASE ~RollBack(r)
  <2>1. PICK record : record = [request[r] EXCEPT !.step = "spend_agent"]
    OBVIOUS
  <2>2. /\ record \in RequestRecord /\ record.step = "spend_agent"
        /\ record.agent = request[r].agent /\ record.agent \in Agents
    BY <2>1 DEF IInv, TypeOK, RequestRecord
  <2>3. /\ Lock(r, {AgentRow(record.agent), TenantRow}) /\ Goto(r, record)
        /\ UNCHANGED <<rows, crashes>> /\ agent[record.agent] = "active" /\ tenantActive
    BY <1>2, <2>1, <2>2 DEF SpendLockAgent
  <2>4. lock'[AgentRow(record.agent)] = r /\ lock'[TenantRow] = r
    BY <2>2, <2>3, LockStep, RowsExist DEF IInv
  <2>5. request'[r] = record => Guarded(r)'
    BY <2>2, <2>3, <2>4 DEF Guarded, Spending, Reading, Crediting, At, rows, managed
  <2> QED
    BY <2>2, <2>3, <2>5, GotoStep
<1> QED
  BY <1>1, <1>2

LEMMA InvSpendReadPlan ==
  ASSUME IInv, NEW r \in Requests, SpendReadPlan(r)
  PROVE  IInv'
<1>1. CASE RollBack(r)
  BY <1>1, RollBackStep
<1>2. CASE ~RollBack(r)
  <2>0. request[r] \in RequestRecord /\ plan[request[r].plan].price \in Prices
    BY DEF IInv, TypeOK, RequestRecord
  <2>1. PICK record : record = [request[r] EXCEPT !.step = "spend_plan",
                                                  !.price = plan[request[r].plan].price]
    OBVIOUS
  <2>2. /\ record \in RequestRecord /\ record.step = "spend_plan"
        /\ record.agent = request[r].agent
    BY <2>0, <2>1 DEF RequestRecord
  <2>3. Goto(r, record) /\ UNCHANGED <<rows, crashes>> /\ lock' = lock /\ At(r, "spend_agent")
    BY <1>2, <2>1 DEF SpendReadPlan
  <2>4. /\ lock[AgentRow(request[r].agent)] = r /\ lock[TenantRow] = r
        /\ agent[request[r].agent] = "active" /\ tenantActive
    BY <2>3 DEF IInv, Guarded, Spending, At
  <2>5. request'[r] = record => Guarded(r)'
    BY <2>2, <2>3, <2>4 DEF Guarded, Spending, Reading, Crediting, At, rows, managed
  <2> QED
    BY <2>2, <2>3, <2>5, GotoStep
<1> QED
  BY <1>1, <1>2

LEMMA InvSpendLockWallet ==
  ASSUME IInv, NEW r \in Requests, SpendLockWallet(r)
  PROVE  IInv'
<1>0. request[r] \in RequestRecord /\ balance[request[r].agent] \in 0 .. MaxBalance
  BY DEF IInv, TypeOK, RequestRecord
<1>1. PICK record : record = [request[r] EXCEPT !.step = "spend_wallet",
                                                !.read = balance[request[r].agent]]
  OBVIOUS
<1>2. /\ record \in RequestRecord /\ record.step = "spend_wallet"
      /\ record.agent = request[r].agent /\ record.agent \in Agents
      /\ record.read = balance[record.agent]
  BY <1>0, <1>1 DEF RequestRecord
<1>3. /\ Lock(r, {WalletRow(record.agent)}) /\ Goto(r, record) /\ UNCHANGED <<rows, crashes>>
      /\ At(r, "spend_plan")
  BY <1>1, <1>2 DEF SpendLockWallet
<1>4. /\ lock[AgentRow(record.agent)] = r /\ lock[TenantRow] = r
      /\ agent[record.agent] = "active" /\ tenantActive
  BY <1>2, <1>3 DEF IInv, Guarded, Spending, At
<1>5. /\ lock'[WalletRow(record.agent)] = r
      /\ lock'[AgentRow(record.agent)] = r /\ lock'[TenantRow] = r
  BY <1>2, <1>3, <1>4, LockStep, RowsExist, FreeAssumption DEF IInv
<1>6. request'[r] = record => Guarded(r)'
  BY <1>2, <1>3, <1>4, <1>5 DEF Guarded, Spending, Reading, Crediting, At, rows, managed
<1> QED
  BY <1>2, <1>3, <1>6, GotoStep

LEMMA InvCreditLockPayment ==
  ASSUME IInv, NEW r \in Requests, CreditLockPayment(r)
  PROVE  IInv'
<1>1. CASE RollBack(r)
  BY <1>1, RollBackStep
<1>2. CASE ~RollBack(r)
  <2>0. /\ request[r] \in RequestRecord /\ request[r].funding \in Fundings
        /\ funding[request[r].funding].agent \in Agents
        /\ funding[request[r].funding].status \in {"absent", "pending", "success"}
    BY DEF IInv, TypeOK, RequestRecord
  <2>1. PICK record : record = [request[r] EXCEPT !.step = "credit_payment",
                                                  !.agent = funding[request[r].funding].agent]
    OBVIOUS
  <2>2. /\ record \in RequestRecord /\ record.step = "credit_payment"
        /\ record.funding = request[r].funding
        /\ record.agent = funding[record.funding].agent
    BY <2>0, <2>1 DEF RequestRecord
  <2>3. /\ Lock(r, {FundingRow(record.funding)}) /\ Goto(r, record)
        /\ UNCHANGED <<rows, crashes>> /\ At(r, "credit")
        /\ funding[record.funding].status # "success"
    BY <1>2, <2>1, <2>2 DEF CreditLockPayment
  <2>4. funding[record.funding].status = "pending"
    BY <2>0, <2>2, <2>3 DEF IInv, Guarded
  <2>5. lock'[FundingRow(record.funding)] = r
    BY <2>0, <2>2, <2>3, LockStep, RowsExist DEF IInv
  <2>6. request'[r] = record => Guarded(r)'
    BY <2>2, <2>3, <2>4, <2>5 DEF Guarded, Spending, Reading, Crediting, At, rows, managed
  <2> QED
    BY <2>2, <2>3, <2>6, GotoStep
<1> QED
  BY <1>1, <1>2

LEMMA InvCreditLockWallet ==
  ASSUME IInv, NEW r \in Requests, CreditLockWallet(r)
  PROVE  IInv'
<1>0. request[r] \in RequestRecord /\ balance[request[r].agent] \in 0 .. MaxBalance
  BY DEF IInv, TypeOK, RequestRecord
<1>1. PICK record : record = [request[r] EXCEPT !.step = "credit_wallet",
                                                !.read = balance[request[r].agent]]
  OBVIOUS
<1>2. /\ record \in RequestRecord /\ record.step = "credit_wallet"
      /\ record.agent = request[r].agent /\ record.agent \in Agents
      /\ record.funding = request[r].funding /\ record.funding \in Fundings
      /\ record.read = balance[record.agent]
  BY <1>0, <1>1 DEF RequestRecord
<1>3. /\ Lock(r, {WalletRow(record.agent)}) /\ Goto(r, record) /\ UNCHANGED <<rows, crashes>>
      /\ At(r, "credit_payment")
  BY <1>1, <1>2 DEF CreditLockWallet
<1>4. /\ lock[FundingRow(record.funding)] = r
      /\ funding[record.funding].status = "pending"
      /\ funding[record.funding].agent = record.agent
  BY <1>2, <1>3 DEF IInv, Guarded, Crediting, At
<1>5. lock'[WalletRow(record.agent)] = r /\ lock'[FundingRow(record.funding)] = r
  BY <1>2, <1>3, <1>4, LockStep, RowsExist, FreeAssumption DEF IInv
<1>6. request'[r] = record => Guarded(r)'
  BY <1>2, <1>3, <1>4, <1>5 DEF Guarded, Spending, Reading, Crediting, At, rows, managed
<1> QED
  BY <1>2, <1>3, <1>6, GotoStep


-----------------------------------------------------------------------------
(* The two commits.                                                        *)

\* A sale takes its cost from the balance as it is and adds it to the charges.
LEMMA SaleEffect ==
  ASSUME IInv, NEW r \in Requests, SpendCommit(r), ~RollBack(r)
  PROVE  \E a \in Agents, cost \in Nat :
           /\ Finish(r)
           /\ UNCHANGED <<managed, plan, funding, confirmed, crashes>>
           /\ lock[WalletRow(a)] = r /\ agent[a] = "active" /\ tenantActive
           /\ cost <= balance[a]
           /\ balance' = [balance EXCEPT ![a] = balance[a] - cost]
           /\ charged' = [charged EXCEPT ![a] = charged[a] + cost]
<1>1. /\ request[r].agent \in Agents /\ request[r].price \in Nat /\ request[r].quantity \in Nat
      /\ charged \in [Agents -> Nat]
  <2>1. /\ request[r].agent \in Agents /\ request[r].price \in Prices
        /\ request[r].quantity \in Quantities /\ charged \in [Agents -> Nat]
    BY DEF IInv, TypeOK, RequestRecord
  <2>2. Prices \subseteq Nat /\ Quantities \subseteq 1 .. 100
    BY AmountAssumption
  <2>3. request[r].price \in Nat
    BY <2>1, <2>2
  <2>4. request[r].quantity \in 1 .. 100
    BY <2>1, <2>2
  <2> QED
    BY <2>1, <2>3, <2>4
<1>2. PICK a \in Agents : a = request[r].agent
  BY <1>1
<1>3. PICK cost \in Nat : cost = request[r].price * request[r].quantity
  BY <1>1
<1>4. /\ request[r].read = balance[a] /\ lock[WalletRow(a)] = r
      /\ agent[a] = "active" /\ tenantActive
  BY <1>2 DEF IInv, Guarded, Spending, Reading, At, SpendCommit
<1>5. /\ Finish(r) /\ UNCHANGED <<managed, plan, funding, confirmed, crashes>>
      /\ request[r].read >= cost
      /\ balance' = [balance EXCEPT ![a] = request[r].read - cost]
      /\ charged' = [charged EXCEPT ![a] = @ + cost]
  BY <1>2, <1>3 DEF SpendCommit
<1>6. request[r].read \in Nat
  BY BoundAssumption DEF IInv, TypeOK, RequestRecord
<1>7. cost <= balance[a] /\ charged' = [charged EXCEPT ![a] = charged[a] + cost]
  BY <1>1, <1>4, <1>5, <1>6
<1> QED
  BY <1>4, <1>5, <1>7

\* A credit adds the amount of one pending funding of the agent to its balance.
LEMMA CreditEffect ==
  ASSUME IInv, NEW r \in Requests, CreditCommit(r), ~RollBack(r)
  PROVE  \E a \in Agents, f \in Fundings :
           /\ Finish(r)
           /\ UNCHANGED <<managed, plan, confirmed, charged, crashes>>
           /\ lock[WalletRow(a)] = r /\ lock[FundingRow(f)] = r
           /\ funding[f].status = "pending" /\ funding[f].agent = a
           /\ balance[a] + funding[f].amount <= MaxBalance
           /\ balance' = [balance EXCEPT ![a] = balance[a] + funding[f].amount]
           /\ funding' = [funding EXCEPT ![f] = [funding[f] EXCEPT !.status = "success"]]
<1>1. request[r].agent \in Agents /\ request[r].funding \in Fundings
  BY DEF IInv, TypeOK, RequestRecord
<1>2. PICK a \in Agents, f \in Fundings : a = request[r].agent /\ f = request[r].funding
  BY <1>1
<1>3. /\ request[r].read = balance[a] /\ lock[WalletRow(a)] = r /\ lock[FundingRow(f)] = r
      /\ funding[f].status = "pending" /\ funding[f].agent = a
  BY <1>2 DEF IInv, Guarded, Crediting, Reading, At, CreditCommit
<1>4. /\ Finish(r) /\ UNCHANGED <<managed, plan, confirmed, charged, crashes>>
      /\ request[r].read + funding[f].amount <= MaxBalance
      /\ balance' = [balance EXCEPT ![a] = request[r].read + funding[f].amount]
      /\ funding' = [funding EXCEPT ![f].status = "success"]
  BY <1>2 DEF CreditCommit
<1> QED
  BY <1>3, <1>4

LEMMA InvSpendCommit ==
  ASSUME IInv, NEW r \in Requests, SpendCommit(r)
  PROVE  IInv'
<1>1. CASE RollBack(r)
  BY <1>1, RollBackStep
<1>2. CASE ~RollBack(r)
  <2>1. PICK a \in Agents, cost \in Nat :
           /\ Finish(r)
           /\ UNCHANGED <<managed, plan, funding, confirmed, crashes>>
           /\ lock[WalletRow(a)] = r /\ agent[a] = "active" /\ tenantActive
           /\ cost <= balance[a]
           /\ balance' = [balance EXCEPT ![a] = balance[a] - cost]
           /\ charged' = [charged EXCEPT ![a] = charged[a] + cost]
    BY <1>2, SaleEffect
  <2>2. /\ TypeOK /\ SuspensionsStand /\ \A s \in Requests : Guarded(s)
        /\ UNCHANGED <<agent, tenantActive, edit, suspended, undone>>
    BY <2>1 DEF IInv, managed
  <2>3. /\ lock' \in [Rows -> Requests \cup {Free}]
        /\ \A s \in Requests \ {r}, row \in Rows : lock[row] = s => lock'[row] = s
        /\ request' \in [Requests -> RequestRecord] /\ request'[r].step = "idle"
        /\ \A s \in Requests \ {r} : request'[s] = request[s]
    BY <2>1, <2>2, FinishStep
  <2>4. balance' \in [Agents -> 0 .. MaxBalance] /\ charged' \in [Agents -> Nat]
    <3>1. balance \in [Agents -> 0 .. MaxBalance] /\ charged \in [Agents -> Nat]
      BY <2>2 DEF TypeOK
    <3>2. balance[a] - cost \in 0 .. MaxBalance /\ charged[a] + cost \in Nat
      BY <2>1, <3>1, BoundAssumption
    <3> QED
      BY <2>1, <3>1, <3>2
  <2>5. TypeOK'
    BY <2>1, <2>2, <2>3, <2>4 DEF TypeOK
  <2>6. ASSUME NEW s \in Requests \ {r} PROVE Guarded(s)'
    <3>1. \A b \in Agents : lock[WalletRow(b)] = s => balance'[b] = balance[b]
      BY <2>1, <2>2 DEF TypeOK
    <3> QED
      BY <2>1, <2>2, <2>3, <3>1, StaysGuarded
  <2>7. Guarded(r)'
    BY <2>3 DEF Guarded, Spending, Reading, Crediting, At
  <2>8. ConfirmedInv' /\ SuspensionsStand'
    BY <2>1, <2>2 DEF IInv, ConfirmedInv, SuspensionsStand
  <2> QED
    BY <2>5, <2>6, <2>7, <2>8 DEF IInv
<1> QED
  BY <1>1, <1>2

LEMMA InvCreditCommit ==
  ASSUME IInv, NEW r \in Requests, CreditCommit(r)
  PROVE  IInv'
<1>1. CASE RollBack(r)
  BY <1>1, RollBackStep
<1>2. CASE ~RollBack(r)
  <2>1. PICK a \in Agents, f \in Fundings :
           /\ Finish(r)
           /\ UNCHANGED <<managed, plan, confirmed, charged, crashes>>
           /\ lock[WalletRow(a)] = r /\ lock[FundingRow(f)] = r
           /\ funding[f].status = "pending" /\ funding[f].agent = a
           /\ balance[a] + funding[f].amount <= MaxBalance
           /\ balance' = [balance EXCEPT ![a] = balance[a] + funding[f].amount]
           /\ funding' = [funding EXCEPT ![f] = [funding[f] EXCEPT !.status = "success"]]
    BY <1>2, CreditEffect
  <2>2. /\ TypeOK /\ SuspensionsStand /\ \A s \in Requests : Guarded(s)
        /\ UNCHANGED <<agent, tenantActive, edit, suspended, undone>>
    BY <2>1 DEF IInv, managed
  <2>3. /\ lock' \in [Rows -> Requests \cup {Free}]
        /\ \A s \in Requests \ {r}, row \in Rows : lock[row] = s => lock'[row] = s
        /\ request' \in [Requests -> RequestRecord] /\ request'[r].step = "idle"
        /\ \A s \in Requests \ {r} : request'[s] = request[s]
    BY <2>1, <2>2, FinishStep
  <2>4. /\ funding \in [Fundings -> [status : {"absent", "pending", "success"},
                                     agent : Agents, amount : Amounts \cup {0}]]
        /\ balance \in [Agents -> 0 .. MaxBalance]
    BY <2>2 DEF TypeOK
  <2>5. balance' \in [Agents -> 0 .. MaxBalance]
    <3>1. funding[f].amount \in Nat
      BY <2>4, AmountIsNatural
    <3>2. balance[a] + funding[f].amount \in 0 .. MaxBalance
      BY <2>1, <2>4, <3>1, BoundAssumption
    <3> QED
      BY <2>1, <2>4, <3>2
  <2>6. /\ funding' \in [Fundings -> [status : {"absent", "pending", "success"},
                                      agent : Agents, amount : Amounts \cup {0}]]
        /\ funding'[f].status = "success"
        /\ \A g \in Fundings \ {f} : funding'[g] = funding[g]
    <3>1. PICK row : row = [funding[f] EXCEPT !.status = "success"]
      OBVIOUS
    <3>2. /\ row \in [status : {"absent", "pending", "success"},
                      agent : Agents, amount : Amounts \cup {0}]
          /\ row.status = "success"
      BY <2>4, <3>1
    <3>3. funding' = [funding EXCEPT ![f] = row]
      BY <2>1, <3>1
    <3> QED
      BY <2>4, <3>2, <3>3
  <2>7. TypeOK'
    BY <2>1, <2>2, <2>3, <2>5, <2>6 DEF TypeOK
  <2>8. ASSUME NEW s \in Requests \ {r} PROVE Guarded(s)'
    <3>1. \A b \in Agents : lock[WalletRow(b)] = s => balance'[b] = balance[b]
      BY <2>1, <2>4
    <3>2. \A g \in Fundings : lock[FundingRow(g)] = s /\ funding[g].status = "pending"
                                => funding'[g] = funding[g]
      BY <2>1, <2>6
    <3>3. \A g \in Fundings : funding[g].status # "absent" => funding'[g].status # "absent"
      BY <2>6
    <3> QED
      BY <2>1, <2>2, <2>3, <3>1, <3>2, <3>3, StaysGuarded
  <2>9. Guarded(r)'
    BY <2>3 DEF Guarded, Spending, Reading, Crediting, At
  <2>10. ConfirmedInv' /\ SuspensionsStand'
    <3>1. ConfirmedInv'
      BY <2>1, <2>4, <2>6 DEF IInv, ConfirmedInv, TypeOK
    <3>2. SuspensionsStand'
      BY <2>2 DEF SuspensionsStand
    <3> QED
      BY <3>1, <3>2
  <2> QED
    BY <2>7, <2>8, <2>9, <2>10 DEF IInv
<1> QED
  BY <1>1, <1>2


-----------------------------------------------------------------------------
(* Funding requests, Paystack and management.                              *)

LEMMA InvFund ==
  ASSUME IInv, NEW f \in Fundings, NEW a \in Agents, NEW amount \in Amounts, Fund(f, a, amount)
  PROVE  IInv'
<1>1. /\ TypeOK /\ SuspensionsStand /\ (\A s \in Requests : Guarded(s))
      /\ UNCHANGED <<agent, tenantActive, edit, suspended, undone>>
      /\ UNCHANGED <<plan, balance, confirmed, charged, lock, request, crashes>>
      /\ funding[f].status = "absent"
      /\ funding' = [funding EXCEPT ![f] = [status |-> "pending", agent |-> a, amount |-> amount]]
  BY DEF IInv, Fund, managed
<1>2. funding \in [Fundings -> [status : {"absent", "pending", "success"},
                                agent : Agents, amount : Amounts \cup {0}]]
  BY <1>1 DEF TypeOK
<1>3. /\ funding' \in [Fundings -> [status : {"absent", "pending", "success"},
                                    agent : Agents, amount : Amounts \cup {0}]]
      /\ funding'[f].status = "pending"
      /\ \A g \in Fundings \ {f} : funding'[g] = funding[g]
  BY <1>1, <1>2
<1>4. TypeOK'
  BY <1>1, <1>3 DEF TypeOK
<1>5. ASSUME NEW s \in Requests PROVE Guarded(s)'
  BY <1>1, <1>3, StaysGuarded
<1>6. ConfirmedInv' /\ SuspensionsStand'
  <2>1. ConfirmedInv'
    BY <1>1, <1>3 DEF IInv, ConfirmedInv, TypeOK
  <2>2. SuspensionsStand'
    BY <1>1 DEF SuspensionsStand
  <2> QED
    BY <2>1, <2>2
<1> QED
  BY <1>4, <1>5, <1>6 DEF IInv

LEMMA InvConfirmCharge ==
  ASSUME IInv, NEW f \in Fundings, ConfirmCharge(f)
  PROVE  IInv'
<1>1. /\ TypeOK /\ (\A s \in Requests : Guarded(s)) /\ ConfirmedInv /\ SuspensionsStand
      /\ UNCHANGED <<agent, tenantActive, edit, suspended, undone>>
      /\ UNCHANGED <<plan, balance, funding, charged, lock, request, crashes>>
      /\ funding[f].status # "absent" /\ confirmed' = confirmed \cup {f}
  BY DEF IInv, ConfirmCharge, managed
<1>2. TypeOK' /\ ConfirmedInv' /\ SuspensionsStand'
  BY <1>1 DEF TypeOK, ConfirmedInv, SuspensionsStand
<1>3. ASSUME NEW s \in Requests PROVE Guarded(s)'
  BY <1>1, StaysGuarded
<1> QED
  BY <1>2, <1>3 DEF IInv

LEMMA RowsDiffer ==
  \A a \in Agents : /\ AgentRow(a) # TenantRow
                     /\ \A b \in Agents : AgentRow(a) = AgentRow(b) => a = b
<1> SUFFICES ASSUME NEW a \in Agents, NEW b \in Agents
             PROVE  AgentRow(a) # TenantRow /\ (AgentRow(a) = AgentRow(b) => a = b)
  OBVIOUS
<1>1. <<"agent", a>>[1] = "agent" /\ <<"tenant">>[1] = "tenant"
  OBVIOUS
<1>2. <<"agent", a>> = <<"agent", b>> => a = b
  OBVIOUS
<1> QED
  BY <1>1, <1>2 DEF AgentRow, TenantRow

\* Whoever writes a status has waited for the row, so no transaction holds it.
LEMMA InvChangeStatus ==
  ASSUME IInv, NEW a \in Agents, NEW status \in {"active", "suspended"}, ChangeStatus(a, status)
  PROVE  IInv'
<1>1. /\ TypeOK /\ (\A s \in Requests : Guarded(s)) /\ ConfirmedInv /\ SuspensionsStand
      /\ lock[AgentRow(a)] = Free
      /\ UNCHANGED <<tenantActive, edit, plan, balance, funding, confirmed, charged, lock,
                     request, crashes>>
  BY DEF IInv, ChangeStatus, Unlocked
<1>2. /\ agent' = [agent EXCEPT ![a] = status]
      /\ suspended' = IF status = "suspended" THEN suspended \cup {AgentRow(a)}
                      ELSE suspended \ {AgentRow(a)}
      /\ undone' = undone \ {AgentRow(a)}
  BY DEF ChangeStatus, Decide
<1>3. agent' \in [Agents -> Statuses] /\ undone' \subseteq suspended' /\ suspended' \subseteq Rows
  BY <1>1, <1>2, RowsExist DEF TypeOK, Statuses
<1>4. TypeOK' /\ ConfirmedInv'
  BY <1>1, <1>3 DEF TypeOK, ConfirmedInv
<1>5. ASSUME NEW s \in Requests PROVE Guarded(s)'
  <2>1. \A b \in Agents : lock[AgentRow(b)] = s => agent'[b] = agent[b]
    BY <1>1, <1>2, FreeAssumption DEF TypeOK
  <2> QED
    BY <1>1, <2>1, StaysGuarded
<1>6. ASSUME NEW b \in Agents, AgentRow(b) \in suspended' \ undone' PROVE agent'[b] # "active"
  <2>1. CASE b = a
    BY <1>1, <1>2, <1>6, <2>1 DEF TypeOK
  <2>2. CASE b # a
    <3>1. AgentRow(b) # AgentRow(a)
      BY <2>2, RowsDiffer
    <3>2. AgentRow(b) \in suspended \ undone
      BY <1>2, <1>6, <3>1
    <3> QED
      BY <1>1, <1>2, <2>2, <3>2 DEF TypeOK, SuspensionsStand
  <2> QED
    BY <2>1, <2>2
<1>7. TenantRow \in suspended' \ undone' => ~tenantActive'
  <2>1. AgentRow(a) # TenantRow
    BY RowsDiffer
  <2> QED
    BY <1>1, <1>2, <2>1 DEF SuspensionsStand
<1>8. SuspensionsStand'
  BY <1>6, <1>7 DEF SuspensionsStand
<1> QED
  BY <1>4, <1>5, <1>8 DEF IInv

LEMMA InvChangeTenant ==
  ASSUME IInv, NEW active \in BOOLEAN, ChangeTenant(active)
  PROVE  IInv'
<1>1. /\ TypeOK /\ (\A s \in Requests : Guarded(s)) /\ ConfirmedInv /\ SuspensionsStand
      /\ lock[TenantRow] = Free
      /\ UNCHANGED <<agent, edit, plan, balance, funding, confirmed, charged, lock, request,
                     crashes>>
  BY DEF IInv, ChangeTenant, Unlocked
<1>2. /\ tenantActive' = active
      /\ suspended' = IF ~active THEN suspended \cup {TenantRow} ELSE suspended \ {TenantRow}
      /\ undone' = undone \ {TenantRow}
  BY DEF ChangeTenant, Decide
<1>3. tenantActive' \in BOOLEAN
  BY <1>2
<1>4. undone' \subseteq suspended' /\ suspended' \subseteq Rows
  BY <1>1, <1>2, RowsExist DEF TypeOK
<1>5. TypeOK' /\ ConfirmedInv'
  BY <1>1, <1>3, <1>4 DEF TypeOK, ConfirmedInv
<1>6. ASSUME NEW s \in Requests PROVE Guarded(s)'
  BY <1>1, StaysGuarded, FreeAssumption
<1>7. ASSUME NEW b \in Agents, AgentRow(b) \in suspended' \ undone' PROVE agent'[b] # "active"
  <2>1. AgentRow(b) # TenantRow
    BY RowsDiffer
  <2>2. AgentRow(b) \in suspended \ undone
    BY <1>2, <1>7, <2>1
  <2> QED
    BY <1>1, <2>2 DEF SuspensionsStand
<1>8. TenantRow \in suspended' \ undone' => ~tenantActive'
  BY <1>2
<1>9. SuspensionsStand'
  BY <1>7, <1>8 DEF SuspensionsStand
<1> QED
  BY <1>5, <1>6, <1>9 DEF IInv

LEMMA InvEditPlan ==
  ASSUME IInv, NEW pl \in Plans, EditPlan(pl)
  PROVE  IInv'
<1>1. /\ TypeOK /\ (\A s \in Requests : Guarded(s)) /\ ConfirmedInv /\ SuspensionsStand
      /\ UNCHANGED <<agent, tenantActive, edit, suspended, undone>>
      /\ UNCHANGED <<balance, funding, confirmed, charged, lock, request, crashes>>
  BY DEF IInv, EditPlan, managed
<1>2. PICK row \in [active : BOOLEAN, price : Prices] : plan' = [plan EXCEPT ![pl] = row]
  BY DEF EditPlan
<1>3. TypeOK' /\ ConfirmedInv' /\ SuspensionsStand'
  BY <1>1, <1>2 DEF TypeOK, ConfirmedInv, SuspensionsStand
<1>4. ASSUME NEW s \in Requests PROVE Guarded(s)'
  BY <1>1, StaysGuarded
<1> QED
  BY <1>3, <1>4 DEF IInv

\* What an editor reads, or gives up, changes no row.
LEMMA InvFetchOrDrop ==
  ASSUME IInv, NEW e \in Editors,
         FetchTenant(e) \/ DropEdit(e) \/ \E a \in Agents : FetchAgent(e, a)
  PROVE  IInv'
<1>1. /\ TypeOK /\ (\A s \in Requests : Guarded(s)) /\ ConfirmedInv /\ SuspensionsStand
      /\ UNCHANGED <<agent, tenantActive, suspended, undone>>
      /\ UNCHANGED <<plan, balance, funding, confirmed, charged, lock, request, crashes>>
  BY DEF IInv, FetchTenant, DropEdit, FetchAgent
<1>2. edit' \in [Editors -> Edit \cup {NoEdit}]
  <2>1. edit \in [Editors -> Edit \cup {NoEdit}] /\ agent \in [Agents -> Statuses]
    BY <1>1 DEF TypeOK
  <2>2. CASE FetchTenant(e)
    <3>1. [row |-> TenantRow, status |-> IF tenantActive THEN "active" ELSE "suspended"] \in Edit
      BY DEF Edit, Statuses
    <3> QED
      BY <2>1, <2>2, <3>1 DEF FetchTenant
  <2>3. CASE DropEdit(e)
    BY <2>1, <2>3 DEF DropEdit
  <2>4. ASSUME NEW a \in Agents, FetchAgent(e, a) PROVE edit' \in [Editors -> Edit \cup {NoEdit}]
    <3>1. [row |-> AgentRow(a), status |-> agent[a]] \in Edit
      BY <2>1 DEF Edit
    <3> QED
      BY <2>1, <2>4, <3>1 DEF FetchAgent
  <2> QED
    BY <2>2, <2>3, <2>4
<1>3. TypeOK' /\ ConfirmedInv' /\ SuspensionsStand'
  BY <1>1, <1>2 DEF TypeOK, ConfirmedInv, SuspensionsStand
<1>4. ASSUME NEW s \in Requests PROVE Guarded(s)'
  BY <1>1, StaysGuarded
<1> QED
  BY <1>3, <1>4 DEF IInv

\* The save of an older row waits for the lock too; a status it replaces is undone.
LEMMA InvSaveEdit ==
  ASSUME IInv, NEW e \in Editors, SaveEdit(e)
  PROVE  IInv'
<1>1. /\ TypeOK /\ (\A s \in Requests : Guarded(s)) /\ ConfirmedInv /\ SuspensionsStand
      /\ UNCHANGED <<suspended, plan, balance, funding, confirmed, charged, lock, request, crashes>>
      /\ edit[e] # NoEdit /\ lock[edit[e].row] = Free
      /\ edit' = [edit EXCEPT ![e] = NoEdit]
  BY DEF IInv, SaveEdit, Unlocked
<1>2. PICK row, status : row = edit[e].row /\ status = edit[e].status
  OBVIOUS
<1>3. status \in Statuses /\ lock[row] = Free
  BY <1>1, <1>2 DEF TypeOK, Edit
<1>4. /\ agent' = [a \in Agents |-> IF row = AgentRow(a) THEN status ELSE agent[a]]
      /\ tenantActive' = IF row = TenantRow THEN status = "active" ELSE tenantActive
      /\ undone' = IF <<agent, tenantActive>>' = <<agent, tenantActive>> THEN undone
                   ELSE undone \cup ({row} \cap suspended)
  BY <1>2 DEF SaveEdit
<1>5. /\ agent' \in [Agents -> Statuses]
      /\ undone' \subseteq suspended' /\ suspended' \subseteq Rows
      /\ edit' \in [Editors -> Edit \cup {NoEdit}]
  BY <1>1, <1>3, <1>4 DEF TypeOK
<1>6. tenantActive' \in BOOLEAN
  BY <1>1, <1>4 DEF TypeOK
<1>7. TypeOK' /\ ConfirmedInv'
  BY <1>1, <1>5, <1>6 DEF TypeOK, ConfirmedInv
<1>8. ASSUME NEW s \in Requests PROVE Guarded(s)'
  <2>1. \A b \in Agents : lock[AgentRow(b)] = s => agent'[b] = agent[b]
    BY <1>3, <1>4, FreeAssumption
  <2>2. lock[TenantRow] = s => tenantActive' = tenantActive
    BY <1>3, <1>4, FreeAssumption
  <2> QED
    BY <1>1, <2>1, <2>2, StaysGuarded
<1>9. CASE <<agent, tenantActive>>' = <<agent, tenantActive>>
  <2>1. SuspensionsStand'
    BY <1>1, <1>4, <1>9 DEF SuspensionsStand
  <2> QED
    BY <1>7, <1>8, <2>1 DEF IInv
<1>10. CASE <<agent, tenantActive>>' # <<agent, tenantActive>>
  <2>1. undone' = undone \cup ({row} \cap suspended)
    BY <1>4, <1>10
  <2>2. ASSUME NEW b \in Agents, AgentRow(b) \in suspended' \ undone' PROVE agent'[b] # "active"
    <3>1. row # AgentRow(b) /\ AgentRow(b) \in suspended \ undone
      BY <1>1, <2>1, <2>2
    <3> QED
      BY <1>1, <1>4, <3>1 DEF SuspensionsStand
  <2>3. ASSUME TenantRow \in suspended' \ undone' PROVE ~tenantActive'
    <3>1. row # TenantRow /\ TenantRow \in suspended \ undone
      BY <1>1, <2>1, <2>3
    <3> QED
      BY <1>1, <1>4, <3>1 DEF SuspensionsStand
  <2>4. SuspensionsStand'
    BY <2>2, <2>3 DEF SuspensionsStand
  <2> QED
    BY <1>7, <1>8, <2>4 DEF IInv
<1> QED
  BY <1>9, <1>10

LEMMA InvUnchanged ==
  ASSUME IInv, UNCHANGED vars
  PROVE  IInv'
<1>1. /\ UNCHANGED <<agent, tenantActive, edit, suspended, undone>>
      /\ UNCHANGED <<plan, balance, funding, confirmed, charged, lock, request, crashes>>
  BY DEF vars, managed
<1>2. TypeOK' /\ ConfirmedInv' /\ SuspensionsStand'
  BY <1>1 DEF IInv, TypeOK, ConfirmedInv, SuspensionsStand
<1>3. \A s \in Requests : Guarded(s)'
  BY <1>1 DEF IInv, Guarded, Spending, Reading, Crediting, At
<1> QED
  BY <1>2, <1>3 DEF IInv

LEMMA InvNext == IInv /\ [Next]_vars => IInv'
<1> SUFFICES ASSUME IInv, [Next]_vars PROVE IInv'
  OBVIOUS
<1>1. CASE Outside
  BY <1>1, InvFund, InvConfirmCharge, InvChangeStatus, InvChangeTenant, InvEditPlan DEF Outside
<1>2. ASSUME NEW r \in Requests, Start(r) \/ Step(r) \/ Abort(r) PROVE IInv'
  BY <1>2, InvStart, InvSpendLockAgent, InvSpendReadPlan, InvSpendLockWallet, InvSpendCommit,
     InvCreditLockPayment, InvCreditLockWallet, InvCreditCommit, RollBackStep DEF Step
<1>3. ASSUME NEW e \in Editors, Editing(e) PROVE IInv'
  BY <1>3, InvFetchOrDrop, InvSaveEdit DEF Editing
<1>4. CASE UNCHANGED vars
  BY <1>4, InvUnchanged
<1> QED
  BY <1>1, <1>2, <1>3, <1>4 DEF Next

-----------------------------------------------------------------------------
(* Theorems.                                                               *)

\* What a transaction has read under a row lock still holds when it writes
\* (select_for_update in generate_voucher_from_wallet and complete_wallet_funding).
THEOREM Invariant == Spec => []IInv
BY InvInit, InvNext, PTL DEF Spec

\* Every variable keeps its type: above all, no debit takes a balance below zero and
\* no credit above what PositiveIntegerField holds, however many requests run at once.
THEOREM TypeCorrect == Spec => []TypeOK
<1>1. IInv => TypeOK
  BY DEF IInv
<1> QED
  BY <1>1, Invariant, PTL

\* No voucher is charged to a wallet after the suspension of its agent or of the
\* tenant has committed, unless an older row has been saved over it: the rows are locked
\* from the check to the commit, and every write of a status waits for them.
THEOREM NoSaleAfterSuspensionAlways == Spec => NoSaleAfterSuspensionUnlessUndone
<1>1. IInv /\ [Next]_vars
        => [\A a \in Agents : charged'[a] # charged[a] =>
              {AgentRow(a), TenantRow} \cap suspended \subseteq undone]_vars
  <2> SUFFICES ASSUME IInv, Next, NEW a \in Agents, charged'[a] # charged[a]
               PROVE  {AgentRow(a), TenantRow} \cap suspended \subseteq undone
    OBVIOUS
  <2>1. ~Outside /\ \A e \in Editors : ~Editing(e)
    BY DEF Outside, Fund, ConfirmCharge, ChangeStatus, EditPlan, ChangeTenant, Editing,
       FetchAgent, FetchTenant, SaveEdit, DropEdit
  <2>2. PICK r \in Requests : Start(r) \/ Step(r) \/ Abort(r)
    BY <2>1 DEF Next
  <2>3. ~RollBack(r) /\ ~Abort(r)
    BY DEF RollBack, Abort, rows
  <2>4. SpendCommit(r)
    BY <2>2, <2>3 DEF Start, Step, StartSpend, StartCredit, SpendLockAgent, SpendReadPlan,
       SpendLockWallet, CreditLockPayment, CreditLockWallet, CreditCommit, rows
  <2>5. PICK b \in Agents, cost \in Nat :
           /\ agent[b] = "active" /\ tenantActive
           /\ charged' = [charged EXCEPT ![b] = charged[b] + cost]
    BY <2>3, <2>4, SaleEffect
  <2>6. a = b
    BY <2>5 DEF IInv, TypeOK
  <2>7. AgentRow(a) \notin suspended \ undone /\ TenantRow \notin suspended \ undone
    BY <2>5, <2>6 DEF IInv, SuspensionsStand
  <2> QED
    BY <2>7
<1> QED
  BY <1>1, Invariant, PTL DEF Spec, NoSaleAfterSuspensionUnlessUndone


\* What MoneyConserved needs of a step: for each agent, either nothing it was credited
\* with and nothing of balance and charges together changes, or one more funding is
\* credited, for the first time, and its amount is added.
LedgerStep ==
  \A a \in Agents :
    /\ \A f \in Credited(a) : funding'[f] = funding[f]
    /\ \/ /\ Credited(a)' = Credited(a)
          /\ balance'[a] + charged'[a] = balance[a] + charged[a]
       \/ \E f \in Fundings \ Credited(a) :
            /\ Credited(a)' = Credited(a) \cup {f}
            /\ funding'[f].amount = funding[f].amount
            /\ balance'[a] + charged'[a] = balance[a] + charged[a] + funding[f].amount

LEMMA LedgerUntouched ==
  ASSUME UNCHANGED <<balance, charged, funding>>
  PROVE  LedgerStep
BY DEF LedgerStep, Credited

LEMMA LedgerSale ==
  ASSUME IInv, NEW r \in Requests, SpendCommit(r), ~RollBack(r)
  PROVE  LedgerStep
<1>1. PICK a \in Agents, cost \in Nat :
         /\ funding' = funding
         /\ cost <= balance[a]
         /\ balance' = [balance EXCEPT ![a] = balance[a] - cost]
         /\ charged' = [charged EXCEPT ![a] = charged[a] + cost]
  BY SaleEffect
<1>2. balance \in [Agents -> 0 .. MaxBalance] /\ charged \in [Agents -> Nat]
  BY DEF IInv, TypeOK
<1>3. ASSUME NEW b \in Agents PROVE balance'[b] + charged'[b] = balance[b] + charged[b]
  <2>1. balance[b] \in Int /\ charged[b] \in Int /\ balance[a] \in Int /\ charged[a] \in Int
    BY <1>2, BoundAssumption
  <2>2. CASE b = a
    BY <1>1, <1>2, <2>1, <2>2
  <2>3. CASE b # a
    BY <1>1, <1>2, <2>3
  <2> QED
    BY <2>2, <2>3
<1>4. \A b \in Agents : Credited(b)' = Credited(b)
  BY <1>1 DEF Credited
<1> QED
  BY <1>1, <1>3, <1>4 DEF LedgerStep

LEMMA LedgerCredit ==
  ASSUME IInv, NEW r \in Requests, CreditCommit(r), ~RollBack(r)
  PROVE  LedgerStep
<1>1. PICK a \in Agents, f \in Fundings :
         /\ charged' = charged
         /\ funding[f].status = "pending" /\ funding[f].agent = a
         /\ balance' = [balance EXCEPT ![a] = balance[a] + funding[f].amount]
         /\ funding' = [funding EXCEPT ![f] = [funding[f] EXCEPT !.status = "success"]]
  BY CreditEffect
<1>2. /\ balance \in [Agents -> 0 .. MaxBalance] /\ charged \in [Agents -> Nat]
      /\ funding \in [Fundings -> [status : {"absent", "pending", "success"},
                                   agent : Agents, amount : Amounts \cup {0}]]
  BY DEF IInv, TypeOK
<1>3. /\ funding'[f].status = "success" /\ funding'[f].agent = a
      /\ funding'[f].amount = funding[f].amount
      /\ \A g \in Fundings \ {f} : funding'[g] = funding[g]
  <2>1. PICK row : row = [funding[f] EXCEPT !.status = "success"]
    OBVIOUS
  <2>2. row.status = "success" /\ row.agent = a /\ row.amount = funding[f].amount
    BY <1>1, <1>2, <2>1
  <2> QED
    BY <1>1, <1>2, <2>1, <2>2
<1>4. Credited(a)' = Credited(a) \cup {f} /\ f \notin Credited(a)
  BY <1>1, <1>3 DEF Credited
<1>5. \A b \in Agents \ {a} : Credited(b)' = Credited(b)
  BY <1>1, <1>3 DEF Credited
<1>6. \A b \in Agents : \A g \in Credited(b) : funding'[g] = funding[g]
  BY <1>1, <1>3 DEF Credited
<1>7. balance'[a] + charged'[a] = balance[a] + charged[a] + funding[f].amount
  <2>1. balance[a] \in Int /\ charged[a] \in Int /\ funding[f].amount \in Int
    BY <1>2, AmountIsNatural, BoundAssumption
  <2> QED
    BY <1>1, <1>2, <2>1
<1>8. \A b \in Agents \ {a} : balance'[b] + charged'[b] = balance[b] + charged[b]
  BY <1>1, <1>2
<1>9. ASSUME NEW b \in Agents
      PROVE  \/ /\ Credited(b)' = Credited(b)
                /\ balance'[b] + charged'[b] = balance[b] + charged[b]
             \/ \E g \in Fundings \ Credited(b) :
                  /\ Credited(b)' = Credited(b) \cup {g}
                  /\ funding'[g].amount = funding[g].amount
                  /\ balance'[b] + charged'[b] = balance[b] + charged[b] + funding[g].amount
  BY <1>3, <1>4, <1>5, <1>7, <1>8
<1> QED
  BY <1>6, <1>9 DEF LedgerStep

\* Money moves as MoneyConserved requires it in every step, for any number of agents
\* and fundings (generate_voucher_from_wallet, complete_wallet_funding).
THEOREM LedgerMovesTogether == Spec => [][LedgerStep]_vars
<1>1. IInv /\ [Next]_vars => [LedgerStep]_vars
  <2> SUFFICES ASSUME IInv, Next PROVE LedgerStep
    OBVIOUS
  <2>1. ASSUME NEW f \in Fundings, NEW a \in Agents, NEW amount \in Amounts, Fund(f, a, amount)
        PROVE  LedgerStep
    <3>1. /\ funding[f].status = "absent" /\ UNCHANGED <<balance, charged>>
          /\ funding' = [funding EXCEPT ![f] = [status |-> "pending", agent |-> a,
                                                amount |-> amount]]
      BY <2>1 DEF Fund
    <3>2. /\ funding'[f].status = "pending"
          /\ \A g \in Fundings \ {f} : funding'[g] = funding[g]
      BY <3>1 DEF IInv, TypeOK
    <3> QED
      BY <3>1, <3>2 DEF LedgerStep, Credited
  <2>2. CASE Outside
    BY <2>1, <2>2, LedgerUntouched
    DEF Outside, ConfirmCharge, ChangeStatus, EditPlan, ChangeTenant
  <2>3. ASSUME NEW r \in Requests, Start(r) \/ Step(r) \/ Abort(r) PROVE LedgerStep
    <3>1. CASE RollBack(r) \/ Abort(r)
      BY <3>1, LedgerUntouched DEF RollBack, Abort, rows
    <3>2. CASE SpendCommit(r) \/ CreditCommit(r)
      BY <3>1, <3>2, LedgerSale, LedgerCredit
    <3>3. CASE ~(RollBack(r) \/ Abort(r)) /\ ~(SpendCommit(r) \/ CreditCommit(r))
      <4>1. UNCHANGED rows
        BY <2>3, <3>3 DEF Start, Step, StartSpend, StartCredit, SpendLockAgent, SpendReadPlan,
           SpendLockWallet, CreditLockPayment, CreditLockWallet
      <4> QED
        BY <4>1, LedgerUntouched DEF rows
    <3> QED
      BY <3>1, <3>2, <3>3
  <2>4. ASSUME NEW e \in Editors, Editing(e) PROVE LedgerStep
    BY <2>4, LedgerUntouched DEF Editing, FetchAgent, FetchTenant, SaveEdit, DropEdit
  <2> QED
    BY <2>2, <2>3, <2>4 DEF Next
<1> QED
  BY <1>1, Invariant, PTL DEF Spec

\* The function that the fold over the amounts chooses is such a sum, before a
\* step and after it.
LEMMA SumNow ==
  ASSUME NEW S, IsFiniteSet(S), NEW v, \A f \in S : v[f] = funding[f].amount,
         NEW g, Adds(v, SUBSET S, g)
  PROVE  SumOver(S, LAMBDA f : funding[f].amount) = g[S]
<1>1. \A s \in SUBSET S : s # {} => v[Any(s)] = funding[Any(s)].amount
  BY AnyIs
<1>2. ASSUME NEW h
      PROVE  h = [s \in SUBSET S |-> IF s = {} THEN 0
                                     ELSE funding[Any(s)].amount + h[s \ {Any(s)}]]
               <=> Adds(v, SUBSET S, h)
  BY <1>1 DEF Adds
<1>3. \A h : h = [s \in SUBSET S |-> IF s = {} THEN 0
                                     ELSE funding[Any(s)].amount + h[s \ {Any(s)}]]
              <=> h = g
  BY <1>2, AddsOnce
<1> QED
  BY <1>3 DEF SumOver, MapThenFoldSet

LEMMA SumThen ==
  ASSUME NEW S, IsFiniteSet(S), NEW v, \A f \in S : v[f] = funding'[f].amount,
         NEW g, Adds(v, SUBSET S, g)
  PROVE  SumOver(S, LAMBDA f : funding'[f].amount) = g[S]
<1>1. \A s \in SUBSET S : s # {} => v[Any(s)] = funding'[Any(s)].amount
  BY AnyIs
<1>2. ASSUME NEW h
      PROVE  h = [s \in SUBSET S |-> IF s = {} THEN 0
                                     ELSE funding'[Any(s)].amount + h[s \ {Any(s)}]]
               <=> Adds(v, SUBSET S, h)
  BY <1>1 DEF Adds
<1>3. \A h : h = [s \in SUBSET S |-> IF s = {} THEN 0
                                     ELSE funding'[Any(s)].amount + h[s \ {Any(s)}]]
              <=> h = g
  BY <1>2, AddsOnce
<1> QED
  BY <1>3 DEF SumOver, MapThenFoldSet

-----------------------------------------------------------------------------
(* The ledger of each agent.                                               *)

CreditedInv == \A a \in Agents : IsFiniteSet(Credited(a))

\* One more funding, or none, and what it brought.
LEMMA MoneyStep ==
  ASSUME TypeOK, TypeOK', CreditedInv, MoneyConserved, LedgerStep
  PROVE  CreditedInv' /\ MoneyConserved'
<1> SUFFICES ASSUME NEW a \in Agents
             PROVE  /\ IsFiniteSet(Credited(a)')
                    /\ balance'[a] + charged'[a]
                         = SumOver(Credited(a)', LAMBDA f : funding'[f].amount)
  BY DEF CreditedInv, MoneyConserved, SumOver, MapThenFoldSet
<1>1. PICK S \in SUBSET Fundings, T \in SUBSET Fundings : S = Credited(a) /\ T = Credited(a)'
  BY DEF Credited
<1>2. PICK v : v = [f \in Fundings |-> funding[f].amount]
  OBVIOUS
<1>3. PICK w : w = [f \in Fundings |-> funding'[f].amount]
  OBVIOUS
<1>4. \A f \in Fundings : v[f] \in Nat /\ w[f] \in Nat
  BY <1>2, <1>3, AmountIsNatural DEF TypeOK
<1>5. IsFiniteSet(S) /\ IsFiniteSet(T)
  BY <1>1, FS_AddElement DEF CreditedInv, LedgerStep
<1>6. PICK g : Adds(v, SUBSET S, g)
  BY <1>5, SumExists
<1>7. PICK h : Adds(w, SUBSET T, h)
  BY <1>5, SumExists
<1>8. SumOver(Credited(a), LAMBDA f : funding[f].amount) = g[S]
  <2>1. \A f \in S : v[f] = funding[f].amount
    BY <1>2
  <2>2. SumOver(S, LAMBDA f : funding[f].amount) = g[S]
    BY <1>5, <1>6, <2>1, SumNow
  <2> QED
    BY <1>1, <2>2
<1>9. SumOver(Credited(a)', LAMBDA f : funding'[f].amount) = h[T]
  <2>1. \A f \in T : w[f] = funding'[f].amount
    BY <1>3
  <2>2. SumOver(T, LAMBDA f : funding'[f].amount) = h[T]
    BY <1>5, <1>7, <2>1, SumThen
  <2> QED
    BY <1>1, <2>2
<1>10. balance[a] + charged[a] = g[S]
  BY <1>8 DEF MoneyConserved
<1>11. S \subseteq T /\ (\A f \in S : v[f] = w[f]) /\ h[S] = g[S]
  <2>1. S \subseteq T
    BY <1>1 DEF LedgerStep
  <2>2. \A f \in S : v[f] = w[f]
    BY <1>1, <1>2, <1>3 DEF LedgerStep
  <2> QED
    BY <1>5, <1>6, <1>7, <2>1, <2>2, SumAgrees
<1>12. balance'[a] + charged'[a] = h[T]
  <2>1. CASE T = S /\ balance'[a] + charged'[a] = balance[a] + charged[a]
    BY <1>10, <1>11, <2>1
  <2>2. ASSUME NEW f \in Fundings, f \notin S, T = S \cup {f},
               balance'[a] + charged'[a] = balance[a] + charged[a] + funding[f].amount,
               funding'[f].amount = funding[f].amount
        PROVE  balance'[a] + charged'[a] = h[T]
    <3>1. h[T] = w[f] + h[T \ {f}]
      <4>1. T \in SUBSET T /\ f \in T /\ \A x \in T : w[x] \in Nat
        BY <1>4, <2>2
      <4> QED
        BY <1>5, <1>7, <4>1, SumRemoves
    <3>2. T \ {f} = S
      BY <2>2
    <3>3. w[f] = funding[f].amount /\ w[f] \in Nat
      BY <1>3, <1>4, <2>2
    <3>4. g[S] \in Nat
      BY <1>4, <1>5, <1>6, SumIsNatural
    <3> QED
      <4>1. PICK amount \in Nat, old \in Nat : amount = funding[f].amount /\ old = g[S]
        BY <3>3, <3>4
      <4>2. h[T] = amount + old
        BY <1>11, <3>1, <3>2, <3>3, <4>1
      <4>3. balance'[a] + charged'[a] = old + amount
        BY <1>10, <2>2, <4>1
      <4> QED
        BY <4>1, <4>2, <4>3
  <2> QED
    BY <1>1, <2>1, <2>2 DEF LedgerStep
<1> QED
  BY <1>1, <1>5, <1>9, <1>12

LEMMA MoneyInit == Init => CreditedInv /\ MoneyConserved
<1> SUFFICES ASSUME Init, NEW a \in Agents
             PROVE  /\ IsFiniteSet(Credited(a))
                    /\ balance[a] + charged[a]
                         = SumOver(Credited(a), LAMBDA f : funding[f].amount)
  BY DEF CreditedInv, MoneyConserved
<1>1. Credited(a) = {} /\ IsFiniteSet({})
  BY FS_EmptySet DEF Init, Credited
<1>2. PICK g : Adds([f \in {} |-> 0], SUBSET {}, g)
  BY <1>1, SumExists
<1>3. SumOver({}, LAMBDA f : funding[f].amount) = g[{}]
  BY <1>1, <1>2, SumNow
<1>4. g[{}] = 0
  BY <1>2 DEF Adds
<1> QED
  BY <1>1, <1>3, <1>4 DEF Init

\* Money is neither made nor lost, for any number of agents, fundings and requests:
\* the inductive invariant is MoneyConserved itself, over finitely many fundings.
THEOREM MoneyConservedAlways == Spec => []MoneyConserved
<1>1. /\ IInv /\ IInv' /\ CreditedInv /\ MoneyConserved /\ [LedgerStep]_vars
      => CreditedInv' /\ MoneyConserved'
  <2> SUFFICES ASSUME IInv, IInv', CreditedInv, MoneyConserved, [LedgerStep]_vars
               PROVE  CreditedInv' /\ MoneyConserved'
    OBVIOUS
  <2>1. TypeOK /\ TypeOK'
    BY DEF IInv
  <2>2. CASE UNCHANGED vars
    <3>1. UNCHANGED <<balance, charged, funding>>
      BY <2>2 DEF vars
    <3> QED
      BY <2>1, <3>1, LedgerUntouched, MoneyStep
  <2>3. CASE LedgerStep
    BY <2>1, <2>3, MoneyStep
  <2> QED
    BY <2>2, <2>3
<1> QED
  BY <1>1, MoneyInit, Invariant, LedgerMovesTogether, PTL DEF Spec

-----------------------------------------------------------------------------
(* Tenant subscriptions.                                                   *)

RowsOK ==
  /\ payment \in [Payments -> [status : {"none", "pending", "success"},
                               plan : SubscriptionPlans \cup {NotSet},
                               completed : Nat \cup {NotSet}]]
  /\ paid \subseteq Payments
  /\ subscription \in [status : {"none", "trial", "active", "expired", "cancelled"},
                       started : Nat, expires : Nat]
  /\ now \in Nat
  /\ delivery \in [Deliveries ->
                    [step : {"idle", "verified", "payment", "tenant", "subscription"},
                     payment : Payments \cup {NotSet}, at : Nat \cup {NotSet}]]
  /\ holder \in Deliveries \cup {Nobody}

\* A payment that was made has its plan; a completed one was completed before now,
\* and before the subscription ends.
PaymentOK(p) ==
  /\ payment[p].status # "none" => payment[p].plan \in SubscriptionPlans
  /\ p \in paid => payment[p].status # "none"
  /\ p \in Completed => /\ payment[p].completed \in Nat
                        /\ payment[p].completed <= now
                        /\ payment[p].completed < subscription.expires

\* What a delivery has verified, locked and read: its payment was paid and is
\* pending, and the clock has been read after the term began and after the other
\* payments were completed.
DeliveryOK(d) ==
  /\ ~Doing(d, "idle") => /\ delivery[d].payment \in Payments
                          /\ delivery[d].payment \in paid
                          /\ payment[delivery[d].payment].status # "none"
  /\ InTransaction(d) => payment[delivery[d].payment].status = "pending"
  /\ holder = d <=> Doing(d, "tenant") \/ Doing(d, "subscription")
  /\ holder = d => /\ delivery[d].at \in 1 .. now
                   /\ subscription.started <= delivery[d].at
                   /\ \A p \in Completed : payment[p].completed <= delivery[d].at

\* No two transactions complete one payment.
Apart(d, e) ==
  InTransaction(d) /\ InTransaction(e) /\ delivery[d].payment = delivery[e].payment => d = e

TermInv ==
  /\ 1 <= now /\ subscription.started <= now
  /\ subscription.status = "expired" => subscription.expires <= now
  /\ IF Completed = {}
     THEN /\ subscription.started = 0 /\ subscription.status # "active"
          /\ subscription.status = "none" => subscription.expires = 0
     ELSE subscription.status \in {"active", "expired"}
  /\ IsFiniteSet(Completed)

\* The days that the payments of the running term paid for.
Term == {p \in Payments : InTerm(p)}
DaysBought == [p \in Payments |-> DaysOf(p)]
TermPaid ==
  late = {} /\ subscription.status # "none" =>
    \A g : Adds(DaysBought, SUBSET Term, g) => subscription.expires = TermBase + g[Term]

SubscriptionInv ==
  /\ RowsOK
  /\ \A p \in Payments : PaymentOK(p)
  /\ \A d \in Deliveries : DeliveryOK(d)
  /\ \A d, e \in Deliveries : Apart(d, e)
  /\ TermInv
  /\ TermPaid

LEMMA SubscriptionInvInit == SubscriptionInit => SubscriptionInv
<1> SUFFICES ASSUME SubscriptionInit PROVE SubscriptionInv
  OBVIOUS
<1>1. RowsOK
  <2>1. NoPayment \in [status : {"none", "pending", "success"},
                      plan : SubscriptionPlans \cup {NotSet}, completed : Nat \cup {NotSet}]
    BY DEF NoPayment
  <2>2. IdleDelivery \in [step : {"idle", "verified", "payment", "tenant", "subscription"},
                         payment : Payments \cup {NotSet}, at : Nat \cup {NotSet}]
    BY DEF IdleDelivery
  <2>3. subscription \in [status : {"none", "trial", "active", "expired", "cancelled"},
                         started : Nat, expires : Nat]
    BY TimeAssumption DEF SubscriptionInit
  <2> QED
    BY <2>1, <2>2, <2>3 DEF RowsOK, SubscriptionInit
<1>2. Completed = {}
  BY DEF SubscriptionInit, Completed, NoPayment
<1>3. \A p \in Payments : PaymentOK(p)
  BY <1>2 DEF PaymentOK, SubscriptionInit, NoPayment
<1>4. \A d \in Deliveries : DeliveryOK(d)
  BY NullAssumption DEF DeliveryOK, SubscriptionInit, IdleDelivery, Doing, InTransaction
<1>5. \A d, e \in Deliveries : Apart(d, e)
  BY DEF Apart, SubscriptionInit, IdleDelivery, InTransaction
<1>6. TermInv
  BY <1>2, FS_EmptySet DEF TermInv, SubscriptionInit
<1>7. TermPaid
  <2>1. Term = {}
    BY <1>2 DEF Term, InTerm
  <2>2. \A g : Adds(DaysBought, SUBSET Term, g) => g[Term] = 0
    BY <2>1 DEF Adds
  <2>3. subscription.status # "none" => subscription.expires = TermBase + 0
    BY TimeAssumption DEF SubscriptionInit, TermBase
  <2> QED
    BY <2>2, <2>3 DEF TermPaid
<1> QED
  BY <1>1, <1>3, <1>4, <1>5, <1>6, <1>7 DEF SubscriptionInv

\* The step changes no row that a term is made of.
LEMMA TermKept ==
  ASSUME TermInv, TermPaid, UNCHANGED <<payment, subscription, now, late>>
  PROVE  TermInv' /\ TermPaid' /\ Completed' = Completed
<1>1. Completed' = Completed /\ Term' = Term /\ DaysBought' = DaysBought /\ TermBase' = TermBase
  BY DEF Completed, Term, InTerm, DaysBought, DaysOf, TermBase
<1> QED
  BY <1>1 DEF TermInv, TermPaid

\* Time may pass, and a subscription expire, around a delivery.
LEMMA DeliveryKept ==
  ASSUME RowsOK, NEW d \in Deliveries, DeliveryOK(d), delivery'[d] = delivery[d],
         holder' = d <=> holder = d, UNCHANGED <<payment, paid>>,
         subscription'.started = subscription.started, now' \in {now, now + 1}
  PROVE  DeliveryOK(d)'
<1>1. Completed' = Completed
  BY DEF Completed
<1>2. delivery[d].at \in 1 .. now => delivery[d].at \in 1 .. now'
  BY DEF RowsOK
<1> QED
  BY <1>1, <1>2 DEF DeliveryOK, Doing, InTransaction

\* One delivery moves on.
LEMMA SetDelivery ==
  ASSUME RowsOK, NEW d \in Deliveries,
         NEW row \in [step : {"idle", "verified", "payment", "tenant", "subscription"},
                      payment : Payments \cup {NotSet}, at : Nat \cup {NotSet}],
         delivery' = [delivery EXCEPT ![d] = row]
  PROVE  /\ delivery' \in [Deliveries ->
                           [step : {"idle", "verified", "payment", "tenant", "subscription"},
                            payment : Payments \cup {NotSet}, at : Nat \cup {NotSet}]]
         /\ delivery'[d] = row
         /\ \A e \in Deliveries \ {d} : delivery'[e] = delivery[e]
BY DEF RowsOK

\* A delivery that ends, or that was not in a transaction and locks no payment.
LEMMA ApartKept ==
  ASSUME NEW d \in Deliveries, \A e, f \in Deliveries : Apart(e, f),
         \A e \in Deliveries \ {d} : delivery'[e] = delivery[e],
         \/ ~InTransaction(d)'
         \/ InTransaction(d) /\ delivery'[d].payment = delivery[d].payment
         \/ PaymentUnlocked(delivery'[d].payment)
  PROVE  \A e, f \in Deliveries : Apart(e, f)'
<1> SUFFICES ASSUME NEW e \in Deliveries, NEW f \in Deliveries PROVE Apart(e, f)'
  OBVIOUS
<1>1. \A q \in Deliveries \ {d} : (InTransaction(q)' <=> InTransaction(q))
  BY DEF InTransaction
<1>2. CASE e # d /\ f # d
  BY <1>1, <1>2 DEF Apart
<1>3. CASE e = d /\ f = d
  BY <1>3 DEF Apart
<1>4. CASE e = d /\ f # d
  BY <1>1, <1>4 DEF Apart, PaymentUnlocked
<1>5. CASE e # d /\ f = d
  BY <1>1, <1>5 DEF Apart, PaymentUnlocked
<1> QED
  BY <1>2, <1>3, <1>4, <1>5

\* What only moves a delivery keeps the invariant if it keeps that delivery's part.
LEMMA DeliveryMoves ==
  ASSUME SubscriptionInv, NEW d \in Deliveries,
         NEW row \in [step : {"idle", "verified", "payment", "tenant", "subscription"},
                      payment : Payments \cup {NotSet}, at : Nat \cup {NotSet}],
         delivery' = [delivery EXCEPT ![d] = row],
         UNCHANGED <<payment, paid, subscription, now, late>>,
         holder' \in Deliveries \cup {Nobody},
         \A e \in Deliveries \ {d} : holder' = e <=> holder = e,
         DeliveryOK(d)',
         \/ ~InTransaction(d)'
         \/ InTransaction(d) /\ row.payment = delivery[d].payment
         \/ PaymentUnlocked(row.payment)
  PROVE  SubscriptionInv'
<1>1. /\ delivery' \in [Deliveries ->
                        [step : {"idle", "verified", "payment", "tenant", "subscription"},
                         payment : Payments \cup {NotSet}, at : Nat \cup {NotSet}]]
      /\ delivery'[d] = row
      /\ \A e \in Deliveries \ {d} : delivery'[e] = delivery[e]
  BY SetDelivery DEF SubscriptionInv
<1>2. RowsOK'
  BY <1>1 DEF SubscriptionInv, RowsOK
<1>3. TermInv' /\ TermPaid' /\ Completed' = Completed
  BY TermKept DEF SubscriptionInv
<1>4. \A p \in Payments : PaymentOK(p)'
  BY <1>3 DEF SubscriptionInv, PaymentOK
<1>5. ASSUME NEW e \in Deliveries PROVE DeliveryOK(e)'
  <2>1. CASE e = d
    BY <2>1
  <2>2. CASE e # d
    BY <1>1, <2>2, DeliveryKept DEF SubscriptionInv
  <2> QED
    BY <2>1, <2>2
<1>6. \A e, f \in Deliveries : Apart(e, f)'
  BY <1>1, ApartKept DEF SubscriptionInv
<1> QED
  BY <1>2, <1>3, <1>4, <1>5, <1>6 DEF SubscriptionInv

LEMMA ReceiveKeeps ==
  ASSUME SubscriptionInv, NEW d \in Deliveries, NEW p \in Payments, Receive(d, p)
  PROVE  SubscriptionInv'
<1> DEFINE row == [IdleDelivery EXCEPT !.step = "verified", !.payment = p]
<1>1. /\ row \in [step : {"idle", "verified", "payment", "tenant", "subscription"},
                  payment : Payments \cup {NotSet}, at : Nat \cup {NotSet}]
      /\ row.step = "verified" /\ row.payment = p
  BY DEF IdleDelivery
<1>2. /\ delivery[d].step = "idle" /\ p \in paid
      /\ delivery' = [delivery EXCEPT ![d] = row]
      /\ UNCHANGED <<payment, paid, subscription, now, holder, late>>
  BY DEF Receive
<1> HIDE DEF row
<1>3. delivery'[d] = row
  BY <1>1, <1>2, SetDelivery DEF SubscriptionInv
<1>4. payment[p].status # "none" /\ holder # d
  BY <1>2 DEF SubscriptionInv, PaymentOK, DeliveryOK, Doing
<1>5. DeliveryOK(d)'
  BY <1>1, <1>2, <1>3, <1>4 DEF DeliveryOK, Doing, InTransaction
<1>6. ~InTransaction(d)'
  BY <1>1, <1>3 DEF InTransaction
<1> QED
  BY <1>1, <1>2, <1>5, <1>6, DeliveryMoves DEF SubscriptionInv, RowsOK

\* A delivery that ends holds nothing.
LEMMA EndKeeps ==
  ASSUME SubscriptionInv, NEW d \in Deliveries, End(d),
         UNCHANGED <<payment, paid, subscription, now, late>>,
         holder' = IF holder = d THEN Nobody ELSE holder
  PROVE  SubscriptionInv'
<1>1. /\ IdleDelivery \in [step : {"idle", "verified", "payment", "tenant", "subscription"},
                           payment : Payments \cup {NotSet}, at : Nat \cup {NotSet}]
      /\ IdleDelivery.step = "idle"
  BY DEF IdleDelivery
<1>2. delivery' = [delivery EXCEPT ![d] = IdleDelivery]
  BY DEF End
<1>3. delivery'[d] = IdleDelivery
  BY <1>1, <1>2, SetDelivery DEF SubscriptionInv
<1>4. holder' # d /\ holder' \in Deliveries \cup {Nobody}
  BY NullAssumption DEF SubscriptionInv, RowsOK
<1>5. DeliveryOK(d)' /\ ~InTransaction(d)'
  BY <1>1, <1>3, <1>4 DEF DeliveryOK, Doing, InTransaction
<1>6. \A e \in Deliveries \ {d} : holder' = e <=> holder = e
  BY NullAssumption
<1> QED
  BY <1>1, <1>2, <1>4, <1>5, <1>6, DeliveryMoves

LEMMA LockPaymentKeeps ==
  ASSUME SubscriptionInv, NEW d \in Deliveries, LockPayment(d)
  PROVE  SubscriptionInv'
<1>1. /\ delivery[d].step = "verified" /\ holder # d
      /\ delivery[d].payment \in Payments /\ delivery[d].payment \in paid
      /\ payment[delivery[d].payment].status \in {"pending", "success"}
      /\ UNCHANGED <<payment, paid, subscription, now, holder, late>>
  BY DEF LockPayment, SubscriptionInv, DeliveryOK, Doing, RowsOK
<1>2. CASE End(d)
  BY <1>1, <1>2, EndKeeps
<1>3. CASE payment[delivery[d].payment].status # "success" /\ GoTo(d, "payment")
  <2> DEFINE row == [delivery[d] EXCEPT !.step = "payment"]
  <2>1. /\ row \in [step : {"idle", "verified", "payment", "tenant", "subscription"},
                    payment : Payments \cup {NotSet}, at : Nat \cup {NotSet}]
        /\ row.step = "payment" /\ row.payment = delivery[d].payment
    BY DEF SubscriptionInv, RowsOK
  <2>2. delivery' = [delivery EXCEPT ![d] = row]
    BY <1>3 DEF GoTo
  <2> HIDE DEF row
  <2>3. delivery'[d] = row
    BY <2>1, <2>2, SetDelivery DEF SubscriptionInv
  <2>4. DeliveryOK(d)'
    BY <1>1, <1>3, <2>1, <2>3 DEF DeliveryOK, Doing, InTransaction
  <2>5. PaymentUnlocked(row.payment)
    BY <2>1 DEF LockPayment
  <2> QED
    BY <1>1, <2>1, <2>2, <2>4, <2>5, DeliveryMoves DEF SubscriptionInv, RowsOK
<1> QED
  BY <1>2, <1>3 DEF LockPayment

LEMMA LockTenantKeeps ==
  ASSUME SubscriptionInv, NEW d \in Deliveries, LockTenant(d)
  PROVE  SubscriptionInv'
<1> DEFINE row == [delivery[d] EXCEPT !.step = "tenant", !.at = now]
<1>1. /\ delivery[d].step = "payment" /\ holder = Nobody /\ holder' = d
      /\ delivery[d].payment \in Payments /\ delivery[d].payment \in paid
      /\ payment[delivery[d].payment].status = "pending"
      /\ UNCHANGED <<payment, paid, subscription, now, late>>
  BY DEF LockTenant, SubscriptionInv, DeliveryOK, Doing, InTransaction
<1>2. /\ row \in [step : {"idle", "verified", "payment", "tenant", "subscription"},
                  payment : Payments \cup {NotSet}, at : Nat \cup {NotSet}]
      /\ row.step = "tenant" /\ row.payment = delivery[d].payment /\ row.at = now
  BY DEF SubscriptionInv, RowsOK
<1>3. delivery' = [delivery EXCEPT ![d] = row]
  BY DEF LockTenant
<1> HIDE DEF row
<1>4. delivery'[d] = row
  BY <1>2, <1>3, SetDelivery DEF SubscriptionInv
<1>5. /\ now \in 1 .. now /\ subscription.started <= now
      /\ \A p \in Completed : payment[p].completed <= now
  BY DEF SubscriptionInv, RowsOK, TermInv, PaymentOK, Completed
<1>6. Completed' = Completed
  BY <1>1 DEF Completed
<1>7. DeliveryOK(d)'
  BY <1>1, <1>2, <1>4, <1>5, <1>6 DEF DeliveryOK, Doing, InTransaction
<1>8. \A e \in Deliveries \ {d} : holder' = e <=> holder = e
  BY <1>1, NullAssumption
<1>9. InTransaction(d) /\ row.payment = delivery[d].payment
  BY <1>1, <1>2 DEF InTransaction
<1> QED
  BY <1>1, <1>2, <1>3, <1>7, <1>8, <1>9, DeliveryMoves

LEMMA LockSubscriptionKeeps ==
  ASSUME SubscriptionInv, NEW d \in Deliveries, LockSubscription(d)
  PROVE  SubscriptionInv'
<1> DEFINE row == [delivery[d] EXCEPT !.step = "subscription"]
<1>1. delivery[d].step = "tenant" /\ UNCHANGED <<payment, paid, subscription, now, holder, late>>
  BY DEF LockSubscription, Doing
<1>2. /\ row \in [step : {"idle", "verified", "payment", "tenant", "subscription"},
                  payment : Payments \cup {NotSet}, at : Nat \cup {NotSet}]
      /\ row.step = "subscription"
      /\ row.payment = delivery[d].payment /\ row.at = delivery[d].at
  BY DEF SubscriptionInv, RowsOK
<1>3. delivery' = [delivery EXCEPT ![d] = row]
  BY DEF LockSubscription, GoTo
<1> HIDE DEF row
<1>4. delivery'[d] = row
  BY <1>2, <1>3, SetDelivery DEF SubscriptionInv
<1>5. Completed' = Completed
  BY <1>1 DEF Completed
<1>6. InTransaction(d) /\ row.payment = delivery[d].payment
  BY <1>1, <1>2 DEF InTransaction
<1>7. DeliveryOK(d)
  BY DEF SubscriptionInv
<1>8. DeliveryOK(d)'
  BY <1>1, <1>2, <1>4, <1>5, <1>7 DEF DeliveryOK, Doing, InTransaction
<1>9. holder' \in Deliveries \cup {Nobody} /\ \A e \in Deliveries \ {d} : holder' = e <=> holder = e
  BY <1>1 DEF SubscriptionInv, RowsOK
<1> QED
  BY <1>1, <1>2, <1>3, <1>6, <1>8, <1>9, DeliveryMoves

\* Only the values that are added matter.
LEMMA AddsAgree ==
  ASSUME NEW S, NEW v, NEW w, \A x \in S : v[x] = w[x], NEW g
  PROVE  Adds(v, SUBSET S, g) <=> Adds(w, SUBSET S, g)
<1>1. \A s \in SUBSET S : s # {} => v[Any(s)] = w[Any(s)]
  BY AnyIs
<1> QED
  BY <1>1 DEF Adds

LEMMA CheckoutKeeps ==
  ASSUME SubscriptionInv, NEW p \in Payments, NEW pl \in SubscriptionPlans, Checkout(p, pl)
  PROVE  SubscriptionInv'
<1> DEFINE row == [NoPayment EXCEPT !.status = "pending", !.plan = pl]
<1>1. /\ row \in [status : {"none", "pending", "success"}, plan : SubscriptionPlans \cup {NotSet},
                  completed : Nat \cup {NotSet}]
      /\ row.status = "pending" /\ row.plan = pl
  BY DEF NoPayment
<1>2. /\ payment[p].status = "none" /\ payment' = [payment EXCEPT ![p] = row]
      /\ UNCHANGED <<paid, subscription, now, delivery, holder, late>>
  BY DEF Checkout
<1> HIDE DEF row
<1>3. /\ payment' \in [Payments -> [status : {"none", "pending", "success"},
                                    plan : SubscriptionPlans \cup {NotSet},
                                    completed : Nat \cup {NotSet}]]
      /\ payment'[p] = row
      /\ \A q \in Payments \ {p} : payment'[q] = payment[q]
  BY <1>1, <1>2 DEF SubscriptionInv, RowsOK
<1>4. RowsOK'
  BY <1>2, <1>3 DEF SubscriptionInv, RowsOK
<1>5. /\ Completed' = Completed /\ p \notin Completed
      /\ \A q \in Completed : q # p /\ payment'[q] = payment[q]
  BY <1>1, <1>2, <1>3 DEF Completed
<1>6. ASSUME NEW q \in Payments PROVE PaymentOK(q)'
  <2>1. CASE q = p
    BY <1>1, <1>2, <1>3, <1>5, <2>1 DEF SubscriptionInv, PaymentOK
  <2>2. CASE q # p
    BY <1>2, <1>3, <1>5, <2>2 DEF SubscriptionInv, PaymentOK
  <2> QED
    BY <2>1, <2>2
<1>7. ASSUME NEW d \in Deliveries PROVE DeliveryOK(d)'
  <2>1. DeliveryOK(d)
    BY DEF SubscriptionInv
  <2>2. ~Doing(d, "idle") => payment'[delivery[d].payment] = payment[delivery[d].payment]
    BY <1>2, <1>3, <2>1 DEF DeliveryOK
  <2>3. InTransaction(d) => ~Doing(d, "idle")
    BY DEF InTransaction, Doing
  <2> QED
    BY <1>2, <1>5, <2>1, <2>2, <2>3 DEF DeliveryOK, Doing, InTransaction
<1>8. \A d, e \in Deliveries : Apart(d, e)'
  BY <1>2 DEF SubscriptionInv, Apart, InTransaction
<1>9. TermInv'
  BY <1>2, <1>5 DEF SubscriptionInv, TermInv
<1>10. TermPaid'
  <2>1. Term' = Term /\ \A q \in Term : DaysBought'[q] = DaysBought[q]
    BY <1>2, <1>5 DEF Term, InTerm, DaysBought, DaysOf, Completed
  <2>2. TermBase' = TermBase
    BY <1>2 DEF TermBase
  <2>3. PICK v, T : v = DaysBought' /\ T = Term
    OBVIOUS
  <2>4. \A g : Adds(v, SUBSET T, g) <=> Adds(DaysBought, SUBSET T, g)
    BY <2>1, <2>3, AddsAgree
  <2> QED
    BY <1>2, <2>1, <2>2, <2>3, <2>4 DEF SubscriptionInv, TermPaid
<1> QED
  BY <1>4, <1>6, <1>7, <1>8, <1>9, <1>10 DEF SubscriptionInv

LEMMA PayKeeps ==
  ASSUME SubscriptionInv, NEW p \in Payments, Pay(p)
  PROVE  SubscriptionInv'
<1>1. /\ payment[p].status # "none" /\ paid' = paid \cup {p}
      /\ UNCHANGED <<payment, subscription, now, delivery, holder, late>>
  BY DEF Pay
<1>2. TermInv' /\ TermPaid' /\ Completed' = Completed
  BY <1>1, TermKept DEF SubscriptionInv
<1>3. RowsOK'
  BY <1>1 DEF SubscriptionInv, RowsOK
<1>4. \A q \in Payments : PaymentOK(q)'
  BY <1>1, <1>2 DEF SubscriptionInv, PaymentOK
<1>5. \A d \in Deliveries : DeliveryOK(d)'
  BY <1>1, <1>2 DEF SubscriptionInv, DeliveryOK, Doing, InTransaction
<1>6. \A d, e \in Deliveries : Apart(d, e)'
  BY <1>1 DEF SubscriptionInv, Apart, InTransaction
<1> QED
  BY <1>2, <1>3, <1>4, <1>5, <1>6 DEF SubscriptionInv

LEMMA ExpireKeeps ==
  ASSUME SubscriptionInv, Expire
  PROVE  SubscriptionInv'
<1>1. /\ subscription.status \in {"trial", "active"} /\ subscription.expires <= now
      /\ subscription' = [subscription EXCEPT !.status = "expired"]
      /\ UNCHANGED <<payment, paid, now, delivery, holder, late>>
  BY DEF Expire
<1>2. /\ subscription' \in [status : {"none", "trial", "active", "expired", "cancelled"},
                            started : Nat, expires : Nat]
      /\ subscription'.status = "expired"
      /\ subscription'.started = subscription.started
      /\ subscription'.expires = subscription.expires
  BY <1>1 DEF SubscriptionInv, RowsOK
<1>3. RowsOK'
  BY <1>1, <1>2 DEF SubscriptionInv, RowsOK
<1>4. Completed' = Completed /\ Term' = Term /\ DaysBought' = DaysBought /\ TermBase' = TermBase
  BY <1>1, <1>2 DEF Completed, Term, InTerm, DaysBought, DaysOf, TermBase
<1>5. \A q \in Payments : PaymentOK(q)'
  BY <1>1, <1>2, <1>4 DEF SubscriptionInv, PaymentOK
<1>6. \A d \in Deliveries : DeliveryOK(d)'
  BY <1>1, <1>2, DeliveryKept DEF SubscriptionInv
<1>7. \A d, e \in Deliveries : Apart(d, e)'
  BY <1>1 DEF SubscriptionInv, Apart, InTransaction
<1>8. TermInv'
  BY <1>1, <1>2, <1>4 DEF SubscriptionInv, TermInv
<1>9. TermPaid'
  BY <1>1, <1>2, <1>4 DEF SubscriptionInv, TermPaid
<1> QED
  BY <1>3, <1>5, <1>6, <1>7, <1>8, <1>9 DEF SubscriptionInv

LEMMA TickKeeps ==
  ASSUME SubscriptionInv, Tick
  PROVE  SubscriptionInv'
<1>1. now \in Nat /\ now' = now + 1 /\ UNCHANGED <<payment, paid, subscription, delivery, holder, late>>
  BY DEF Tick, SubscriptionInv, RowsOK
<1>2. RowsOK'
  BY <1>1 DEF SubscriptionInv, RowsOK
<1>3. Completed' = Completed /\ Term' = Term /\ DaysBought' = DaysBought /\ TermBase' = TermBase
  BY <1>1 DEF Completed, Term, InTerm, DaysBought, DaysOf, TermBase
<1>4. \A q \in Payments : PaymentOK(q)'
  BY <1>1, <1>3 DEF SubscriptionInv, PaymentOK
<1>5. \A d \in Deliveries : DeliveryOK(d)'
  BY <1>1, DeliveryKept DEF SubscriptionInv
<1>6. \A d, e \in Deliveries : Apart(d, e)'
  BY <1>1 DEF SubscriptionInv, Apart, InTransaction
<1>7. TermInv'
  <2>1. subscription.started \in Nat /\ subscription.expires \in Nat
    BY DEF SubscriptionInv, RowsOK
  <2> QED
    BY <1>1, <1>3, <2>1 DEF SubscriptionInv, TermInv
<1>8. TermPaid'
  BY <1>1, <1>3 DEF SubscriptionInv, TermPaid
<1> QED
  BY <1>2, <1>4, <1>5, <1>6, <1>7, <1>8 DEF SubscriptionInv

\* What a commit writes, and what it may rely on: the tenant's row has been
\* locked since the clock was read, and the payment is completed here for the first time.
LEMMA CommitWrites ==
  ASSUME SubscriptionInv, NEW d \in Deliveries, Commit(d),
         NEW p, p = delivery[d].payment, NEW at, at = delivery[d].at
  PROVE  /\ p \in Payments /\ p \notin Completed /\ at \in 1 .. now /\ holder = d
         /\ subscription.started <= at /\ \A q \in Completed : payment[q].completed <= at
         /\ DaysOf(p) \in Nat \ {0}
         /\ payment'[p].status = "success" /\ payment'[p].completed = at
         /\ payment' \in [Payments -> [status : {"none", "pending", "success"},
                                       plan : SubscriptionPlans \cup {NotSet},
                                       completed : Nat \cup {NotSet}]]
         /\ \A q \in Payments : payment'[q].plan = payment[q].plan
         /\ \A q \in Payments \ {p} : payment'[q] = payment[q]
         /\ Completed' = Completed \cup {p}
<1>1. /\ DeliveryOK(d) /\ Doing(d, "subscription") /\ InTransaction(d)
      /\ payment' = [payment EXCEPT ![p].status = "success", ![p].completed = at]
  BY DEF Commit, SubscriptionInv, Doing, InTransaction
<1>2. /\ p \in Payments /\ payment[p].status = "pending" /\ at \in 1 .. now /\ holder = d
      /\ subscription.started <= at /\ \A q \in Completed : payment[q].completed <= at
  BY <1>1 DEF DeliveryOK, Doing
<1>3. payment[p].plan \in SubscriptionPlans
  BY <1>2 DEF SubscriptionInv, PaymentOK
<1>4. DaysOf(p) \in Nat \ {0}
  BY <1>3, DaysAssumption DEF DaysOf
<1> DEFINE row == [payment[p] EXCEPT !.status = "success", !.completed = at]
<1>5. at \in Nat
  BY <1>2 DEF SubscriptionInv, RowsOK
<1>6. /\ row \in [status : {"none", "pending", "success"}, plan : SubscriptionPlans \cup {NotSet},
                  completed : Nat \cup {NotSet}]
      /\ row.status = "success" /\ row.plan = payment[p].plan /\ row.completed = at
  BY <1>2, <1>5 DEF SubscriptionInv, RowsOK
<1>7. payment' = [payment EXCEPT ![p] = row]
  BY <1>1, <1>2 DEF SubscriptionInv, RowsOK
<1> HIDE DEF row
<1>8. /\ payment' \in [Payments -> [status : {"none", "pending", "success"},
                                    plan : SubscriptionPlans \cup {NotSet},
                                    completed : Nat \cup {NotSet}]]
      /\ payment'[p] = row
      /\ \A q \in Payments \ {p} : payment'[q] = payment[q]
  BY <1>2, <1>6, <1>7 DEF SubscriptionInv, RowsOK
<1>9. Completed' = Completed \cup {p} /\ p \notin Completed
  BY <1>2, <1>6, <1>8 DEF Completed
<1> QED
  BY <1>2, <1>4, <1>6, <1>8, <1>9

LEMMA CommitExtends ==
  ASSUME SubscriptionInv, NEW d \in Deliveries, Commit(d),
         NEW p, p = delivery[d].payment, NEW at, at = delivery[d].at
  PROVE  /\ subscription' \in [status : {"none", "trial", "active", "expired", "cancelled"},
                               started : Nat, expires : Nat]
         /\ subscription'.status = "active"
         /\ subscription'.started = IF ActiveAt(now) THEN subscription.started ELSE at
         /\ subscription'.expires =
              (IF ActiveAt(now) THEN subscription.expires ELSE at) + DaysOf(p)
         /\ at < subscription'.expires
         /\ subscription'.started <= now
<1>1. /\ at \in Nat /\ at <= now /\ DaysOf(p) \in Nat /\ DaysOf(p) > 0 /\ now \in Nat
      /\ subscription.started \in Nat /\ subscription.expires \in Nat
      /\ subscription.started <= now
  BY CommitWrites DEF SubscriptionInv, RowsOK, TermInv
<1>2. subscription' = [status |-> "active",
                       started |-> IF ActiveAt(now) THEN subscription.started ELSE at,
                       expires |-> (IF ActiveAt(now) THEN subscription.expires ELSE at)
                                     + DaysOf(p)]
  BY DEF Commit, DaysOf
<1>3. CASE ActiveAt(now)
  BY <1>1, <1>2, <1>3 DEF ActiveAt
<1>4. CASE ~ActiveAt(now)
  BY <1>1, <1>2, <1>4
<1> QED
  BY <1>3, <1>4

\* The days of one more payment.
LEMMA CommitSum ==
  ASSUME NEW S, IsFiniteSet(S), NEW T, S \subseteq T,
         NEW p \in T, p \notin S, \A x \in T : x \in S \/ x = p,
         NEW v, NEW w, \A x \in T : w[x] \in Nat, \A x \in S : v[x] = w[x],
         NEW g, Adds(v, SUBSET S, g), NEW h, Adds(w, SUBSET T, h)
  PROVE  h[T] = w[p] + g[S] /\ g[S] \in Nat
<1>1. \A s \in SUBSET S : g[s] = h[s]
  BY SumAgrees, SMTT(60)
<1>2. IsFiniteSet(T)
  <2>1. T = S \cup {p}
    OBVIOUS
  <2> QED
    BY <2>1, FS_AddElement
<1>3. h[T] = w[p] + h[T \ {p}]
  <2>1. T \in SUBSET T
    OBVIOUS
  <2> QED
    BY <1>2, <2>1, SumRemoves
<1>4. T \ {p} = S
  OBVIOUS
<1>5. \A x \in S : v[x] \in Nat
  OBVIOUS
<1>6. g[S] \in Nat
  BY <1>5, SumIsNatural
<1> QED
  BY <1>1, <1>3, <1>4, <1>6

\* A commit adds the days that were paid for to the running term, or begins
\* another term with them.
LEMMA CommitTerm ==
  ASSUME SubscriptionInv, NEW d \in Deliveries, Commit(d)
  PROVE  TermPaid'
<1>1. PICK p, at : p = delivery[d].payment /\ at = delivery[d].at
  OBVIOUS
<1>2. /\ p \in Payments /\ p \notin Completed /\ at \in 1 .. now
      /\ subscription.started <= at /\ \A q \in Completed : payment[q].completed <= at
      /\ DaysOf(p) \in Nat \ {0}
      /\ payment'[p].completed = at
      /\ \A q \in Payments : payment'[q].plan = payment[q].plan
      /\ \A q \in Payments \ {p} : payment'[q] = payment[q]
      /\ Completed' = Completed \cup {p}
  BY <1>1, CommitWrites
<1>3. /\ subscription'.started = IF ActiveAt(now) THEN subscription.started ELSE at
      /\ subscription'.expires = (IF ActiveAt(now) THEN subscription.expires ELSE at) + DaysOf(p)
  BY <1>1, CommitExtends
<1>4. /\ now \in Nat /\ at \in Nat /\ 1 <= at /\ at <= now
      /\ subscription.started \in Nat /\ subscription.expires \in Nat
  BY <1>2 DEF SubscriptionInv, RowsOK
<1>5. DaysBought' = DaysBought /\ DaysBought[p] = DaysOf(p)
  BY <1>2 DEF DaysBought, DaysOf
<1>6. \A x \in Completed \cup {p} : DaysBought[x] \in Nat
  BY <1>2, DaysAssumption DEF DaysBought, DaysOf, SubscriptionInv, PaymentOK, Completed
<1> SUFFICES ASSUME late' = {}, NEW h, Adds(DaysBought, SUBSET Term', h)
             PROVE  subscription'.expires = TermBase' + h[Term']
  BY <1>5 DEF TermPaid
<1>7. CASE ActiveAt(now)
  <2>1. late = {} /\ subscription.status # "none"
    BY <1>7 DEF Commit, ActiveAt
  <2>2. subscription'.started = subscription.started /\ TermBase' = TermBase
    BY <1>3, <1>7 DEF TermBase
  <2>3. Term' = Term \cup {p} /\ p \notin Term
    BY <1>2, <1>4, <2>2 DEF Term, InTerm, Completed
  <2>4. IsFiniteSet(Term) /\ Term \subseteq Completed
    <3>1. Term \subseteq Completed
      BY DEF Term, InTerm
    <3> QED
      BY <3>1, FS_Subset DEF SubscriptionInv, TermInv
  <2>5. PICK g : Adds(DaysBought, SUBSET Term, g)
    BY <2>4, SumExists
  <2>6. PICK S, T, v, w : S = Term /\ T = Term' /\ v = DaysBought /\ w = DaysBought
    OBVIOUS
  <2>7. /\ IsFiniteSet(S) /\ S \subseteq T
        /\ p \in T /\ p \notin S /\ \A x \in T : x \in S \/ x = p
        /\ Adds(v, SUBSET S, g) /\ Adds(w, SUBSET T, h)
        /\ \A x \in T : w[x] \in Nat
        /\ \A x \in S : v[x] = w[x]
    BY <1>6, <2>3, <2>4, <2>5, <2>6
  <2>8. h[T] = w[p] + g[S] /\ g[S] \in Nat
    BY <2>7, CommitSum
  <2>9. subscription.expires = TermBase + g[S] /\ TermBase \in Nat
    BY <1>4, <2>1, <2>5, <2>6, TimeAssumption DEF SubscriptionInv, TermPaid, TermBase
  <2>10. h[Term'] = DaysOf(p) + g[S]
    BY <1>5, <2>6, <2>8
  <2>11. subscription'.expires = subscription.expires + DaysOf(p)
    BY <1>3, <1>7
  <2>12. PICK a \in Nat, b \in Nat, c \in Nat : a = TermBase /\ b = g[S] /\ c = DaysOf(p)
    BY <1>2, <2>8, <2>9
  <2> QED
    BY <2>2, <2>9, <2>10, <2>11, <2>12
<1>8. CASE ~ActiveAt(now)
  <2>1. subscription.status = "cancelled" \/ subscription.expires <= at
    <3>1. SUFFICES ASSUME subscription.status # "cancelled", subscription.expires > at PROVE FALSE
      BY <1>4
    <3>2. p \in late'
      BY <1>1, <1>8, <3>1 DEF Commit
    <3> QED
      BY <3>2
  <2>2. subscription'.started = at
    BY <1>3, <1>8
  <2>3. \A q \in Completed : payment[q].completed < at
    <3>1. CASE subscription.status = "cancelled"
      BY <3>1 DEF SubscriptionInv, TermInv
    <3>2. CASE subscription.expires <= at
      BY <1>4, <3>2 DEF SubscriptionInv, PaymentOK, Completed
    <3> QED
      BY <2>1, <3>1, <3>2
  <2>4. \A q \in Completed : payment[q].completed \in Nat
    BY DEF SubscriptionInv, PaymentOK, Completed
  <2>5. Term' = {p}
    BY <1>2, <1>4, <2>2, <2>3, <2>4 DEF Term, InTerm, Completed
  <2>6. TermBase' = at
    BY <1>4, <2>2 DEF TermBase
  <2>7. h[{p}] = DaysBought[p] + 0
    <3>1. Any({p}) = p /\ {p} \ {p} = {}
      BY AnyIs
    <3>2. h = [s \in SUBSET {p} |-> IF s = {} THEN 0 ELSE DaysBought[Any(s)] + h[s \ {Any(s)}]]
      BY <2>5 DEF Adds
    <3>3. h[{}] = 0
      BY <3>2
    <3>4. h[{p}] = DaysBought[Any({p})] + h[{p} \ {Any({p})}]
      BY <3>2
    <3> QED
      BY <3>1, <3>3, <3>4
  <2> QED
    BY <1>2, <1>3, <1>4, <1>5, <1>8, <2>5, <2>6, <2>7
<1> QED
  BY <1>7, <1>8

LEMMA CommitKeeps ==
  ASSUME SubscriptionInv, NEW d \in Deliveries, Commit(d)
  PROVE  SubscriptionInv'
<1>1. PICK p, at : p = delivery[d].payment /\ at = delivery[d].at
  OBVIOUS
<1>2. /\ p \in Payments /\ p \notin Completed /\ at \in 1 .. now /\ holder = d
      /\ \A q \in Completed : payment[q].completed <= at
      /\ payment'[p].status = "success" /\ payment'[p].completed = at
      /\ payment' \in [Payments -> [status : {"none", "pending", "success"},
                                    plan : SubscriptionPlans \cup {NotSet},
                                    completed : Nat \cup {NotSet}]]
      /\ \A q \in Payments : payment'[q].plan = payment[q].plan
      /\ \A q \in Payments \ {p} : payment'[q] = payment[q]
      /\ Completed' = Completed \cup {p}
  BY <1>1, CommitWrites
<1>3. /\ subscription' \in [status : {"none", "trial", "active", "expired", "cancelled"},
                            started : Nat, expires : Nat]
      /\ subscription'.status = "active"
      /\ at < subscription'.expires /\ subscription'.started <= now
  BY <1>1, CommitExtends
<1>4. /\ delivery' = [delivery EXCEPT ![d] = IdleDelivery]
      /\ holder' = Nobody /\ UNCHANGED <<paid, now>>
  BY DEF Commit, End
<1>5. /\ IdleDelivery \in [step : {"idle", "verified", "payment", "tenant", "subscription"},
                           payment : Payments \cup {NotSet}, at : Nat \cup {NotSet}]
      /\ IdleDelivery.step = "idle"
  BY DEF IdleDelivery
<1>6. /\ delivery' \in [Deliveries ->
                        [step : {"idle", "verified", "payment", "tenant", "subscription"},
                         payment : Payments \cup {NotSet}, at : Nat \cup {NotSet}]]
      /\ delivery'[d].step = "idle"
      /\ \A e \in Deliveries \ {d} : delivery'[e] = delivery[e]
  BY <1>4, <1>5, SetDelivery DEF SubscriptionInv
<1>7. RowsOK'
  BY <1>2, <1>3, <1>4, <1>6 DEF SubscriptionInv, RowsOK
<1>8. now \in Nat /\ at \in Nat /\ at <= now /\ subscription'.expires \in Nat
  BY <1>2, <1>3 DEF SubscriptionInv, RowsOK
<1>9. ASSUME NEW q \in Payments PROVE PaymentOK(q)'
  <2>1. CASE q = p
    <3>1. payment[p].status # "none"
      BY <1>1, <1>2 DEF SubscriptionInv, DeliveryOK, Commit, Doing
    <3>2. payment'[p].plan \in SubscriptionPlans
      BY <1>2, <3>1 DEF SubscriptionInv, PaymentOK
    <3> QED
      BY <1>2, <1>3, <1>4, <1>8, <2>1, <3>2 DEF PaymentOK
  <2>2. CASE q # p
    BY <1>2, <1>3, <1>4, <1>8, <2>2 DEF SubscriptionInv, PaymentOK
  <2> QED
    BY <2>1, <2>2
<1>10. ASSUME NEW e \in Deliveries PROVE DeliveryOK(e)'
  <2>1. CASE e = d
    BY <1>4, <1>6, <2>1, NullAssumption DEF DeliveryOK, Doing, InTransaction
  <2>2. CASE e # d
    <3>1. DeliveryOK(e) /\ holder # e /\ holder' # e /\ delivery'[e] = delivery[e]
      BY <1>2, <1>4, <1>6, <2>2, NullAssumption DEF SubscriptionInv
    <3>2. InTransaction(e) => delivery[e].payment # p
      BY <1>1, <2>2 DEF SubscriptionInv, Apart, Commit, Doing, InTransaction
    <3>3. ~Doing(e, "idle") => payment'[delivery[e].payment].status # "none"
      BY <1>2, <3>1 DEF DeliveryOK
    <3>4. InTransaction(e) => payment'[delivery[e].payment].status = "pending"
      <4>1. InTransaction(e) => delivery[e].payment \in Payments \ {p}
        BY <3>1, <3>2 DEF DeliveryOK, Doing, InTransaction
      <4> QED
        BY <1>2, <3>1, <4>1 DEF DeliveryOK
    <3> QED
      BY <1>4, <3>1, <3>3, <3>4 DEF DeliveryOK, Doing, InTransaction
  <2> QED
    BY <2>1, <2>2
<1>11. \A e, f \in Deliveries : Apart(e, f)'
  <2>1. ~InTransaction(d)'
    BY <1>6 DEF InTransaction
  <2> QED
    BY <1>6, <2>1, ApartKept DEF SubscriptionInv
<1>12. TermInv'
  <2>1. IsFiniteSet(Completed')
    BY <1>2, FS_AddElement DEF SubscriptionInv, TermInv
  <2> QED
    BY <1>2, <1>3, <1>4, <2>1 DEF SubscriptionInv, TermInv
<1>13. TermPaid'
  BY CommitTerm
<1> QED
  BY <1>7, <1>9, <1>10, <1>11, <1>12, <1>13 DEF SubscriptionInv

\* The subscription changes by the days of one payment, paid and not completed
\* before, that extends the term or, unless it is running, begins another one at
\* the time of its completion.
DaysStep ==
  \/ /\ Completed' = Completed
     /\ subscription'.started = subscription.started
     /\ subscription'.expires = subscription.expires
  \/ \E p \in paid \ Completed, t \in 1 .. now :
       /\ Completed' = Completed \cup {p}
       /\ payment'[p].completed = t
       /\ \/ /\ subscription'.started = subscription.started
             /\ subscription'.expires = subscription.expires + DaysOf(p)
          \/ /\ ~ActiveAt(now)
             /\ subscription'.started = t
             /\ subscription'.expires = t + DaysOf(p)

LEMMA CommitDays ==
  ASSUME SubscriptionInv, NEW d \in Deliveries, Commit(d)
  PROVE  DaysStep
<1>1. PICK p, at : p = delivery[d].payment /\ at = delivery[d].at
  OBVIOUS
<1>2. /\ p \notin Completed /\ at \in 1 .. now /\ payment'[p].completed = at
      /\ Completed' = Completed \cup {p}
  BY <1>1, CommitWrites
<1>3. p \in paid
  BY <1>1 DEF SubscriptionInv, DeliveryOK, Commit, Doing
<1>4. /\ subscription'.started = IF ActiveAt(now) THEN subscription.started ELSE at
      /\ subscription'.expires = (IF ActiveAt(now) THEN subscription.expires ELSE at) + DaysOf(p)
  BY <1>1, CommitExtends
<1>5. CASE ActiveAt(now)
  BY <1>2, <1>3, <1>4, <1>5 DEF DaysStep
<1>6. CASE ~ActiveAt(now)
  BY <1>2, <1>3, <1>4, <1>6 DEF DaysStep
<1> QED
  BY <1>5, <1>6

LEMMA DaysStepTaken ==
  ASSUME SubscriptionInv, [SubscriptionNext]_subscriptionVars
  PROVE  DaysStep
<1>1. CASE \E d \in Deliveries : Commit(d)
  BY <1>1, CommitDays
<1>2. CASE UNCHANGED <<payment, subscription>>
  BY <1>2 DEF DaysStep, Completed
<1>3. CASE Expire
  <2>1. UNCHANGED payment /\ subscription' = [subscription EXCEPT !.status = "expired"]
    BY <1>3 DEF Expire
  <2>2. /\ subscription'.started = subscription.started
        /\ subscription'.expires = subscription.expires
    BY <2>1 DEF SubscriptionInv, RowsOK
  <2> QED
    BY <2>1, <2>2 DEF DaysStep, Completed
<1>4. ASSUME NEW p \in Payments, NEW pl \in SubscriptionPlans, Checkout(p, pl) PROVE DaysStep
  <2>1. /\ payment[p].status = "none" /\ UNCHANGED subscription
        /\ payment' = [payment EXCEPT ![p] = [NoPayment EXCEPT !.status = "pending", !.plan = pl]]
    BY <1>4 DEF Checkout
  <2>2. payment'[p].status = "pending" /\ \A q \in Payments \ {p} : payment'[q] = payment[q]
    BY <2>1 DEF SubscriptionInv, RowsOK, NoPayment
  <2>3. Completed' = Completed
    BY <2>1, <2>2 DEF Completed
  <2> QED
    BY <2>1, <2>3 DEF DaysStep
<1>5. CASE \/ Tick
           \/ \E p \in Payments : Pay(p) \/ \E d \in Deliveries : Receive(d, p)
           \/ \E d \in Deliveries : \/ LockPayment(d) \/ LockTenant(d)
                                    \/ LockSubscription(d) \/ AbortDelivery(d)
  BY <1>2, <1>5 DEF Tick, Pay, Receive, LockPayment, LockTenant, LockSubscription, AbortDelivery
<1> QED
  BY <1>1, <1>2, <1>3, <1>4, <1>5 DEF SubscriptionNext, subscriptionVars

LEMMA SubscriptionInvNext ==
  ASSUME SubscriptionInv, [SubscriptionNext]_subscriptionVars
  PROVE  SubscriptionInv'
<1>1. CASE UNCHANGED subscriptionVars
  <2>1. UNCHANGED <<payment, paid, subscription, now, delivery, holder, late>>
    BY <1>1 DEF subscriptionVars
  <2>2. TermInv' /\ TermPaid' /\ Completed' = Completed
    BY <2>1, TermKept DEF SubscriptionInv
  <2>3. RowsOK' /\ (\A p \in Payments : PaymentOK(p)')
    BY <2>1, <2>2 DEF SubscriptionInv, RowsOK, PaymentOK
  <2>4. \A d \in Deliveries : DeliveryOK(d)'
    BY <2>1, DeliveryKept DEF SubscriptionInv
  <2>5. \A d, e \in Deliveries : Apart(d, e)'
    BY <2>1 DEF SubscriptionInv, Apart, InTransaction
  <2> QED
    BY <2>2, <2>3, <2>4, <2>5 DEF SubscriptionInv
<1>2. CASE Tick
  BY <1>2, TickKeeps
<1>3. CASE Expire
  BY <1>3, ExpireKeeps
<1>4. ASSUME NEW p \in Payments, Pay(p) PROVE SubscriptionInv'
  BY <1>4, PayKeeps
<1>5. ASSUME NEW p \in Payments, NEW pl \in SubscriptionPlans, Checkout(p, pl)
      PROVE  SubscriptionInv'
  BY <1>5, CheckoutKeeps
<1>6. ASSUME NEW p \in Payments, NEW d \in Deliveries, Receive(d, p) PROVE SubscriptionInv'
  BY <1>6, ReceiveKeeps
<1>7. ASSUME NEW d \in Deliveries, LockPayment(d) PROVE SubscriptionInv'
  BY <1>7, LockPaymentKeeps
<1>8. ASSUME NEW d \in Deliveries, LockTenant(d) PROVE SubscriptionInv'
  BY <1>8, LockTenantKeeps
<1>9. ASSUME NEW d \in Deliveries, LockSubscription(d) PROVE SubscriptionInv'
  BY <1>9, LockSubscriptionKeeps
<1>10. ASSUME NEW d \in Deliveries, Commit(d) PROVE SubscriptionInv'
  BY <1>10, CommitKeeps
<1>11. ASSUME NEW d \in Deliveries, AbortDelivery(d) PROVE SubscriptionInv'
  BY <1>11, EndKeeps DEF AbortDelivery
<1> QED
  BY <1>1, <1>2, <1>3, <1>4, <1>5, <1>6, <1>7, <1>8, <1>9, <1>10, <1>11 DEF SubscriptionNext

\* The rows are locked and written as complete_payment means to: no two
\* transactions complete one payment, and each has read the clock after the
\* running term began and after the payments completed before it.
THEOREM SubscriptionInvariant == SubscriptionSpec => []SubscriptionInv
<1>1. SubscriptionInit => SubscriptionInv
  BY SubscriptionInvInit
<1>2. SubscriptionInv /\ [SubscriptionNext]_subscriptionVars => SubscriptionInv'
  BY SubscriptionInvNext
<1> QED
  BY <1>1, <1>2, PTL DEF SubscriptionSpec

\* SubscriptionCheckoutView, the webhook and complete_payment: only a charge that was
\* paid moves the end of a subscription, once, by the days of its plan, and only a
\* subscription that is not running begins another term.
THEOREM DaysMoveOncePerPayment == SubscriptionSpec => [][DaysStep]_subscriptionVars
<1>1. SubscriptionInv /\ [SubscriptionNext]_subscriptionVars => DaysStep
  BY DaysStepTaken
<1> QED
  BY <1>1, SubscriptionInvariant, PTL DEF SubscriptionSpec

LEMMA DaysNow ==
  ASSUME NEW S, IsFiniteSet(S), NEW v, \A p \in S : v[p] = DaysOf(p),
         NEW g, Adds(v, SUBSET S, g)
  PROVE  MapThenSumSet(DaysOf, S) = g[S]
<1>1. \A s \in SUBSET S : s # {} => v[Any(s)] = DaysOf(Any(s))
  BY AnyIs
<1>2. ASSUME NEW h
      PROVE  h = [s \in SUBSET S |-> IF s = {} THEN 0 ELSE DaysOf(Any(s)) + h[s \ {Any(s)}]]
               <=> Adds(v, SUBSET S, h)
  BY <1>1 DEF Adds
<1>3. \A h : h = [s \in SUBSET S |->
                   IF s = {} THEN 0
                   ELSE DaysOf(CHOOSE x \in s : TRUE) + h[s \ {CHOOSE x \in s : TRUE}]]
              <=> h = g
  BY <1>2, AddsOnce DEF Any
<1> QED
  BY <1>3 DEF MapThenSumSet, MapThenFoldSet

LEMMA SubscriptionInvHonours == SubscriptionInv => PaidTimeIsHonoured
<1> SUFFICES ASSUME SubscriptionInv PROVE PaidTimeIsHonoured
  OBVIOUS
<1>1. subscription.status = "expired" => subscription.expires <= now
  BY DEF SubscriptionInv, TermInv
<1>2. ASSUME Completed # {}, late = {} PROVE subscription.expires = TermBase + DaysPaid
  <2>1. Term \subseteq Completed
    BY DEF Term, InTerm
  <2>2. IsFiniteSet(Term)
    BY <2>1, FS_Subset DEF SubscriptionInv, TermInv
  <2>3. PICK g : Adds(DaysBought, SUBSET Term, g)
    BY <2>2, SumExists
  <2>4. subscription.expires = TermBase + g[Term]
    BY <1>2, <2>3 DEF SubscriptionInv, TermInv, TermPaid
  <2>5. \A p \in Term : DaysBought[p] = DaysOf(p)
    BY DEF DaysBought, Term
  <2>6. MapThenSumSet(DaysOf, Term) = g[Term]
    BY <2>2, <2>3, <2>5, DaysNow
  <2> QED
    BY <2>4, <2>6 DEF DaysPaid, Term
<1> QED
  BY <1>1, <1>2 DEF PaidTimeIsHonoured

\* complete_payment and expire_due_subscriptions: whatever is delivered twice, at
\* once or rolled back, the subscription ends exactly the paid days after its
\* term began, and is marked expired only when it is over; but for a term that
\* runs out while a payment waits for the subscription's row.
THEOREM PaidTimeIsHonouredAlways == SubscriptionSpec => []PaidTimeIsHonoured
BY SubscriptionInvariant, SubscriptionInvHonours, PTL

================================================================================
