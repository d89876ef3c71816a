------------------------ MODULE RouterOnboarding_proofs ------------------------
(***************************************************************************)
(* Proofs about RouterProvisioning and RouterOnboarding, for any number of *)
(* routers, keys, workers, internal requests, managers, operations, audit  *)
(* events and faults.                                                      *)
(*                                                                         *)
(* Whoever is at work on a router has reserved it: its row exists, shows   *)
(* "deploying" and holds the key that is being set up, and nobody else is  *)
(* at work on it (ExclusiveInv).  A worker holds the operation it claimed  *)
(* until a later claim (HoldInv), which without an overrun lease never     *)
(* comes while it works (FreshInv); since keys are unique (KeyInv), no two *)
(* SSH calls then touch one peer, and their outcomes stay true (PeerInv).  *)
(*                                                                         *)
(* The onboarding steps are steps of RouterProvisioning or leave its       *)
(* variables alone (ProvisioningStep), so these invariants hold there too; *)
(* those of the tables around it rest on them.                             *)
(***************************************************************************)
EXTENDS RouterOnboarding, SequenceTheorems, FiniteSetTheorems, TLAPS

HoldInv ==
  /\ \A w \in Workers :
       IF worker[w].step = "idle" THEN worker[w].op = 0
       ELSE /\ worker[w].op \in DOMAIN ops
            /\ worker[w].attempts <= ops[worker[w].op].attempts
            /\ worker[w].attempts = ops[worker[w].op].attempts
                 => ops[worker[w].op].status = "running"
  /\ \A v, w \in Workers :
       /\ worker[v].step # "idle" /\ worker[w].step # "idle"
       /\ worker[v].op = worker[w].op /\ worker[v].attempts = worker[w].attempts
       => v = w

FreshInv == ~overrun => \A w \in Workers :
  worker[w].step # "idle" => /\ worker[w].attempts = ops[worker[w].op].attempts
                             /\ ~ops[worker[w].op].expired

CallInv == \A c \in Calls : /\ call[c].step # "idle" => call[c].router \in Routers
                            /\ call[c].step = "recorded" => call[c].key \in Keys

Working(o) == ops[o].status \in Live
AtVps(c) == call[c].step \in {"dispatched", "ran"}

Reserved(r, k) == /\ r \in Routers /\ k \in Keys
                  /\ router[r].exists /\ router[r].key = k
                  /\ router[r].status = "deploying"

ExclusiveInv ==
  /\ \A o \in DOMAIN ops : Working(o) => Reserved(ops[o].router, ops[o].key)
  /\ \A c \in Calls : AtVps(c) => Reserved(call[c].router, call[c].key)
  /\ \A o, i \in DOMAIN ops :
       Working(o) /\ Working(i) /\ ops[o].router = ops[i].router => o = i
  /\ \A c, d \in Calls : AtVps(c) /\ AtVps(d) /\ call[c].router = call[d].router => c = d
  /\ \A o \in DOMAIN ops, c \in Calls :
       Working(o) /\ AtVps(c) => ops[o].router # call[c].router

OwnerInv ==
  \A r \in Routers : router[r].status = "deploying" =>
    \/ \E o \in DOMAIN ops : Working(o) /\ ops[o].router = r
    \/ \E c \in Calls : AtVps(c) /\ call[c].router = r
    \/ r \in abandoned

KeyInv == /\ \A r, s \in Routers : /\ router[r].exists /\ router[s].exists
                                   /\ router[r].key = router[s].key /\ router[r].key # NoKey
                                   => r = s
          /\ \A r \in current : router[r].exists

\* What a successful call has left on the VPS.
Applied(action, k) == IF action = "provision" THEN k \in peers ELSE k \notin peers

PeerInv == ~overrun =>
  /\ \A w \in Workers : worker[w].step = "ran" /\ worker[w].ok
       => Applied(ops[worker[w].op].action, ops[worker[w].op].key)
  /\ \A c \in Calls : call[c].step = "ran" /\ call[c].ok
       => Applied(call[c].action, call[c].key)
  /\ \A r \in current : /\ router[r].status = "deployed" => router[r].key \in peers
                        /\ router[r].status = "not_deployed" => router[r].key \notin peers

WorkInv == HoldInv /\ FreshInv /\ CallInv
RouterInv == ExclusiveInv /\ OwnerInv /\ KeyInv /\ PeerInv
IInv == TypeOK /\ WorkInv /\ RouterInv

-----------------------------------------------------------------------------
(* Rows.                                                                   *)

\* The records at rest.
LEMMA NullRows == IdleWorker \in WorkerRecord /\ IdleCall \in CallRecord
BY BoundAssumption DEF IdleWorker, WorkerRecord, IdleCall, CallRecord, Actions

\* One router's row is replaced.
LEMMA SetRouter ==
  ASSUME TypeOK, NEW r \in Routers, NEW row \in Router, router' = [router EXCEPT ![r] = row]
  PROVE  /\ router' \in [Routers -> Router]
         /\ router'[r] = row
         /\ \A s \in Routers \ {r} : router'[s] = router[s]
BY DEF TypeOK

\* The operations' rows, one by one.
LEMMA OpRows ==
  ASSUME TypeOK
  PROVE  /\ DOMAIN ops = 1 .. Len(ops) /\ Len(ops) \in Nat
         /\ \A o \in DOMAIN ops : ops[o] \in Op
BY DEF TypeOK

\* One operation's row is replaced.
LEMMA SetOp ==
  ASSUME TypeOK, NEW o \in DOMAIN ops, NEW row \in Op, ops' = [ops EXCEPT ![o] = row]
  PROVE  /\ ops' \in Seq(Op) /\ Len(ops') = Len(ops) /\ DOMAIN ops' = DOMAIN ops
         /\ ops'[o] = row
         /\ \A i \in DOMAIN ops \ {o} : ops'[i] = ops[i]
<1>1. ops \in Seq(Op) /\ DOMAIN ops = 1 .. Len(ops)
  BY OpRows DEF TypeOK
<1>2. ops' \in Seq(Op) /\ Len(ops') = Len(ops)
  BY <1>1, ExceptSeq
<1>3. DOMAIN ops' = 1 .. Len(ops')
  BY <1>2
<1> QED
  BY <1>1, <1>2, <1>3

-----------------------------------------------------------------------------

LEMMA InvInit == Init => IInv
<1> SUFFICES ASSUME Init PROVE IInv
  OBVIOUS
<1>1. TypeOK
  <2>1. [NewRouter(NoKey, FALSE) EXCEPT !.exists = FALSE] \in Router
    BY DEF NewRouter, Router
  <2>2. ops \in Seq(Op) /\ Len(ops) = 0
    BY DEF Init
  <2>3. router \in [Routers -> Router]
    BY <2>1 DEF Init
  <2>4. worker \in [Workers -> WorkerRecord] /\ call \in [Calls -> CallRecord]
    BY NullRows DEF Init
  <2>5. /\ seen \subseteq Calls \X Routers /\ peers \subseteq Keys
        /\ faults \in 0 .. MaxFaults /\ overrun \in BOOLEAN
        /\ abandoned \subseteq Routers /\ current \subseteq Routers
    <3>1. /\ seen = {} /\ peers = {} /\ faults = 0
          /\ overrun = FALSE /\ abandoned = {} /\ current = {}
      BY DEF Init
    <3>2. faults \in 0 .. MaxFaults
      BY <3>1, BoundAssumption
    <3> QED
      BY <3>1, <3>2
  <2> QED
    BY <2>2, <2>3, <2>4, <2>5, BoundAssumption DEF TypeOK
<1>2. ops = <<>> /\ DOMAIN ops = {}
  BY DEF Init
<1>3. WorkInv
  BY <1>2 DEF Init, WorkInv, HoldInv, FreshInv, CallInv, IdleWorker, IdleCall
<1>4. ExclusiveInv
  BY <1>2 DEF Init, ExclusiveInv, Working, AtVps, IdleCall
<1>5. OwnerInv /\ KeyInv /\ PeerInv
  BY DEF Init, OwnerInv, KeyInv, PeerInv, NewRouter, IdleWorker, IdleCall
<1> QED
  BY <1>1, <1>3, <1>4, <1>5 DEF IInv, RouterInv

-----------------------------------------------------------------------------
(* Managers.                                                               *)

\* Whoever is at work on a router finds it busy.
LEMMA BusyRouter ==
  ASSUME IInv, NEW r \in Routers, ~Busy(r)
  PROVE  /\ router[r].status # "deploying"
         /\ \A o \in DOMAIN ops : Working(o) => ops[o].router # r
         /\ \A c \in Calls : AtVps(c) => call[c].router # r
<1>1. router[r].status # "deploying"
  BY DEF Busy
<1> QED
  BY <1>1 DEF IInv, RouterInv, ExclusiveInv, Reserved

\* A row replaced by one that does not show "deploying", with nobody at work on
\* the old one, disturbs nobody.
LEMMA ReplaceIdleRow ==
  ASSUME IInv, NEW r \in Routers, NEW row \in Router,
         router' = [router EXCEPT ![r] = row],
         row.status # "deploying",
         \A o \in DOMAIN ops : Working(o) => ops[o].router # r,
         \A c \in Calls : AtVps(c) => call[c].router # r,
         row.exists => ~TakenElsewhere(row.key, r),
         UNCHANGED <<ops, worker, call, peers, env>>,
         current' \subseteq current, r \in current' => row.exists,
         ~overrun /\ r \in current' => /\ row.status = "deployed" => row.key \in peers
                                       /\ row.status = "not_deployed" => row.key \notin peers
  PROVE  WorkInv' /\ RouterInv' /\ router' \in [Routers -> Router]
<1>1. /\ router' \in [Routers -> Router]
      /\ router'[r] = row
      /\ \A s \in Routers \ {r} : router'[s] = router[s]
  BY SetRouter DEF IInv
<1>2. UNCHANGED <<faults, overrun, abandoned>>
  BY DEF env
<1>3. WorkInv'
  BY <1>2 DEF IInv, WorkInv, HoldInv, FreshInv, CallInv
<1>4. ExclusiveInv'
  <2>1. \A s, k : Reserved(s, k) /\ s # r => Reserved(s, k)'
    BY <1>1 DEF Reserved
  <2> QED
    BY <2>1 DEF IInv, RouterInv, ExclusiveInv, Working, AtVps
<1>5. OwnerInv'
  BY <1>1, <1>2 DEF IInv, RouterInv, OwnerInv, Working, AtVps
<1>6. current \subseteq Routers
  BY DEF IInv, TypeOK
<1>7. KeyInv'
  BY <1>1, <1>6 DEF IInv, RouterInv, KeyInv, TakenElsewhere
<1>8. PeerInv'
  BY <1>1, <1>2, <1>6 DEF IInv, RouterInv, PeerInv, Applied
<1> QED
  BY <1>1, <1>3, <1>4, <1>5, <1>7, <1>8 DEF RouterInv

LEMMA CreateRouterStep ==
  ASSUME IInv, NEW r \in Routers, NEW k \in Keys \cup {NoKey}, NEW active \in BOOLEAN,
         CreateRouter(r, k, active)
  PROVE  IInv'
<1> DEFINE row == NewRouter(k, active)
<1>1. row \in Router /\ row.key = k /\ row.exists /\ row.status = "not_deployed"
  BY DEF NewRouter, Router
<1>2. /\ \A o \in DOMAIN ops : Working(o) => ops[o].router # r
      /\ \A c \in Calls : AtVps(c) => call[c].router # r
      /\ r \notin current
  BY DEF CreateRouter, IInv, RouterInv, ExclusiveInv, Reserved, KeyInv
<1>3. /\ router' = [router EXCEPT ![r] = row] /\ ~TakenElsewhere(k, r)
      /\ UNCHANGED <<ops, worker, call, peers, env, seen, current>>
  BY DEF CreateRouter
<1> HIDE DEF row
<1>4. WorkInv' /\ RouterInv' /\ router' \in [Routers -> Router]
  BY <1>1, <1>2, <1>3, ReplaceIdleRow
<1>5. TypeOK'
  BY <1>3, <1>4 DEF IInv, TypeOK, env
<1> QED
  BY <1>4, <1>5 DEF IInv

LEMMA EditRouterStep ==
  ASSUME IInv, NEW r \in Routers, NEW k \in Keys \cup {NoKey}, NEW active \in BOOLEAN,
         EditRouter(r, k, active)
  PROVE  IInv'
<1> DEFINE row == [router[r] EXCEPT !.key = k, !.active = active]
<1>1. router[r] \in Router
  BY DEF IInv, TypeOK
<1>2. /\ row \in Router /\ row.key = k
      /\ row.exists = router[r].exists /\ row.status = router[r].status
  BY <1>1 DEF Router
<1>3. /\ router' = [router EXCEPT ![r] = row]
      /\ ~Busy(r) /\ ~TakenElsewhere(k, r) /\ router[r].exists
      /\ current' = IF k = router[r].key THEN current ELSE current \ {r}
      /\ UNCHANGED <<ops, worker, call, peers, env, seen>>
  BY DEF EditRouter
<1> HIDE DEF row
<1>4. ~overrun /\ r \in current' => /\ row.status = "deployed" => row.key \in peers
                                    /\ row.status = "not_deployed" => row.key \notin peers
  BY <1>2, <1>3 DEF IInv, RouterInv, PeerInv
<1>5. /\ row.status # "deploying"
      /\ \A o \in DOMAIN ops : Working(o) => ops[o].router # r
      /\ \A c \in Calls : AtVps(c) => call[c].router # r
  BY <1>2, <1>3, BusyRouter
<1>6. WorkInv' /\ RouterInv' /\ router' \in [Routers -> Router]
  BY <1>2, <1>3, <1>4, <1>5, ReplaceIdleRow
<1>7. TypeOK'
  BY <1>3, <1>6 DEF IInv, TypeOK, env
<1> QED
  BY <1>6, <1>7 DEF IInv

LEMMA DeleteRouterStep ==
  ASSUME IInv, NEW r \in Routers, DeleteRouter(r)
  PROVE  IInv'
<1> DEFINE row == [router[r] EXCEPT !.exists = FALSE]
<1>1. router[r] \in Router
  BY DEF IInv, TypeOK
<1>2. row \in Router /\ ~row.exists /\ row.status = router[r].status
  BY <1>1 DEF Router
<1>3. /\ router' = [router EXCEPT ![r] = row] /\ ~Busy(r)
      /\ current' = current \ {r} /\ seen' \subseteq seen
      /\ UNCHANGED <<ops, worker, call, peers, env>>
  BY DEF DeleteRouter
<1> HIDE DEF row
<1>4. /\ row.status # "deploying"
      /\ \A o \in DOMAIN ops : Working(o) => ops[o].router # r
      /\ \A c \in Calls : AtVps(c) => call[c].router # r
  BY <1>2, <1>3, BusyRouter
<1>5. WorkInv' /\ RouterInv' /\ router' \in [Routers -> Router]
  BY <1>2, <1>3, <1>4, ReplaceIdleRow
<1>6. TypeOK'
  BY <1>3, <1>5 DEF IInv, TypeOK, env
<1> QED
  BY <1>5, <1>6 DEF IInv

LEMMA RequestOperationStep ==
  ASSUME IInv, NEW r \in Routers, NEW action \in Actions, RequestOperation(r, action)
  PROVE  IInv'
<1> DEFINE new == [router |-> r, action |-> action, key |-> router[r].key,
                   attempts |-> 0, expired |-> FALSE, status |-> "pending"]
           row == [router[r] EXCEPT !.status = "deploying"]
<1>1. router[r] \in Router /\ router[r].key \in Keys
  BY DEF IInv, TypeOK, RequestOperation, Router
<1>2. new \in Op
  BY <1>1 DEF Op, Live
<1>3. /\ row \in Router /\ row.status = "deploying"
      /\ row.exists = router[r].exists /\ row.key = router[r].key
  BY <1>1 DEF Router
<1>4. /\ ops' = Append(ops, new) /\ router' = [router EXCEPT ![r] = row]
      /\ ~Busy(r) /\ router[r].exists /\ Len(ops) < MaxOps
      /\ UNCHANGED <<worker, call, seen, peers, env, current>>
  BY DEF RequestOperation, SetStatus
<1>5. /\ new.router = r /\ new.key = router[r].key /\ new.status = "pending"
      /\ new.attempts = 0 /\ ~new.expired
  OBVIOUS
<1>6. UNCHANGED <<faults, overrun, abandoned>>
  BY <1>4 DEF env
<1> HIDE DEF new, row
<1>7. /\ router' \in [Routers -> Router]
      /\ router'[r] = row
      /\ \A s \in Routers \ {r} : router'[s] = router[s]
  BY <1>3, <1>4, SetRouter DEF IInv
<1>8. /\ ops \in Seq(Op) /\ DOMAIN ops = 1 .. Len(ops) /\ Len(ops) \in Nat
  BY OpRows DEF IInv, TypeOK
<1>n. PICK n \in Nat : n = Len(ops) + 1
  BY <1>8
<1>9. /\ ops' \in Seq(Op) /\ Len(ops') = n
      /\ DOMAIN ops' = DOMAIN ops \cup {n} /\ n \notin DOMAIN ops
      /\ ops'[n] = new
      /\ \A o \in DOMAIN ops : ops'[o] = ops[o]
  <2>1. ops' \in Seq(Op) /\ Len(ops') = n
    BY <1>2, <1>4, <1>8, <1>n
  <2>2. DOMAIN ops' = 1 .. n
    BY <2>1
  <2> QED
    BY <1>2, <1>4, <1>8, <1>n, <2>1, <2>2
<1>10. /\ router[r].status # "deploying"
       /\ \A o \in DOMAIN ops : Working(o) => ops[o].router # r
       /\ \A c \in Calls : AtVps(c) => call[c].router # r
  BY <1>4, BusyRouter
<1>11. TypeOK'
  <2>1. Len(ops') <= MaxOps
    BY <1>4, <1>8, <1>9, <1>n, BoundAssumption
  <2> QED
    BY <1>4, <1>6, <1>7, <1>9, <2>1 DEF IInv, TypeOK
<1>12. HoldInv' /\ FreshInv' /\ CallInv'
  <2>1. \A w \in Workers : worker[w].step # "idle" => worker[w].op \in DOMAIN ops
    BY DEF IInv, WorkInv, HoldInv
  <2> QED
    BY <1>4, <1>6, <1>9, <2>1 DEF IInv, WorkInv, HoldInv, FreshInv, CallInv
<1>13. ExclusiveInv'
  <2>1. \A s, k : Reserved(s, k) /\ s # r => Reserved(s, k)'
    BY <1>7 DEF Reserved
  <2>2. Reserved(r, router[r].key)'
    BY <1>1, <1>3, <1>4, <1>7 DEF Reserved
  <2>3. \A o \in DOMAIN ops' : Working(o)' => o = n \/ (o \in DOMAIN ops /\ Working(o))
    BY <1>9 DEF Working
  <2>4. \A c \in Calls : AtVps(c)' => AtVps(c)
    BY <1>4 DEF AtVps
  <2>5. \A o \in DOMAIN ops' : Working(o)' => Reserved(ops[o].router, ops[o].key)'
    <3>1. \A o \in DOMAIN ops : Working(o) =>
            Reserved(ops[o].router, ops[o].key) /\ ops[o].router # r
      BY <1>10 DEF IInv, RouterInv, ExclusiveInv
    <3>2. ops'[n].router = r /\ ops'[n].key = router[r].key
      BY <1>5, <1>9
    <3>3. Reserved(ops[n].router, ops[n].key)'
      BY <1>3, <1>7, <2>2, <3>2 DEF Reserved
    <3>4. ASSUME NEW o \in DOMAIN ops, Working(o)
          PROVE  Reserved(ops[o].router, ops[o].key)'
      BY <1>7, <1>9, <3>1, <3>4 DEF Reserved
    <3> QED
      BY <2>3, <3>3, <3>4
  <2>6. \A c \in Calls : AtVps(c)' => Reserved(call[c].router, call[c].key)'
    BY <1>4, <1>10, <2>4 DEF IInv, RouterInv, ExclusiveInv, AtVps, Reserved
  <2> QED
    BY <1>4, <1>5, <1>9, <1>10, <2>3, <2>4, <2>5, <2>6
       DEF IInv, RouterInv, ExclusiveInv
<1>14. OwnerInv'
  <2>1. Working(n)' /\ ops'[n].router = r
    BY <1>5, <1>9 DEF Working, Live
  <2>2. \A o \in DOMAIN ops : Working(o) => Working(o)' /\ ops'[o].router = ops[o].router
    BY <1>9 DEF Working
  <2> QED
    BY <1>4, <1>6, <1>7, <1>9, <2>1, <2>2 DEF IInv, RouterInv, OwnerInv, AtVps
<1>15. KeyInv'
  BY <1>3, <1>4, <1>7 DEF IInv, RouterInv, KeyInv, TypeOK
<1>16. PeerInv'
  <2>1. \A w \in Workers : worker[w].step # "idle" => worker[w].op \in DOMAIN ops
    BY DEF IInv, WorkInv, HoldInv
  <2>2. current \subseteq Routers
    BY DEF IInv, TypeOK
  <2> QED
    BY <1>3, <1>4, <1>6, <1>7, <1>9, <2>1, <2>2 DEF IInv, RouterInv, PeerInv, Applied
<1> QED
  BY <1>11, <1>12, <1>13, <1>14, <1>15, <1>16 DEF IInv, WorkInv, RouterInv

-----------------------------------------------------------------------------
(* Workers.                                                                *)

\* A step after which the same operations and requests are at work, on routers
\* that it leaves alone.
LEMMA SameWork ==
  ASSUME IInv, UNCHANGED <<router, current>>, abandoned' = abandoned,
         DOMAIN ops' = DOMAIN ops,
         \A o \in DOMAIN ops : /\ Working(o)' <=> Working(o)
                               /\ ops'[o].router = ops[o].router /\ ops'[o].key = ops[o].key,
         \A c \in Calls : /\ AtVps(c)' <=> AtVps(c)
                          /\ AtVps(c) => /\ call'[c].router = call[c].router
                                         /\ call'[c].key = call[c].key
  PROVE  ExclusiveInv' /\ OwnerInv' /\ KeyInv'
<1>1. ExclusiveInv'
  BY DEF IInv, RouterInv, ExclusiveInv, Reserved
<1>2. OwnerInv'
  BY DEF IInv, RouterInv, OwnerInv
<1>3. KeyInv'
  BY DEF IInv, RouterInv, KeyInv
<1> QED
  BY <1>1, <1>2, <1>3

\* A worker's record is replaced.
LEMMA SetWorker ==
  ASSUME TypeOK, NEW w \in Workers, NEW record \in WorkerRecord,
         worker' = [worker EXCEPT ![w] = record]
  PROVE  /\ worker' \in [Workers -> WorkerRecord]
         /\ worker'[w] = record
         /\ \A v \in Workers \ {w} : worker'[v] = worker[v]
BY DEF TypeOK

\* The operation of a worker that is at work.
LEMMA HeldOp ==
  ASSUME IInv, NEW w \in Workers, worker[w].step # "idle"
  PROVE  /\ worker[w].op \in DOMAIN ops /\ worker[w].op \in 0 .. MaxOps
         /\ worker[w].attempts \in Nat /\ ops[worker[w].op].attempts \in Nat
         /\ worker[w].attempts <= ops[worker[w].op].attempts
         /\ ops[worker[w].op].router \in Routers /\ ops[worker[w].op].key \in Keys
         /\ ~Superseded(w) => Working(worker[w].op)
         /\ ~overrun => ~Superseded(w)
<1>1. /\ worker[w].op \in DOMAIN ops
      /\ worker[w].attempts <= ops[worker[w].op].attempts
      /\ worker[w].attempts = ops[worker[w].op].attempts
           => ops[worker[w].op].status = "running"
  BY DEF IInv, WorkInv, HoldInv
<1>2. worker[w] \in WorkerRecord
  BY DEF IInv, TypeOK
<1>3. ops[worker[w].op] \in Op
  BY <1>1, OpRows DEF IInv
<1>4. ~Superseded(w) => Working(worker[w].op)
  BY DEF Superseded, Working, Live
<1>5. ~overrun => ~Superseded(w)
  BY <1>1 DEF IInv, WorkInv, FreshInv, Superseded
<1> QED
  BY <1>1, <1>2, <1>3, <1>4, <1>5 DEF WorkerRecord, Op

LEMMA ClaimStep ==
  ASSUME IInv, NEW w \in Workers, Claim(w)
  PROVE  IInv'
<1>1. PICK o \in Claimable :
        /\ ops' = [ops EXCEPT ![o] = [@ EXCEPT !.status = "running", !.expired = FALSE,
                                               !.attempts = ops[o].attempts + 1]]
        /\ worker' = [worker EXCEPT ![w] = [step |-> "claimed", op |-> o,
                                            attempts |-> ops[o].attempts + 1, ok |-> FALSE]]
  BY DEF Claim
<1>2. UNCHANGED <<router, call, seen, peers, current, faults, overrun, abandoned>>
  BY DEF Claim, env
<1>3. o \in DOMAIN ops /\ o \in 0 .. MaxOps /\ ops[o] \in Op /\ Working(o)
  BY OpRows, BoundAssumption DEF IInv, TypeOK, Claimable, Working, Live
<1> DEFINE row == [ops[o] EXCEPT !.status = "running", !.expired = FALSE,
                              !.attempts = ops[o].attempts + 1]
           record == [step |-> "claimed", op |-> o, attempts |-> ops[o].attempts + 1,
                      ok |-> FALSE]
<1>4. /\ row \in Op /\ row.router = ops[o].router /\ row.key = ops[o].key
      /\ row.action = ops[o].action /\ row.attempts = ops[o].attempts + 1
      /\ row.status = "running" /\ ~row.expired
  <2>1. /\ ops[o].router \in Routers /\ ops[o].action \in Actions /\ ops[o].key \in Keys
        /\ ops[o].attempts + 1 \in Nat /\ DOMAIN ops[o] = DOMAIN row
    BY <1>3 DEF Op
  <2>2. row \in Op
    BY <1>3, <2>1 DEF Op, Live
  <2> QED
    BY <1>3, <2>2 DEF Op
<1>5. /\ record \in WorkerRecord /\ record.step = "claimed" /\ record.op = o
      /\ record.attempts = row.attempts
  BY <1>3, <1>4 DEF WorkerRecord, Op
<1>6. ops' = [ops EXCEPT ![o] = row] /\ worker' = [worker EXCEPT ![w] = record]
  BY <1>1
<1> HIDE DEF row, record
<1>7. /\ ops' \in Seq(Op) /\ Len(ops') = Len(ops) /\ DOMAIN ops' = DOMAIN ops
      /\ ops'[o] = row
      /\ \A i \in DOMAIN ops \ {o} : ops'[i] = ops[i]
  BY <1>3, <1>4, <1>6, SetOp DEF IInv
<1>8. /\ worker' \in [Workers -> WorkerRecord]
      /\ worker'[w] = record
      /\ \A v \in Workers \ {w} : worker'[v] = worker[v]
  BY <1>5, <1>6, SetWorker DEF IInv
<1>9. \A i \in DOMAIN ops : /\ Working(i)' <=> Working(i)
                            /\ ops'[i].router = ops[i].router /\ ops'[i].key = ops[i].key
                            /\ ops'[i].action = ops[i].action
  BY <1>3, <1>4, <1>7 DEF Working, Live
<1>10. \A v \in Workers \ {w} : worker[v].step # "idle" =>
         /\ worker[v].op \in DOMAIN ops
         /\ worker[v].op = o => worker[v].attempts < row.attempts
  BY <1>4, HeldOp
<1>11. TypeOK'
  BY <1>2, <1>7, <1>8 DEF IInv, TypeOK
<1>12. HoldInv'
  <2>1. ASSUME NEW v \in Workers
        PROVE  IF worker'[v].step = "idle" THEN worker'[v].op = 0
               ELSE /\ worker'[v].op \in DOMAIN ops'
                    /\ worker'[v].attempts <= ops'[worker'[v].op].attempts
                    /\ worker'[v].attempts = ops'[worker'[v].op].attempts
                         => ops'[worker'[v].op].status = "running"
    <3>1. CASE v = w
      BY <1>3, <1>4, <1>5, <1>7, <1>8, <3>1 DEF Op
    <3>2. CASE v # w /\ worker[v].step # "idle"
      <4>1. CASE worker[v].op = o
        BY <1>4, <1>7, <1>8, <1>10, <3>2, <4>1, HeldOp
      <4>2. CASE worker[v].op # o
        BY <1>7, <1>8, <1>10, <3>2, <4>2 DEF IInv, WorkInv, HoldInv
      <4> QED
        BY <4>1, <4>2
    <3>3. CASE v # w /\ worker[v].step = "idle"
      BY <1>8, <3>3 DEF IInv, WorkInv, HoldInv
    <3> QED
      BY <3>1, <3>2, <3>3
  <2>2. ASSUME NEW u \in Workers, NEW v \in Workers,
               worker'[u].step # "idle", worker'[v].step # "idle",
               worker'[u].op = worker'[v].op, worker'[u].attempts = worker'[v].attempts
        PROVE  u = v
    <3>1. ASSUME NEW x \in Workers \ {w}, worker'[x].step # "idle", worker'[x].op = o
          PROVE  worker'[x].attempts # row.attempts
      BY <1>3, <1>4, <1>8, <1>10, <3>1, HeldOp DEF Op
    <3>2. CASE u = w \/ v = w
      BY <1>5, <1>8, <2>2, <3>1, <3>2
    <3>3. CASE u # w /\ v # w
      BY <1>8, <2>2, <3>3 DEF IInv, WorkInv, HoldInv
    <3> QED
      BY <3>2, <3>3
  <2> QED
    BY <2>1, <2>2 DEF HoldInv
<1>13. FreshInv'
  <2> SUFFICES ASSUME ~overrun, NEW v \in Workers, worker'[v].step # "idle"
               PROVE  /\ worker'[v].attempts = ops'[worker'[v].op].attempts
                      /\ ~ops'[worker'[v].op].expired
    BY <1>2 DEF FreshInv
  <2>1. CASE v = w
    BY <1>4, <1>5, <1>7, <1>8, <2>1
  <2>2. CASE v # w
    <3>1. worker[v].step # "idle"
      BY <1>8, <2>2
    <3>2. /\ worker[v].attempts = ops[worker[v].op].attempts
          /\ ~ops[worker[v].op].expired
          /\ ops[worker[v].op].status = "running"
      BY <3>1 DEF IInv, WorkInv, FreshInv, HoldInv
    <3>3. worker[v].op # o
      BY <3>2, <1>3 DEF Claimable
    <3> QED
      BY <1>7, <1>8, <1>10, <2>2, <3>1, <3>2, <3>3
  <2> QED
    BY <2>1, <2>2
<1>14. CallInv'
  BY <1>2 DEF IInv, WorkInv, CallInv
<1>15. ExclusiveInv' /\ OwnerInv' /\ KeyInv'
  BY <1>2, <1>7, <1>9, SameWork DEF AtVps
<1>16. PeerInv'
  <2>1. \A v \in Workers : worker'[v].step = "ran" =>
          worker[v].step = "ran" /\ worker'[v] = worker[v] /\ worker[v].op \in DOMAIN ops
    BY <1>5, <1>8, <1>10
  <2> QED
    BY <1>2, <1>9, <2>1 DEF IInv, RouterInv, PeerInv, Applied
<1> QED
  BY <1>11, <1>12, <1>13, <1>14, <1>15, <1>16 DEF IInv, WorkInv, RouterInv

\* A call changes the peer of its key and no other.
LEMMA SshEffect ==
  ASSUME peers \subseteq Keys, NEW action \in Actions, NEW k \in Keys,
         NEW result \in SshResults(action, k), peers' = result[1]
  PROVE  /\ peers' \subseteq Keys
         /\ result[2] \in BOOLEAN
         /\ result[2] => Applied(action, k)'
         /\ \A l \in Keys \ {k} : l \in peers' <=> l \in peers
<1> DEFINE after == IF action = "provision" THEN peers \cup {k} ELSE peers \ {k}
<1>1. result = <<after, TRUE>> \/ result = <<after, FALSE>> \/ result = <<peers, FALSE>>
  BY DEF SshResults
<1> HIDE DEF after
<1>2. /\ peers' = after \/ peers' = peers
      /\ result[2] \in BOOLEAN
      /\ result[2] => peers' = after
  <2>1. CASE result = <<after, TRUE>>
    BY <2>1
  <2>2. CASE result = <<after, FALSE>>
    BY <2>2
  <2>3. CASE result = <<peers, FALSE>>
    BY <2>3
  <2> QED
    BY <1>1, <2>1, <2>2, <2>3
<1> QED
  BY <1>2 DEF Applied, after

\* With no lease overrun, nobody but the one at work on a router uses its key.
LEMMA KeysApart ==
  ASSUME IInv, ~overrun, NEW r \in Routers, NEW k \in Keys, Reserved(r, k)
  PROVE  /\ \A w \in Workers : worker[w].step # "idle" /\ ops[worker[w].op].router # r
              => ops[worker[w].op].key \in Keys \ {k}
         /\ \A c \in Calls : AtVps(c) /\ call[c].router # r => call[c].key \in Keys \ {k}
         /\ \A s \in current : router[s].status \in {"deployed", "not_deployed"} =>
              router[s].key \in (Keys \cup {NoKey}) \ {k}
<1>1. ASSUME NEW s \in Routers, NEW l \in Keys, Reserved(s, l), s # r PROVE l \in Keys \ {k}
  BY <1>1, NullAssumption DEF IInv, RouterInv, KeyInv, Reserved
<1>2. \A w \in Workers : worker[w].step # "idle" =>
        /\ ops[worker[w].op].router \in Routers /\ ops[worker[w].op].key \in Keys
        /\ Reserved(ops[worker[w].op].router, ops[worker[w].op].key)
  BY HeldOp DEF IInv, RouterInv, ExclusiveInv
<1>3. \A c \in Calls : AtVps(c) =>
        /\ call[c].router \in Routers /\ call[c].key \in Keys
        /\ Reserved(call[c].router, call[c].key)
  BY DEF IInv, RouterInv, ExclusiveInv, Reserved
<1>4. ASSUME NEW s \in current, router[s].status \in {"deployed", "not_deployed"}
      PROVE  router[s].key \in (Keys \cup {NoKey}) \ {k}
  <2>1. s \in Routers /\ router[s] \in Router
    BY DEF IInv, TypeOK
  <2>2. s # r
    BY <1>4 DEF Reserved
  <2>3. router[s].key # k
    BY <2>1, <2>2, NullAssumption DEF IInv, RouterInv, KeyInv, Reserved
  <2> QED
    BY <2>1, <2>3 DEF Router
<1> QED
  BY <1>1, <1>2, <1>3, <1>4

LEMMA RunSshStep ==
  ASSUME IInv, NEW w \in Workers, RunSsh(w)
  PROVE  IInv'
<1>0. PICK o \in DOMAIN ops, action \in Actions, k \in Keys, r \in Routers :
        /\ o = worker[w].op /\ action = ops[o].action /\ k = ops[o].key /\ r = ops[o].router
        /\ ~overrun => Working(o)
  <2>1. worker[w].step # "idle"
    BY DEF RunSsh
  <2>2. ops[worker[w].op] \in Op
    BY <2>1, HeldOp, OpRows DEF IInv
  <2> QED
    BY <2>1, <2>2, HeldOp DEF Op
<1>1. PICK result \in SshResults(action, k) :
        /\ peers' = result[1]
        /\ worker' = [worker EXCEPT ![w] = [@ EXCEPT !.step = "ran", !.ok = result[2]]]
  BY <1>0 DEF RunSsh
<1>2. /\ UNCHANGED <<router, ops, call, seen, current, faults, overrun, abandoned>>
      /\ worker[w].step = "claimed"
  BY DEF RunSsh, env
<1>5. /\ peers' \subseteq Keys /\ result[2] \in BOOLEAN
      /\ result[2] => Applied(action, k)'
      /\ \A l \in Keys \ {k} : l \in peers' <=> l \in peers
  <2>1. peers \subseteq Keys
    BY DEF IInv, TypeOK
  <2> QED
    BY <1>1, <2>1, SshEffect
<1> DEFINE record == [worker[w] EXCEPT !.step = "ran", !.ok = result[2]]
<1>6. worker[w] \in WorkerRecord
  BY DEF IInv, TypeOK
<1>7. /\ record \in WorkerRecord /\ record.step = "ran" /\ record.op = o
      /\ record.attempts = worker[w].attempts /\ record.ok = result[2]
  BY <1>0, <1>5, <1>6 DEF WorkerRecord
<1>8. worker' = [worker EXCEPT ![w] = record]
  BY <1>1
<1> HIDE DEF record
<1>9. /\ worker' \in [Workers -> WorkerRecord]
      /\ worker'[w] = record
      /\ \A v \in Workers \ {w} : worker'[v] = worker[v]
  BY <1>7, <1>8, SetWorker DEF IInv
<1>10. \A v \in Workers : /\ worker'[v].step = "idle" <=> worker[v].step = "idle"
                          /\ worker'[v].op = worker[v].op
                          /\ worker'[v].attempts = worker[v].attempts
  BY <1>0, <1>2, <1>7, <1>9
<1>11. TypeOK'
  BY <1>2, <1>5, <1>9 DEF IInv, TypeOK
<1>12. WorkInv'
  BY <1>2, <1>10 DEF IInv, WorkInv, HoldInv, FreshInv, CallInv
<1>13. ExclusiveInv' /\ OwnerInv' /\ KeyInv'
  BY <1>2, SameWork DEF Working, AtVps
<1>14. PeerInv'
  <2> SUFFICES ASSUME ~overrun PROVE PeerInv'
    BY <1>2 DEF PeerInv
  <2>1. Working(o) /\ Reserved(r, k)
    BY <1>0 DEF IInv, RouterInv, ExclusiveInv
  <2>2. \A v \in Workers \ {w} : worker[v].step # "idle" =>
          worker[v].op \in DOMAIN ops /\ Working(worker[v].op) /\ worker[v].op # o
    <3> TAKE v \in Workers \ {w}
    <3> HAVE worker[v].step # "idle"
    <3>1. ~Superseded(v) /\ ~Superseded(w)
      BY <1>2, HeldOp
    <3> QED
      BY <1>0, <1>2, <3>1, HeldOp DEF IInv, WorkInv, HoldInv, Superseded
  <2>3. \A v \in Workers \ {w} : worker[v].step # "idle" =>
          ops[worker[v].op].key \in Keys \ {k}
    BY <1>0, <2>1, <2>2, KeysApart DEF IInv, RouterInv, ExclusiveInv
  <2>4. \A c \in Calls : AtVps(c) => call[c].key \in Keys \ {k}
    BY <1>0, <2>1, KeysApart DEF IInv, RouterInv, ExclusiveInv
  <2>5. \A s \in current : router[s].status \in {"deployed", "not_deployed"} =>
          (router[s].key \in peers' <=> router[s].key \in peers)
    <3>1. NoKey \notin peers /\ NoKey \notin peers'
      BY <1>5, NullAssumption DEF IInv, TypeOK
    <3> QED
      BY <1>0, <1>5, <2>1, <3>1, KeysApart
  <2>6. ASSUME NEW v \in Workers, worker'[v].step = "ran", worker'[v].ok
        PROVE  Applied(ops[worker[v].op].action, ops[worker[v].op].key)'
    <3>1. CASE v = w
      BY <1>0, <1>2, <1>5, <1>7, <1>9, <2>6, <3>1 DEF Applied
    <3>2. CASE v # w
      <4>1. Applied(ops[worker[v].op].action, ops[worker[v].op].key)
        BY <1>9, <2>6, <3>2 DEF IInv, RouterInv, PeerInv
      <4>2. ops[worker[v].op].key \in Keys \ {k}
        BY <1>9, <2>3, <2>6, <3>2
      <4> QED
        BY <1>2, <1>5, <1>9, <3>2, <4>1, <4>2 DEF Applied
    <3> QED
      BY <3>1, <3>2
  <2>7. ASSUME NEW c \in Calls, call'[c].step = "ran", call'[c].ok
        PROVE  Applied(call[c].action, call[c].key)'
    BY <1>2, <1>5, <2>4, <2>7 DEF IInv, RouterInv, PeerInv, Applied, AtVps
  <2> QED
    BY <1>2, <2>5, <2>6, <2>7 DEF IInv, RouterInv, PeerInv
<1> QED
  BY <1>11, <1>12, <1>13, <1>14 DEF IInv, RouterInv

\* The outcome of an operation or request releases its router.
LEMMA ReleaseRouter ==
  ASSUME IInv, NEW r \in Routers, NEW s \in {"not_deployed", "deployed", "failed"},
         router' = [router EXCEPT ![r].status = s],
         router[r].exists, abandoned' = abandoned, current' \subseteq current \cup {r},
         DOMAIN ops' = DOMAIN ops,
         \A o \in DOMAIN ops : /\ Working(o)' <=> Working(o) /\ ops[o].router # r
                               /\ ops'[o].router = ops[o].router /\ ops'[o].key = ops[o].key,
         \A c \in Calls : /\ AtVps(c)' <=> AtVps(c) /\ call[c].router # r
                          /\ AtVps(c)' => call'[c] = call[c]
  PROVE  /\ ExclusiveInv' /\ OwnerInv' /\ KeyInv'
         /\ router' \in [Routers -> Router]
         /\ router'[r].status = s /\ router'[r].key = router[r].key
         /\ \A q \in Routers \ {r} : router'[q] = router[q]
<1> DEFINE row == [router[r] EXCEPT !.status = s]
<1>1. router[r] \in Router
  BY DEF IInv, TypeOK
<1>2. /\ row \in Router /\ row.status = s
      /\ row.exists = router[r].exists /\ row.key = router[r].key
  BY <1>1 DEF Router
<1>3. router' = [router EXCEPT ![r] = row]
  OBVIOUS
<1> HIDE DEF row
<1>4. /\ router' \in [Routers -> Router]
      /\ router'[r] = row
      /\ \A q \in Routers \ {r} : router'[q] = router[q]
  BY <1>2, <1>3, SetRouter DEF IInv
<1>5. \A q, k : Reserved(q, k) /\ q # r => Reserved(q, k)'
  BY <1>4 DEF Reserved
<1>6. ExclusiveInv'
  <2>1. \A o \in DOMAIN ops : Working(o)' => Reserved(ops[o].router, ops[o].key)'
    BY <1>4 DEF IInv, RouterInv, ExclusiveInv, Reserved
  <2>2. \A c \in Calls : AtVps(c)' => Reserved(call[c].router, call[c].key)'
    BY <1>4 DEF IInv, RouterInv, ExclusiveInv, Reserved
  <2> QED
    BY <2>1, <2>2 DEF IInv, RouterInv, ExclusiveInv
<1>7. OwnerInv'
  BY <1>2, <1>4 DEF IInv, RouterInv, OwnerInv
<1>8. KeyInv'
  <2>1. current \subseteq Routers
    BY DEF IInv, TypeOK
  <2>2. \A q \in Routers : router'[q].exists = router[q].exists /\ router'[q].key = router[q].key
    BY <1>2, <1>4
  <2> QED
    BY <2>1, <2>2 DEF IInv, RouterInv, KeyInv
<1> QED
  BY <1>2, <1>4, <1>6, <1>7, <1>8

\* A worker that lets go, and nothing else.
LEMMA LetGo ==
  ASSUME IInv, NEW w \in Workers, worker' = [worker EXCEPT ![w] = IdleWorker],
         UNCHANGED <<router, ops, call, seen, peers, overrun, abandoned, current>>,
         faults' \in 0 .. MaxFaults
  PROVE  IInv'
<1>1. /\ worker' \in [Workers -> WorkerRecord]
      /\ worker'[w] = IdleWorker
      /\ \A v \in Workers \ {w} : worker'[v] = worker[v]
  BY NullRows, SetWorker DEF IInv
<1>2. IdleWorker.step = "idle" /\ IdleWorker.op = 0
  BY DEF IdleWorker
<1>3. TypeOK'
  BY <1>1 DEF IInv, TypeOK
<1>4. WorkInv'
  BY <1>1, <1>2 DEF IInv, WorkInv, HoldInv, FreshInv, CallInv
<1>5. ExclusiveInv' /\ OwnerInv' /\ KeyInv'
  BY SameWork DEF Working, AtVps
<1>6. PeerInv'
  BY <1>1, <1>2 DEF IInv, RouterInv, PeerInv, Applied
<1> QED
  BY <1>3, <1>4, <1>5, <1>6 DEF IInv, RouterInv

LEMMA FinishStep ==
  ASSUME IInv, NEW w \in Workers, Finish(w)
  PROVE  IInv'
<1>1. /\ worker' = [worker EXCEPT ![w] = IdleWorker] /\ worker[w].step = "ran"
      /\ UNCHANGED <<call, seen, peers, faults, overrun, abandoned>>
  BY DEF Finish, env
<1>2. CASE Superseded(w)
  BY <1>1, <1>2, LetGo DEF Finish, IInv, TypeOK
<1>3. CASE ~Superseded(w)
  <2>1. PICK o \in DOMAIN ops, r \in Routers, ok \in BOOLEAN :
          /\ o = worker[w].op /\ r = ops[o].router /\ ok = worker[w].ok
          /\ Working(o) /\ ops[o] \in Op
    <3>1. worker[w].op \in DOMAIN ops /\ Working(worker[w].op)
      BY <1>1, <1>3, HeldOp
    <3>2. ops[worker[w].op] \in Op /\ worker[w] \in WorkerRecord
      BY <3>1, OpRows DEF IInv, TypeOK
    <3> QED
      BY <3>1, <3>2 DEF Op, WorkerRecord
  <2>2. PICK s \in {"not_deployed", "deployed", "failed"} : s = Outcome(ops[o].action, ok)
    BY DEF Outcome
  <2>3. /\ ops' = [ops EXCEPT ![o].status = IF ok THEN "succeeded" ELSE "failed"]
        /\ router' = [router EXCEPT ![r].status = s]
        /\ current' = NowCurrent(r, ok)
    BY <1>3, <2>1, <2>2 DEF Finish, SetStatus
  <2> DEFINE row == [ops[o] EXCEPT !.status = IF ok THEN "succeeded" ELSE "failed"]
  <2>4. /\ row \in Op /\ row.router = ops[o].router /\ row.key = ops[o].key
        /\ row.action = ops[o].action /\ row.attempts = ops[o].attempts
        /\ row.expired = ops[o].expired /\ row.status \notin Live
    BY <2>1 DEF Op, Live
  <2>5. ops' = [ops EXCEPT ![o] = row]
    BY <2>3
  <2> HIDE DEF row
  <2>6. /\ ops' \in Seq(Op) /\ Len(ops') = Len(ops) /\ DOMAIN ops' = DOMAIN ops
        /\ ops'[o] = row
        /\ \A i \in DOMAIN ops \ {o} : ops'[i] = ops[i]
    BY <2>4, <2>5, SetOp DEF IInv
  <2>7. \A i \in DOMAIN ops :
          /\ ops'[i].router = ops[i].router /\ ops'[i].key = ops[i].key
          /\ ops'[i].action = ops[i].action /\ ops'[i].attempts = ops[i].attempts
          /\ ops'[i].expired = ops[i].expired
    BY <2>4, <2>6
  <2>8. /\ worker' \in [Workers -> WorkerRecord]
        /\ worker'[w] = IdleWorker
        /\ \A v \in Workers \ {w} : worker'[v] = worker[v]
    BY <1>1, NullRows, SetWorker DEF IInv
  <2>9. IdleWorker.step = "idle" /\ IdleWorker.op = 0
    BY DEF IdleWorker
  <2>10. Reserved(r, ops[o].key)
    BY <2>1 DEF IInv, RouterInv, ExclusiveInv
  <2>11. \A i \in DOMAIN ops : Working(i)' <=> Working(i) /\ ops[i].router # r
    BY <2>1, <2>4, <2>6 DEF Working, IInv, RouterInv, ExclusiveInv
  <2>12. \A c \in Calls : AtVps(c)' <=> AtVps(c) /\ call[c].router # r
    BY <1>1, <2>1 DEF AtVps, IInv, RouterInv, ExclusiveInv
  <2>13. current' \subseteq current \cup {r} /\ (r \in current' => ok)
    BY <2>3 DEF NowCurrent
  <2>14. /\ ExclusiveInv' /\ OwnerInv' /\ KeyInv'
         /\ router' \in [Routers -> Router]
         /\ router'[r].status = s /\ router'[r].key = router[r].key
         /\ \A q \in Routers \ {r} : router'[q] = router[q]
    BY <1>1, <2>3, <2>6, <2>7, <2>10, <2>11, <2>12, <2>13, ReleaseRouter DEF Reserved
  <2>15. current \subseteq Routers /\ current' \subseteq Routers
    BY <2>13 DEF IInv, TypeOK
  <2>16. TypeOK'
    BY <1>1, <2>6, <2>8, <2>14, <2>15 DEF IInv, TypeOK
  <2>17. \A v \in Workers : worker'[v].step # "idle" =>
           /\ v # w /\ worker[v].step # "idle" /\ worker'[v] = worker[v]
           /\ worker[v].op \in DOMAIN ops
           /\ worker[v].op = o => worker[v].attempts # ops[o].attempts
    <3> TAKE v \in Workers
    <3> HAVE worker'[v].step # "idle"
    <3>1. v # w /\ worker[v].step # "idle" /\ worker'[v] = worker[v]
      BY <2>8, <2>9
    <3>2. worker[w].attempts = ops[o].attempts
      BY <1>3, <2>1 DEF Superseded
    <3> QED
      BY <1>1, <2>1, <3>1, <3>2 DEF IInv, WorkInv, HoldInv
  <2>18. HoldInv'
    <3>1. ASSUME NEW v \in Workers, worker'[v].step # "idle"
          PROVE  /\ worker'[v].op \in DOMAIN ops'
                 /\ worker'[v].attempts <= ops'[worker'[v].op].attempts
                 /\ worker'[v].attempts = ops'[worker'[v].op].attempts
                      => ops'[worker'[v].op].status = "running"
      BY <2>6, <2>7, <2>17, <3>1 DEF IInv, WorkInv, HoldInv
    <3>2. \A v \in Workers : worker'[v].step = "idle" => worker'[v].op = 0
      BY <2>8, <2>9 DEF IInv, WorkInv, HoldInv
    <3>3. \A u, v \in Workers :
            /\ worker'[u].step # "idle" /\ worker'[v].step # "idle"
            /\ worker'[u].op = worker'[v].op /\ worker'[u].attempts = worker'[v].attempts
            => u = v
      BY <2>17 DEF IInv, WorkInv, HoldInv
    <3> QED
      BY <3>1, <3>2, <3>3 DEF HoldInv
  <2>19. FreshInv'
    BY <1>1, <2>7, <2>17 DEF IInv, WorkInv, FreshInv
  <2>20. CallInv'
    BY <1>1 DEF IInv, WorkInv, CallInv
  <2>21. PeerInv'
    <3> SUFFICES ASSUME ~overrun PROVE PeerInv'
      BY <1>1 DEF PeerInv
    <3>1. \A v \in Workers : worker'[v].step = "ran" /\ worker'[v].ok =>
            Applied(ops'[worker'[v].op].action, ops'[worker'[v].op].key)
      BY <2>7, <2>17 DEF IInv, RouterInv, PeerInv
    <3>2. ok => /\ s = "deployed" => ops[o].key \in peers
                /\ s = "not_deployed" => ops[o].key \notin peers
      BY <1>1, <2>1, <2>2 DEF IInv, RouterInv, PeerInv, Applied, Outcome
    <3>3. \A q \in current' : /\ router'[q].status = "deployed" => router'[q].key \in peers
                              /\ router'[q].status = "not_deployed" => router'[q].key \notin peers
      BY <2>10, <2>13, <2>14, <2>15, <3>2 DEF IInv, RouterInv, PeerInv, Reserved
    <3> QED
      BY <1>1, <3>1, <3>3 DEF IInv, RouterInv, PeerInv, Applied
  <2> QED
    BY <2>14, <2>16, <2>18, <2>19, <2>20, <2>21 DEF IInv, WorkInv, RouterInv
<1> QED
  BY <1>2, <1>3

LEMMA CrashWorkerStep ==
  ASSUME IInv, NEW w \in Workers, CrashWorker(w)
  PROVE  IInv'
<1>1. faults' \in 0 .. MaxFaults
  BY BoundAssumption DEF CrashWorker, IInv, TypeOK
<1> QED
  BY <1>1, LetGo DEF CrashWorker

LEMMA ExpireLeaseStep ==
  ASSUME IInv, NEW o \in DOMAIN ops, ExpireLease(o)
  PROVE  IInv'
<1> DEFINE row == [ops[o] EXCEPT !.expired = TRUE]
           held == \E w \in Workers : worker[w].op = o /\ ~Superseded(w)
<1>1. ops[o] \in Op
  BY OpRows DEF IInv
<1>2. /\ row \in Op /\ row.router = ops[o].router /\ row.key = ops[o].key
      /\ row.action = ops[o].action /\ row.attempts = ops[o].attempts
      /\ row.status = ops[o].status
  BY <1>1 DEF Op
<1>3. /\ ops' = [ops EXCEPT ![o] = row]
      /\ held => faults < MaxFaults
      /\ faults' = IF held THEN faults + 1 ELSE faults
      /\ overrun' = (overrun \/ held)
      /\ UNCHANGED <<router, worker, call, seen, peers, abandoned, current>>
  BY DEF ExpireLease
<1> HIDE DEF row
<1>4. /\ ops' \in Seq(Op) /\ Len(ops') = Len(ops) /\ DOMAIN ops' = DOMAIN ops
      /\ ops'[o] = row
      /\ \A i \in DOMAIN ops \ {o} : ops'[i] = ops[i]
  BY <1>2, <1>3, SetOp DEF IInv
<1>5. \A i \in DOMAIN ops :
        /\ ops'[i].router = ops[i].router /\ ops'[i].key = ops[i].key
        /\ ops'[i].action = ops[i].action /\ ops'[i].attempts = ops[i].attempts
        /\ ops'[i].status = ops[i].status
  BY <1>2, <1>4
<1>6. ~overrun' => \A w \in Workers : worker[w].step # "idle" => worker[w].op # o
  BY <1>3, HeldOp
<1>7. faults' \in 0 .. MaxFaults /\ overrun' \in BOOLEAN
  BY <1>3, BoundAssumption DEF IInv, TypeOK
<1> HIDE DEF held
<1>8. TypeOK'
  BY <1>3, <1>4, <1>7 DEF IInv, TypeOK
<1>9. HoldInv' /\ CallInv'
  BY <1>3, <1>4, <1>5 DEF IInv, WorkInv, HoldInv, CallInv
<1>10. FreshInv'
  BY <1>3, <1>4, <1>6, HeldOp DEF IInv, WorkInv, FreshInv
<1>11. ExclusiveInv' /\ OwnerInv' /\ KeyInv'
  BY <1>3, <1>4, <1>5, SameWork DEF Working, AtVps
<1>12. PeerInv'
  <2>1. \A w \in Workers : worker[w].step # "idle" => worker[w].op \in DOMAIN ops
    BY HeldOp
  <2>2. ~overrun' => ~overrun
    BY <1>3
  <2>3. ASSUME ~overrun', NEW w \in Workers, worker'[w].step = "ran", worker'[w].ok
        PROVE  Applied(ops[worker[w].op].action, ops[worker[w].op].key)'
    BY <1>3, <1>5, <2>1, <2>2, <2>3 DEF IInv, RouterInv, PeerInv, Applied
  <2> QED
    BY <1>3, <2>2, <2>3 DEF IInv, RouterInv, PeerInv, Applied
<1> QED
  BY <1>8, <1>9, <1>10, <1>11, <1>12 DEF IInv, WorkInv, RouterInv

-----------------------------------------------------------------------------
(* Internal requests.                                                      *)

\* A request's record is replaced.
LEMMA SetCall ==
  ASSUME TypeOK, NEW c \in Calls, NEW record \in CallRecord,
         call' = [call EXCEPT ![c] = record]
  PROVE  /\ call' \in [Calls -> CallRecord]
         /\ call'[c] = record
         /\ \A d \in Calls \ {c} : call'[d] = call[d]
BY DEF TypeOK

\* Workers and operations are untouched by internal requests.
LEMMA WorkersKept ==
  ASSUME IInv, UNCHANGED <<ops, worker, overrun>>
  PROVE  HoldInv' /\ FreshInv'
BY DEF IInv, WorkInv, HoldInv, FreshInv

\* A request whose record is not of the SSH call's steps, before and after.
LEMMA QuietCall ==
  ASSUME IInv, NEW c \in Calls, NEW record \in CallRecord,
         call' = [call EXCEPT ![c] = record], ~AtVps(c),
         record.step \in {"idle", "recorded"},
         record.step = "recorded" => record.router \in Routers /\ record.key \in Keys,
         UNCHANGED <<router, ops, worker, peers, overrun, abandoned, current>>,
         faults' \in 0 .. MaxFaults, seen' \subseteq Calls \X Routers
  PROVE  IInv'
<1>1. /\ call' \in [Calls -> CallRecord]
      /\ call'[c] = record
      /\ \A d \in Calls \ {c} : call'[d] = call[d]
  BY SetCall DEF IInv
<1>2. TypeOK'
  BY <1>1 DEF IInv, TypeOK
<1>3. HoldInv' /\ FreshInv'
  BY WorkersKept
<1>4. CallInv'
  BY <1>1 DEF IInv, WorkInv, CallInv
<1>5. ExclusiveInv' /\ OwnerInv' /\ KeyInv'
  BY <1>1, SameWork DEF Working, AtVps
<1>6. PeerInv'
  BY <1>1 DEF IInv, RouterInv, PeerInv, Applied
<1> QED
  BY <1>2, <1>3, <1>4, <1>5, <1>6 DEF IInv, WorkInv, RouterInv

LEMMA SubmitStep ==
  ASSUME IInv, NEW c \in Calls, NEW r \in Routers, NEW action \in Actions, NEW k \in Keys,
         Submit(c, r, action, k)
  PROVE  IInv'
<1> DEFINE record == [step |-> "recorded", router |-> r, action |-> action, key |-> k,
                      ok |-> FALSE]
<1>1. /\ record \in CallRecord /\ record.step = "recorded"
      /\ record.router = r /\ record.key = k
  BY DEF CallRecord
<1>2. /\ call' = [call EXCEPT ![c] = record] /\ ~AtVps(c)
      /\ UNCHANGED <<router, ops, worker, peers, faults, overrun, abandoned, current>>
  BY DEF Submit, env, AtVps
<1>3. seen' \subseteq Calls \X Routers /\ faults' \in 0 .. MaxFaults
  BY <1>2 DEF Submit, IInv, TypeOK
<1> HIDE DEF record
<1> QED
  BY <1>1, <1>2, <1>3, QuietCall

\* A router whose key is taken and that is marked for a request.
LEMMA DispatchStep ==
  ASSUME IInv, NEW c \in Calls, Dispatch(c)
  PROVE  IInv'
<1>1. PICK r \in Routers : r = call[c].router /\ call[c].step = "recorded" /\ call[c].key \in Keys
  BY DEF Dispatch, IInv, WorkInv, CallInv
<1>2. /\ router[r] \in Router /\ call[c] \in CallRecord
      /\ UNCHANGED <<ops, worker, peers, faults, overrun, abandoned>>
  BY DEF Dispatch, IInv, TypeOK, env
<1>3. CASE call' = [call EXCEPT ![c] = IdleCall] /\ Withdraw(c) /\ UNCHANGED <<router, current>>
  <2>1. IdleCall \in CallRecord /\ IdleCall.step = "idle"
    BY NullRows DEF IdleCall
  <2>2. seen' \subseteq Calls \X Routers /\ faults' \in 0 .. MaxFaults
    BY <1>2, <1>3 DEF Withdraw, IInv, TypeOK
  <2> QED
    BY <1>1, <1>2, <1>3, <2>1, <2>2, QuietCall DEF AtVps
<1>4. ASSUME NEW k \in Keys, router[r].exists, ~Busy(r), ~TakenElsewhere(k, r),
             router' = [router EXCEPT ![r] = [@ EXCEPT !.key = k, !.status = "deploying"]],
             current' = IF k = router[r].key THEN current ELSE current \ {r},
             call' = [call EXCEPT ![c] = [@ EXCEPT !.step = "dispatched", !.key = k]],
             seen' = seen
      PROVE  IInv'
  <2> DEFINE row == [router[r] EXCEPT !.key = k, !.status = "deploying"]
             record == [call[c] EXCEPT !.step = "dispatched", !.key = k]
  <2>1. /\ row \in Router /\ row.key = k /\ row.status = "deploying"
        /\ row.exists = router[r].exists
    BY <1>2 DEF Router
  <2>2. /\ record \in CallRecord /\ record.step = "dispatched" /\ record.key = k
        /\ record.router = r
    BY <1>1, <1>2 DEF CallRecord
  <2>3. router' = [router EXCEPT ![r] = row] /\ call' = [call EXCEPT ![c] = record]
    BY <1>4
  <2> HIDE DEF row, record
  <2>4. /\ router' \in [Routers -> Router]
        /\ router'[r] = row
        /\ \A s \in Routers \ {r} : router'[s] = router[s]
    BY <2>1, <2>3, SetRouter DEF IInv
  <2>5. /\ call' \in [Calls -> CallRecord]
        /\ call'[c] = record
        /\ \A d \in Calls \ {c} : call'[d] = call[d]
    BY <2>2, <2>3, SetCall DEF IInv
  <2>6. current' \subseteq current /\ current \subseteq Routers
    BY <1>4 DEF IInv, TypeOK
  <2>7. /\ router[r].status # "deploying"
        /\ \A o \in DOMAIN ops : Working(o) => ops[o].router # r
        /\ \A d \in Calls : AtVps(d) => call[d].router # r
    BY <1>4, BusyRouter
  <2>8. TypeOK'
    BY <1>2, <1>4, <2>4, <2>5, <2>6 DEF IInv, TypeOK
  <2>9. HoldInv' /\ FreshInv'
    BY <1>2, WorkersKept
  <2>10. CallInv'
    BY <2>2, <2>5 DEF IInv, WorkInv, CallInv
  <2>11. AtVps(c)' /\ \A d \in Calls \ {c} : AtVps(d)' <=> AtVps(d)
    BY <2>2, <2>5 DEF AtVps
  <2>12. ExclusiveInv'
    <3>1. \A o \in DOMAIN ops' : Working(o)' => Reserved(ops[o].router, ops[o].key)'
      BY <1>2, <2>4, <2>7 DEF IInv, RouterInv, ExclusiveInv, Reserved, Working
    <3>2. Reserved(call[c].router, call[c].key)'
      BY <1>4, <2>1, <2>2, <2>4, <2>5 DEF Reserved
    <3>3. ASSUME NEW d \in Calls \ {c}, AtVps(d)'
          PROVE  Reserved(call[d].router, call[d].key)'
      BY <2>4, <2>5, <2>7, <2>11, <3>3 DEF IInv, RouterInv, ExclusiveInv, Reserved
    <3> QED
      BY <1>2, <2>2, <2>5, <2>7, <2>11, <3>1, <3>2, <3>3
         DEF IInv, RouterInv, ExclusiveInv, Working
  <2>13. OwnerInv'
    <3>1. ~AtVps(c)
      BY <1>1 DEF AtVps
    <3>2. \A o \in DOMAIN ops : Working(o)' <=> Working(o)
      BY <1>2 DEF Working
    <3>3. call'[c].router = r
      BY <2>2, <2>5
    <3> QED
      BY <1>2, <2>4, <2>5, <2>11, <3>1, <3>2, <3>3 DEF IInv, RouterInv, OwnerInv
  <2>14. KeyInv'
    <3>1. \A s \in Routers : /\ router'[s].exists = router[s].exists
                             /\ s # r => router'[s].key = router[s].key
      BY <2>1, <2>4
    <3>2. router'[r].key = k
      BY <2>1, <2>4
    <3> QED
      BY <1>4, <2>6, <3>1, <3>2, NullAssumption
         DEF IInv, RouterInv, KeyInv, TakenElsewhere
  <2>15. PeerInv'
    BY <1>2, <2>1, <2>2, <2>4, <2>5, <2>6 DEF IInv, RouterInv, PeerInv, Applied
  <2> QED
    BY <2>8, <2>9, <2>10, <2>12, <2>13, <2>14, <2>15 DEF IInv, WorkInv, RouterInv
<1>5. PICK k \in Keys \cup {NoKey} :
        k = IF call[c].action = "provision" THEN call[c].key ELSE router[r].key
  BY <1>1, <1>2 DEF Router
<1>6. CASE ~router[r].exists \/ Busy(r) \/ k = NoKey \/ TakenElsewhere(k, r)
  BY <1>1, <1>3, <1>5, <1>6 DEF Dispatch, Withdraw
<1>7. CASE ~(~router[r].exists \/ Busy(r) \/ k = NoKey \/ TakenElsewhere(k, r))
  <2>1. k \in Keys
    BY <1>7
  <2> QED
    BY <1>1, <1>4, <1>5, <1>7, <2>1 DEF Dispatch
<1> QED
  BY <1>6, <1>7

LEMMA CallSshStep ==
  ASSUME IInv, NEW c \in Calls, CallSsh(c)
  PROVE  IInv'
<1>1. PICK action \in Actions, k \in Keys, r \in Routers :
        /\ action = call[c].action /\ k = call[c].key /\ r = call[c].router
        /\ Reserved(r, k) /\ AtVps(c)
  <2>1. AtVps(c) /\ call[c] \in CallRecord
    BY DEF CallSsh, AtVps, IInv, TypeOK
  <2> QED
    BY <2>1 DEF IInv, RouterInv, ExclusiveInv, Reserved, CallRecord
<1>2. PICK result \in SshResults(action, k) :
        /\ peers' = result[1]
        /\ call' = [call EXCEPT ![c] = [@ EXCEPT !.step = "ran", !.ok = result[2]]]
  BY <1>1 DEF CallSsh
<1>3. UNCHANGED <<router, ops, worker, seen, current, faults, overrun, abandoned>>
  BY DEF CallSsh, env
<1>4. /\ peers' \subseteq Keys /\ result[2] \in BOOLEAN
      /\ result[2] => Applied(action, k)'
      /\ \A l \in Keys \ {k} : l \in peers' <=> l \in peers
  <2>1. peers \subseteq Keys
    BY DEF IInv, TypeOK
  <2> QED
    BY <1>2, <2>1, SshEffect
<1> DEFINE record == [call[c] EXCEPT !.step = "ran", !.ok = result[2]]
<1>5. call[c] \in CallRecord
  BY DEF IInv, TypeOK
<1>6. /\ record \in CallRecord /\ record.step = "ran" /\ record.ok = result[2]
      /\ record.router = r /\ record.action = action /\ record.key = k
  BY <1>1, <1>4, <1>5 DEF CallRecord
<1>7. call' = [call EXCEPT ![c] = record]
  BY <1>2
<1> HIDE DEF record
<1>8. /\ call' \in [Calls -> CallRecord]
      /\ call'[c] = record
      /\ \A d \in Calls \ {c} : call'[d] = call[d]
  BY <1>6, <1>7, SetCall DEF IInv
<1>9. TypeOK'
  BY <1>3, <1>4, <1>8 DEF IInv, TypeOK
<1>10. HoldInv' /\ FreshInv'
  BY <1>3, WorkersKept
<1>11. CallInv'
  BY <1>6, <1>8 DEF IInv, WorkInv, CallInv
<1>12. ExclusiveInv' /\ OwnerInv' /\ KeyInv'
  BY <1>1, <1>3, <1>6, <1>8, SameWork DEF Working, AtVps
<1>13. PeerInv'
  <2> SUFFICES ASSUME ~overrun PROVE PeerInv'
    BY <1>3 DEF PeerInv
  <2>1. \A w \in Workers : worker[w].step # "idle" => ops[worker[w].op].key \in Keys \ {k}
    <3>1. \A w \in Workers : worker[w].step # "idle" => ops[worker[w].op].router # r
      BY <1>1, HeldOp DEF IInv, RouterInv, ExclusiveInv
    <3> QED
      BY <1>1, <3>1, KeysApart
  <2>2. \A d \in Calls \ {c} : AtVps(d) => call[d].key \in Keys \ {k}
    <3>1. \A d \in Calls \ {c} : AtVps(d) => call[d].router # r
      BY <1>1 DEF IInv, RouterInv, ExclusiveInv
    <3> QED
      BY <1>1, <3>1, KeysApart
  <2>3. \A s \in current : router[s].status \in {"deployed", "not_deployed"} =>
          (router[s].key \in peers' <=> router[s].key \in peers)
    <3>1. NoKey \notin peers /\ NoKey \notin peers'
      BY <1>4, NullAssumption DEF IInv, TypeOK
    <3> QED
      BY <1>1, <1>4, <3>1, KeysApart
  <2>4. ASSUME NEW w \in Workers, worker'[w].step = "ran", worker'[w].ok
        PROVE  Applied(ops[worker[w].op].action, ops[worker[w].op].key)'
    BY <1>3, <1>4, <2>1, <2>4 DEF IInv, RouterInv, PeerInv, Applied
  <2>5. ASSUME NEW d \in Calls, call'[d].step = "ran", call'[d].ok
        PROVE  Applied(call[d].action, call[d].key)'
    <3>1. CASE d = c
      BY <1>4, <1>6, <1>8, <2>5, <3>1 DEF Applied
    <3>2. CASE d # c
      BY <1>4, <1>8, <2>2, <2>5, <3>2 DEF IInv, RouterInv, PeerInv, Applied, AtVps
    <3> QED
      BY <3>1, <3>2
  <2> QED
    BY <1>3, <2>3, <2>4, <2>5 DEF IInv, RouterInv, PeerInv
<1> QED
  BY <1>9, <1>10, <1>11, <1>12, <1>13 DEF IInv, WorkInv, RouterInv

LEMMA CompleteCallStep ==
  ASSUME IInv, NEW c \in Calls, CompleteCall(c)
  PROVE  IInv'
<1>1. PICK action \in Actions, k \in Keys, r \in Routers, ok \in BOOLEAN :
        /\ action = call[c].action /\ k = call[c].key /\ r = call[c].router
        /\ ok = call[c].ok /\ call[c].step = "ran" /\ AtVps(c) /\ Reserved(r, k)
  <2>1. AtVps(c) /\ call[c] \in CallRecord /\ call[c].step = "ran"
    BY DEF CompleteCall, AtVps, IInv, TypeOK
  <2> QED
    BY <2>1 DEF IInv, RouterInv, ExclusiveInv, Reserved, CallRecord
<1>2. PICK s \in {"not_deployed", "deployed", "failed"} : s = Outcome(action, ok)
  BY DEF Outcome
<1>3. /\ router' = [router EXCEPT ![r].status = s]
      /\ current' = NowCurrent(r, ok)
      /\ call' = [call EXCEPT ![c] = IdleCall] /\ seen' \subseteq seen
      /\ UNCHANGED <<ops, worker, peers, faults, overrun, abandoned>>
  BY <1>1, <1>2 DEF CompleteCall, SetStatus, Withdraw, env
<1>4. /\ call' \in [Calls -> CallRecord]
      /\ call'[c] = IdleCall
      /\ \A d \in Calls \ {c} : call'[d] = call[d]
  BY <1>3, NullRows, SetCall DEF IInv
<1>5. IdleCall.step = "idle"
  BY DEF IdleCall
<1>6. \A o \in DOMAIN ops : Working(o)' <=> Working(o) /\ ops[o].router # r
  BY <1>1, <1>3 DEF Working, IInv, RouterInv, ExclusiveInv
<1>7. \A d \in Calls : /\ AtVps(d)' <=> AtVps(d) /\ call[d].router # r
                       /\ AtVps(d)' => call'[d] = call[d] /\ d # c
  <2>1. \A d \in Calls \ {c} : AtVps(d) => call[d].router # r
    BY <1>1 DEF IInv, RouterInv, ExclusiveInv
  <2>2. ~AtVps(c)'
    BY <1>4, <1>5 DEF AtVps
  <2> QED
    BY <1>1, <1>4, <2>1, <2>2 DEF AtVps
<1>8. current' \subseteq current \cup {r} /\ (r \in current' => ok)
  BY <1>3 DEF NowCurrent
<1>9. /\ ExclusiveInv' /\ OwnerInv' /\ KeyInv'
      /\ router' \in [Routers -> Router]
      /\ router'[r].status = s /\ router'[r].key = router[r].key
      /\ \A q \in Routers \ {r} : router'[q] = router[q]
  <2>1. /\ DOMAIN ops' = DOMAIN ops /\ router[r].exists
        /\ \A o \in DOMAIN ops : ops'[o].router = ops[o].router /\ ops'[o].key = ops[o].key
    BY <1>1, <1>3 DEF Reserved
  <2>2. abandoned' = abandoned
    BY <1>3
  <2> QED
    BY <1>3, <1>6, <1>7, <1>8, <2>1, <2>2, ReleaseRouter
<1>10. current \subseteq Routers /\ current' \subseteq Routers
  BY <1>8 DEF IInv, TypeOK
<1>11. TypeOK'
  BY <1>3, <1>4, <1>9, <1>10 DEF IInv, TypeOK
<1>12. HoldInv' /\ FreshInv'
  BY <1>3, WorkersKept
<1>13. CallInv'
  BY <1>4, <1>5 DEF IInv, WorkInv, CallInv
<1>14. PeerInv'
  <2> SUFFICES ASSUME ~overrun PROVE PeerInv'
    BY <1>3 DEF PeerInv
  <2>1. ok => /\ s = "deployed" => k \in peers
              /\ s = "not_deployed" => k \notin peers
    BY <1>1, <1>2 DEF IInv, RouterInv, PeerInv, Applied, Outcome
  <2>2. \A q \in current' : /\ router'[q].status = "deployed" => router'[q].key \in peers
                            /\ router'[q].status = "not_deployed" => router'[q].key \notin peers
    BY <1>1, <1>8, <1>9, <1>10, <2>1 DEF IInv, RouterInv, PeerInv, Reserved
  <2>3. \A d \in Calls : call'[d].step = "ran" => d # c
    BY <1>4, <1>5
  <2> QED
    BY <1>3, <1>4, <2>2, <2>3 DEF IInv, RouterInv, PeerInv, Applied
<1> QED
  BY <1>9, <1>11, <1>12, <1>13, <1>14 DEF IInv, WorkInv, RouterInv

\* Only the history tells that a router was left behind.
LEMMA CrashCallStep ==
  ASSUME IInv, NEW c \in Calls, CrashCall(c)
  PROVE  IInv'
<1>1. /\ call' = [call EXCEPT ![c] = IdleCall]
      /\ UNCHANGED <<router, ops, worker, seen, peers, overrun, current>>
  BY DEF CrashCall
<1>2. /\ call' \in [Calls -> CallRecord]
      /\ call'[c] = IdleCall
      /\ \A d \in Calls \ {c} : call'[d] = call[d]
  BY <1>1, NullRows, SetCall DEF IInv
<1>3. IdleCall.step = "idle"
  BY DEF IdleCall
<1>4. /\ faults' \in 0 .. MaxFaults
      /\ abandoned \subseteq abandoned' /\ abandoned' \subseteq Routers
      /\ AtVps(c) => call[c].router \in abandoned'
  <2>1. faults' \in 0 .. MaxFaults
    BY BoundAssumption DEF CrashCall, IInv, TypeOK
  <2>2. call[c].router \in Routers /\ abandoned \subseteq Routers
    BY DEF CrashCall, IInv, WorkInv, CallInv, TypeOK
  <2> QED
    BY <2>1, <2>2 DEF CrashCall, AtVps
<1>5. \A d \in Calls : AtVps(d)' => AtVps(d) /\ d # c
  BY <1>2, <1>3 DEF AtVps
<1>6. TypeOK'
  BY <1>1, <1>2, <1>4 DEF IInv, TypeOK
<1>7. HoldInv' /\ FreshInv'
  BY <1>1, WorkersKept
<1>8. CallInv'
  BY <1>2, <1>3 DEF IInv, WorkInv, CallInv
<1>9. ExclusiveInv'
  BY <1>1, <1>2, <1>5 DEF IInv, RouterInv, ExclusiveInv, Reserved, Working
<1>10. OwnerInv'
  <2> SUFFICES ASSUME NEW r \in Routers, router'[r].status = "deploying"
               PROVE  \/ \E o \in DOMAIN ops' : Working(o)' /\ ops'[o].router = r
                      \/ \E d \in Calls : AtVps(d)' /\ call'[d].router = r
                      \/ r \in abandoned'
    BY DEF OwnerInv
  <2>1. CASE \E o \in DOMAIN ops : Working(o) /\ ops[o].router = r
    BY <1>1, <2>1 DEF Working
  <2>2. CASE \E d \in Calls : AtVps(d) /\ call[d].router = r
    BY <1>2, <1>4, <2>2 DEF AtVps
  <2>3. CASE r \in abandoned
    BY <1>4, <2>3
  <2> QED
    BY <1>1, <2>1, <2>2, <2>3 DEF IInv, RouterInv, OwnerInv
<1>11. KeyInv'
  BY <1>1 DEF IInv, RouterInv, KeyInv
<1>12. PeerInv'
  <2>1. \A d \in Calls : call'[d].step = "ran" => d # c
    BY <1>2, <1>3
  <2> QED
    BY <1>1, <1>2, <2>1 DEF IInv, RouterInv, PeerInv, Applied
<1> QED
  BY <1>6, <1>7, <1>8, <1>9, <1>10, <1>11, <1>12 DEF IInv, WorkInv, RouterInv

-----------------------------------------------------------------------------
(* Theorems.                                                               *)

\* A step that changes nothing of the model.
LEMMA StutterStep == IInv /\ UNCHANGED vars => IInv'
BY DEF vars, env, IInv, TypeOK, WorkInv, HoldInv, FreshInv, CallInv, RouterInv, ExclusiveInv,
       OwnerInv, KeyInv, PeerInv, Working, AtVps, Reserved, Applied

LEMMA InvNext == IInv /\ [Next]_vars => IInv'
<1> SUFFICES ASSUME IInv, Next PROVE IInv'
  BY StutterStep
<1>1. CASE \E r \in Routers : Manager(r)
  <2>1. PICK r \in Routers : Manager(r)
    BY <1>1
  <2> QED
    BY <2>1, CreateRouterStep, EditRouterStep, DeleteRouterStep, RequestOperationStep
       DEF Manager
<1>2. CASE \E w \in Workers : Work(w) \/ CrashWorker(w)
  BY <1>2, ClaimStep, RunSshStep, FinishStep, CrashWorkerStep DEF Work
<1>3. CASE \E o \in DOMAIN ops : ExpireLease(o)
  BY <1>3, ExpireLeaseStep
<1>4. CASE \E c \in Calls : Internal(c) \/ CrashCall(c)
  <2>1. PICK c \in Calls : Internal(c) \/ CrashCall(c)
    BY <1>4
  <2> QED
    BY <2>1, SubmitStep, DispatchStep, CallSshStep, CompleteCallStep, CrashCallStep
       DEF Internal
<1> QED
  BY <1>1, <1>2, <1>3, <1>4 DEF Next

THEOREM Invariant == Spec => []IInv
BY InvInit, InvNext, PTL DEF Spec

\* Every variable keeps its type.
THEOREM TypeCorrect == Spec => []TypeOK
BY Invariant, PTL DEF IInv

\* A set in which all are equal has at most one element.
LEMMA AtMostOne ==
  ASSUME NEW S, \A a, b \in S : a = b
  PROVE  S = {} \/ \E a : S = {a}
OBVIOUS

LEMMA OneAtATime == IInv => OneProvisioningAtATime
<1> SUFFICES ASSUME IInv, NEW r \in Routers
             PROVE  /\ Cardinality(LiveOps(r)) + Cardinality(InFlight(r)) <= 1
                    /\ LiveOps(r) # {} \/ InFlight(r) # {} => router[r].status = "deploying"
  BY DEF OneProvisioningAtATime
<1>1. \A o \in LiveOps(r) : o \in DOMAIN ops /\ Working(o) /\ ops[o].router = r
  BY DEF LiveOps, Working
<1>2. \A c \in InFlight(r) : c \in Calls /\ AtVps(c) /\ call[c].router = r
  BY DEF InFlight, AtVps
<1>3. /\ LiveOps(r) = {} \/ \E o : LiveOps(r) = {o}
      /\ InFlight(r) = {} \/ \E c : InFlight(r) = {c}
      /\ LiveOps(r) = {} \/ InFlight(r) = {}
  <2>1. \A o, i \in LiveOps(r) : o = i
    BY <1>1 DEF IInv, RouterInv, ExclusiveInv
  <2>2. \A c, d \in InFlight(r) : c = d
    BY <1>2 DEF IInv, RouterInv, ExclusiveInv
  <2>3. \A o \in LiveOps(r), c \in InFlight(r) : FALSE
    BY <1>1, <1>2 DEF IInv, RouterInv, ExclusiveInv
  <2> QED
    BY <2>1, <2>2, <2>3, AtMostOne
<1>4. Cardinality(LiveOps(r)) + Cardinality(InFlight(r)) <= 1
  <2>1. Cardinality({}) = 0
    BY FS_EmptySet
  <2>2. \A x : Cardinality({x}) = 1
    BY FS_Singleton
  <2>3. Cardinality(LiveOps(r)) = 0 \/ Cardinality(LiveOps(r)) = 1
    BY <1>3, <2>1, <2>2, Zenon
  <2>4. Cardinality(InFlight(r)) = 0 \/ Cardinality(InFlight(r)) = 1
    BY <1>3, <2>1, <2>2, Zenon
  <2>5. Cardinality(LiveOps(r)) = 0 \/ Cardinality(InFlight(r)) = 0
    BY <1>3, <2>1, Zenon
  <2> QED
    BY <2>3, <2>4, <2>5
<1>5. LiveOps(r) # {} \/ InFlight(r) # {} => router[r].status = "deploying"
  BY <1>1, <1>2 DEF IInv, RouterInv, ExclusiveInv, Reserved
<1> QED
  BY <1>4, <1>5

\* A router has at most one operation or internal request in progress, and shows it.
THEOREM OneProvisioningAlways == Spec => []OneProvisioningAtATime
BY Invariant, OneAtATime, PTL

LEMMA HeldStill == IInv => ConfigurationHeldStill
BY DEF ConfigurationHeldStill, InFlight, IInv, RouterInv, ExclusiveInv, Reserved, Working, AtVps

\* What is being set up on the VPS is what the router's row says.
THEOREM ConfigurationHeldStillAlways == Spec => []ConfigurationHeldStill
BY Invariant, HeldStill, PTL

LEMMA HolderFinishes == IInv => FinishedByItsHolder
BY DEF FinishedByItsHolder, IInv, WorkInv, HoldInv

\* Nobody but the last claimer finishes an operation.
THEOREM FinishedByItsHolderAlways == Spec => []FinishedByItsHolder
BY Invariant, HolderFinishes, PTL

LEMMA StatusTrue == IInv => StatusIsTrue
BY DEF StatusIsTrue, IInv, RouterInv, PeerInv

\* The status an operation or request left is true of the VPS.
THEOREM StatusIsTrueAlways == Spec => []StatusIsTrue
BY Invariant, StatusTrue, PTL

LEMMA DeployingOwned == IInv => DeployingHasOwner
<1> SUFFICES ASSUME IInv, NEW r \in Routers, router[r].status = "deploying"
             PROVE  LiveOps(r) # {} \/ InFlight(r) # {} \/ r \in abandoned
  BY DEF DeployingHasOwner
<1>1. CASE \E o \in DOMAIN ops : Working(o) /\ ops[o].router = r
  BY <1>1 DEF LiveOps, Working
<1>2. CASE \E c \in Calls : AtVps(c) /\ call[c].router = r
  BY <1>2 DEF InFlight, AtVps
<1> QED
  BY <1>1, <1>2 DEF IInv, RouterInv, OwnerInv

\* A router shown as "deploying" is being worked on or was left by a dead request.
THEOREM DeployingHasOwnerAlways == Spec => []DeployingHasOwner
BY Invariant, DeployingOwned, PTL

-----------------------------------------------------------------------------
(* The tables around the provisioning.                                     *)

\* Onboarding does to routers, operations and peers what provisioning does.
LEMMA ProvisioningStep == [OnboardingNext]_allvars => [Next]_vars
<1> SUFFICES ASSUME OnboardingNext PROVE [Next]_vars
  BY DEF allvars, vars, env
<1>1. ASSUME NEW m \in Managers, Manage(m) PROVE [Next]_vars
  BY <1>1 DEF Manage, Fetch, Move, ReplaceSecret, Test, Forget
<1>2. ASSUME NEW r \in Routers, Configure(r) PROVE Next
  BY <1>2 DEF Configure, Edit, Create, Queue, Delete, Next, Manager
<1>3. ASSUME NEW w \in Workers, RecordOutcome(w) PROVE Next
  BY <1>3 DEF RecordOutcome, Next, Work
<1>4. ASSUME NEW c \in Calls, Mark(c) \/ RecordCall(c) PROVE Next
  BY <1>4 DEF Mark, RecordCall, Next, Internal
<1>5. CASE Elsewhere
  BY <1>5 DEF Elsewhere, Next, Work, Internal
<1>6. ASSUME NEW a, NEW s, ReplaceElsewhere(a, s) PROVE [Next]_vars
  BY <1>6 DEF ReplaceElsewhere
<1> QED
  BY <1>1, <1>2, <1>3, <1>4, <1>5, <1>6 DEF OnboardingNext

\* A version that is not outdated is the router's.
TrueCopy(m) ==
  copy[m] # NoCopy /\ copy[m].version # Outdated => copy[m].version = VersionOf(copy[m].router)
CopyInv == \A m \in Managers : TrueCopy(m)

\* What is on record for a router that nobody is working on, and for none.
CheckInv == \A r \in Routers :
  IF router[r].exists
  THEN router[r].status # "deploying" /\ r \notin blind =>
         (check[r] = "passed" <=> router[r].status = "deployed")
  ELSE check[r] # "passed" /\ trail[r] = <<>>

TableInv == /\ OnboardingTypeOK
            /\ CopyInv
            /\ NasRowFollowsSecret
            /\ CheckInv
            /\ TrailLeadsToState

OInv == IInv /\ TableInv

\* What the events of r tell of its state.
Path(r) ==
  /\ \A i \in Moves(r) : LET e == trail[r][i] IN
                          StandsAt(r, i, e.from) /\ e.to \in Transitions[e.from]
  /\ StandsAt(r, Len(trail[r]) + 1, sheet[r].state)

LEMMA PathOfTrail == TrailLeadsToState <=> \A r \in Routers : router[r].exists => Path(r)
BY DEF TrailLeadsToState, Path

LEMMA PathStarts ==
  ASSUME NEW r \in Routers, trail'[r] = <<>>, sheet'[r].state = "pending"
  PROVE  Path(r)'
BY DEF Path, StandsAt, Moves

LEMMA PathKept ==
  ASSUME NEW r \in Routers, Path(r), trail'[r] = trail[r], sheet'[r].state = sheet[r].state
  PROVE  Path(r)'
BY DEF Path, StandsAt, Moves

\* An event is added: the transitions before the older ones stay the same.
LEMMA EarlierKept ==
  ASSUME OnboardingTypeOK, NEW r \in Routers, NEW e \in Event, trail'[r] = Append(trail[r], e)
  PROVE  /\ Len(trail[r]) \in Nat /\ Len(trail'[r]) = Len(trail[r]) + 1
         /\ \A i \in DOMAIN trail[r] : trail'[r][i] = trail[r][i]
         /\ trail'[r][Len(trail[r]) + 1] = e
         /\ DOMAIN trail[r] = 1 .. Len(trail[r])
         /\ DOMAIN trail'[r] = 1 .. Len(trail[r]) + 1
         /\ \A i \in 1 .. Len(trail[r]) + 1 :
              {j \in Moves(r)' : j < i} = {j \in Moves(r) : j < i}
<1>1. trail[r] \in Seq(Event)
  BY DEF OnboardingTypeOK
<1>2. /\ Len(trail[r]) \in Nat /\ Len(trail'[r]) = Len(trail[r]) + 1
      /\ \A i \in DOMAIN trail[r] : trail'[r][i] = trail[r][i]
      /\ trail'[r][Len(trail[r]) + 1] = e
      /\ DOMAIN trail[r] = 1 .. Len(trail[r])
      /\ DOMAIN trail'[r] = 1 .. Len(trail[r]) + 1
  BY <1>1
<1>3. ASSUME NEW i \in 1 .. Len(trail[r]) + 1
      PROVE  {j \in Moves(r)' : j < i} = {j \in Moves(r) : j < i}
  BY <1>2, <1>3 DEF Moves
<1> QED
  BY <1>2, <1>3

LEMMA StandsAtKept ==
  ASSUME OnboardingTypeOK, NEW r \in Routers, NEW e \in Event, trail'[r] = Append(trail[r], e),
         NEW i \in 1 .. Len(trail[r]) + 1, NEW s
  PROVE  StandsAt(r, i, s)' <=> StandsAt(r, i, s)
<1>1. {j \in Moves(r)' : j < i} = {j \in Moves(r) : j < i}
  BY EarlierKept
<1>2. \A j \in Moves(r) : trail'[r][j] = trail[r][j]
  BY EarlierKept DEF Moves
<1> QED
  BY <1>1, <1>2 DEF StandsAt

\* A transition from the state the router is in goes on with its path.
LEMMA PathMoves ==
  ASSUME OnboardingTypeOK, NEW r \in Routers, NEW e \in Event, trail'[r] = Append(trail[r], e),
         Path(r), e.action = "manual_transition", e.from = sheet[r].state,
         e.to \in Transitions[e.from], sheet'[r].state = e.to
  PROVE  Path(r)'
<1> DEFINE n == Len(trail[r])
<1>1. /\ n \in Nat /\ Len(trail'[r]) = n + 1
      /\ \A i \in DOMAIN trail[r] : trail'[r][i] = trail[r][i]
      /\ trail'[r][n + 1] = e
      /\ DOMAIN trail[r] = 1 .. n
      /\ DOMAIN trail'[r] = 1 .. n + 1
  BY EarlierKept
<1>2. ASSUME NEW i \in Moves(r)'
      PROVE  StandsAt(r, i, trail[r][i].from)' /\ trail'[r][i].to \in Transitions[trail'[r][i].from]
  <2>1. i \in 1 .. n + 1 /\ (i # n + 1 => i \in Moves(r) /\ trail'[r][i] = trail[r][i])
    BY <1>1, <1>2 DEF Moves
  <2>2. CASE i = n + 1
    <3>1. StandsAt(r, n + 1, e.from)
      BY DEF Path
    <3>2. StandsAt(r, i, trail'[r][i].from)
      BY <1>1, <2>2, <3>1
    <3> QED
      BY <1>1, <2>1, <2>2, <3>2, StandsAtKept
  <2>3. CASE i # n + 1
    <3>1. StandsAt(r, i, trail'[r][i].from) /\ trail[r][i].to \in Transitions[trail[r][i].from]
      BY <2>1, <2>3 DEF Path
    <3> QED
      BY <2>1, <2>3, <3>1, StandsAtKept
  <2> QED
    BY <2>2, <2>3
<1>3. StandsAt(r, Len(trail[r]) + 1, sheet[r].state)'
  <2>1. n + 1 \in {j \in Moves(r)' : j < n + 2}
    BY <1>1 DEF Moves
  <2>2. \A j \in {j \in Moves(r)' : j < n + 2} : j <= n + 1
    BY <1>1 DEF Moves
  <2>3. trail'[r][n + 1].to = sheet'[r].state /\ Len(trail'[r]) + 1 = n + 2
    BY <1>1
  <2> QED
    BY <2>1, <2>2, <2>3 DEF StandsAt
<1> QED
  BY <1>2, <1>3 DEF Path

\* Another event is no step of the path.
LEMMA PathTested ==
  ASSUME OnboardingTypeOK, NEW r \in Routers, NEW e \in Event, trail'[r] = Append(trail[r], e),
         Path(r), e.action # "manual_transition", sheet'[r].state = sheet[r].state
  PROVE  Path(r)'
<1> DEFINE n == Len(trail[r])
<1>1. /\ n \in Nat /\ Len(trail'[r]) = n + 1
      /\ \A i \in DOMAIN trail[r] : trail'[r][i] = trail[r][i]
      /\ trail'[r][n + 1] = e
      /\ DOMAIN trail[r] = 1 .. n
      /\ DOMAIN trail'[r] = 1 .. n + 1
  BY EarlierKept
<1>2. Moves(r)' = Moves(r)
  BY <1>1 DEF Moves
<1>3. ASSUME NEW i \in Moves(r)'
      PROVE  StandsAt(r, i, trail[r][i].from)' /\ trail'[r][i].to \in Transitions[trail'[r][i].from]
  <2>1. i \in 1 .. n + 1 /\ i \in Moves(r) /\ trail'[r][i] = trail[r][i]
    BY <1>1, <1>2, <1>3 DEF Moves
  <2>2. StandsAt(r, i, trail'[r][i].from) /\ trail[r][i].to \in Transitions[trail[r][i].from]
    BY <2>1 DEF Path
  <2> QED
    BY <2>1, <2>2, StandsAtKept
<1>4. StandsAt(r, Len(trail[r]) + 1, sheet[r].state)'
  <2>1. {j \in Moves(r)' : j < n + 2} = {j \in Moves(r) : j < n + 1}
    BY <1>1, <1>2 DEF Moves
  <2>2. \A j \in Moves(r) : trail'[r][j] = trail[r][j]
    BY <1>1 DEF Moves
  <2>3. StandsAt(r, n + 1, sheet'[r].state) /\ Len(trail'[r]) + 1 = n + 2
    BY <1>1 DEF Path
  <2> QED
    BY <2>1, <2>2, <2>3 DEF StandsAt
<1> QED
  BY <1>3, <1>4 DEF Path

-----------------------------------------------------------------------------
(* Copies and versions.                                                    *)

LEMMA NoCopyApart ==
  ASSUME OnboardingTypeOK, NEW m \in Managers, copy[m] # NoCopy
  PROVE  /\ copy[m] \in Copy /\ copy[m].router \in Routers
         /\ copy[m].state \in States
BY DEF OnboardingTypeOK, Copy

LEMMA VersionTyped ==
  ASSUME TypeOK, OnboardingTypeOK, NEW r \in Routers
  PROVE  VersionOf(r) \in Version
BY DEF TypeOK, OnboardingTypeOK, VersionOf, Version, Router

\* A copy that is kept or dropped stays true while its router's version does.
LEMMA TrueCopyKept ==
  ASSUME NEW m \in Managers, NEW q \in Routers, TrueCopy(m), copy[m].router = q,
         copy'[m] = copy[m], VersionOf(q)' = VersionOf(q)
  PROVE  TrueCopy(m)'
BY DEF TrueCopy, VersionOf

\* A save outdates the copies of its router, and of no other.
LEMMA SavedCopies ==
  ASSUME OnboardingTypeOK, CopyInv, NEW r \in Routers, NEW done \in SUBSET Managers,
         Saved(r, done), \A s \in Routers \ {r} : VersionOf(s)' = VersionOf(s)
  PROVE  copy' \in [Managers -> Copy \cup {NoCopy}] /\ CopyInv'
<1>1. ASSUME NEW m \in Managers
      PROVE  copy'[m] \in Copy \cup {NoCopy} /\ TrueCopy(m)'
  <2>1. CASE m \in done
    BY <2>1 DEF Saved, TrueCopy
  <2>2. CASE m \notin done /\ copy[m].router = r
    <3>1. copy[m] # NoCopy
      BY <2>2, NullAssumption DEF NoCopy
    <3>2. copy[m] \in Copy /\ copy'[m] = [copy[m] EXCEPT !.version = Outdated]
      BY <2>2, <3>1, NoCopyApart DEF Saved
    <3>3. copy'[m] \in Copy /\ copy'[m].version = Outdated
      BY <3>2 DEF Copy
    <3> QED
      BY <3>3 DEF TrueCopy
  <2>3. CASE m \notin done /\ copy[m].router # r
    <3>1. copy'[m] = copy[m]
      BY <2>3 DEF Saved
    <3>2. CASE copy[m] = NoCopy
      BY <3>1, <3>2 DEF TrueCopy
    <3>3. CASE copy[m] # NoCopy
      <4>1. copy[m] \in Copy /\ copy[m].router \in Routers \ {r}
        BY <2>3, <3>3, NoCopyApart
      <4>2. PICK q \in Routers \ {r} : q = copy[m].router
        BY <4>1
      <4>3. TrueCopy(m)'
        BY <3>1, <4>2, TrueCopyKept DEF CopyInv
      <4> QED
        BY <3>1, <4>1, <4>3
    <3> QED
      BY <3>2, <3>3
  <2> QED
    BY <2>1, <2>2, <2>3
<1>2. copy' \in [Managers -> Copy \cup {NoCopy}]
  BY <1>1 DEF Saved
<1> QED
  BY <1>1, <1>2 DEF CopyInv

\* Copies that are kept or dropped stay true while no version changes.
LEMMA SameVersions ==
  ASSUME OnboardingTypeOK, CopyInv, \A r \in Routers : VersionOf(r)' = VersionOf(r),
         \A m \in Managers : copy'[m] = copy[m] \/ copy'[m] = NoCopy
  PROVE  CopyInv'
<1> SUFFICES ASSUME NEW m \in Managers PROVE TrueCopy(m)'
  BY DEF CopyInv
<1>1. CASE copy'[m] = NoCopy
  BY <1>1 DEF TrueCopy
<1>2. CASE copy'[m] # NoCopy
  <2>1. copy'[m] = copy[m] /\ copy[m].router \in Routers
    BY <1>2, NoCopyApart
  <2>2. PICK q \in Routers : q = copy[m].router
    BY <2>1
  <2> QED
    BY <2>1, <2>2, TrueCopyKept DEF CopyInv
<1> QED
  BY <1>1, <1>2

\* Only the copy of one manager's request is dropped.
LEMMA DoneCopies ==
  ASSUME OnboardingTypeOK, NEW m \in Managers, Done(m)
  PROVE  /\ copy' \in [Managers -> Copy \cup {NoCopy}]
         /\ \A n \in Managers : copy'[n] = copy[n] \/ copy'[n] = NoCopy
BY DEF OnboardingTypeOK, Done

-----------------------------------------------------------------------------
(* One router's rows change, the others' stay.                             *)

NasOK(r) == router[r].exists /\ r \notin behind => nas[Address(r)] = sheet[r].secret

CheckOK(r) ==
  IF router[r].exists
  THEN router[r].status # "deploying" /\ r \notin blind =>
         (check[r] = "passed" <=> router[r].status = "deployed")
  ELSE check[r] # "passed" /\ trail[r] = <<>>

TrailOK(r) == router[r].exists => Path(r)

\* The invariant, row by row.
LEMMA ByRow ==
  TableInv <=> /\ OnboardingTypeOK /\ CopyInv
               /\ \A r \in Routers : NasOK(r) /\ CheckOK(r) /\ TrailOK(r)
BY PathOfTrail DEF TableInv, NasRowFollowsSecret, CheckInv, NasOK, CheckOK, TrailOK

LEMMA ByRowNext ==
  ASSUME OnboardingTypeOK', CopyInv',
         \A r \in Routers : NasOK(r)' /\ CheckOK(r)' /\ TrailOK(r)'
  PROVE  TableInv'
<1>1. NasRowFollowsSecret'
  BY DEF NasRowFollowsSecret, NasOK
<1>2. CheckInv'
  BY DEF CheckInv, CheckOK
<1>3. TrailLeadsToState'
  BY DEF TrailLeadsToState, TrailOK, Path
<1> QED
  BY <1>1, <1>2, <1>3 DEF TableInv

LEMMA RowKept ==
  ASSUME NEW r \in Routers, NasOK(r), CheckOK(r), TrailOK(r),
         router'[r] = router[r], sheet'[r] = sheet[r], trail'[r] = trail[r],
         check'[r] = check[r], nas'[Address(r)] = nas[Address(r)],
         r \in behind' <=> r \in behind, r \in blind' <=> r \in blind
  PROVE  NasOK(r)' /\ CheckOK(r)' /\ TrailOK(r)'
<1>1. Path(r) => Path(r)'
  BY PathKept
<1> QED
  BY <1>1 DEF NasOK, CheckOK, TrailOK, Address

LEMMA AddressTyped ==
  ASSUME TypeOK, OnboardingTypeOK, NEW r \in Routers
  PROVE  Address(r) \in Addresses \cup Keys
BY DEF TypeOK, OnboardingTypeOK, Router, Sheet, Address

\* A secret is registered: of the routers with that address that have another secret
\* it is noted, the others' row is what it was or is their secret.
LEMMA Registered ==
  ASSUME IInv, OnboardingTypeOK, NEW a \in Addresses \cup Keys, NEW s \in Secrets,
         nas' = [nas EXCEPT ![a] = s], NEW q \in Routers, NasOK(q), router'[q] = router[q],
         sheet'[q] = sheet[q], q \notin behind' => q \notin behind \cup Overwritten(a, s)
  PROVE  NasOK(q)'
<1>1. Address(q)' = Address(q)
  BY DEF Address
<1>2. CASE ~router[q].exists \/ q \in behind'
  BY <1>2 DEF NasOK
<1>3. CASE router[q].exists /\ q \notin behind' /\ Address(q) = a
  <2>1. sheet[q].secret = s /\ nas'[a] = s
    BY <1>3 DEF Overwritten, OnboardingTypeOK
  <2> QED
    BY <1>1, <1>3, <2>1 DEF NasOK
<1>4. CASE router[q].exists /\ q \notin behind' /\ Address(q) # a
  <2>1. Address(q) \in Addresses \cup Keys
    BY AddressTyped DEF IInv
  <2>2. nas'[Address(q)] = nas[Address(q)]
    BY <1>4, <2>1 DEF OnboardingTypeOK
  <2> QED
    BY <1>1, <1>4, <2>2 DEF NasOK
<1> QED
  BY <1>2, <1>3, <1>4

-----------------------------------------------------------------------------
(* Every step keeps the tables.                                            *)

LEMMA TableInit == OnboardingInit => TableInv
<1> SUFFICES ASSUME OnboardingInit PROVE TableInv
  OBVIOUS
<1>1. OnboardingTypeOK
  <2>1. sheet \in [Routers -> Sheet]
    BY DEF OnboardingInit, Sheet, States, Transitions
  <2>2. trail \in [Routers -> Seq(Event)]
    BY DEF OnboardingInit
  <2> QED
    BY <2>1, <2>2 DEF OnboardingTypeOK, OnboardingInit, Check
<1>2. CopyInv
  BY DEF CopyInv, TrueCopy, OnboardingInit
<1>3. ASSUME NEW r \in Routers PROVE NasOK(r) /\ CheckOK(r) /\ TrailOK(r)
  <2>1. ~router[r].exists /\ trail[r] = <<>> /\ check[r] = "none"
    BY DEF OnboardingInit, Init, NewRouter
  <2> QED
    BY <2>1 DEF NasOK, CheckOK, TrailOK
<1> QED
  BY <1>1, <1>2, <1>3, ByRow

LEMMA CreateTables ==
  ASSUME IInv, TableInv, NEW r \in Routers, NEW k \in Keys \cup {NoKey},
         NEW active \in BOOLEAN, NEW s \in Secrets, NEW ip \in Addresses,
         Create(r, k, active, s, ip)
  PROVE  TableInv'
<1>1. /\ ~router[r].exists
      /\ router'[r] = NewRouter(k, active)
      /\ \A q \in Routers \ {r} : router'[q] = router[q]
  BY DEF Create, CreateRouter, IInv, TypeOK
<1>2. /\ sheet' \in [Routers -> Sheet] /\ sheet'[r] = NewSheet(s, ip)
      /\ \A q \in Routers \ {r} : sheet'[q] = sheet[q]
  BY DEF Create, TableInv, OnboardingTypeOK, NewSheet, Sheet, States, Transitions
<1>3. OnboardingTypeOK'
  BY <1>2 DEF Create, TableInv, OnboardingTypeOK
<1>4. ASSUME NEW m \in Managers PROVE TrueCopy(m)'
  <2>1. CASE copy[m] = NoCopy
    BY <2>1 DEF Create, TrueCopy
  <2>2. CASE copy[m] # NoCopy
    <3>1. copy[m].router \in Routers \ {r} /\ copy'[m] = copy[m]
      BY <2>2, NoCopyApart DEF Create, TableInv
    <3>2. PICK q \in Routers \ {r} : q = copy[m].router
      BY <3>1
    <3>3. VersionOf(q)' = VersionOf(q)
      BY <1>1, <1>2 DEF VersionOf
    <3> QED
      BY <3>1, <3>2, <3>3, TrueCopyKept DEF TableInv, CopyInv
  <2> QED
    BY <2>1, <2>2
<1>5. ASSUME NEW q \in Routers PROVE NasOK(q)' /\ CheckOK(q)' /\ TrailOK(q)'
  <2>1. NasOK(q) /\ CheckOK(q) /\ TrailOK(q)
    BY ByRow
  <2>2. CASE q = r
    <3>1. trail'[r] = <<>> /\ check'[r] # "passed"
      BY <1>1, <2>1, <2>2 DEF CheckOK, Create
    <3>2. sheet'[r].state = "pending" /\ router'[r].status = "not_deployed" /\ router'[r].exists
      BY <1>1, <1>2 DEF NewSheet, NewRouter
    <3>3. Path(r)'
      BY <3>1, <3>2, PathStarts
    <3>4. r \in behind'
      BY DEF Create
    <3> QED
      BY <2>2, <3>1, <3>2, <3>3, <3>4 DEF NasOK, CheckOK, TrailOK
  <2>3. CASE q # r
    BY <1>1, <1>2, <2>1, <2>3, RowKept DEF Create
  <2> QED
    BY <2>2, <2>3
<1> QED
  BY <1>3, <1>4, <1>5, ByRowNext DEF CopyInv

LEMMA EditTables ==
  ASSUME IInv, TableInv, NEW r \in Routers, NEW k \in Keys \cup {NoKey},
         NEW active \in BOOLEAN, NEW ip \in Addresses, Edit(r, k, active, ip)
  PROVE  TableInv'
<1>1. /\ router[r].exists /\ router'[r].exists
      /\ router'[r].status = router[r].status
      /\ \A q \in Routers \ {r} : router'[q] = router[q]
  BY DEF Edit, EditRouter, IInv, TypeOK, Router
<1>0. /\ sheet' \in [Routers -> Sheet]
      /\ sheet'[r].state = sheet[r].state /\ sheet'[r].secret = sheet[r].secret
      /\ \A q \in Routers \ {r} : sheet'[q] = sheet[q]
  BY DEF Edit, TableInv, OnboardingTypeOK, Sheet
<1>2. copy' \in [Managers -> Copy \cup {NoCopy}] /\ CopyInv'
  <2>1. \A q \in Routers \ {r} : VersionOf(q)' = VersionOf(q)
    BY <1>0, <1>1 DEF VersionOf
  <2> QED
    BY <2>1, SavedCopies DEF TableInv, Edit
<1>3. OnboardingTypeOK'
  BY <1>0, <1>2 DEF Edit, NowBehind, TableInv, OnboardingTypeOK
<1>4. ASSUME NEW q \in Routers PROVE NasOK(q)' /\ CheckOK(q)' /\ TrailOK(q)'
  <2>1. NasOK(q) /\ CheckOK(q) /\ TrailOK(q)
    BY ByRow
  <2>2. CASE q = r
    <3>1. NasOK(r)'
      BY <1>0, <1>1, <2>1, <2>2 DEF NasOK, Edit, NowBehind
    <3>2. CheckOK(r)'
      BY <1>1, <2>1, <2>2 DEF CheckOK, Edit
    <3>3. Path(r)'
      BY <1>0, <1>1, <2>1, <2>2, PathKept DEF TrailOK, Edit
    <3> QED
      BY <2>2, <3>1, <3>2, <3>3 DEF TrailOK
  <2>3. CASE q # r
    BY <1>0, <1>1, <2>1, <2>3, RowKept DEF Edit, NowBehind
  <2> QED
    BY <2>2, <2>3
<1> QED
  BY <1>2, <1>3, <1>4, ByRowNext

LEMMA DeleteTables ==
  ASSUME IInv, TableInv, NEW r \in Routers, Delete(r)
  PROVE  TableInv'
<1>1. /\ ~router'[r].exists /\ router'[r].key = router[r].key
      /\ router'[r].active = router[r].active
      /\ \A q \in Routers \ {r} : router'[q] = router[q]
  BY DEF Delete, DeleteRouter, IInv, TypeOK, Router
<1>2. /\ trail'[r] = <<>> /\ check'[r] = "none" /\ check' \in [Routers -> Check]
      /\ \A q \in Routers \ {r} : check'[q] = check[q]
  BY DEF Delete, TableInv, OnboardingTypeOK, Check
<1>3. \A q \in Routers \ {r} : trail'[q] = trail[q]
  BY DEF Delete
<1>4. OnboardingTypeOK'
  <2>1. trail' \in [Routers -> Seq(Event)]
    BY <1>2, <1>3 DEF TableInv, OnboardingTypeOK, Delete
  <2> QED
    BY <1>2, <2>1 DEF Delete, TableInv, OnboardingTypeOK
<1>5. CopyInv'
  <2>1. \A q \in Routers : VersionOf(q)' = VersionOf(q)
    BY <1>1 DEF VersionOf, Delete
  <2> QED
    BY <2>1, SameVersions DEF TableInv, Delete
<1>6. ASSUME NEW q \in Routers PROVE NasOK(q)' /\ CheckOK(q)' /\ TrailOK(q)'
  <2>1. CASE q = r
    BY <1>1, <1>2, <2>1 DEF NasOK, CheckOK, TrailOK
  <2>2. CASE q # r
    BY <1>1, <1>2, <1>3, <2>2, RowKept, ByRow DEF Delete
  <2> QED
    BY <2>1, <2>2
<1> QED
  BY <1>4, <1>5, <1>6, ByRowNext

LEMMA QueueTables ==
  ASSUME IInv, TableInv, NEW r \in Routers, NEW action \in Actions, Queue(r, action)
  PROVE  TableInv'
<1>1. /\ router'[r].status = "deploying" /\ router'[r].exists = router[r].exists
      /\ router'[r].key = router[r].key
      /\ \A q \in Routers \ {r} : router'[q] = router[q]
  BY DEF Queue, RequestOperation, SetStatus, IInv, TypeOK, Router
<1>2. copy' \in [Managers -> Copy \cup {NoCopy}] /\ CopyInv'
  <2>1. \A q \in Routers \ {r} : VersionOf(q)' = VersionOf(q)
    BY <1>1 DEF VersionOf, Queue
  <2> QED
    BY <2>1, SavedCopies DEF TableInv, Queue
<1>3. OnboardingTypeOK'
  BY <1>2 DEF Queue, TableInv, OnboardingTypeOK
<1>4. ASSUME NEW q \in Routers PROVE NasOK(q)' /\ CheckOK(q)' /\ TrailOK(q)'
  <2>1. NasOK(q) /\ CheckOK(q) /\ TrailOK(q)
    BY ByRow
  <2>2. CASE q = r
    <3>1. Path(r) => Path(r)'
      BY PathKept DEF Queue
    <3>2. router[r].exists
      BY DEF Queue, RequestOperation
    <3> QED
      BY <1>1, <2>1, <2>2, <3>1, <3>2 DEF NasOK, CheckOK, TrailOK, Queue, Address
  <2>3. CASE q # r
    BY <1>1, <2>1, <2>3, RowKept DEF Queue
  <2> QED
    BY <2>2, <2>3
<1> QED
  BY <1>2, <1>3, <1>4, ByRowNext

\* The outcome of an operation or request is put on record with its router's status.
LEMMA OutcomeTables ==
  ASSUME IInv, TableInv, NEW r \in Routers, NEW action \in Actions, NEW ok \in BOOLEAN,
         router[r].exists, SetStatus(r, Outcome(action, ok)),
         \/ /\ check' = [check EXCEPT ![r] = Passed(action, ok)]
            /\ Saved(r, {})
            /\ blind' = blind \ {r}
         \/ /\ blind' = blind \cup {r}
            /\ UNCHANGED <<check, copy>>,
         NEW e \in Event, e.action # "manual_transition",
         trail' = trail \/ trail' = [trail EXCEPT ![r] = Append(trail[r], e)],
         UNCHANGED <<sheet, nas, behind>>
  PROVE  TableInv'
<1>1. /\ router'[r].status = Outcome(action, ok) /\ router'[r].exists
      /\ router'[r].key = router[r].key /\ router'[r].active = router[r].active
      /\ \A q \in Routers \ {r} : router'[q] = router[q]
  BY DEF SetStatus, IInv, TypeOK, Router
<1>2. \A q \in Routers : VersionOf(q)' = VersionOf(q)
  BY <1>1 DEF VersionOf
<1>3. copy' \in [Managers -> Copy \cup {NoCopy}] /\ CopyInv'
  <2>1. CASE Saved(r, {})
    BY <1>2, <2>1, SavedCopies DEF TableInv
  <2>2. CASE UNCHANGED copy
    BY <1>2, <2>2, SameVersions DEF TableInv, OnboardingTypeOK
  <2> QED
    BY <2>1, <2>2
<1>4. /\ check' \in [Routers -> Check]
      /\ \A q \in Routers \ {r} : check'[q] = check[q]
      /\ r \notin blind' => check'[r] = Passed(action, ok)
  BY DEF TableInv, OnboardingTypeOK, Passed, Check
<1>7. /\ trail' \in [Routers -> Seq(Event)]
      /\ trail'[r] = trail[r] \/ trail'[r] = Append(trail[r], e)
      /\ \A q \in Routers \ {r} : trail'[q] = trail[q]
  <2>1. trail \in [Routers -> Seq(Event)]
    BY DEF TableInv, OnboardingTypeOK
  <2>2. Append(trail[r], e) \in Seq(Event)
    BY <2>1
  <2> QED
    BY <2>1, <2>2
<1>5. OnboardingTypeOK'
  BY <1>3, <1>4, <1>7 DEF TableInv, OnboardingTypeOK
<1>6. ASSUME NEW q \in Routers PROVE NasOK(q)' /\ CheckOK(q)' /\ TrailOK(q)'
  <2>1. NasOK(q) /\ CheckOK(q) /\ TrailOK(q)
    BY ByRow
  <2>2. CASE q = r
    <3>1. Path(r) => Path(r)'
      BY <1>7, PathKept, PathTested DEF TableInv
    <3>2. CheckOK(r)'
      BY <1>1, <1>4 DEF CheckOK, Passed, Outcome, Actions
    <3>3. NasOK(r)'
      BY <1>1, <2>1, <2>2 DEF NasOK, Address
    <3> QED
      BY <2>1, <2>2, <3>1, <3>2, <3>3 DEF TrailOK
  <2>3. CASE q # r
    <3>1. q \in blind' <=> q \in blind
      BY <2>3
    <3> QED
      BY <1>1, <1>4, <1>7, <2>1, <2>3, <3>1, RowKept
  <2> QED
    BY <2>2, <2>3
<1> QED
  BY <1>3, <1>5, <1>6, ByRowNext

\* Nothing happens to the rows that these tables tell of.
LEMMA QuietTables ==
  ASSUME TableInv, UNCHANGED <<router, onboarding>>
  PROVE  TableInv'
<1>1. OnboardingTypeOK'
  BY DEF TableInv, OnboardingTypeOK, onboarding
<1>2. CopyInv'
  BY DEF TableInv, CopyInv, TrueCopy, VersionOf, onboarding
<1>3. ASSUME NEW q \in Routers PROVE NasOK(q)' /\ CheckOK(q)' /\ TrailOK(q)'
  BY RowKept, ByRow DEF onboarding
<1> QED
  BY <1>1, <1>2, <1>3, ByRowNext

\* An event that repeats the state of its router.
LEMMA RepeatsState ==
  \A action \in {"radius_auth_test"} \cup Actions, s \in States :
    LET e == [action |-> action, from |-> s, to |-> s] IN
    e \in Event /\ e.action # "manual_transition"
BY DEF Event, Actions

LEMMA RecordOutcomeTables ==
  ASSUME IInv, TableInv, NEW w \in Workers, RecordOutcome(w)
  PROVE  TableInv'
<1>1. CASE Superseded(w)
  BY <1>1, QuietTables DEF RecordOutcome, Finish, onboarding
<1>2. CASE ~Superseded(w)
  <2>1. /\ worker[w].op \in DOMAIN ops /\ ops[worker[w].op] \in Op
        /\ worker[w].ok \in BOOLEAN
    BY OpRows DEF IInv, TypeOK, WorkInv, HoldInv, WorkerRecord, RecordOutcome, Finish
  <2>2. PICK op \in Op : op = ops[worker[w].op]
    BY <2>1
  <2>3. op.router \in Routers /\ op.action \in Actions
    BY DEF Op
  <2>4. router[op.router].exists
    BY <1>2, <2>1, <2>2
       DEF Superseded, IInv, RouterInv, ExclusiveInv, Working, Live, Reserved
  <2>5. PICK e \in Event : e.action # "manual_transition"
    BY RepeatsState DEF States, Transitions
  <2> QED
    BY <1>2, <2>1, <2>2, <2>3, <2>4, <2>5, OutcomeTables DEF RecordOutcome, Finish
<1> QED
  BY <1>1, <1>2

LEMMA RecordCallTables ==
  ASSUME IInv, TableInv, NEW c \in Calls, RecordCall(c)
  PROVE  TableInv'
<1>1. /\ call[c].router \in Routers /\ router[call[c].router].exists
      /\ call[c].action \in Actions /\ call[c].ok \in BOOLEAN
  BY DEF RecordCall, CompleteCall, IInv, TypeOK, CallRecord, RouterInv, ExclusiveInv, AtVps,
         Reserved
<1>2. PICK r \in Routers : r = call[c].router
  BY <1>1
<1>3. PICK ok \in BOOLEAN : ok = call[c].ok
  BY <1>1
<1>4. SetStatus(r, Outcome(call[c].action, ok))
  BY <1>2, <1>3 DEF RecordCall, CompleteCall
<1>5. \/ /\ check' = [check EXCEPT ![r] = Passed(call[c].action, ok)]
         /\ Saved(r, {})
         /\ blind' = blind \ {r}
      \/ /\ blind' = blind \cup {r}
         /\ UNCHANGED <<check, copy>>
  BY <1>2, <1>3 DEF RecordCall
<1>6. PICK e : e = [action |-> call[c].action, from |-> sheet[r].state, to |-> sheet[r].state]
  OBVIOUS
<1>7. e \in Event /\ e.action # "manual_transition"
  <2>1. sheet[r].state \in States
    BY DEF TableInv, OnboardingTypeOK, Sheet
  <2> QED
    BY <1>1, <1>6, <2>1, RepeatsState
<1>8. trail' = trail \/ trail' = [trail EXCEPT ![r] = Append(trail[r], e)]
  BY <1>2, <1>6 DEF RecordCall, Record
<1>9. UNCHANGED <<sheet, nas, behind>>
  BY DEF RecordCall
<1> QED
  BY <1>1, <1>2, <1>4, <1>5, <1>7, <1>8, <1>9, OutcomeTables

LEMMA MarkTables ==
  ASSUME IInv, TableInv, NEW c \in Calls, Mark(c)
  PROVE  TableInv'
<1>1. CASE router' = router
  BY <1>1, QuietTables DEF Mark, onboarding
<1>2. CASE router' # router
  <2>1. PICK r \in Routers : r = call[c].router
    BY DEF Mark, Dispatch, IInv, WorkInv, CallInv
  <2>2. /\ router[r].exists /\ router'[r].exists
        /\ router'[r].status = "deploying"
        /\ \A q \in Routers \ {r} : router'[q] = router[q]
        /\ call'[c].router = r
    <3> DEFINE action == call[c].action
               k == IF action = "provision" THEN call[c].key ELSE router[r].key
               row == [router[r] EXCEPT !.key = k, !.status = "deploying"]
    <3>1. /\ router[r].exists
          /\ router' = [router EXCEPT ![r] = row]
          /\ call' = [call EXCEPT ![c] = [call[c] EXCEPT !.step = "dispatched", !.key = k]]
      BY <1>2, <2>1 DEF Mark, Dispatch
    <3>2. router \in [Routers -> Router] /\ call \in [Calls -> CallRecord]
      BY DEF IInv, TypeOK
    <3>3. row.exists = router[r].exists /\ row.status = "deploying"
      BY <3>2 DEF Router
    <3> HIDE DEF row
    <3>4. router'[r] = row /\ \A q \in Routers \ {r} : router'[q] = router[q]
      BY <3>1, <3>2
    <3>5. call'[c].router = r
      BY <2>1, <3>1, <3>2 DEF CallRecord
    <3> QED
      BY <3>1, <3>3, <3>4, <3>5
  <2>3. Saved(r, {}) /\ NowBehind(r) /\ UNCHANGED <<sheet, trail, check, nas, blind>>
    <3>1. Saved(call[c].router, {}) /\ NowBehind(call[c].router)
          /\ UNCHANGED <<sheet, trail, check, nas, blind>>
      BY <1>2 DEF Mark
    <3>2. Saved(r, {})
      BY <2>1, <3>1 DEF Saved
    <3>3. NowBehind(r)
      BY <2>1, <2>2, <3>1 DEF NowBehind, Address
    <3> QED
      BY <3>1, <3>2, <3>3
  <2>4. copy' \in [Managers -> Copy \cup {NoCopy}] /\ CopyInv'
    <3>1. \A q \in Routers \ {r} : VersionOf(q)' = VersionOf(q)
      BY <2>2, <2>3 DEF VersionOf
    <3> QED
      BY <2>3, <3>1, SavedCopies DEF TableInv
  <2>5. OnboardingTypeOK'
    BY <2>3, <2>4 DEF NowBehind, TableInv, OnboardingTypeOK
  <2>6. ASSUME NEW q \in Routers PROVE NasOK(q)' /\ CheckOK(q)' /\ TrailOK(q)'
    <3>1. NasOK(q) /\ CheckOK(q) /\ TrailOK(q)
      BY ByRow
    <3>2. CASE q = r
      <4>1. NasOK(r)'
        BY <2>2, <2>3, <3>1, <3>2 DEF NasOK, NowBehind
      <4>2. CheckOK(r)'
        BY <2>2 DEF CheckOK
      <4>3. Path(r)'
        BY <2>2, <2>3, <3>1, <3>2, PathKept DEF TrailOK
      <4> QED
        BY <3>2, <4>1, <4>2, <4>3 DEF TrailOK
    <3>3. CASE q # r
      BY <2>2, <2>3, <3>1, <3>3, RowKept DEF NowBehind
    <3> QED
      BY <3>2, <3>3
  <2> QED
    BY <2>4, <2>5, <2>6, ByRowNext
<1> QED
  BY <1>1, <1>2

LEMMA FetchTables ==
  ASSUME IInv, TableInv, NEW m \in Managers, NEW r \in Routers, Fetch(m, r)
  PROVE  TableInv'
<1> DEFINE row == [router |-> r, state |-> sheet[r].state, version |-> VersionOf(r)]
<1>1. row \in Copy /\ row.router = r /\ row.version = VersionOf(r)
  BY VersionTyped DEF IInv, TableInv, OnboardingTypeOK, Sheet, Copy
<1>2. copy' = [copy EXCEPT ![m] = row]
  BY DEF Fetch
<1> HIDE DEF row
<1>3. /\ copy' \in [Managers -> Copy \cup {NoCopy}] /\ copy'[m] = row
      /\ \A n \in Managers \ {m} : copy'[n] = copy[n]
  BY <1>1, <1>2 DEF TableInv, OnboardingTypeOK
<1>4. OnboardingTypeOK'
  BY <1>3 DEF Fetch, TableInv, OnboardingTypeOK
<1>5. \A q \in Routers : VersionOf(q)' = VersionOf(q)
  BY DEF Fetch, vars, VersionOf
<1>6. ASSUME NEW n \in Managers PROVE TrueCopy(n)'
  <2>1. CASE n = m
    BY <1>1, <1>3, <1>5, <2>1 DEF TrueCopy, VersionOf
  <2>2. CASE n # m
    <3>1. TrueCopy(n) /\ copy'[n] = copy[n]
      BY <1>3, <2>2 DEF TableInv, CopyInv
    <3>2. CASE copy[n] = NoCopy
      BY <3>1, <3>2 DEF TrueCopy
    <3>3. CASE copy[n] # NoCopy
      <4>1. PICK q \in Routers : q = copy[n].router
        BY <3>3, NoCopyApart DEF TableInv
      <4> QED
        BY <1>5, <3>1, <4>1, TrueCopyKept
    <3> QED
      BY <3>2, <3>3
  <2> QED
    BY <2>1, <2>2
<1>7. ASSUME NEW q \in Routers PROVE NasOK(q)' /\ CheckOK(q)' /\ TrailOK(q)'
  BY RowKept, ByRow DEF Fetch, vars
<1> QED
  BY <1>4, <1>6, <1>7, ByRowNext DEF CopyInv

LEMMA ForgetTables ==
  ASSUME IInv, TableInv, NEW m \in Managers, Forget(m)
  PROVE  TableInv'
<1>1. OnboardingTypeOK' /\ CopyInv'
  BY DoneCopies, SameVersions DEF Forget, vars, VersionOf, TableInv, OnboardingTypeOK
<1>2. ASSUME NEW q \in Routers PROVE NasOK(q)' /\ CheckOK(q)' /\ TrailOK(q)'
  BY RowKept, ByRow DEF Forget, vars
<1> QED
  BY <1>1, <1>2, ByRowNext

\* An event is logged.
LEMMA LogTrail ==
  ASSUME OnboardingTypeOK, NEW r \in Routers,
         NEW action \in {"manual_transition", "radius_auth_test"},
         NEW from \in States, NEW to \in States, Log(r, action, from, to)
  PROVE  /\ trail' \in [Routers -> Seq(Event)]
         /\ trail'[r] = Append(trail[r], [action |-> action, from |-> from, to |-> to])
         /\ [action |-> action, from |-> from, to |-> to] \in Event
         /\ \A q \in Routers \ {r} : trail'[q] = trail[q]
<1> DEFINE e == [action |-> action, from |-> from, to |-> to]
<1>1. e \in Event
  BY DEF Event
<1>2. trail \in [Routers -> Seq(Event)]
  BY DEF OnboardingTypeOK
<1>3. trail' = [trail EXCEPT ![r] = Append(trail[r], e)]
  BY DEF Log, Record
<1> HIDE DEF e
<1>4. Append(trail[r], e) \in Seq(Event)
  BY <1>1, <1>2
<1>5. /\ trail' \in [Routers -> Seq(Event)] /\ trail'[r] = Append(trail[r], e)
      /\ \A q \in Routers \ {r} : trail'[q] = trail[q]
  BY <1>2, <1>3, <1>4
<1> QED
  BY <1>1, <1>5 DEF e

LEMMA TransitionsTyped == \A s \in States : Transitions[s] \subseteq States
BY DEF Transitions, States

LEMMA MoveTables ==
  ASSUME IInv, TableInv, NEW m \in Managers, NEW to \in States, Move(m, to)
  PROVE  TableInv'
<1>1. PICK r \in Routers : r = copy[m].router
  BY NoCopyApart DEF Move, TableInv
<1>2. PICK from \in States : from = sheet[r].state
  BY DEF TableInv, OnboardingTypeOK, Sheet
<1>3. /\ router[r].exists /\ to \in Transitions[from]
      /\ sheet' = [sheet EXCEPT ![r].state = to]
      /\ Log(r, "manual_transition", from, to)
      /\ UNCHANGED <<router, check, nas, behind, blind>>
  BY <1>1, <1>2 DEF Move, vars
<1>4. Saved(r, {m})
  BY <1>1 DEF Move, Saved
<1>5. /\ sheet' \in [Routers -> Sheet] /\ sheet'[r].state = to
      /\ sheet'[r].secret = sheet[r].secret
      /\ \A q \in Routers \ {r} : sheet'[q] = sheet[q]
  BY <1>3 DEF TableInv, OnboardingTypeOK, Sheet
<1> DEFINE e == [action |-> "manual_transition", from |-> from, to |-> to]
<1>6. /\ trail' \in [Routers -> Seq(Event)]
      /\ trail'[r] = Append(trail[r], e) /\ e \in Event
      /\ \A q \in Routers \ {r} : trail'[q] = trail[q]
  BY <1>3, LogTrail DEF TableInv
<1>7. copy' \in [Managers -> Copy \cup {NoCopy}] /\ CopyInv'
  <2>1. \A q \in Routers \ {r} : VersionOf(q)' = VersionOf(q)
    BY <1>3, <1>5 DEF VersionOf
  <2> QED
    BY <1>4, <2>1, SavedCopies DEF TableInv
<1>8. OnboardingTypeOK'
  BY <1>3, <1>5, <1>6, <1>7 DEF TableInv, OnboardingTypeOK
<1>9. ASSUME NEW q \in Routers PROVE NasOK(q)' /\ CheckOK(q)' /\ TrailOK(q)'
  <2>1. NasOK(q) /\ CheckOK(q) /\ TrailOK(q)
    BY ByRow
  <2>2. CASE q = r
    <3>1. Path(r)
      BY <1>3, <2>1, <2>2 DEF TrailOK
    <3>2. e.action = "manual_transition" /\ e.from = sheet[r].state /\ e.to = to
      BY <1>2
    <3> HIDE DEF e
    <3>3. Path(r)'
      BY <1>2, <1>3, <1>5, <1>6, <3>1, <3>2, PathMoves DEF TableInv
    <3> QED
      BY <1>3, <1>5, <2>1, <2>2, <3>3 DEF NasOK, CheckOK, TrailOK, Address
  <2>3. CASE q # r
    BY <1>3, <1>5, <1>6, <2>1, <2>3, RowKept
  <2> QED
    BY <2>2, <2>3
<1> QED
  BY <1>7, <1>8, <1>9, ByRowNext

LEMMA TestTables ==
  ASSUME IInv, TableInv, NEW m \in Managers, Test(m)
  PROVE  TableInv'
<1>1. PICK r \in Routers : r = copy[m].router
  BY NoCopyApart DEF Test, TableInv
<1>2. PICK s \in States : s = copy[m].state
  BY NoCopyApart DEF Test, TableInv
<1>3. /\ router[r].exists /\ Log(r, "radius_auth_test", s, s)
      /\ UNCHANGED <<router, sheet, check, nas, behind, blind>>
  BY <1>1, <1>2 DEF Test, vars
<1> DEFINE e == [action |-> "radius_auth_test", from |-> s, to |-> s]
<1>4. /\ trail' \in [Routers -> Seq(Event)]
      /\ trail'[r] = Append(trail[r], e) /\ e \in Event
      /\ \A q \in Routers \ {r} : trail'[q] = trail[q]
  BY <1>3, LogTrail DEF TableInv
<1>5. OnboardingTypeOK' /\ CopyInv'
  <2>1. \A q \in Routers : VersionOf(q)' = VersionOf(q)
    BY <1>3 DEF VersionOf
  <2> QED
    BY <1>3, <1>4, <2>1, DoneCopies, SameVersions DEF Test, TableInv, OnboardingTypeOK
<1>6. ASSUME NEW q \in Routers PROVE NasOK(q)' /\ CheckOK(q)' /\ TrailOK(q)'
  <2>1. NasOK(q) /\ CheckOK(q) /\ TrailOK(q)
    BY ByRow
  <2>2. CASE q = r
    <3>1. e.action # "manual_transition" /\ Path(r)
      BY <1>3, <2>1, <2>2 DEF TrailOK
    <3> HIDE DEF e
    <3>2. Path(r)'
      BY <1>3, <1>4, <3>1, PathTested DEF TableInv
    <3> QED
      BY <1>3, <2>1, <2>2, <3>2 DEF NasOK, CheckOK, TrailOK, Address
  <2>3. CASE q # r
    BY <1>3, <1>4, <2>1, <2>3, RowKept
  <2> QED
    BY <2>2, <2>3
<1> QED
  BY <1>5, <1>6, ByRowNext

\* Only the row of the router's address is written, whoever else has it.
LEMMA ReplaceSecretTables ==
  ASSUME IInv, TableInv, NEW m \in Managers, NEW s \in Secrets, ReplaceSecret(m, s)
  PROVE  TableInv'
<1>1. PICK r \in Routers : r = copy[m].router
  BY NoCopyApart DEF ReplaceSecret, TableInv
<1>2. /\ router[r].exists
      /\ sheet' = [sheet EXCEPT ![r].secret = s]
      /\ IF router[r].status = "deployed" THEN nas' = [nas EXCEPT ![Address(r)] = s]
         ELSE UNCHANGED nas
      /\ behind' = IF router[r].status = "deployed"
                   THEN (behind \cup Overwritten(Address(r), s)) \ {r}
                   ELSE behind \cup {r}
      /\ UNCHANGED <<router, trail, check, blind>>
  BY <1>1 DEF ReplaceSecret, Register, vars, Address, Overwritten
<1>3. Saved(r, {m})
  BY <1>1 DEF ReplaceSecret, Saved
<1>4. /\ sheet' \in [Routers -> Sheet] /\ sheet'[r].secret = s
      /\ sheet'[r].state = sheet[r].state
      /\ \A q \in Routers \ {r} : sheet'[q] = sheet[q]
  BY <1>2 DEF TableInv, OnboardingTypeOK, Sheet
<1>5. /\ nas' \in [Addresses \cup Keys -> Secrets \cup {NoSecret}]
      /\ r \notin behind' => nas'[Address(r)] = s
      /\ Address(r) \in Addresses \cup Keys
      /\ behind' \subseteq Routers
  BY <1>2, AddressTyped DEF IInv, TableInv, OnboardingTypeOK, Overwritten
<1>6. copy' \in [Managers -> Copy \cup {NoCopy}] /\ CopyInv'
  <2>1. \A q \in Routers \ {r} : VersionOf(q)' = VersionOf(q)
    BY <1>2, <1>4 DEF VersionOf
  <2> QED
    BY <1>3, <2>1, SavedCopies DEF TableInv
<1>7. OnboardingTypeOK'
  BY <1>2, <1>4, <1>5, <1>6 DEF TableInv, OnboardingTypeOK
<1>8. ASSUME NEW q \in Routers PROVE NasOK(q)' /\ CheckOK(q)' /\ TrailOK(q)'
  <2>1. NasOK(q) /\ CheckOK(q) /\ TrailOK(q)
    BY ByRow
  <2>2. Path(q) => Path(q)'
    BY <1>2, <1>4, PathKept
  <2>3. CheckOK(q)' /\ TrailOK(q)'
    BY <1>2, <2>1, <2>2 DEF CheckOK, TrailOK
  <2>4. CASE q = r
    <3>1. Address(r)' = IF router[r].key = NoKey THEN sheet'[r].ip ELSE router[r].key
      BY <1>2 DEF Address
    <3>2. sheet'[r].ip = sheet[r].ip
      BY <1>2 DEF TableInv, OnboardingTypeOK, Sheet
    <3>3. NasOK(r)'
      BY <1>2, <1>4, <1>5, <3>1, <3>2 DEF NasOK, Address
    <3> QED
      BY <2>3, <2>4, <3>3
  <2>5. CASE q # r
    <3>1. router'[q] = router[q] /\ sheet'[q] = sheet[q]
      BY <1>2, <1>4, <2>5
    <3>2. ASSUME router[r].status = "deployed" PROVE NasOK(q)'
      <4>1. PICK a \in Addresses \cup Keys : a = Address(r)
        BY <1>5
      <4>2. nas' = [nas EXCEPT ![a] = s]
        BY <1>2, <3>2, <4>1
      <4>3. q \notin behind' => q \notin behind \cup Overwritten(a, s)
        BY <1>2, <2>5, <3>2, <4>1
      <4>4. router' = router
        BY <1>2
      <4> QED
        BY <2>1, <3>1, <4>2, <4>3, <4>4, Registered DEF TableInv
    <3>3. ASSUME router[r].status # "deployed" PROVE NasOK(q)'
      <4>1. nas' = nas /\ behind' = behind \cup {r} /\ router' = router
        BY <1>2, <3>3
      <4> QED
        BY <2>1, <3>1, <4>1 DEF NasOK, Address
    <3> QED
      BY <2>3, <3>2, <3>3
  <2> QED
    BY <2>4, <2>5
<1> QED
  BY <1>6, <1>7, <1>8, ByRowNext

\* A router elsewhere is registered.
LEMMA ReplaceElsewhereTables ==
  ASSUME IInv, TableInv, NEW a \in Addresses \cup Keys, NEW s \in Secrets, ReplaceElsewhere(a, s)
  PROVE  TableInv'
<1>1. /\ nas' = [nas EXCEPT ![a] = s] /\ behind' = behind \cup Overwritten(a, s)
      /\ UNCHANGED <<router, sheet, trail, check, copy, blind>>
  BY DEF ReplaceElsewhere, vars
<1>2. /\ nas' \in [Addresses \cup Keys -> Secrets \cup {NoSecret}] /\ behind' \subseteq Routers
  BY <1>1 DEF TableInv, OnboardingTypeOK, Overwritten
<1>3. OnboardingTypeOK'
  BY <1>1, <1>2 DEF TableInv, OnboardingTypeOK
<1>4. CopyInv'
  BY <1>1 DEF TableInv, CopyInv, TrueCopy, VersionOf
<1>5. ASSUME NEW q \in Routers PROVE NasOK(q)' /\ CheckOK(q)' /\ TrailOK(q)'
  <2>1. NasOK(q) /\ CheckOK(q) /\ TrailOK(q)
    BY ByRow
  <2>2. NasOK(q)'
    BY <1>1, <2>1, Registered DEF TableInv
  <2>3. Path(q) => Path(q)'
    BY <1>1, PathKept
  <2> QED
    BY <1>1, <2>1, <2>2, <2>3 DEF CheckOK, TrailOK
<1> QED
  BY <1>3, <1>4, <1>5, ByRowNext

LEMMA TableNext == IInv /\ TableInv /\ [OnboardingNext]_allvars => TableInv'
<1> SUFFICES ASSUME IInv, TableInv, [OnboardingNext]_allvars PROVE TableInv'
  OBVIOUS
<1>1. ASSUME NEW m \in Managers, Manage(m) PROVE TableInv'
  BY <1>1, FetchTables, MoveTables, ReplaceSecretTables, TestTables, ForgetTables DEF Manage
<1>2. ASSUME NEW r \in Routers, Configure(r) PROVE TableInv'
  BY <1>2, EditTables, CreateTables, QueueTables, DeleteTables DEF Configure
<1>3. ASSUME NEW w \in Workers, RecordOutcome(w) PROVE TableInv'
  BY <1>3, RecordOutcomeTables
<1>4. ASSUME NEW c \in Calls, Mark(c) \/ RecordCall(c) PROVE TableInv'
  BY <1>4, MarkTables, RecordCallTables
<1>5. CASE Elsewhere
  <2>1. UNCHANGED <<router, onboarding>>
    BY <1>5 DEF Elsewhere, Claim, RunSsh, CrashWorker, ExpireLease, CallSsh, CrashCall, Submit
  <2> QED
    BY <2>1, QuietTables
<1>6. ASSUME NEW a \in Addresses \cup Keys, NEW s \in Secrets, ReplaceElsewhere(a, s)
      PROVE  TableInv'
  BY <1>6, ReplaceElsewhereTables
<1>7. CASE UNCHANGED allvars
  BY <1>7, QuietTables DEF allvars, vars
<1> QED
  BY <1>1, <1>2, <1>3, <1>4, <1>5, <1>6, <1>7 DEF OnboardingNext

THEOREM OnboardingInvariant == OnboardingSpec => []OInv
<1>1. OnboardingInit => OInv
  BY InvInit, TableInit DEF OInv, OnboardingInit
<1>2. OInv /\ [OnboardingNext]_allvars => OInv'
  BY ProvisioningStep, InvNext, TableNext DEF OInv
<1> QED
  BY <1>1, <1>2, PTL DEF OnboardingSpec

\* Every onboarding behaviour is one of RouterProvisioning, and what is proved of
\* those holds of it.
THEOREM OnboardingIsProvisioning == OnboardingSpec => Spec
<1>1. OnboardingInit => Init
  BY DEF OnboardingInit
<1> QED
  BY <1>1, ProvisioningStep, PTL DEF OnboardingSpec, Spec

\* Every variable around the provisioning keeps its type.
THEOREM OnboardingTypeCorrect == OnboardingSpec => []OnboardingTypeOK
BY OnboardingInvariant, PTL DEF OInv, TableInv

\* The audit trail is a path of allowed transitions to the state a router is in.
THEOREM TrailLeadsToStateAlways == OnboardingSpec => []TrailLeadsToState
BY OnboardingInvariant, PTL DEF OInv, TableInv

\* FreeRADIUS has the secret of every router not changed since without registering, and
\* not overwritten by a router with the same address: addresses may coincide at will.
THEOREM NasRowFollowsSecretAlways == OnboardingSpec => []NasRowFollowsSecret
BY OnboardingInvariant, PTL DEF OInv, TableInv

LEMMA CheckTells == OInv => PeerCheckTellsStatus
BY DEF OInv, TableInv, CheckInv, PeerCheckTellsStatus, Busy

\* The recorded check and the status of a router agree.
THEOREM PeerCheckTellsStatusAlways == OnboardingSpec => []PeerCheckTellsStatus
BY OnboardingInvariant, CheckTells, PTL

\* What ReplacedKnowingly says of a step and of a manager's request.
Knowing(m) ==
  LET r == copy[m].router IN
  copy[m] # NoCopy /\ router[r].exists /\ sheet'[r].secret # sheet[r].secret
    /\ copy'[m] = NoCopy => copy[m].version = VersionOf(r)

LEMMA KnowingStep ==
  ASSUME OInv, OnboardingNext, NEW m \in Managers
  PROVE  Knowing(m)
<1> SUFFICES ASSUME copy[m] # NoCopy, router[copy[m].router].exists, copy'[m] = NoCopy,
                    sheet'[copy[m].router].secret # sheet[copy[m].router].secret
             PROVE  copy[m].version = VersionOf(copy[m].router)
  BY DEF Knowing
<1>1. PICK r \in Routers : r = copy[m].router
  BY NoCopyApart DEF OInv, TableInv
<1>2. sheet \in [Routers -> Sheet] /\ \A n \in Managers : copy[n] # NoCopy => copy[n] \in Copy
  BY DEF OInv, TableInv, OnboardingTypeOK
<1>3. sheet'[r].secret # sheet[r].secret /\ router[r].exists
  BY <1>1
<1>4. ASSUME NEW q \in Routers, NEW s \in Secrets, NEW k, NEW active, NEW ip,
             Create(q, k, active, s, ip)
      PROVE  FALSE
  <2>1. q # r
    BY <1>3, <1>4 DEF Create, CreateRouter
  <2> QED
    BY <1>2, <1>3, <1>4, <2>1 DEF Create
<1>5. ASSUME NEW n \in Managers, NEW to \in States, Move(n, to) PROVE FALSE
  BY <1>2, <1>3, <1>5 DEF Move, Sheet
<1>6. ASSUME NEW n \in Managers, NEW s \in Secrets, ReplaceSecret(n, s)
      PROVE  copy[m].version = VersionOf(copy[m].router)
  <2>1. copy[n].router = r /\ copy[n].version # Outdated /\ copy[n] # NoCopy
    <3>1. copy[n].router # r => sheet'[r] = sheet[r]
      BY <1>2, <1>6 DEF ReplaceSecret
    <3> QED
      BY <1>3, <1>6, <3>1 DEF ReplaceSecret
  <2>2. n = m
    <3>1. SUFFICES ASSUME n # m PROVE FALSE
      OBVIOUS
    <3>2. copy'[m] = [copy[m] EXCEPT !.version = Outdated]
      BY <1>1, <1>6, <2>1, <3>1 DEF ReplaceSecret, Saved
    <3>3. copy'[m].router = r
      BY <1>1, <1>2, <3>2 DEF Copy
    <3>4. NoCopy.router \notin Routers
      BY NullAssumption DEF NoCopy
    <3> QED
      BY <3>3, <3>4
  <2> QED
    BY <2>1, <2>2 DEF OInv, TableInv, CopyInv, TrueCopy
<1>7. CASE UNCHANGED sheet
  BY <1>3, <1>7
<1>9. ASSUME NEW q \in Routers, NEW k, NEW active, NEW ip \in Addresses, Edit(q, k, active, ip)
      PROVE  FALSE
  BY <1>2, <1>3, <1>9 DEF Edit, Sheet
<1>8. \/ UNCHANGED sheet
      \/ \E q \in Routers, k \in Keys \cup {NoKey}, active \in BOOLEAN, ip \in Addresses :
           Edit(q, k, active, ip) \/ \E s \in Secrets : Create(q, k, active, s, ip)
      \/ \E n \in Managers, to \in States : Move(n, to)
      \/ \E n \in Managers, s \in Secrets : ReplaceSecret(n, s)
  <2>1. ASSUME NEW n \in Managers, Manage(n)
        PROVE  UNCHANGED sheet \/ (\E to \in States : Move(n, to))
                 \/ \E s \in Secrets : ReplaceSecret(n, s)
    BY <2>1 DEF Manage, Fetch, Test, Forget
  <2>2. ASSUME NEW q \in Routers, Configure(q)
        PROVE  \/ UNCHANGED sheet
               \/ \E k \in Keys \cup {NoKey}, active \in BOOLEAN, ip \in Addresses :
                    Edit(q, k, active, ip) \/ \E s \in Secrets : Create(q, k, active, s, ip)
    BY <2>2 DEF Configure, Queue, Delete
  <2>3. CASE \E w \in Workers : RecordOutcome(w)
    BY <2>3 DEF RecordOutcome
  <2>4. CASE \E c \in Calls : Mark(c) \/ RecordCall(c)
    BY <2>4 DEF Mark, RecordCall
  <2>5. CASE Elsewhere
    BY <2>5 DEF Elsewhere, onboarding
  <2>6. CASE \E a \in Addresses \cup Keys, s \in Secrets : ReplaceElsewhere(a, s)
    BY <2>6 DEF ReplaceElsewhere
  <2> QED
    BY <2>1, <2>2, <2>3, <2>4, <2>5, <2>6 DEF OnboardingNext
<1> QED
  BY <1>4, <1>5, <1>6, <1>7, <1>8, <1>9

\* Who replaces a secret has seen the router as it is at that moment.
THEOREM ReplacedKnowinglyAlways == OnboardingSpec => ReplacedKnowingly
<1>1. OInv /\ [OnboardingNext]_allvars => [\A m \in Managers : Knowing(m)]_allvars
  BY KnowingStep
<1>2. ReplacedKnowingly <=> [][\A m \in Managers : Knowing(m)]_allvars
  BY PTL DEF ReplacedKnowingly, Knowing
<1> QED
  BY <1>1, <1>2, OnboardingInvariant, PTL DEF OnboardingSpec

================================================================================
