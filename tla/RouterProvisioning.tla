-------------------------- MODULE RouterProvisioning --------------------------
(***************************************************************************)
(* WireGuard provisioning of routers: the durable queue of operations with *)
(* its leased workers, the signed internal endpoint that does the same     *)
(* work inside one request, and the edits and deletions they exclude       *)
(* (src/apps/routers/operation_api.py, operations.py, views.py,            *)
(* provisioning_views.py, provisioners.py).                                *)
(*                                                                         *)
(* Every transaction that changes a router holds the lock of its row,      *)
(* so each is one step; the SSH calls and the crashes lie between them.    *)
(* A peer is its public key: the address travels with it.                  *)
(***************************************************************************)
EXTENDS Integers, Sequences, FiniteSets

CONSTANTS Routers,   \* NASDevice ids
          NoRouter,  \* the router of a call that is not made
          Keys,      \* WireGuard public keys
          NoKey,     \* a blank wireguard_public_key
          Workers,   \* worker processes
          Calls,     \* request_ids sent to the internal endpoint
          MaxOps,    \* bound on the RouterOperation rows
          MaxFaults  \* bound on crashes and on leases that run out on a live worker

ASSUME NullAssumption == NoKey \notin Keys /\ NoRouter \notin Routers
ASSUME BoundAssumption == MaxOps \in Nat /\ MaxFaults \in Nat

VARIABLES
  router,     \* NASDevice rows
  ops,        \* RouterOperation rows, in the order of created_at
  worker,     \* where each worker is in run_one_router_operation
  call,       \* where each internal request is
  seen,       \* ProvisioningAgentRequest rows: <<request_id, router>>
  peers,      \* the VPS: keys that are WireGuard peers
  faults,     \* faults so far, at most MaxFaults
  overrun,    \* history: a lease ran out on a worker that was still alive
  abandoned,  \* history: routers whose internal request died after dispatch
  current     \* history: routers not edited since an operation last succeeded

env == <<faults, overrun, abandoned>>
vars == <<router, ops, worker, call, seen, peers, env, current>>

Actions == {"provision", "suspend"}
Live == {"pending", "running"}

Router == [exists : BOOLEAN, key : Keys \cup {NoKey}, active : BOOLEAN,
           status : {"not_deployed", "deploying", "deployed", "failed"}]
Op == [router : Routers, action : Actions, key : Keys, attempts : Nat, expired : BOOLEAN,
       status : Live \cup {"succeeded", "failed"}]
WorkerRecord == [step : {"idle", "claimed", "ran"}, op : 0 .. MaxOps, attempts : Nat,
                 ok : BOOLEAN]
CallRecord == [step : {"idle", "recorded", "dispatched", "ran"},
               router : Routers \cup {NoRouter}, action : Actions, key : Keys \cup {NoKey},
               ok : BOOLEAN]

IdleWorker == [step |-> "idle", op |-> 0, attempts |-> 0, ok |-> FALSE]
IdleCall == [step |-> "idle", router |-> NoRouter, action |-> "suspend",
             key |-> NoKey, ok |-> FALSE]

NewRouter(k, active) == [exists |-> TRUE, key |-> k, active |-> active,
                         status |-> "not_deployed"]

Init == /\ router = [r \in Routers |-> [NewRouter(NoKey, FALSE) EXCEPT !.exists = FALSE]]
        /\ ops = <<>>
        /\ worker = [w \in Workers |-> IdleWorker]
        /\ call = [c \in Calls |-> IdleCall]
        /\ seen = {}
        /\ peers = {}
        /\ faults = 0
        /\ overrun = FALSE
        /\ abandoned = {}
        /\ current = {}

LiveOps(r) == {o \in DOMAIN ops : ops[o].router = r /\ ops[o].status \in Live}
\* Mutant: only the queue is consulted, not the router's own status.
BusyInQueue(r) == LiveOps(r) # {}

Busy(r) == router[r].status = "deploying" \/ LiveOps(r) # {}

\* The unique constraint on wireguard_public_key.
TakenElsewhere(k, r) ==
  k # NoKey /\ \E s \in Routers \ {r} : router[s].exists /\ router[s].key = k

SetStatus(r, s) == router' = [router EXCEPT ![r].status = s]

Outcome(action, ok) == IF ~ok THEN "failed"
                       ELSE IF action = "provision" THEN "deployed" ELSE "not_deployed"
\* A router is current from a successful operation until its key is edited.
NowCurrent(r, ok) == IF ok THEN current \cup {r} ELSE current \ {r}

-----------------------------------------------------------------------------
(* The manager's API.                                                      *)

\* POST routers/.  An id is never used again: nobody is at work on the new one.
CreateRouter(r, k, active) ==
  /\ ~router[r].exists /\ \A c \in Calls : call[c].router # r
  /\ ~TakenElsewhere(k, r)
  /\ router' = [router EXCEPT ![r] = NewRouter(k, active)]
  /\ UNCHANGED <<ops, worker, call, seen, peers, env, current>>

\* Mutant: an edit is not refused while work is pending.
EditBusyRouter(r, k, active) ==
  /\ router[r].exists /\ ~TakenElsewhere(k, r)
  /\ router' = [router EXCEPT ![r] = [@ EXCEPT !.key = k, !.active = active]]
  /\ current' = IF k = router[r].key THEN current ELSE current \ {r}
  /\ UNCHANGED <<ops, worker, call, seen, peers, env>>

\* PATCH routers/{id}/: refused while work is pending.
EditRouter(r, k, active) ==
  /\ router[r].exists /\ ~Busy(r)
  /\ ~TakenElsewhere(k, r)
  /\ router' = [router EXCEPT ![r] = [@ EXCEPT !.key = k, !.active = active]]
  /\ current' = IF k = router[r].key THEN current ELSE current \ {r}
  /\ UNCHANGED <<ops, worker, call, seen, peers, env>>

\* DELETE routers/{id}/: not while busy or deployed; its operations PROTECT it,
\* and the records of its internal requests go with it.
DeleteRouter(r) ==
  /\ router[r].exists /\ ~Busy(r)
  /\ router[r].status # "deployed"
  /\ \A o \in DOMAIN ops : ops[o].router # r
  /\ router' = [router EXCEPT ![r].exists = FALSE]
  /\ seen' = {s \in seen : s[2] # r}
  /\ current' = current \ {r}
  /\ UNCHANGED <<ops, worker, call, peers, env>>

\* POST routers/{id}/provisioning/: queue an operation with the stored key.
RequestOperation(r, action) ==
  /\ Len(ops) < MaxOps
  /\ router[r].exists /\ ~Busy(r)
  /\ router[r].key # NoKey
  /\ action = "provision" => router[r].active
  /\ ops' = Append(ops, [router |-> r, action |-> action, key |-> router[r].key,
                         attempts |-> 0, expired |-> FALSE, status |-> "pending"])
  /\ SetStatus(r, "deploying")
  /\ UNCHANGED <<worker, call, seen, peers, env, current>>

-----------------------------------------------------------------------------
(* SSH to the VPS: wg set, then wg-quick save.                             *)

\* Mutant: an error of the command is not noticed.
SshAlwaysOk(action, k) ==
  LET after == IF action = "provision" THEN peers \cup {k} ELSE peers \ {k} IN
  {<<after, TRUE>>, <<peers, TRUE>>}

\* The peer sets and results a create_peer or remove_peer call can end with: an
\* error says nothing about whether wg set took effect.
SshResults(action, k) ==
  LET after == IF action = "provision" THEN peers \cup {k} ELSE peers \ {k} IN
  {<<after, TRUE>>, <<after, FALSE>>, <<peers, FALSE>>}

-----------------------------------------------------------------------------
(* run_one_router_operation.                                               *)

\* Mutant: an operation whose lease ran out is not claimed again.
ClaimablePending == {o \in DOMAIN ops : ops[o].status = "pending"}

Claimable == {o \in DOMAIN ops : \/ ops[o].status = "pending"
                                 \/ ops[o].status = "running" /\ ops[o].expired}

\* The oldest operation that is pending or whose lease ran out.
Claim(w) ==
  /\ worker[w].step = "idle"
  /\ \E o \in Claimable :
       LET n == ops[o].attempts + 1 IN
       /\ \A i \in Claimable : o <= i
       /\ ops' = [ops EXCEPT ![o] = [@ EXCEPT !.status = "running", !.expired = FALSE,
                                              !.attempts = n]]
       /\ worker' = [worker EXCEPT ![w] = [step |-> "claimed", op |-> o, attempts |-> n,
                                           ok |-> FALSE]]
  /\ UNCHANGED <<router, call, seen, peers, env, current>>

RunSsh(w) ==
  /\ worker[w].step = "claimed"
  /\ \E result \in SshResults(ops[worker[w].op].action, ops[worker[w].op].key) :
       /\ peers' = result[1]
       /\ worker' = [worker EXCEPT ![w] = [@ EXCEPT !.step = "ran", !.ok = result[2]]]
  /\ UNCHANGED <<router, ops, call, seen, env, current>>

\* Mutant: the fence looks at the status only.
SupersededByStatus(w) == ops[worker[w].op].status # "running"

\* Has a later claim taken the operation over, or has it been finished?
Superseded(w) == \/ ops[worker[w].op].attempts # worker[w].attempts
                 \/ ops[worker[w].op].status # "running"

\* The outcome, unless the worker has been superseded.
Finish(w) ==
  LET o == worker[w].op
      ok == worker[w].ok IN
  /\ worker[w].step = "ran"
  /\ worker' = [worker EXCEPT ![w] = IdleWorker]
  /\ IF Superseded(w) THEN UNCHANGED <<router, ops, current>>
     ELSE /\ ops' = [ops EXCEPT ![o].status = IF ok THEN "succeeded" ELSE "failed"]
          /\ SetStatus(ops[o].router, Outcome(ops[o].action, ok))
          /\ current' = NowCurrent(ops[o].router, ok)
  /\ UNCHANGED <<call, seen, peers, env>>

CrashWorker(w) ==
  /\ worker[w].step # "idle" /\ faults < MaxFaults
  /\ worker' = [worker EXCEPT ![w] = IdleWorker]
  /\ faults' = faults + 1
  /\ UNCHANGED <<router, ops, call, seen, peers, overrun, abandoned, current>>

\* Five minutes pass.  The SSH calls have timeouts far below that, so on a worker
\* that is still alive this takes a stalled process: a fault.
ExpireLease(o) ==
  LET held == \E w \in Workers : worker[w].op = o /\ ~Superseded(w) IN
  /\ ops[o].status = "running" /\ ~ops[o].expired
  /\ held => faults < MaxFaults
  /\ ops' = [ops EXCEPT ![o].expired = TRUE]
  /\ faults' = IF held THEN faults + 1 ELSE faults
  /\ overrun' = (overrun \/ held)
  /\ UNCHANGED <<router, worker, call, seen, peers, abandoned, current>>

-----------------------------------------------------------------------------
(* POST internal/router-provisioning/.                                     *)

\* The request record of a new id; a conflicting key deletes it again.
Submit(c, r, action, k) ==
  /\ \A s \in seen : s[1] # c
  /\ call[c].step = "idle" /\ router[r].exists
  /\ ~(action = "provision" /\ TakenElsewhere(k, r))
  /\ seen' = seen \cup {<<c, r>>}
  /\ call' = [call EXCEPT ![c] = [step |-> "recorded", router |-> r, action |-> action,
                                  key |-> k, ok |-> FALSE]]
  /\ UNCHANGED <<router, ops, worker, peers, env, current>>

\* A refusal or an error deletes the record, so that the id can be used again.
Withdraw(c) == seen' = {s \in seen : s[1] # c} /\ call' = [call EXCEPT ![c] = IdleCall]

\* Under the router's lock: take the key and mark the router, or refuse.
Dispatch(c) ==
  LET r == call[c].router
      action == call[c].action
      k == IF action = "provision" THEN call[c].key ELSE router[r].key
      refused == \/ ~router[r].exists \/ Busy(r) \/ k = NoKey
                 \/ TakenElsewhere(k, r) IN
  /\ call[c].step = "recorded"
  /\ IF refused THEN Withdraw(c) /\ UNCHANGED <<router, current>>
     ELSE /\ router' = [router EXCEPT ![r] = [@ EXCEPT !.key = k, !.status = "deploying"]]
          /\ current' = IF k = router[r].key THEN current ELSE current \ {r}
          /\ call' = [call EXCEPT ![c] = [@ EXCEPT !.step = "dispatched", !.key = k]]
          /\ UNCHANGED seen
  /\ UNCHANGED <<ops, worker, peers, env>>

CallSsh(c) ==
  /\ call[c].step = "dispatched"
  /\ \E result \in SshResults(call[c].action, call[c].key) :
       /\ peers' = result[1]
       /\ call' = [call EXCEPT ![c] = [@ EXCEPT !.step = "ran", !.ok = result[2]]]
  /\ UNCHANGED <<router, ops, worker, seen, env, current>>

\* Mutant: the error path forgets the router's status.
CompleteOnlySuccess(c) ==
  /\ call[c].step = "ran"
  /\ IF call[c].ok
     THEN /\ SetStatus(call[c].router, Outcome(call[c].action, TRUE))
          /\ current' = NowCurrent(call[c].router, TRUE)
          /\ call' = [call EXCEPT ![c] = IdleCall] /\ UNCHANGED seen
     ELSE Withdraw(c) /\ UNCHANGED <<router, current>>
  /\ UNCHANGED <<ops, worker, peers, env>>

\* The last transaction, or the error path, which also deletes the record.
CompleteCall(c) ==
  LET r == call[c].router IN
  /\ call[c].step = "ran"
  /\ SetStatus(r, Outcome(call[c].action, call[c].ok))
  /\ current' = NowCurrent(r, call[c].ok)
  /\ IF call[c].ok THEN call' = [call EXCEPT ![c] = IdleCall] /\ UNCHANGED seen
     ELSE Withdraw(c)
  /\ UNCHANGED <<ops, worker, peers, env>>

\* The web process dies; nothing resumes an internal request.
CrashCall(c) ==
  /\ call[c].step # "idle" /\ faults < MaxFaults
  /\ call' = [call EXCEPT ![c] = IdleCall]
  /\ abandoned' = IF call[c].step = "recorded" THEN abandoned
                  ELSE abandoned \cup {call[c].router}
  /\ faults' = faults + 1
  /\ UNCHANGED <<router, ops, worker, seen, peers, overrun, current>>

-----------------------------------------------------------------------------
Manager(r) == \/ \E k \in Keys \cup {NoKey}, active \in BOOLEAN :
                   CreateRouter(r, k, active) \/ EditRouter(r, k, active)
              \/ \E action \in Actions : RequestOperation(r, action)
              \/ DeleteRouter(r)

Work(w) == Claim(w) \/ RunSsh(w) \/ Finish(w)

Internal(c) == \/ \E r \in Routers, action \in Actions, k \in Keys : Submit(c, r, action, k)
               \/ Dispatch(c)
               \/ CallSsh(c)
               \/ CompleteCall(c)

Next == \/ \E r \in Routers : Manager(r)
        \/ \E w \in Workers : Work(w) \/ CrashWorker(w)
        \/ \E o \in DOMAIN ops : ExpireLease(o)
        \/ \E c \in Calls : Internal(c) \/ CrashCall(c)

Spec == Init /\ [][Next]_vars

\* The worker command runs continuously and time passes.
Fairness == /\ \A w \in Workers : WF_vars(Work(w))
            /\ \A o \in 1 .. MaxOps : WF_vars(o \in DOMAIN ops /\ ExpireLease(o))

LiveSpec == Spec /\ Fairness

-----------------------------------------------------------------------------
(* Properties.                                                             *)

\* Every variable has its type.
TypeOK == /\ router \in [Routers -> Router]
          /\ ops \in Seq(Op) /\ Len(ops) <= MaxOps
          /\ worker \in [Workers -> WorkerRecord]
          /\ call \in [Calls -> CallRecord]
          /\ seen \subseteq Calls \X Routers
          /\ peers \subseteq Keys
          /\ faults \in 0 .. MaxFaults
          /\ overrun \in BOOLEAN
          /\ abandoned \subseteq Routers
          /\ current \subseteq Routers

InFlight(r) == {c \in Calls : call[c].step \in {"dispatched", "ran"} /\ call[c].router = r}

\* "Both the existing signed internal endpoint and the new queue reject
\* conflicting provisioning work" (API_IMPLEMENTATION_REPORT.md): a router has at
\* most one operation or internal request in progress, and shows "deploying".
OneProvisioningAtATime ==
  \A r \in Routers :
    /\ Cardinality(LiveOps(r)) + Cardinality(InFlight(r)) <= 1
    /\ LiveOps(r) # {} \/ InFlight(r) # {} => router[r].status = "deploying"

\* "Pending provisioning blocks configuration edits, deletion": what is being set
\* up on the VPS is what the router's row says, until the outcome is recorded.
ConfigurationHeldStill ==
  /\ \A o \in DOMAIN ops :
       ops[o].status \in Live =>
         router[ops[o].router].exists /\ router[ops[o].router].key = ops[o].key
  /\ \A r \in Routers, c \in Calls :
       c \in InFlight(r) => router[r].exists /\ router[r].key = call[c].key

\* An operation is not declared finished, and the router not released, while the
\* worker that claimed it last is still at work on the VPS.
FinishedByItsHolder ==
  \A w \in Workers :
    worker[w].step # "idle" /\ ops[worker[w].op].attempts = worker[w].attempts
      => ops[worker[w].op].status = "running"

\* "wg set/remove converge on the stored desired state after a worker crash and
\* retry" (operations.py:22-23): a status the last operation left on an unedited
\* router is true of the VPS, unless a stalled worker outlived its lease.
StatusIsTrue ==
  \A r \in current :
    /\ router[r].status = "deployed" /\ ~overrun => router[r].key \in peers
    /\ router[r].status = "not_deployed" /\ ~overrun => router[r].key \notin peers

\* A router is never left "deploying" with nobody at work, save by an internal
\* request that died: unlike the queue, it has no lease to take over.
DeployingHasOwner ==
  \A r \in Routers :
    router[r].status = "deploying" =>
      LiveOps(r) # {} \/ InFlight(r) # {} \/ r \in abandoned

\* Every queued operation is finished, though workers crash while they hold it.
EveryOperationFinishes ==
  \A o \in 1 .. MaxOps :
    o \in DOMAIN ops ~> (o \in DOMAIN ops /\ ops[o].status \notin Live)
==============================================================================
