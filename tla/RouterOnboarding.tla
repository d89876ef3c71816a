--------------------------- MODULE RouterOnboarding ---------------------------
(***************************************************************************)
(* What surrounds the provisioning of a router: its onboarding states and  *)
(* their audit trail, the replacement of its RADIUS secret, the checks     *)
(* that were recorded for it and its row in FreeRADIUS's nas table         *)
(* (src/apps/routers/state_machine.py, views.py, operation_api.py,         *)
(* services.py).                                                           *)
(*                                                                         *)
(* The steps of RouterProvisioning are composed with what they do to these *)
(* tables.  A manager's request holds the row it fetched, with a version   *)
(* (updated_at) that every save of the router changes: of an outdated row  *)
(* only the onboarding state is still used.                                *)
(***************************************************************************)
EXTENDS RouterProvisioning

CONSTANTS Managers,  \* managers' requests in flight
          Addresses, \* what NASDevice.ip_address may be, a peer's address included
          Secrets,   \* RADIUS shared secrets
          NoSecret,  \* the secret of an address that is not registered
          Outdated,  \* in place of a version that is not the router's any more
          MaxEvents  \* bound on the events managers add to a router's audit trail

ASSUME SecretAssumption == NoSecret \notin Secrets /\ MaxEvents \in Nat

VARIABLES
  sheet,   \* the other columns of the NASDevice rows
  trail,   \* RouterAuditEvent rows that carry an onboarding state, per router
  check,   \* RouterOnboardingCheck rows of the type wireguard_peer
  nas,     \* FreeRADIUS: the secret registered for each address
  copy,    \* what each manager's request has fetched
  behind,  \* history: routers re-addressed, given a secret, or overwritten by a router
           \* with their address, and not registered since
  blind    \* history: routers whose last outcome was a failed internal request

onboarding == <<sheet, trail, check, nas, copy, behind, blind>>
allvars == <<vars, onboarding>>

\* RouterStateMachine.VALID_TRANSITIONS.
Transitions ==
  [pending |-> {"reviewed"},
   reviewed |-> {"approved", "pending"},
   approved |-> {"waiting_for_vpn"},
   waiting_for_vpn |-> {"vpn_failed", "testing_radius"},
   vpn_failed |-> {"waiting_for_vpn", "suspended"},
   testing_radius |-> {"radius_failed", "accounting_failed", "active"},
   radius_failed |-> {"testing_radius", "suspended"},
   accounting_failed |-> {"testing_radius", "suspended"},
   active |-> {"suspended"},
   suspended |-> {"active", "pending"}]
States == DOMAIN Transitions

Sheet == [state : States, secret : Secrets, ip : Addresses]
Event == [action : {"manual_transition", "radius_auth_test"} \cup Actions,
          from : States, to : States]
Check == {"none", "passed", "failed"}
Version == [sheet : Sheet, key : Keys \cup {NoKey}, active : BOOLEAN]
Copy == [router : Routers, state : States, version : Version \cup {Outdated}]
NoCopy == [router |-> NoRouter]

\* NASDevice.radius_ip: the address that travels with the key, else ip_address.
\* Nothing keeps the latter apart from the addresses of other routers.
Address(r) == IF router[r].key = NoKey THEN sheet[r].ip ELSE router[r].key

VersionOf(r) == [sheet |-> sheet[r], key |-> router[r].key, active |-> router[r].active]

\* Mutant: nas_secret is optional, and a blank stays blank when encrypted.
BlankSheet(s, ip) == [state |-> "pending", secret |-> NoSecret, ip |-> ip]

NewSheet(s, ip) == [state |-> "pending", secret |-> s, ip |-> ip]

OnboardingInit == /\ Init
                  /\ sheet \in [Routers -> [state : {"pending"}, secret : Secrets, ip : Addresses]]
                  /\ trail = [r \in Routers |-> <<>>]
                  /\ check = [r \in Routers |-> "none"]
                  /\ nas = [a \in Addresses \cup Keys |-> NoSecret]
                  /\ copy = [m \in Managers |-> NoCopy]
                  /\ behind = {} /\ blind = {}

\* Mutant: the check tells that the operation succeeded, whichever it was.
PassedIfOk(action, ok) == IF ok THEN "passed" ELSE "failed"

\* What the wireguard_peer check records: is there a peer?
Passed(action, ok) == IF ok /\ action = "provision" THEN "passed" ELSE "failed"

\* The copies after a save of r, which ends the requests done.
Saved(r, done) == copy' = [m \in Managers |->
  IF m \in done THEN NoCopy
  ELSE IF copy[m].router = r THEN [copy[m] EXCEPT !.version = Outdated] ELSE copy[m]]

Done(m) == copy' = [copy EXCEPT ![m] = NoCopy]

\* When the address changes, the nas row stays behind.
NowBehind(r) == behind' = IF Address(r) = Address(r)' THEN behind ELSE behind \cup {r}

-----------------------------------------------------------------------------
(* The steps of RouterProvisioning.                                        *)

Create(r, k, active, s, ip) ==
  /\ CreateRouter(r, k, active) /\ \A m \in Managers : copy[m].router # r
  /\ sheet' = [sheet EXCEPT ![r] = NewSheet(s, ip)]
  /\ behind' = behind \cup {r} /\ blind' = blind \ {r}
  /\ UNCHANGED <<trail, check, nas, copy>>

Edit(r, k, active, ip) ==
  /\ EditRouter(r, k, active)
  /\ sheet' = [sheet EXCEPT ![r].ip = ip]
  /\ Saved(r, {}) /\ NowBehind(r)
  /\ UNCHANGED <<trail, check, nas, blind>>

\* The events and checks go with the router, its nas row stays.
Delete(r) ==
  /\ DeleteRouter(r)
  /\ trail' = [trail EXCEPT ![r] = <<>>]
  /\ check' = [check EXCEPT ![r] = "none"]
  /\ UNCHANGED <<sheet, nas, copy, behind, blind>>

Queue(r, action) ==
  /\ RequestOperation(r, action)
  /\ Saved(r, {})
  /\ UNCHANGED <<sheet, trail, check, nas, behind, blind>>

RecordOutcome(w) ==
  LET op == ops[worker[w].op] IN
  /\ Finish(w)
  /\ IF Superseded(w) THEN UNCHANGED <<check, copy, blind>>
     ELSE /\ check' = [check EXCEPT ![op.router] = Passed(op.action, worker[w].ok)]
          /\ Saved(op.router, {})
          /\ blind' = blind \ {op.router}
  /\ UNCHANGED <<sheet, trail, nas, behind>>

Mark(c) ==
  /\ Dispatch(c)
  /\ UNCHANGED <<sheet, trail, check, nas, blind>>
  /\ IF router' = router THEN UNCHANGED <<copy, behind>>
     ELSE Saved(call[c].router, {}) /\ NowBehind(call[c].router)

Record(r, action, from, to) ==
  trail' = [trail EXCEPT ![r] = Append(@, [action |-> action, from |-> from, to |-> to])]

\* The error path updates one column: neither the version nor the check changes.
RecordCall(c) ==
  LET r == call[c].router IN
  /\ CompleteCall(c)
  /\ IF call[c].ok
     THEN /\ check' = [check EXCEPT ![r] = Passed(call[c].action, TRUE)]
          /\ Record(r, call[c].action, sheet[r].state, sheet[r].state)
          /\ Saved(r, {})
          /\ blind' = blind \ {r}
     ELSE /\ blind' = blind \cup {r}
          /\ UNCHANGED <<check, trail, copy>>
  /\ UNCHANGED <<sheet, nas, behind>>

-----------------------------------------------------------------------------
(* Managers.                                                               *)

\* get_object, or the page a manager looks at.
Fetch(m, r) ==
  /\ copy[m] = NoCopy /\ router[r].exists
  /\ copy' = [copy EXCEPT ![m] = [router |-> r, state |-> sheet[r].state,
                                  version |-> VersionOf(r)]]
  /\ UNCHANGED <<vars, sheet, trail, check, nas, behind, blind>>

Forget(m) ==
  /\ copy[m] # NoCopy
  /\ Done(m)
  /\ UNCHANGED <<vars, sheet, trail, check, nas, behind, blind>>

Log(r, action, from, to) == Len(trail[r]) < MaxEvents /\ Record(r, action, from, to)

\* Mutant: judged by the state the view fetched, before the lock.
MoveAsFetched(m, to) ==
  LET r == copy[m].router IN
  /\ copy[m] # NoCopy /\ router[r].exists
  /\ to \in Transitions[copy[m].state]
  /\ sheet' = [sheet EXCEPT ![r].state = to]
  /\ Log(r, "manual_transition", copy[m].state, to)
  /\ Saved(r, {m})
  /\ UNCHANGED <<vars, check, nas, behind, blind>>

\* Mutant: updated_at is not among the update_fields.
MoveSilently(m, to) ==
  LET r == copy[m].router IN
  /\ copy[m] # NoCopy /\ router[r].exists
  /\ to \in Transitions[sheet[r].state]
  /\ sheet' = [sheet EXCEPT ![r].state = to]
  /\ Log(r, "manual_transition", sheet[r].state, to)
  /\ Done(m)
  /\ UNCHANGED <<vars, check, nas, behind, blind>>

\* RouterStateMachine.transition: the row is fetched again under its lock.
Move(m, to) ==
  LET r == copy[m].router IN
  /\ copy[m] # NoCopy /\ router[r].exists
  /\ to \in Transitions[sheet[r].state]
  /\ sheet' = [sheet EXCEPT ![r].state = to]
  /\ Log(r, "manual_transition", sheet[r].state, to)
  /\ Saved(r, {m})
  /\ UNCHANGED <<vars, check, nas, behind, blind>>

\* POST routers/{id}/test/: once FreeRADIUS has answered, the event shows the
\* router as it was fetched.  (The check of type radius_auth is left out.)
Test(m) ==
  LET r == copy[m].router IN
  /\ copy[m] # NoCopy /\ router[r].exists
  /\ Log(r, "radius_auth_test", copy[m].state, copy[m].state)
  /\ Done(m)
  /\ UNCHANGED <<vars, sheet, check, nas, behind, blind>>

\* Mutant: the router object fetched before the update is registered.
RegisterOutdated(r, s) == nas' = [nas EXCEPT ![Address(r)] = sheet[r].secret]

\* RouterService.register_nas_client: an upsert by address.
Register(r, s) == nas' = [nas EXCEPT ![Address(r)] = s]

\* The routers whose row it is as well, and that have another secret.
Overwritten(a, s) == {q \in Routers : /\ router[q].exists /\ Address(q) = a
                                      /\ sheet[q].secret # s}

\* POST routers/{id}/replace-secrets/, with the version the manager was shown.
ReplaceSecret(m, s) ==
  LET r == copy[m].router
      deployed == router[r].status = "deployed" IN
  /\ copy[m] # NoCopy /\ router[r].exists
  /\ copy[m].version # Outdated /\ ~Busy(r)
  /\ sheet' = [sheet EXCEPT ![r].secret = s]
  /\ IF deployed THEN Register(r, s) ELSE UNCHANGED nas
  /\ behind' = IF deployed THEN (behind \cup Overwritten(Address(r), s)) \ {r}
             ELSE behind \cup {r}
  /\ Saved(r, {m})
  /\ UNCHANGED <<vars, trail, check, blind>>

\* The same on a router that is not among Routers, another tenant's perhaps, and
\* has or had the address a.
ReplaceElsewhere(a, s) ==
  /\ nas' = [nas EXCEPT ![a] = s]
  /\ behind' = behind \cup Overwritten(a, s)
  /\ UNCHANGED <<vars, sheet, trail, check, copy, blind>>

-----------------------------------------------------------------------------
Manage(m) == \/ \E r \in Routers : Fetch(m, r)
             \/ \E to \in States : Move(m, to)
             \/ \E s \in Secrets : ReplaceSecret(m, s)
             \/ Test(m)
             \/ Forget(m)

Configure(r) == \/ \E k \in Keys \cup {NoKey}, active \in BOOLEAN, ip \in Addresses :
                     Edit(r, k, active, ip) \/ \E s \in Secrets : Create(r, k, active, s, ip)
                \/ \E action \in Actions : Queue(r, action)
                \/ Delete(r)

\* The steps that touch none of the tables of this module.
Elsewhere == /\ \/ \E w \in Workers : Claim(w) \/ RunSsh(w) \/ CrashWorker(w)
                \/ \E o \in DOMAIN ops : ExpireLease(o)
                \/ \E c \in Calls : \/ CallSsh(c) \/ CrashCall(c)
                                    \/ \E r \in Routers, action \in Actions, k \in Keys :
                                         Submit(c, r, action, k)
             /\ UNCHANGED onboarding

OnboardingNext == \/ \E m \in Managers : Manage(m)
                  \/ \E r \in Routers : Configure(r)
                  \/ \E w \in Workers : RecordOutcome(w)
                  \/ \E c \in Calls : Mark(c) \/ RecordCall(c)
                  \/ \E a \in Addresses \cup Keys, s \in Secrets : ReplaceElsewhere(a, s)
                  \/ Elsewhere

OnboardingSpec == OnboardingInit /\ [][OnboardingNext]_allvars

-----------------------------------------------------------------------------
(* Properties.                                                             *)

\* Every variable of this module has its type.
OnboardingTypeOK ==
  /\ sheet \in [Routers -> Sheet]
  /\ trail \in [Routers -> Seq(Event)]
  /\ check \in [Routers -> Check]
  /\ nas \in [Addresses \cup Keys -> Secrets \cup {NoSecret}]
  /\ copy \in [Managers -> Copy \cup {NoCopy}]
  /\ behind \subseteq Routers /\ blind \subseteq Routers

\* The transitions among the events of r.
Moves(r) == {i \in DOMAIN trail[r] : trail[r][i].action = "manual_transition"}

\* The last transition before the i-th event of r, if there is one, led to s.
StandsAt(r, i, s) ==
  LET earlier == {j \in Moves(r) : j < i} IN
  IF earlier = {} THEN s = "pending"
  ELSE \E last \in earlier : /\ \A j \in earlier : j <= last
                            /\ trail[r][last].to = s

\* The audit trail of a router is one path of allowed transitions, from "pending"
\* to the state it is in, however the requests of managers interleave.
TrailLeadsToState ==
  \A r \in Routers : router[r].exists =>
    /\ \A i \in Moves(r) : LET e == trail[r][i] IN
                            StandsAt(r, i, e.from) /\ e.to \in Transitions[e.from]
    /\ StandsAt(r, Len(trail[r]) + 1, sheet[r].state)

\* "A stale version returns 409" (API_IMPLEMENTATION_REPORT.md): who replaces a
\* secret has seen the router with the secret, the onboarding state and the
\* configuration it has at that moment.
ReplacedKnowingly ==
  [][\A m \in Managers :
       LET r == copy[m].router IN
       copy[m] # NoCopy /\ router[r].exists /\ sheet'[r].secret # sheet[r].secret
         /\ copy'[m] = NoCopy =>
           copy[m].version = VersionOf(r)]_allvars

\* "If a deployed NAS secret is replaced, the NAS SQL record is updated
\* atomically" (API_IMPLEMENTATION_REPORT.md): FreeRADIUS knows a router by its
\* secret, unless that was set, or the router re-addressed, when nothing registers, or
\* the secret of another router with the same address was registered since.
NasRowFollowsSecret ==
  \A r \in Routers :
    router[r].exists /\ r \notin behind => nas[Address(r)] = sheet[r].secret

\* The recorded check says "passed" of exactly the routers shown as deployed,
\* whichever path brought the outcome, unless the last one was a failed internal
\* request, which leaves the check as it was.
PeerCheckTellsStatus ==
  \A r \in Routers :
    router[r].exists /\ ~Busy(r) /\ r \notin blind =>
      (check[r] = "passed" <=> router[r].status = "deployed")
==============================================================================
