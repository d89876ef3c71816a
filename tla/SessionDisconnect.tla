-------------------------- MODULE SessionDisconnect --------------------------
(***************************************************************************)
(* A manager disconnects a live session: the handler IdempotentCommand     *)
(* runs, step by step, between the router table, which other requests edit,*)
(* FreeRADIUS's accounting rows and the packet to the router               *)
(* (src/apps/dashboard/views.py, src/apps/routers/selectors.py,            *)
(* radius_client.py).                                                      *)
(*                                                                         *)
(* The scope of a key holds the path and the tenant, so that a key stands  *)
(* for one session and one tenant.  The handler reads in autocommit: each  *)
(* query is a step of its own.                                             *)
(***************************************************************************)
EXTENDS IdempotentCommand, FiniteSets

CONSTANTS Tenants,
          Devices,    \* NASDevice ids
          Addresses,  \* ip_address and wireguard_ip values
          Sessions,   \* Radacct ids
          NoDevice,   \* the router of a session that has not begun
          DeviceOf,   \* [Devices -> Tenants]: the tenant of a router
          Subject     \* [Keys -> [tenant : Tenants, session : Sessions]]

ASSUME DeviceAssumption == /\ IsFiniteSet(Devices) /\ NoDevice \notin Devices
                            /\ DeviceOf \in [Devices -> Tenants]
ASSUME SubjectAssumption == Subject \in [Keys -> [tenant : Tenants, session : Sessions]]

VARIABLES
  device,   \* NASDevice rows: none of the addresses means no row
  session,  \* Radacct rows, with the router that reported them
  deleted,  \* routers that are gone: an id is never used again
  task,     \* how far each request's handler is, and what it has read
  sent,     \* history: the routers sent a Disconnect-Request under each key, in order
  events,   \* the routers with a radius_disconnect_request audit event of each key
  outdated  \* history: requests in whose course the router table changed

world == <<device, session, deleted>>
handler == <<task, sent, events, outdated>>
allvars == <<vars, world, handler>>

DeviceRow == [addresses : SUBSET Addresses, active : BOOLEAN]
SessionRow == [device : Devices \cup {NoDevice}, address : SUBSET Addresses, open : BOOLEAN]
Task == [step : {"start", "own", "addressed", "found", "routed", "sent"},
         addresses : SUBSET Addresses, router : Devices \cup {NoDevice}, answered : BOOLEAN]

NoTask == [step |-> "start", addresses |-> {}, router |-> NoDevice, answered |-> FALSE]
NoRow == [addresses |-> {}, active |-> FALSE]
NoSession == [device |-> NoDevice, address |-> {}, open |-> FALSE]

DisconnectInit ==
  /\ Init
  /\ device = [d \in Devices |-> NoRow]
  /\ session = [s \in Sessions |-> NoSession]
  /\ deleted = {}
  /\ task = [r \in Requests |-> NoTask]
  /\ sent = [k \in Keys |-> <<>>]
  /\ events = [k \in Keys |-> {}]
  /\ outdated = {}

-----------------------------------------------------------------------------
(* Around the handler.                                                     *)

\* What the handler of a request has read of the router table is no longer so.
OutdateReaders == outdated' = outdated \cup {r \in Requests : request[r].step = "reserved"}

\* A router is created or edited.  Only WireGuard addresses are unique: two routers,
\* of two tenants even, can be given one ip_address.
Configure(d, addresses, active) ==
  /\ d \notin deleted /\ addresses # {}
  /\ device' = [device EXCEPT ![d] = [addresses |-> addresses, active |-> active]]
  /\ OutdateReaders
  /\ UNCHANGED <<vars, session, deleted, task, sent, events>>

\* A router is deleted, and its audit events with it.
Delete(d) ==
  /\ device[d].addresses # {}
  /\ device' = [device EXCEPT ![d] = NoRow]
  /\ deleted' = deleted \cup {d}
  /\ events' = [k \in Keys |-> events[k] \ {d}]
  /\ OutdateReaders
  /\ UNCHANGED <<vars, session, task, sent>>

\* FreeRADIUS: a session begins on a router, or ends.
StartSession(s, d) ==
  /\ session[s] = NoSession
  /\ \E a \in device[d].addresses :
       session' = [session EXCEPT ![s] = [device |-> d, address |-> {a}, open |-> TRUE]]
  /\ UNCHANGED <<vars, device, deleted, handler>>

StopSession(s) ==
  /\ session[s].open
  /\ session' = [session EXCEPT ![s].open = FALSE]
  /\ UNCHANGED <<vars, device, deleted, handler>>

-----------------------------------------------------------------------------
(* DisconnectSessionView.post.                                             *)

TenantOf(r) == Subject[request[r].key].tenant
SessionOf(r) == Subject[request[r].key].session

At(r, step) == request[r].step = "reserved" /\ task[r].step = step
Advance(r, fields) == /\ task' = [task EXCEPT ![r] = fields]
                      /\ UNCHANGED <<vars, world, sent, events, outdated>>

\* tenant_radius_addresses, first query: what the tenant's own routers are called.
ReadOwn(r) ==
  /\ At(r, "start")
  /\ Advance(r, [NoTask EXCEPT !.step = "own",
       !.addresses = UNION {device[d].addresses : d \in {e \in Devices : DeviceOf[e] = TenantOf(r)}}])

Holding(a) == {d \in Devices : a \in device[d].addresses}

\* Mutant: only the tenant's own routers are counted.
OwnMatches(t, a) == Cardinality({d \in Holding(a) : DeviceOf[d] = t})

\* The routers, of any tenant, that have an address of the tenant t.
Matches(t, a) == Cardinality(Holding(a))

\* Second query: an address that two routers share is dropped.
DropAmbiguous(r) ==
  /\ At(r, "own")
  /\ Advance(r, [task[r] EXCEPT !.step = "addressed",
       !.addresses = {a \in @ : Matches(TenantOf(r), a) = 1}])

\* The open accounting row with the id, at one of these addresses.
Visible(r) == LET s == session[SessionOf(r)] IN
              s.open /\ s.address \subseteq task[r].addresses

FindSession(r) ==
  /\ At(r, "addressed") /\ Visible(r)
  /\ Advance(r, [task[r] EXCEPT !.step = "found"])

\* The active routers of the tenant at the session's address.
Routers(r) == {d \in Devices : /\ DeviceOf[d] = TenantOf(r) /\ device[d].active
                               /\ session[SessionOf(r)].address \subseteq device[d].addresses}

\* The first of them is read, with its secret.
FindRouter(r) ==
  /\ At(r, "found")
  /\ \E d \in Routers(r) : Advance(r, [task[r] EXCEPT !.step = "routed", !.router = d])

\* RadiusDisconnectClient.disconnect: one packet, and an answer (ACK or NAK) or none.
Send(r) ==
  /\ At(r, "routed")
  /\ sent' = [sent EXCEPT ![request[r].key] = Append(@, task[r].router)]
  /\ \E answered \in BOOLEAN :
       task' = [task EXCEPT ![r] = [@ EXCEPT !.step = "sent", !.answered = answered]]
  /\ UNCHANGED <<vars, world, events, outdated>>

\* NotFound, or 503 for a packet that was not answered.
Refused(r) == \/ /\ At(r, "addressed")
                 /\ ~Visible(r)
              \/ At(r, "found") /\ Routers(r) = {}
              \/ At(r, "sent") /\ ~task[r].answered
Answered(r) == At(r, "sent") /\ task[r].answered

\* The audit event is inserted once the router has answered.  The insert can fail:
\* the router read earlier is gone (409), or the database is (503).
Inserted(r) == Answered(r) /\ task[r].router \notin deleted
InsertFailed(r) == Answered(r)

\* Mutant: the event is written before the answer is looked at.
LogSent(r, answer) == IF At(r, "sent")
                      THEN [events EXCEPT ![request[r].key] = @ \cup {task[r].router}]
                      ELSE events
Log(r, answer) == IF answer = "ok" THEN [events EXCEPT ![request[r].key] = @ \cup {task[r].router}]
                  ELSE events

\* The handler ends with its response, or with an exception that nothing handles.
Return(r, answer) ==
  /\ answer = "error" => Refused(r) \/ InsertFailed(r)
  /\ answer = "ok" => Inserted(r)
  /\ Handle(r) /\ request'[r].response = answer
  /\ events' = Log(r, answer)
  /\ task' = [task EXCEPT ![r] = NoTask]
  /\ outdated' = outdated \ {r}
  /\ UNCHANGED <<world, sent>>

-----------------------------------------------------------------------------
\* The decorator's other steps, and the death of a process.
Elsewhere(step) == step /\ UNCHANGED <<world, handler>>

Die(r) == /\ Crash(r)
          /\ task' = [task EXCEPT ![r] = NoTask]
          /\ outdated' = outdated \ {r}
          /\ UNCHANGED <<world, sent, events>>

Proceed(r) == \/ ReadOwn(r) \/ DropAmbiguous(r) \/ FindSession(r) \/ FindRouter(r)
              \/ Send(r)
              \/ \E answer \in Bodies \cup {"server_error"} : Return(r, answer)
              \/ Elsewhere(Reserve(r)) \/ Elsewhere(Complete(r))

DisconnectNext ==
  \/ \E r \in Requests : Elsewhere(Arrive(r)) \/ Proceed(r) \/ Die(r)
  \/ \E d \in Devices, addresses \in SUBSET Addresses, active \in BOOLEAN :
       Configure(d, addresses, active)
  \/ \E d \in Devices : Delete(d)
  \/ \E s \in Sessions : StopSession(s) \/ \E d \in Devices : StartSession(s, d)

DisconnectSpec == /\ DisconnectInit /\ [][DisconnectNext]_allvars
                  /\ \A r \in Requests : WF_allvars(Proceed(r))

-----------------------------------------------------------------------------
(* Properties.                                                             *)

\* However often a manager clicks or a client retries, and whether the answer, the
\* packet or the process was lost, one key sends one Disconnect-Request.
OnePacketPerKey == \A k \in Keys : Len(sent[k]) <= 1

\* The response that is replayed and the audit trail agree: a success has its one
\* event, about the router that was sent the packet, for as long as that router has
\* a row; a failure has none, even where the router had answered; and no event tells
\* of a router that was not sent a packet.
ReplyMatchesTrail ==
  \A k \in Keys :
    /\ command[k].response = "ok" =>
         \E d \in Devices : sent[k] = <<d>> /\ events[k] = {d} \ deleted
    /\ command[k].response = "error" => events[k] = {}
    /\ \A d \in events[k] : sent[k] = <<d>>

\* "Never assign accounting rows to a tenant when the NAS address is ambiguous"
\* (selectors.py): a packet goes to a session on the tenant's own router, unless
\* that router has given the address up since the session began, or the router
\* table changed while the handler read it.
OwnSessionsUnlessOutdated ==
  [][\A r \in Requests :
       LET s == session[SessionOf(r)] IN
       task[r].step = "routed" /\ task'[r].step = "sent" /\ r \notin outdated =>
         \/ DeviceOf[s.device] = TenantOf(r)
         \/ ~(s.address \subseteq device[s.device].addresses)]_allvars
==============================================================================
