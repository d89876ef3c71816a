---------------------------- MODULE TenantAccounts ----------------------------
(***************************************************************************)
(* Who may act for a tenant: its memberships, of which one at least should *)
(* be an owner's, and its staff assignments, which go to accounts that     *)
(* have no membership, some of them by invitation                          *)
(* (src/apps/tenants/views.py and serializers.py,                          *)
(* src/apps/accounts/staff_api.py).                                        *)
(*                                                                         *)
(* A request reads and validates first and writes later: the writes to a   *)
(* membership are serialised by the tenant's row, and an invitation is     *)
(* locked while it is accepted.                                            *)
(***************************************************************************)
EXTENDS Naturals

CONSTANTS Users,    \* accounts that are neither agents nor platform administrators
          Owner,    \* the one that registered the tenant
          Requests, \* management requests, each made once
          NoRole,   \* no membership
          NoUser    \* the user of a request not yet made

ASSUME OwnerAssumption == Owner \in Users
ASSUME NullAssumption == NoUser \notin Users /\ NoRole \notin {"owner", "staff"}

VARIABLES
  role,       \* TenantMembership rows: the role of each user
  joined,     \* users that have been given a membership: once each, a bound
  assigned,   \* users with a StaffAssignment
  invitation, \* the StaffInvitation for each user's address: one each, a bound
  request,    \* where each request is, with what it has read
  stale       \* history: users written to on a reading that no longer held

vars == <<role, joined, assigned, invitation, request, stale>>

\* Managers and staff are alike here.
Roles == {"owner", "staff"}
Kinds == {"none", "create", "update", "destroy", "assign", "unassign", "accept"}
Request == [step : {"new", "read", "done"}, kind : Kinds, user : Users \cup {NoUser},
            asked : Roles \cup {NoRole}, seen : Roles \cup {NoRole}]

NewRequest == [step |-> "new", kind |-> "none", user |-> NoUser, asked |-> NoRole,
               seen |-> NoRole]

Init == /\ role = [u \in Users |-> IF u = Owner THEN "owner" ELSE NoRole]
        /\ joined = {Owner}
        /\ assigned = {}
        /\ invitation = [u \in Users |-> "none"]
        /\ request = [q \in Requests |-> NewRequest]
        /\ stale = {}

Members == {u \in Users : role[u] # NoRole}
Owners == {u \in Users : role[u] = "owner"}

\* validate_user, with the unique user of a membership.
MayJoin(u) == u \notin Members /\ u \notin assigned
\* Mutant: a member may be assigned.
AnyoneMayBeAssigned(u) == TRUE

\* StaffAssignmentSerializer.validate.
MayBeAssigned(u) == u \notin Members

Locked(u) == \E q \in Requests :
               request[q].step = "read" /\ request[q].kind = "accept" /\ request[q].user = u

\* Mutant: only a revoked invitation is refused.
UnlessRevoked(u) == ~Locked(u) /\ invitation[u] \in {"pending", "accepted"}

\* AcceptStaffInvitationView, under the invitation's lock.
Acceptable(u) == ~Locked(u) /\ invitation[u] = "pending"

\* The first half of a request: fetch the row, run the serializer.
Read(q, kind, u, asked) ==
  /\ request[q].step = "new"
  /\ kind = "create" => MayJoin(u) /\ u \notin joined
  /\ kind \in {"update", "destroy"} => u \in Members
  /\ kind \in {"assign", "accept"} => MayBeAssigned(u)
  /\ kind = "accept" => Acceptable(u)
  /\ kind = "unassign" => u \in assigned
  /\ request' = [request EXCEPT ![q] = [step |-> "read", kind |-> kind, user |-> u,
                                        asked |-> asked, seen |-> role[u]]]
  /\ UNCHANGED <<role, joined, assigned, invitation, stale>>

Ready(q, kind) == request[q].step = "read" /\ request[q].kind = kind
Done(q) == request' = [request EXCEPT ![q].step = "done"]
\* Remember a write that rests on a reading no longer true.
Mark(u, outdated) == stale' = IF outdated THEN stale \cup {u} ELSE stale

\* perform_create: the insert fails if the user has got a membership meanwhile.
Create(q) ==
  LET u == request[q].user IN
  /\ Ready(q, "create")
  /\ u \in joined => u \in Members
  /\ Done(q)
  /\ IF u \in Members
     THEN UNCHANGED <<role, joined, stale>>
     ELSE /\ role' = [role EXCEPT ![u] = request[q].asked]
          /\ joined' = joined \cup {u}
          /\ Mark(u, ~MayJoin(u))
  /\ UNCHANGED <<assigned, invitation>>

\* Mutant: any other member counts as the owner that remains.
LastMemberAllows(q, new) ==
  \/ request[q].seen # "owner"
  \/ new = "owner"
  \/ Members \ {request[q].user} # {}

\* check_last_owner, on the instance as the request read it: may u, then seen as
\* an owner or not, get the given role?
LastOwnerAllows(q, new) ==
  \/ request[q].seen # "owner"
  \/ new = "owner"
  \/ Owners \ {request[q].user} # {}

\* perform_update: the whole row is saved, an omitted role as it was read, and a
\* row deleted meanwhile is inserted again.
Update(q) ==
  LET u == request[q].user
      new == IF request[q].asked = NoRole THEN request[q].seen ELSE request[q].asked IN
  /\ Ready(q, "update")
  /\ Done(q)
  /\ IF LastOwnerAllows(q, new)
     THEN /\ role' = [role EXCEPT ![u] = new]
          /\ Mark(u, role[u] # request[q].seen)
     ELSE UNCHANGED <<role, stale>>
  /\ UNCHANGED <<joined, assigned, invitation>>

Destroy(q) ==
  LET u == request[q].user IN
  /\ Ready(q, "destroy")
  /\ Done(q)
  /\ IF LastOwnerAllows(q, NoRole)
     THEN /\ role' = [role EXCEPT ![u] = NoRole]
          /\ Mark(u, role[u] # request[q].seen)
     ELSE UNCHANGED <<role, stale>>
  /\ UNCHANGED <<joined, assigned, invitation>>

\* A platform administrator's assignment, or the edit of one: the whole row is saved,
\* and inserted again if it was deleted meanwhile.
Assign(q) ==
  LET u == request[q].user IN
  /\ Ready(q, "assign")
  /\ Done(q)
  /\ assigned' = assigned \cup {u}
  /\ Mark(u, ~MayBeAssigned(u))
  /\ UNCHANGED <<role, joined, invitation>>

Unassign(q) ==
  /\ Ready(q, "unassign")
  /\ Done(q)
  /\ assigned' = assigned \ {request[q].user}
  /\ UNCHANGED <<role, joined, invitation, stale>>

\* The second half of an acceptance: a new assignment, or the one there is again.
Accept(q) ==
  LET u == request[q].user IN
  /\ Ready(q, "accept")
  /\ Done(q)
  /\ assigned' = assigned \cup {u}
  /\ invitation' = [invitation EXCEPT ![u] = "accepted"]
  /\ Mark(u, ~MayBeAssigned(u))
  /\ UNCHANGED <<role, joined>>

\* StaffInvitationViewSet.create.
Invite(u) ==
  /\ invitation[u] = "none"
  /\ invitation' = [invitation EXCEPT ![u] = "pending"]
  /\ UNCHANGED <<role, joined, assigned, request, stale>>

\* StaffInvitationViewSet.revoke, which waits for the invitation's lock.
Revoke(u) ==
  /\ invitation[u] = "pending" /\ ~Locked(u)
  /\ invitation' = [invitation EXCEPT ![u] = "revoked"]
  /\ UNCHANGED <<role, joined, assigned, request, stale>>

Write(q) == \/ Create(q) \/ Update(q) \/ Destroy(q)
            \/ Assign(q) \/ Unassign(q) \/ Accept(q)

Next == \/ \E u \in Users : Invite(u) \/ Revoke(u)
        \/ \E q \in Requests :
             \/ Write(q)
             \/ \E u \in Users :
                  \/ \E r \in Roles : Read(q, "create", u, r)
                  \/ \E r \in Roles \cup {NoRole} : Read(q, "update", u, r)
                  \/ \E kind \in {"destroy", "assign", "unassign", "accept"} :
                       Read(q, kind, u, NoRole)

Spec == Init /\ [][Next]_vars

-----------------------------------------------------------------------------
(* Properties.                                                             *)

\* Every variable has its type.
TypeOK == /\ role \in [Users -> Roles \cup {NoRole}]
          /\ joined \subseteq Users /\ Members \subseteq joined
          /\ assigned \subseteq Users
          /\ invitation \in [Users -> {"none", "pending", "accepted", "revoked"}]
          /\ request \in [Requests -> Request]
          /\ stale \subseteq Users

\* What the code achieves: a tenant keeps an owner as long as no membership is
\* written on an outdated reading of it.
OwnerRemainsUnlessStale == stale = {} => Owners # {}

\* What the code achieves: an account has both a membership and an assignment only
\* where one was written on a validation overtaken by the other.
SeparateUnlessStale == Members \cap assigned \subseteq stale

\* "The final tenant owner cannot be removed." (tenants/views.py:76)
FinalOwnerStays == Owners # {}

\* An invitation gives access once: after it was accepted or revoked, an account
\* gets an assignment only from an administrator, so that taking one away is
\* final whatever acceptances are under way.
InvitationIsSpent ==
  [][\A u \in Users :
       invitation[u] \in {"accepted", "revoked"} /\ u \notin assigned /\ u \in assigned' =>
         \E q \in Requests : request[q].user = u /\ Assign(q)]_vars
==============================================================================
