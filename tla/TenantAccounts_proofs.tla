------------------------- MODULE TenantAccounts_proofs -------------------------
(***************************************************************************)
(* Proofs about TenantAccounts, for any number of accounts and requests.   *)
(*                                                                         *)
(* The rules for owners and dedicated accounts need to know what a request *)
(* between its reading and its writing has read.  That an invitation is    *)
(* spent rests on one acceptance at a time holding it, still pending.      *)
(***************************************************************************)
EXTENDS TenantAccounts, TLAPS

\* What a request that has read carries: an account, the role it will give, the
\* role it has seen.
Sound(q) ==
  request[q].step = "read" =>
    /\ request[q].user \in Users
    /\ request[q].kind = "create" => request[q].asked \in Roles
    /\ request[q].kind = "update" => request[q].seen \in Roles /\ request[q].user \in joined

ReadingInv == \A q \in Requests : Sound(q)

\* An acceptance under way holds its invitation, which is pending.
Holds(q) == Ready(q, "accept") => invitation[request[q].user] = "pending"
AcceptanceInv ==
  /\ \A q \in Requests : Holds(q)
  /\ \A q, r \in Requests :
       Ready(q, "accept") /\ Ready(r, "accept") /\ request[q].user = request[r].user => q = r

IInv == TypeOK /\ ReadingInv /\ OwnerRemainsUnlessStale /\ SeparateUnlessStale /\ AcceptanceInv

-----------------------------------------------------------------------------

\* At first the owner is the only member, and no request has been made.
LEMMA InvInit == Init => IInv
<1> SUFFICES ASSUME Init PROVE IInv
  OBVIOUS
<1> USE OwnerAssumption, NullAssumption
<1>1. TypeOK
  BY DEF Init, TypeOK, Roles, Members, Request, NewRequest, Kinds
<1>2. ReadingInv /\ AcceptanceInv
  BY DEF Init, ReadingInv, Sound, AcceptanceInv, Holds, Ready, NewRequest
<1>3. OwnerRemainsUnlessStale
  BY DEF Init, OwnerRemainsUnlessStale, Owners
<1>4. SeparateUnlessStale
  BY DEF Init, SeparateUnlessStale
<1> QED
  BY <1>1, <1>2, <1>3, <1>4 DEF IInv

\* A step that leaves the requests alone, and the joined only grow, keeps the readings.
LEMMA ReadingsKept ==
  ASSUME ReadingInv, request' = request, joined \subseteq joined'
  PROVE  ReadingInv'
BY DEF ReadingInv, Sound

\* A request that is done no longer carries anything.
LEMMA DoneIsSound ==
  ASSUME IInv, NEW q \in Requests, Done(q), joined \subseteq joined'
  PROVE  /\ request' \in [Requests -> Request]
         /\ ReadingInv'
         /\ ~Ready(q, "accept")'
         /\ \A r \in Requests \ {q} : request'[r] = request[r]
<1>1. request[q] \in Request /\ request \in [Requests -> Request]
  BY DEF IInv, TypeOK
<1>2. [request[q] EXCEPT !.step = "done"] \in Request
  BY <1>1 DEF Request
<1>3. /\ request' \in [Requests -> Request]
      /\ request'[q] = [request[q] EXCEPT !.step = "done"]
      /\ \A r \in Requests \ {q} : request'[r] = request[r]
  BY <1>1, <1>2 DEF Done
<1>4. request'[q].step = "done"
  BY <1>1, <1>3 DEF Request
<1>5. Sound(q)'
  BY <1>4 DEF Sound
<1>6. ASSUME NEW r \in Requests \ {q} PROVE Sound(r)'
  BY <1>3, <1>6 DEF IInv, ReadingInv, Sound
<1> QED
  BY <1>3, <1>4, <1>5, <1>6 DEF ReadingInv, Ready

\* Other acceptances keep their invitations when a request that changes no
\* invitation is done.
LEMMA AcceptancesKept ==
  ASSUME IInv, NEW q \in Requests, Done(q), joined \subseteq joined', invitation' = invitation
  PROVE  AcceptanceInv'
BY DoneIsSound DEF IInv, AcceptanceInv, Holds, Ready

\* A request's first half: it carries what it has read, and an acceptance is the
\* only one of its invitation.
LEMMA ReadStep ==
  ASSUME IInv, NEW q \in Requests, NEW kind \in Kinds \ {"none"}, NEW u \in Users,
         NEW asked \in Roles \cup {NoRole}, kind = "create" => asked \in Roles,
         Read(q, kind, u, asked)
  PROVE  IInv'
<1>1. /\ UNCHANGED <<role, joined, assigned, invitation, stale>>
      /\ request \in [Requests -> Request]
      /\ role[u] \in Roles \cup {NoRole}
  BY DEF Read, IInv, TypeOK
<1> DEFINE new == [step |-> "read", kind |-> kind, user |-> u, asked |-> asked, seen |-> role[u]]
<1>2. new \in Request
  BY <1>1 DEF Request
<1>3. /\ request' \in [Requests -> Request]
      /\ request'[q] = new
      /\ \A r \in Requests \ {q} : request'[r] = request[r]
  BY <1>1, <1>2 DEF Read
<1> HIDE DEF new
<1>4. /\ new.step = "read" /\ new.kind = kind /\ new.user = u
      /\ new.asked = asked /\ new.seen = role[u]
  BY DEF new
<1>5. TypeOK'
  BY <1>1, <1>3 DEF IInv, TypeOK, Members
<1>6. ReadingInv'
  <2>1. Sound(q)'
    <3>1. kind = "update" => role[u] \in Roles /\ u \in joined
      BY <1>1 DEF Read, IInv, TypeOK, Members
    <3> QED
      BY <1>1, <1>3, <1>4, <3>1 DEF Sound
  <2>2. ASSUME NEW r \in Requests \ {q} PROVE Sound(r)'
    BY <1>1, <1>3, <2>2 DEF IInv, ReadingInv, Sound
  <2> QED
    BY <2>1, <2>2 DEF ReadingInv
<1>7. OwnerRemainsUnlessStale' /\ SeparateUnlessStale'
  BY <1>1 DEF IInv, OwnerRemainsUnlessStale, SeparateUnlessStale, Owners, Members
<1>8. AcceptanceInv'
  <2>1. kind = "accept" => /\ invitation[u] = "pending"
                           /\ \A r \in Requests : ~(Ready(r, "accept") /\ request[r].user = u)
    BY DEF Read, Acceptable, Locked, Ready
  <2>2. \A r \in Requests \ {q} : /\ Ready(r, "accept")' <=> Ready(r, "accept")
                                  /\ request'[r].user = request[r].user
    BY <1>3 DEF Ready
  <2>3. Ready(q, "accept")' => kind = "accept" /\ request'[q].user = u
    BY <1>3, <1>4 DEF Ready
  <2> QED
    BY <1>1, <2>1, <2>2, <2>3 DEF IInv, AcceptanceInv, Holds
<1> QED
  BY <1>5, <1>6, <1>7, <1>8 DEF IInv

\* A membership is created: it joins an owner or staff, and is marked if the
\* account has been assigned meanwhile.
LEMMA CreateStep ==
  ASSUME IInv, NEW q \in Requests, Create(q)
  PROVE  IInv'
<1> DEFINE u == request[q].user
<1>1. u \in Users /\ request[q].asked \in Roles
  BY DEF Create, Ready, IInv, ReadingInv, Sound
<1> HIDE DEF u
<1>2. /\ Done(q) /\ UNCHANGED <<assigned, invitation>>
      /\ \/ UNCHANGED <<role, joined, stale>>
         \/ /\ u \notin Members
            /\ role' = [role EXCEPT ![u] = request[q].asked]
            /\ joined' = joined \cup {u}
            /\ stale' = IF ~MayJoin(u) THEN stale \cup {u} ELSE stale
  BY DEF Create, Mark, u
<1>3. joined \subseteq joined'
  BY <1>2
<1>4. request' \in [Requests -> Request] /\ ReadingInv' /\ AcceptanceInv'
  BY <1>2, <1>3, DoneIsSound, AcceptancesKept
<1>5. CASE UNCHANGED <<role, joined, stale>>
  BY <1>2, <1>4, <1>5
     DEF IInv, TypeOK, Members, OwnerRemainsUnlessStale, SeparateUnlessStale, Owners
<1>6. CASE /\ u \notin Members
           /\ role' = [role EXCEPT ![u] = request[q].asked]
           /\ joined' = joined \cup {u}
           /\ stale' = IF ~MayJoin(u) THEN stale \cup {u} ELSE stale
  <2>1. /\ role' \in [Users -> Roles \cup {NoRole}]
        /\ \A w \in Users \ {u} : role'[w] = role[w]
    BY <1>1, <1>6 DEF IInv, TypeOK
  <2>2. Members' \subseteq Members \cup {u}
    BY <2>1 DEF Members
  <2>3. Owners \subseteq Owners'
    BY <1>6, <2>1, NullAssumption DEF Members, Owners
  <2>4. TypeOK'
    BY <1>1, <1>2, <1>4, <1>6, <2>1, <2>2 DEF IInv, TypeOK
  <2>5. OwnerRemainsUnlessStale'
    BY <1>6, <2>3 DEF IInv, OwnerRemainsUnlessStale
  <2>6. SeparateUnlessStale'
    BY <1>2, <1>6, <2>2 DEF IInv, SeparateUnlessStale, MayJoin
  <2> QED
    BY <1>4, <2>4, <2>5, <2>6 DEF IInv
<1> QED
  BY <1>2, <1>5, <1>6

\* The last-owner check, unless the role was read too early, leaves an owner.
LEMMA CheckLeavesAnOwner ==
  ASSUME IInv, NEW q \in Requests, NEW new,
         request[q].user \in Users, LastOwnerAllows(q, new),
         role' \in [Users -> Roles \cup {NoRole}], role'[request[q].user] = new,
         \A w \in Users \ {request[q].user} : role'[w] = role[w],
         role[request[q].user] = request[q].seen, Owners # {}
  PROVE  Owners' # {}
<1>1. CASE request[q].seen # "owner"
  BY <1>1 DEF Owners
<1>2. CASE new = "owner"
  BY <1>2 DEF Owners
<1>3. CASE Owners \ {request[q].user} # {}
  BY <1>3 DEF Owners
<1> QED
  BY <1>1, <1>2, <1>3 DEF LastOwnerAllows

\* A role is saved: it is one of a member, who may be one again.
LEMMA UpdateStep ==
  ASSUME IInv, NEW q \in Requests, Update(q)
  PROVE  IInv'
<1> DEFINE u == request[q].user
           new == IF request[q].asked = NoRole THEN request[q].seen ELSE request[q].asked
<1>1. u \in Users /\ u \in joined /\ request[q].seen \in Roles /\ new \in Roles
  BY DEF Update, Ready, IInv, ReadingInv, Sound, TypeOK, Request
<1>2. /\ Done(q) /\ UNCHANGED <<joined, assigned, invitation>>
      /\ \/ UNCHANGED <<role, stale>>
         \/ /\ LastOwnerAllows(q, new)
            /\ role' = [role EXCEPT ![u] = new]
            /\ stale' = IF role[u] # request[q].seen THEN stale \cup {u} ELSE stale
  BY DEF Update, Mark
<1> HIDE DEF new
<1>4. request' \in [Requests -> Request] /\ ReadingInv' /\ AcceptanceInv'
  BY <1>2, DoneIsSound, AcceptancesKept
<1>5. CASE UNCHANGED <<role, stale>>
  BY <1>2, <1>4, <1>5
     DEF IInv, TypeOK, Members, OwnerRemainsUnlessStale, SeparateUnlessStale, Owners
<1>6. CASE /\ LastOwnerAllows(q, new)
           /\ role' = [role EXCEPT ![u] = new]
           /\ stale' = IF role[u] # request[q].seen THEN stale \cup {u} ELSE stale
  <2>1. /\ role' \in [Users -> Roles \cup {NoRole}]
        /\ role'[u] = new
        /\ \A w \in Users \ {u} : role'[w] = role[w]
    BY <1>1, <1>6 DEF IInv, TypeOK
  <2>2. Members' \subseteq Members \cup {u}
    BY <2>1 DEF Members
  <2>3. TypeOK'
    BY <1>1, <1>2, <1>4, <1>6, <2>1, <2>2 DEF IInv, TypeOK
  <2>4. OwnerRemainsUnlessStale'
    BY <1>1, <1>6, <2>1, CheckLeavesAnOwner DEF IInv, OwnerRemainsUnlessStale
  <2>5. SeparateUnlessStale'
    <3>1. u \in Members \/ u \in stale'
      BY <1>1, <1>6, NullAssumption DEF Members, Roles
    <3> QED
      BY <1>2, <1>6, <2>2, <3>1 DEF IInv, SeparateUnlessStale
  <2> QED
    BY <1>4, <2>3, <2>4, <2>5 DEF IInv
<1> QED
  BY <1>2, <1>5, <1>6

\* A membership is removed.
LEMMA DestroyStep ==
  ASSUME IInv, NEW q \in Requests, Destroy(q)
  PROVE  IInv'
<1> DEFINE u == request[q].user
<1>1. u \in Users
  BY DEF Destroy, Ready, IInv, ReadingInv, Sound
<1>2. /\ Done(q) /\ UNCHANGED <<joined, assigned, invitation>>
      /\ \/ UNCHANGED <<role, stale>>
         \/ /\ LastOwnerAllows(q, NoRole)
            /\ role' = [role EXCEPT ![u] = NoRole]
            /\ stale' = IF role[u] # request[q].seen THEN stale \cup {u} ELSE stale
  BY DEF Destroy, Mark
<1>4. request' \in [Requests -> Request] /\ ReadingInv' /\ AcceptanceInv'
  BY <1>2, DoneIsSound, AcceptancesKept
<1>5. CASE UNCHANGED <<role, stale>>
  BY <1>2, <1>4, <1>5
     DEF IInv, TypeOK, Members, OwnerRemainsUnlessStale, SeparateUnlessStale, Owners
<1>6. CASE /\ LastOwnerAllows(q, NoRole)
           /\ role' = [role EXCEPT ![u] = NoRole]
           /\ stale' = IF role[u] # request[q].seen THEN stale \cup {u} ELSE stale
  <2>1. /\ role' \in [Users -> Roles \cup {NoRole}]
        /\ role'[u] = NoRole
        /\ \A w \in Users \ {u} : role'[w] = role[w]
    BY <1>1, <1>6 DEF IInv, TypeOK
  <2>2. Members' \subseteq Members
    BY <2>1 DEF Members
  <2>3. TypeOK'
    BY <1>1, <1>2, <1>4, <1>6, <2>1, <2>2 DEF IInv, TypeOK
  <2>4. OwnerRemainsUnlessStale'
    BY <1>1, <1>6, <2>1, CheckLeavesAnOwner DEF IInv, OwnerRemainsUnlessStale
  <2>5. SeparateUnlessStale'
    BY <1>2, <1>6, <2>2 DEF IInv, SeparateUnlessStale
  <2> QED
    BY <1>4, <2>3, <2>4, <2>5 DEF IInv
<1> QED
  BY <1>2, <1>5, <1>6

\* An assignment, given by an administrator or by an accepted invitation, is marked
\* if its account has become a member meanwhile.
LEMMA AssignedStep ==
  ASSUME IInv, NEW q \in Requests, request[q].user \in Users, Done(q),
         assigned' = assigned \cup {request[q].user},
         Mark(request[q].user, ~MayBeAssigned(request[q].user)), UNCHANGED <<role, joined>>,
         invitation' \in [Users -> {"none", "pending", "accepted", "revoked"}], AcceptanceInv'
  PROVE  IInv'
<1>1. stale \subseteq stale' /\ (request[q].user \in Members => request[q].user \in stale')
  BY DEF Mark, MayBeAssigned
<1>2. request' \in [Requests -> Request] /\ ReadingInv'
  BY DoneIsSound
<1>3. TypeOK'
  BY <1>2 DEF IInv, TypeOK, Members, Mark
<1>4. OwnerRemainsUnlessStale' /\ SeparateUnlessStale'
  BY <1>1 DEF IInv, OwnerRemainsUnlessStale, SeparateUnlessStale, Owners, Members
<1> QED
  BY <1>2, <1>3, <1>4 DEF IInv

\* An acceptance gives its own account's invitation up, and no other is under way.
LEMMA AcceptStep ==
  ASSUME IInv, NEW q \in Requests, Accept(q)
  PROVE  IInv'
<1>1. /\ Done(q) /\ UNCHANGED <<role, joined>>
      /\ assigned' = assigned \cup {request[q].user}
      /\ invitation' = [invitation EXCEPT ![request[q].user] = "accepted"]
      /\ Mark(request[q].user, ~MayBeAssigned(request[q].user))
      /\ Ready(q, "accept")
  BY DEF Accept
<1>2. request[q].user \in Users
  BY <1>1 DEF Ready, IInv, ReadingInv, Sound
<1>3. /\ ~Ready(q, "accept")'
      /\ \A r \in Requests \ {q} : request'[r] = request[r]
  BY <1>1, DoneIsSound
<1>4. AcceptanceInv'
  <2>1. \A r \in Requests \ {q} :
          Ready(r, "accept")' => /\ Ready(r, "accept")
                                 /\ request[r].user # request[q].user
                                 /\ invitation'[request[r].user] = invitation[request[r].user]
    BY <1>1, <1>3 DEF IInv, AcceptanceInv, Ready, TypeOK
  <2> QED
    BY <1>3, <2>1 DEF IInv, AcceptanceInv, Holds, Ready
<1>5. invitation' \in [Users -> {"none", "pending", "accepted", "revoked"}]
  BY <1>1, <1>2 DEF IInv, TypeOK
<1> QED
  BY <1>1, <1>2, <1>4, <1>5, AssignedStep

\* An invitation is made or revoked; no acceptance has locked it.
LEMMA InvitationStep ==
  ASSUME IInv, NEW u \in Users, Invite(u) \/ Revoke(u)
  PROVE  IInv'
<1>1. UNCHANGED <<role, joined, assigned, request, stale>>
  BY DEF Invite, Revoke
<1>2. /\ invitation' \in [Users -> {"none", "pending", "accepted", "revoked"}]
      /\ \A w \in Users \ {u} : invitation'[w] = invitation[w]
  BY DEF Invite, Revoke, IInv, TypeOK
<1>3. \A q \in Requests : Ready(q, "accept") => request[q].user # u
  BY DEF Invite, Revoke, Locked, Ready, IInv, AcceptanceInv, Holds
<1>4. AcceptanceInv'
  <2>1. \A q \in Requests : Ready(q, "accept") => request[q].user \in Users
    BY DEF IInv, ReadingInv, Sound, Ready
  <2> QED
    BY <1>1, <1>2, <1>3, <2>1 DEF IInv, AcceptanceInv, Holds, Ready
<1>5. ReadingInv'
  BY <1>1, ReadingsKept DEF IInv
<1> QED
  BY <1>1, <1>2, <1>4, <1>5
     DEF IInv, TypeOK, Members, Owners, OwnerRemainsUnlessStale, SeparateUnlessStale

\* Every step keeps the invariant.
LEMMA InvStep == IInv /\ [Next]_vars => IInv'
<1> SUFFICES ASSUME IInv, [Next]_vars PROVE IInv'
  OBVIOUS
<1>1. ASSUME NEW u \in Users, Invite(u) \/ Revoke(u) PROVE IInv'
  BY <1>1, InvitationStep
<1>2. ASSUME NEW q \in Requests, Write(q) PROVE IInv'
  <2>1. CASE Create(q)
    BY <2>1, CreateStep
  <2>2. CASE Update(q)
    BY <2>2, UpdateStep
  <2>3. CASE Destroy(q)
    BY <2>3, DestroyStep
  <2>4. CASE Assign(q)
    <3>1. request[q].user \in Users
      BY <2>4 DEF Assign, Ready, IInv, ReadingInv, Sound
    <3>2. AcceptanceInv'
      BY <2>4, AcceptancesKept DEF Assign
    <3> QED
      BY <2>4, <3>1, <3>2, AssignedStep DEF Assign, IInv, TypeOK
  <2>5. CASE Unassign(q)
    <3>1. request' \in [Requests -> Request] /\ ReadingInv' /\ AcceptanceInv'
      BY <2>5, DoneIsSound, AcceptancesKept DEF Unassign
    <3> QED
      BY <2>5, <3>1 DEF Unassign, IInv, TypeOK, Members, Owners, OwnerRemainsUnlessStale,
                        SeparateUnlessStale
  <2>6. CASE Accept(q)
    BY <2>6, AcceptStep
  <2> QED
    BY <1>2, <2>1, <2>2, <2>3, <2>4, <2>5, <2>6 DEF Write
<1>3. ASSUME NEW q \in Requests, NEW u \in Users,
             \/ \E r \in Roles : Read(q, "create", u, r)
             \/ \E r \in Roles \cup {NoRole} : Read(q, "update", u, r)
             \/ \E kind \in {"destroy", "assign", "unassign", "accept"} :
                  Read(q, kind, u, NoRole)
      PROVE IInv'
  BY <1>3, ReadStep DEF Kinds
<1>4. CASE UNCHANGED vars
  BY <1>4 DEF vars, IInv, TypeOK, ReadingInv, Sound, AcceptanceInv, Holds, Ready, Members, Owners,
              OwnerRemainsUnlessStale, SeparateUnlessStale
<1> QED
  BY <1>1, <1>2, <1>3, <1>4 DEF Next

\* The invariant, of every behaviour.
THEOREM Invariance == Spec => []IInv
BY InvInit, InvStep, PTL DEF Spec

-----------------------------------------------------------------------------

\* Every variable has its type, however many accounts and requests there are.
THEOREM TypeCorrect == Spec => []TypeOK
<1>1. IInv => TypeOK
  BY DEF IInv
<1> QED
  BY <1>1, Invariance, PTL

\* A tenant keeps an owner unless a membership has been written on an outdated
\* reading: check_last_owner is enough against everything but that race.
THEOREM OwnerRemains == Spec => []OwnerRemainsUnlessStale
<1>1. IInv => OwnerRemainsUnlessStale
  BY DEF IInv
<1> QED
  BY <1>1, Invariance, PTL

\* Memberships and staff assignments exclude each other, except where one was
\* validated before the other was written.
THEOREM Separate == Spec => []SeparateUnlessStale
<1>1. IInv => SeparateUnlessStale
  BY DEF IInv
<1> QED
  BY <1>1, Invariance, PTL

\* An invitation that was accepted or revoked gives no access again: only an
\* administrator's assignment does.
LEMMA SpentStep ==
  ASSUME IInv, [Next]_vars, NEW u \in Users,
         invitation[u] \in {"accepted", "revoked"}, u \notin assigned, u \in assigned'
  PROVE  \E q \in Requests : request[q].user = u /\ Assign(q)
<1>1. \A q \in Requests : ~(Accept(q) /\ request[q].user = u)
  BY DEF Accept, IInv, AcceptanceInv, Holds
<1>2. PICK q \in Requests : Write(q)
  BY DEF Next, vars, Invite, Revoke, Read
<1>3. Assign(q) \/ Accept(q)
  BY <1>2 DEF Write, Create, Update, Destroy, Unassign
<1>4. request[q].user = u
  BY <1>3 DEF Assign, Accept
<1> QED
  BY <1>1, <1>3, <1>4

\* An accepted or revoked invitation stays spent, in every behaviour.
THEOREM InvitationSpentAlways == Spec => InvitationIsSpent
<1> DEFINE Spent == \A u \in Users :
                      invitation[u] \in {"accepted", "revoked"} /\ u \notin assigned /\ u \in assigned' =>
                        \E q \in Requests : request[q].user = u /\ Assign(q)
<1>1. IInv /\ [Next]_vars => [Spent]_vars
  BY SpentStep
<1> HIDE DEF Spent
<1>2. Spec => [][Spent]_vars
  BY <1>1, Invariance, PTL DEF Spec
<1> QED
  BY <1>2 DEF InvitationIsSpent, Spent
==============================================================================
