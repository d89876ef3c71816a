------------------------ MODULE AccountSessions_proofs ------------------------
(***************************************************************************)
(* Proofs about AccountSessions, for any number of requests, tokens and    *)
(* passwords.                                                              *)
(*                                                                         *)
(* What lets somebody in is compared with the password of the row just     *)
(* read, so everything rests on that password being the newest one unless  *)
(* an outdated row was saved (PasswordInv), on passwords never being used  *)
(* again (LinkInv), and on a session having one valid token (SessionInv).  *)
(***************************************************************************)
EXTENDS AccountSessions, FiniteSetTheorems, TLAPS

\* What a request in flight holds.
Sound(r) ==
  /\ request[r].row.password <= written
  /\ request[r].step \in {"authenticated", "editing"} => request[r].row.password \in Passwords
  /\ request[r].step = "checked" => request[r].link \in links
  /\ request[r].step \in {"refreshing", "loggingOut"} =>
       /\ request[r].token \in Tokens
       /\ refresh[request[r].token].state # "none"

RequestInv == \A r \in Requests : Sound(r)

PasswordInv == /\ account.password \in {written} \cup restored
               /\ account.password <= written
               /\ account.active => account.password \in Passwords

LinkInv == /\ \A l \in links : l.password <= written
           /\ \A l \in spent : l.password = account.password => account.password \in restored

Issued(t) == refresh[t].state # "none"
Valid(t) == refresh[t].state = "valid" /\ refresh[t].session \notin raced

TokenInv == /\ \A t \in Tokens : Issued(t) => /\ refresh[t].password \in Passwords
                                              /\ refresh[t].session \in Tokens
                                              /\ Issued(refresh[t].session)
                                              /\ refresh[t].state = "loggedOut" =>
                                                   refresh[t].session \in loggedOut
            /\ \A s \in loggedOut : Issued(s)

SessionInv ==
  \A t \in Tokens : Valid(t) =>
    /\ refresh[t].session \notin loggedOut
    /\ \A u \in Tokens : Valid(u) /\ refresh[u].session = refresh[t].session => u = t

IInv == TypeOK /\ RequestInv /\ PasswordInv /\ LinkInv /\ TokenInv /\ SessionInv

-----------------------------------------------------------------------------

\* Before registration there is nothing to hold.
LEMMA NullRows == NoAccount \in User /\ Idle \in Request /\ NotIssued \in RefreshToken
BY BoundAssumption, EmailAssumption
   DEF NoAccount, User, Idle, Request, Passwords, NotIssued, RefreshToken

LEMMA InvInit == Init => IInv
<1> SUFFICES ASSUME Init PROVE IInv
  OBVIOUS
<1>1. TypeOK
  BY NullRows, BoundAssumption DEF Init, TypeOK
<1>2. RequestInv
  BY DEF Init, RequestInv, Sound, Idle, NoAccount
<1>3. PasswordInv /\ LinkInv
  BY DEF Init, PasswordInv, LinkInv, NoAccount
<1>4. TokenInv /\ SessionInv
  BY DEF Init, TokenInv, SessionInv, Issued, Valid, NotIssued
<1> QED
  BY <1>1, <1>2, <1>3, <1>4 DEF IInv

\* A request that ends holds nothing any more.
LEMMA EndStep ==
  ASSUME TypeOK, NEW r \in Requests, End(r)
  PROVE  /\ request' \in [Requests -> Request]
         /\ request'[r] = Idle
         /\ \A q \in Requests \ {r} : request'[q] = request[q]
BY NullRows DEF TypeOK, End

\* A request stays sound while passwords, links and tokens only grow.
LEMMA SoundKept ==
  ASSUME TypeOK, RequestInv, written' \in Nat, written <= written', links \subseteq links',
         \A t \in Tokens : Issued(t) => Issued(t)',
         NEW r \in Requests, request'[r] = request[r]
  PROVE  Sound(r)'
<1>1. Sound(r)
  BY DEF RequestInv
<1>2. request[r].row.password \in Nat /\ written \in Nat
  BY BoundAssumption DEF TypeOK, Request, User
<1> QED
  BY <1>1, <1>2 DEF Sound, Issued

\* In particular when another request ends.
LEMMA RequestsKeptAtEnd ==
  ASSUME TypeOK, RequestInv, written' \in Nat, written <= written', links \subseteq links',
         \A t \in Tokens : Issued(t) => Issued(t)',
         NEW r \in Requests, End(r)
  PROVE  RequestInv'
<1>1. request'[r] = Idle /\ \A q \in Requests \ {r} : request'[q] = request[q]
  BY EndStep
<1>2. Idle.step = "idle" /\ Idle.row.password = 0
  BY DEF Idle, NoAccount
<1>3. Sound(r)'
  BY <1>1, <1>2 DEF Sound
<1>4. \A q \in Requests \ {r} : Sound(q)'
  BY <1>1, SoundKept
<1> QED
  BY <1>3, <1>4 DEF RequestInv

\* A new password is nobody's yet.
LEMMA FreshPassword ==
  ASSUME TypeOK, PasswordInv, LinkInv, written < MaxPasswords,
         written' = written + 1, account'.password = written + 1,
         links' = links, spent' \subseteq spent \cup links, restored' = restored
  PROVE  PasswordInv' /\ LinkInv' /\ written' \in 0 .. MaxPasswords
<1>1. /\ written \in Nat /\ MaxPasswords \in Nat
      /\ spent \subseteq links
      /\ \A l \in links : l.password \in Nat /\ l.password <= written
  BY BoundAssumption DEF TypeOK, LinkInv, Link, Passwords
<1>2. written + 1 \in Passwords
  BY <1>1 DEF Passwords
<1>3. \A l \in spent' : l.password # written + 1
  BY <1>1
<1> QED
  BY <1>1, <1>2, <1>3 DEF PasswordInv, LinkInv, Passwords

-----------------------------------------------------------------------------
(* Tokens.                                                                 *)

\* A new session has one token and was never logged out.
LEMMA IssueStep ==
  ASSUME IInv, NEW t \in Tokens, NEW p \in Passwords, Issue(t, p, t),
         UNCHANGED <<loggedOut, raced>>
  PROVE  /\ TokenInv' /\ SessionInv'
         /\ refresh' \in [Tokens -> RefreshToken]
         /\ access' \subseteq Passwords
         /\ \A u \in Tokens : Issued(u) => Issued(u)'
<1> DEFINE new == [state |-> "valid", password |-> p, session |-> t]
<1>1. new \in RefreshToken
  BY BoundAssumption DEF RefreshToken, Passwords
<1>2. /\ refresh \in [Tokens -> RefreshToken] /\ access \subseteq Passwords
      /\ loggedOut \subseteq Tokens
  BY DEF IInv, TypeOK
<1>3. /\ refresh' \in [Tokens -> RefreshToken]
      /\ refresh'[t] = new
      /\ \A u \in Tokens \ {t} : refresh'[u] = refresh[u]
      /\ ~Issued(t)
  BY <1>1, <1>2 DEF Issue, Issued
<1>4. access' \subseteq Passwords
  BY <1>2 DEF Issue
<1>5. \A u \in Tokens : Issued(u) => Issued(u)'
  BY <1>3 DEF Issued
<1>6. TokenInv'
  BY <1>2, <1>3, <1>5 DEF IInv, TokenInv, Issued
<1>7. \A u \in Tokens \ {t} : Valid(u)' => Valid(u) /\ refresh[u].session # t
  BY <1>3 DEF Valid, IInv, TokenInv, Issued
<1>8. t \notin loggedOut
  BY <1>3 DEF IInv, TokenInv
<1>9. SessionInv'
  BY <1>3, <1>7, <1>8 DEF IInv, SessionInv
<1> QED
  BY <1>3, <1>4, <1>5, <1>6, <1>9

\* A token that is logged out leaves its session without one, unless it was rotated
\* meanwhile.
LEMMA LogoutStep ==
  ASSUME IInv, NEW r \in Requests, Logout(r)
  PROVE  /\ TokenInv' /\ SessionInv'
         /\ refresh' \in [Tokens -> RefreshToken]
         /\ loggedOut' \subseteq Tokens /\ raced' \subseteq Tokens
         /\ \A u \in Tokens : Issued(u) => Issued(u)'
<1>0. PICK t : t = request[r].token
  OBVIOUS
<1>1. /\ refresh \in [Tokens -> RefreshToken]
      /\ loggedOut \subseteq Tokens /\ raced \subseteq Tokens
  BY DEF IInv, TypeOK
<1>2. t \in Tokens /\ Issued(t) /\ refresh[t] \in RefreshToken
  BY <1>0, <1>1 DEF Logout, IInv, RequestInv, Sound, Issued
<1>3. PICK s : s = refresh[t].session
  OBVIOUS
<1>4. s \in Tokens /\ Issued(s) /\ (refresh[t].state = "loggedOut" => s \in loggedOut)
  BY <1>2, <1>3 DEF IInv, TokenInv
<1>5. /\ refresh' = [refresh EXCEPT ![t].state = "loggedOut"]
      /\ loggedOut' = loggedOut \cup {s}
      /\ raced' = IF refresh[t].state = "rotated" THEN raced \cup {s} ELSE raced
  BY <1>0, <1>3 DEF Logout
<1> DEFINE row == [refresh[t] EXCEPT !.state = "loggedOut"]
<1>6. /\ row \in RefreshToken /\ row.state = "loggedOut" /\ row.session = s
      /\ row.password = refresh[t].password
  BY <1>2, <1>3 DEF RefreshToken
<1>7. refresh' = [refresh EXCEPT ![t] = row]
  BY <1>1, <1>2, <1>5
<1> HIDE DEF row
<1>8. /\ refresh' \in [Tokens -> RefreshToken] /\ refresh'[t] = row
      /\ \A u \in Tokens \ {t} : refresh'[u] = refresh[u]
  BY <1>1, <1>2, <1>6, <1>7
<1>9. \A u \in Tokens : Issued(u)' <=> Issued(u)
  BY <1>2, <1>6, <1>8 DEF Issued
<1>10. \A u \in Tokens : /\ refresh'[u].session = refresh[u].session
                         /\ refresh'[u].password = refresh[u].password
  BY <1>3, <1>6, <1>8
<1>11. loggedOut' \subseteq Tokens /\ raced' \subseteq Tokens /\ loggedOut \subseteq loggedOut'
  BY <1>1, <1>4, <1>5
<1>12. TokenInv'
  <2>1. ASSUME NEW u \in Tokens, refresh'[u].state = "loggedOut"
        PROVE  refresh'[u].session \in loggedOut'
    <3>1. CASE u = t
      <4>1. s \in loggedOut'
        BY <1>5
      <4>2. refresh'[t].session = s
        BY <1>6, <1>8
      <4> QED
        BY <3>1, <4>1, <4>2
    <3>2. CASE u # t
      BY <1>8, <1>11, <2>1, <3>2 DEF IInv, TokenInv, Issued
    <3> QED
      BY <3>1, <3>2
  <2>2. \A u \in loggedOut' : Issued(u)'
    BY <1>1, <1>4, <1>5, <1>9 DEF IInv, TokenInv
  <2> QED
    BY <1>9, <1>10, <2>1, <2>2 DEF IInv, TokenInv
<1>13. \A u \in Tokens : Valid(u)' => Valid(u) /\ u # t
  BY <1>5, <1>6, <1>8, <1>10 DEF Valid
<1>14. ASSUME NEW u \in Tokens, Valid(u)' PROVE refresh[u].session # s
  <2>1. Valid(u) /\ u # t /\ refresh[u].session \notin raced'
    BY <1>10, <1>13, <1>14 DEF Valid
  <2>2. CASE refresh[t].state = "valid"
    BY <1>2, <1>3, <2>1, <2>2 DEF IInv, SessionInv, Valid
  <2>3. CASE refresh[t].state = "rotated"
    BY <1>5, <2>1, <2>3
  <2>4. CASE refresh[t].state = "loggedOut"
    BY <1>4, <2>1, <2>4 DEF IInv, SessionInv
  <2> QED
    BY <1>2, <2>2, <2>3, <2>4 DEF RefreshToken, Issued
<1>15. SessionInv'
  BY <1>5, <1>10, <1>13, <1>14 DEF IInv, SessionInv
<1> QED
  BY <1>8, <1>9, <1>11, <1>12, <1>15

\* A rotated token hands its session over, unless it was revoked meanwhile.
LEMMA RotateStep ==
  ASSUME IInv, NEW r \in Requests, NEW u \in Tokens, Rotate(r, u)
  PROVE  /\ TokenInv' /\ SessionInv'
         /\ refresh' \in [Tokens -> RefreshToken]
         /\ access' \subseteq Passwords /\ raced' \subseteq Tokens
         /\ \A v \in Tokens : Issued(v) => Issued(v)'
<1> DEFINE t == request[r].token
           s == refresh[t].session
<1>1. /\ refresh \in [Tokens -> RefreshToken] /\ access \subseteq Passwords
      /\ loggedOut \subseteq Tokens /\ raced \subseteq Tokens
  BY DEF IInv, TypeOK
<1>2. t \in Tokens /\ Issued(t) /\ ~Issued(u) /\ t # u
  BY DEF IInv, RequestInv, Sound, Rotate, Issued
<1>3. refresh[t].password \in Passwords /\ s \in Tokens /\ Issued(s)
  BY <1>2 DEF IInv, TokenInv
<1>4. refresh[t] \in RefreshToken /\ refresh[u] \in RefreshToken
  BY <1>1, <1>2
<1> DEFINE new == [refresh[u] EXCEPT !.state = "valid", !.password = refresh[t].password,
                                     !.session = s]
           old == [refresh[t] EXCEPT !.state = "rotated"]
<1>5. new \in RefreshToken /\ old \in RefreshToken
  BY <1>3, <1>4, BoundAssumption DEF RefreshToken, Passwords
<1>6. /\ new.state = "valid" /\ new.password = refresh[t].password /\ new.session = s
      /\ old.state = "rotated" /\ old.password = refresh[t].password /\ old.session = s
  BY <1>4 DEF RefreshToken
<1> HIDE DEF new, old
<1>7. refresh' = [refresh EXCEPT ![u] = new, ![t] = old]
  BY <1>1, <1>2 DEF Rotate, new, old
<1>8. /\ refresh' \in [Tokens -> RefreshToken]
      /\ refresh'[u] = new /\ refresh'[t] = old
      /\ \A v \in Tokens \ {t, u} : refresh'[v] = refresh[v]
  BY <1>1, <1>2, <1>5, <1>7
<1>9. /\ access' = access \cup {refresh[t].password} /\ loggedOut' = loggedOut
      /\ raced' = IF refresh[t].state = "valid" THEN raced ELSE raced \cup {s}
  BY DEF Rotate
<1> HIDE DEF t, s
<1>10. \A v \in Tokens : Issued(v)' <=> Issued(v) \/ v = u
  BY <1>2, <1>6, <1>8 DEF Issued
<1>11. TokenInv'
  <2>1. ASSUME NEW v \in Tokens, Issued(v)'
        PROVE  /\ refresh'[v].password \in Passwords
               /\ refresh'[v].session \in Tokens
               /\ Issued(refresh[v].session)'
               /\ refresh'[v].state = "loggedOut" => refresh'[v].session \in loggedOut'
    <3>1. CASE v \in {t, u}
      BY <1>3, <1>6, <1>8, <1>10, <3>1
    <3>2. CASE v \notin {t, u}
      BY <1>8, <1>9, <1>10, <2>1, <3>2 DEF IInv, TokenInv
    <3> QED
      BY <3>1, <3>2
  <2>2. \A v \in loggedOut' : Issued(v)'
    BY <1>1, <1>9, <1>10 DEF IInv, TokenInv
  <2> QED
    BY <2>1, <2>2 DEF TokenInv
<1>12. SessionInv'
  <2>1. \A v \in Tokens \ {u} :
          Valid(v)' => Valid(v) /\ v # t /\ refresh'[v].session = refresh[v].session
    BY <1>6, <1>8, <1>9 DEF Valid
  <2>2. Valid(u)' => Valid(t)
    BY <1>6, <1>8, <1>9, <1>3 DEF Valid, s
  <2>3. ASSUME NEW v \in Tokens \ {u}, Valid(v)', Valid(u)' PROVE refresh'[v].session # s
    BY <1>2, <2>1, <2>2, <2>3 DEF IInv, SessionInv, s
  <2>4. Valid(u)' => s \notin loggedOut'
    BY <1>2, <1>9, <2>2 DEF IInv, SessionInv, s
  <2> QED
    BY <1>6, <1>8, <1>9, <2>1, <2>3, <2>4 DEF IInv, SessionInv
<1> QED
  BY <1>1, <1>3, <1>8, <1>9, <1>10, <1>11, <1>12

-----------------------------------------------------------------------------
(* The steps.                                                              *)

\* The variables that most steps leave alone.
LEMMA TokensKept ==
  ASSUME IInv, UNCHANGED <<refresh, loggedOut, raced>>
  PROVE  TokenInv' /\ SessionInv' /\ (\A t \in Tokens : Issued(t) => Issued(t)')
BY DEF IInv, TokenInv, SessionInv, Issued, Valid

LEMMA RegisterInv ==
  ASSUME IInv, NEW t \in Tokens, NEW e \in Emails, Register(t, e)
  PROVE  IInv'
<1>1. written \in Nat /\ written < MaxPasswords /\ MaxPasswords \in Nat
  BY BoundAssumption DEF IInv, TypeOK, Register
<1>2. written + 1 \in Passwords
  BY <1>1 DEF Passwords
<1>3. Issue(t, written + 1, t) /\ UNCHANGED <<links, request, spent, restored, loggedOut, raced>>
  BY DEF Register, history
<1>4. /\ TokenInv' /\ SessionInv' /\ (\A u \in Tokens : Issued(u) => Issued(u)')
      /\ refresh' \in [Tokens -> RefreshToken] /\ access' \subseteq Passwords
  BY <1>2, <1>3, IssueStep
<1>5. account' \in User /\ account'.password = written + 1 /\ written' = written + 1
  BY <1>1, <1>2 DEF Register, User, Passwords
<1>6. PasswordInv' /\ LinkInv' /\ written' \in 0 .. MaxPasswords
  BY <1>1, <1>3, <1>5, FreshPassword DEF IInv
<1>7. RequestInv'
  BY <1>1, <1>3, <1>4, <1>5, SoundKept DEF IInv, RequestInv
<1>8. TypeOK'
  BY <1>3, <1>4, <1>5, <1>6 DEF IInv, TypeOK
<1> QED
  BY <1>4, <1>6, <1>7, <1>8 DEF IInv

LEMMA LoginInv ==
  ASSUME IInv, NEW t \in Tokens, Login(t)
  PROVE  IInv'
<1>1. account.password \in Passwords
  BY DEF IInv, PasswordInv, Login
<1>2. /\ Issue(t, account.password, t)
      /\ UNCHANGED <<account, written, links, request, spent, restored, loggedOut, raced>>
  BY DEF Login, history
<1>3. /\ TokenInv' /\ SessionInv' /\ (\A u \in Tokens : Issued(u) => Issued(u)')
      /\ refresh' \in [Tokens -> RefreshToken] /\ access' \subseteq Passwords
  BY <1>1, <1>2, IssueStep
<1>4. written \in Nat
  BY BoundAssumption DEF IInv, TypeOK
<1>5. RequestInv'
  BY <1>2, <1>3, <1>4, SoundKept DEF IInv, RequestInv
<1> QED
  BY <1>2, <1>3, <1>5 DEF IInv, TypeOK, PasswordInv, LinkInv

LEMMA RequestResetInv == IInv /\ RequestReset => IInv'
<1> SUFFICES ASSUME IInv, RequestReset PROVE IInv'
  OBVIOUS
<1>1. UNCHANGED <<account, written, refresh, access, request, spent, restored, loggedOut, raced>>
  BY DEF RequestReset, tokens, history
<1>2. account \in User /\ account.password \in Passwords /\ account.password <= written
  BY DEF IInv, TypeOK, PasswordInv, RequestReset
<1>3. LinkTo(account) \in Link /\ LinkTo(account).password = account.password
  BY <1>2 DEF LinkTo, Link, User
<1>4. links' = links \cup {LinkTo(account)}
  BY DEF RequestReset
<1>5. written \in Nat
  BY BoundAssumption DEF IInv, TypeOK
<1>6. LinkInv'
  BY <1>1, <1>2, <1>3, <1>4 DEF IInv, LinkInv
<1>7. TokenInv' /\ SessionInv'
  BY <1>1, TokensKept
<1>8. RequestInv'
  BY <1>1, <1>4 DEF IInv, RequestInv, Sound
<1> QED
  BY <1>1, <1>3, <1>4, <1>6, <1>7, <1>8 DEF IInv, TypeOK, PasswordInv

\* A request that has read something changes nothing else.
LEMMA BeginInv ==
  ASSUME IInv, NEW r \in Requests, NEW fields \in Request,
         request' = [request EXCEPT ![r] = fields],
         UNCHANGED <<account, written, tokens, links, history>>,
         fields.row.password <= written,
         fields.step \in {"authenticated", "editing"} => fields.row.password \in Passwords,
         fields.step = "checked" => fields.link \in links,
         fields.step \in {"refreshing", "loggingOut"} =>
           fields.token \in Tokens /\ Issued(fields.token)
  PROVE  IInv'
<1>1. UNCHANGED <<account, written, refresh, access, links, spent, restored, loggedOut, raced>>
  BY DEF tokens, history
<1>2. /\ request' \in [Requests -> Request] /\ request'[r] = fields
      /\ \A q \in Requests \ {r} : request'[q] = request[q]
  BY DEF IInv, TypeOK
<1>3. TokenInv' /\ SessionInv'
  BY <1>1, TokensKept
<1>4. RequestInv'
  BY <1>1, <1>2 DEF IInv, RequestInv, Sound, Issued
<1> QED
  BY <1>1, <1>2, <1>3, <1>4 DEF IInv, TypeOK, PasswordInv, LinkInv

\* What a request holds that has read the row to save it.
LEMMA PresentedRow ==
  ASSUME TypeOK, NEW step \in {"authenticated", "editing"}, NEW claim \in 0 .. MaxPasswords
  PROVE  /\ Presented(step, claim) \in Request
         /\ Presented(step, claim).step = step
         /\ Presented(step, claim).row = account
         /\ Presented(step, claim).claim = claim
<1>1. account \in User
  BY DEF TypeOK
<1>2. Idle \in Request
  BY NullRows
<1> QED
  BY <1>1, <1>2 DEF Presented, Request

LEMMA AuthenticateInv ==
  ASSUME IInv, NEW r \in Requests, NEW claim \in Passwords, Authenticate(r, claim)
  PROVE  IInv'
<1>1. /\ account.password = claim /\ account.password <= written
      /\ claim \in 0 .. MaxPasswords
  BY DEF IInv, PasswordInv, Authenticate, Passwords
<1> QED
  <2>1. claim \in Passwords /\ account.password \in Passwords
    BY <1>1
  <2>2. /\ Begin(r, Presented("authenticated", claim))
        /\ UNCHANGED <<account, written, tokens, links, history>>
    BY DEF Authenticate
  <2>3. /\ Presented("authenticated", claim) \in Request
        /\ Presented("authenticated", claim).step = "authenticated"
        /\ Presented("authenticated", claim).row = account
    BY <1>1, PresentedRow DEF IInv
  <2> QED
    BY <1>1, <2>1, <2>2, <2>3, BeginInv DEF Begin

LEMMA OpenAdminInv ==
  ASSUME IInv, NEW r \in Requests, OpenAdmin(r)
  PROVE  IInv'
<1>1. account.password \in Passwords /\ account.password <= written /\ 0 \in 0 .. MaxPasswords
  BY BoundAssumption DEF IInv, TypeOK, PasswordInv, OpenAdmin, User, Passwords
<1> QED
  BY <1>1, PresentedRow, BeginInv DEF IInv, OpenAdmin, Begin

LEMMA CheckLinkInv ==
  ASSUME IInv, NEW r \in Requests, NEW l \in links, CheckLink(r, l)
  PROVE  IInv'
<1>1. written \in Nat /\ l \in Link
  BY BoundAssumption DEF IInv, TypeOK
<1> DEFINE new == [Idle EXCEPT !.step = "checked", !.link = l]
<1>2. /\ new \in Request /\ new.row.password = 0 /\ new.step = "checked" /\ new.link = l
  BY <1>1, NullRows DEF Idle, Request, NoAccount
<1>3. Begin(r, new) /\ UNCHANGED <<account, written, tokens, links, history>>
  BY DEF CheckLink
<1> HIDE DEF new
<1>4. new.row.password <= written
  BY <1>1, <1>2
<1> QED
  BY <1>2, <1>3, <1>4, BeginInv DEF Begin

LEMMA CheckLogoutInv ==
  ASSUME IInv, NEW r \in Requests, NEW t \in Tokens, CheckLogout(r, t)
  PROVE  IInv'
<1>1. written \in Nat
  BY BoundAssumption DEF IInv, TypeOK
<1> DEFINE new == [Idle EXCEPT !.step = "loggingOut", !.token = t]
<1>2. /\ new \in Request /\ new.row.password = 0 /\ new.step = "loggingOut" /\ new.token = t
  BY NullRows DEF Idle, Request, NoAccount
<1>3. /\ Issued(t) /\ request' = [request EXCEPT ![r] = new]
      /\ UNCHANGED <<account, written, tokens, links, history>>
  BY DEF CheckLogout, Issued
<1> HIDE DEF new
<1>4. new.row.password <= written
  BY <1>1, <1>2
<1> QED
  BY <1>2, <1>3, <1>4, BeginInv

LEMMA CheckRefreshInv ==
  ASSUME IInv, NEW r \in Requests, NEW t \in Tokens, CheckRefresh(r, t)
  PROVE  IInv'
<1>1. written \in Nat
  BY BoundAssumption DEF IInv, TypeOK
<1> DEFINE new == [Idle EXCEPT !.step = "refreshing", !.token = t]
<1>2. /\ new \in Request /\ new.row.password = 0 /\ new.step = "refreshing" /\ new.token = t
  BY NullRows DEF Idle, Request, NoAccount
<1>3. Issued(t) /\ Begin(r, new) /\ UNCHANGED <<account, written, tokens, links, history>>
  BY DEF CheckRefresh, Issued
<1> HIDE DEF new
<1>4. new.row.password <= written
  BY <1>1, <1>2
<1> QED
  BY <1>2, <1>3, <1>4, BeginInv DEF Begin

\* What a request saves as it was read is, if not the newest, a password put back.
LEMMA SaveAllInv ==
  ASSUME IInv, NEW r \in Requests, NEW row \in User, SaveAll(r, row),
         request[r].step \in {"authenticated", "editing"},
         row.password = request[r].row.password
  PROVE  IInv'
<1>1. UNCHANGED <<written, refresh, access, links, spent, loggedOut, raced>> /\ End(r)
  BY DEF SaveAll, tokens
<1>2. row.password \in Passwords /\ row.password <= written
  BY DEF IInv, TypeOK, RequestInv, Sound
<1>4. account' \in User /\ account'.password = row.password
  BY DEF SaveAll
<1>5. restored' = IF row.password = account.password THEN restored
                  ELSE restored \cup {row.password}
  BY DEF SaveAll
<1>6. restored' \subseteq Passwords /\ restored \subseteq restored'
  BY <1>2, <1>5 DEF IInv, TypeOK
<1>7. PasswordInv'
  BY <1>1, <1>2, <1>4, <1>5 DEF IInv, PasswordInv
<1>8. LinkInv'
  BY <1>1, <1>2, <1>4, <1>5 DEF IInv, LinkInv
<1>9. TokenInv' /\ SessionInv' /\ (\A t \in Tokens : Issued(t) => Issued(t)')
  BY <1>1, TokensKept
<1>10. written \in Nat
  BY BoundAssumption DEF IInv, TypeOK
<1>11. RequestInv'
  BY <1>1, <1>9, <1>10, RequestsKeptAtEnd DEF IInv
<1>12. TypeOK'
  BY <1>1, <1>4, <1>6, EndStep DEF IInv, TypeOK
<1> QED
  BY <1>7, <1>8, <1>9, <1>11, <1>12 DEF IInv

LEMMA SaveProfileInv ==
  ASSUME IInv, NEW r \in Requests, NEW e \in Emails, SaveProfile(r, e)
  PROVE  IInv'
<1> DEFINE row == [request[r].row EXCEPT !.email = e]
<1>1. request[r].row \in User
  BY DEF IInv, TypeOK, Request
<1>2. row \in User /\ row.password = request[r].row.password
  BY <1>1 DEF User
<1>3. SaveAll(r, row) /\ request[r].step = "authenticated"
  BY DEF SaveProfile
<1> HIDE DEF row
<1> QED
  BY <1>2, <1>3, SaveAllInv

LEMMA SaveAdminInv ==
  ASSUME IInv, NEW r \in Requests, NEW e \in Emails, NEW active \in BOOLEAN,
         SaveAdmin(r, e, active)
  PROVE  IInv'
<1> DEFINE row == [request[r].row EXCEPT !.email = e, !.active = active]
<1>1. request[r].row \in User
  BY DEF IInv, TypeOK, Request
<1>2. row \in User /\ row.password = request[r].row.password
  BY <1>1 DEF User
<1>3. SaveAll(r, row) /\ request[r].step = "editing"
  BY DEF SaveAdmin
<1> HIDE DEF row
<1> QED
  BY <1>2, <1>3, SaveAllInv

LEMMA ChangePasswordInv ==
  ASSUME IInv, NEW r \in Requests, ChangePassword(r)
  PROVE  IInv'
<1>1. UNCHANGED <<refresh, access, links, spent, restored, loggedOut, raced>> /\ End(r)
  BY DEF ChangePassword, tokens, history
<1>2. written \in Nat /\ MaxPasswords \in Nat /\ written < MaxPasswords /\ request[r].row \in User
  BY BoundAssumption DEF IInv, TypeOK, ChangePassword, Request
<1>3. /\ account' = [request[r].row EXCEPT !.password = written + 1]
      /\ written' = written + 1
  BY DEF ChangePassword
<1>4. account' \in User /\ account'.password = written + 1
  BY <1>2, <1>3 DEF User
<1>5. PasswordInv' /\ LinkInv' /\ written' \in 0 .. MaxPasswords
  BY <1>1, <1>2, <1>3, <1>4, FreshPassword DEF IInv
<1>6. TokenInv' /\ SessionInv' /\ (\A t \in Tokens : Issued(t) => Issued(t)')
  BY <1>1, TokensKept
<1>7. RequestInv'
  BY <1>1, <1>2, <1>3, <1>6, RequestsKeptAtEnd DEF IInv
<1>8. TypeOK'
  BY <1>1, <1>4, <1>5, EndStep DEF IInv, TypeOK
<1> QED
  BY <1>5, <1>6, <1>7, <1>8 DEF IInv

LEMMA ConfirmResetInv ==
  ASSUME IInv, NEW r \in Requests, ConfirmReset(r)
  PROVE  IInv'
<1>1. UNCHANGED <<refresh, access, links, restored, loggedOut, raced>> /\ End(r)
  BY DEF ConfirmReset, tokens
<1>2. written \in Nat /\ MaxPasswords \in Nat /\ written < MaxPasswords /\ account \in User
  BY BoundAssumption DEF IInv, TypeOK, ConfirmReset
<1>3. /\ account' = [account EXCEPT !.password = written + 1]
      /\ written' = written + 1
      /\ spent' = spent \cup {request[r].link}
  BY DEF ConfirmReset
<1>4. request[r].link \in links
  BY DEF IInv, RequestInv, Sound, ConfirmReset
<1>5. account' \in User /\ account'.password = written + 1
  BY <1>2, <1>3 DEF User
<1>6. PasswordInv' /\ LinkInv' /\ written' \in 0 .. MaxPasswords
  BY <1>1, <1>2, <1>3, <1>4, <1>5, FreshPassword DEF IInv
<1>7. TokenInv' /\ SessionInv' /\ (\A t \in Tokens : Issued(t) => Issued(t)')
  BY <1>1, TokensKept
<1>8. RequestInv'
  BY <1>1, <1>2, <1>3, <1>7, RequestsKeptAtEnd DEF IInv
<1>9. TypeOK'
  BY <1>1, <1>3, <1>4, <1>5, <1>6, EndStep DEF IInv, TypeOK
<1> QED
  BY <1>6, <1>7, <1>8, <1>9 DEF IInv

\* What a request that ends without touching account or links leaves to show.
LEMMA EndInv ==
  ASSUME IInv, NEW r \in Requests, End(r), UNCHANGED <<account, written, links, spent, restored>>,
         TokenInv', SessionInv', refresh' \in [Tokens -> RefreshToken], access' \subseteq Passwords,
         loggedOut' \subseteq Tokens, raced' \subseteq Tokens,
         \A t \in Tokens : Issued(t) => Issued(t)'
  PROVE  IInv'
<1>1. written \in Nat
  BY BoundAssumption DEF IInv, TypeOK
<1>2. RequestInv'
  BY <1>1, RequestsKeptAtEnd DEF IInv
<1>3. TypeOK'
  BY EndStep DEF IInv, TypeOK
<1>4. PasswordInv' /\ LinkInv'
  BY DEF IInv, PasswordInv, LinkInv
<1> QED
  BY <1>2, <1>3, <1>4 DEF IInv

LEMMA LogoutInv ==
  ASSUME IInv, NEW r \in Requests, Logout(r)
  PROVE  IInv'
<1>1. UNCHANGED <<account, written, access, links, spent, restored>> /\ End(r)
  BY DEF Logout
<1>2. access \subseteq Passwords
  BY DEF IInv, TypeOK
<1> QED
  BY <1>1, <1>2, LogoutStep, EndInv

LEMMA RotateInv ==
  ASSUME IInv, NEW r \in Requests, NEW u \in Tokens, Rotate(r, u)
  PROVE  IInv'
<1>1. UNCHANGED <<account, written, links, spent, restored, loggedOut>> /\ End(r)
  BY DEF Rotate
<1>2. loggedOut \subseteq Tokens
  BY DEF IInv, TypeOK
<1> QED
  BY <1>1, <1>2, RotateStep, EndInv

LEMMA LeaveInv ==
  ASSUME IInv, NEW r \in Requests, Leave(r)
  PROVE  IInv'
<1>1. /\ UNCHANGED <<account, written, refresh, access, links, spent, restored, loggedOut, raced>>
      /\ End(r)
  BY DEF Leave, tokens, history
<1> QED
  BY <1>1, TokensKept, EndInv DEF IInv, TypeOK

LEMMA InvNext == IInv /\ [Next]_vars => IInv'
<1> SUFFICES ASSUME IInv, [Next]_vars PROVE IInv'
  OBVIOUS
<1>1. ASSUME NEW r \in Requests, Serve(r) PROVE IInv'
  BY <1>1, AuthenticateInv, SaveProfileInv, ChangePasswordInv, CheckLinkInv, ConfirmResetInv,
     OpenAdminInv, SaveAdminInv, CheckLogoutInv, LogoutInv, CheckRefreshInv, RotateInv, LeaveInv
     DEF Serve
<1>2. ASSUME Enter PROVE IInv'
  BY <1>2, LoginInv, RegisterInv, RequestResetInv DEF Enter
<1>3. CASE UNCHANGED vars
  BY <1>3 DEF vars, tokens, history, IInv, TypeOK, RequestInv, Sound, PasswordInv, LinkInv,
              TokenInv, SessionInv, Issued, Valid
<1> QED
  BY <1>1, <1>2, <1>3 DEF Next

\* The inductive invariant holds of every behaviour.
LEMMA InvAlways == Spec => []IInv
<1>1. Init => IInv
  BY InvInit
<1>2. IInv /\ [Next]_vars => IInv'
  BY InvNext
<1> QED
  BY <1>1, <1>2, PTL DEF Spec

-----------------------------------------------------------------------------
(* Theorems.                                                               *)

\* Every variable keeps its type.
THEOREM TypeCorrect == Spec => []TypeOK
<1>1. IInv => TypeOK
  BY DEF IInv
<1> QED
  BY <1>1, InvAlways, PTL

\* Only three steps begin a request.
LEMMA Begun ==
  ASSUME IInv, Next, NEW r \in Requests, NEW step \in {"authenticated", "checked"}, Becomes(r, step)
  PROVE  \/ step = "authenticated" /\ \E claim \in Passwords : Authenticate(r, claim)
         \/ step = "checked" /\ \E l \in links : CheckLink(r, l)
<1>1. PICK q \in Requests : Serve(q)
  BY DEF Next, Enter, Login, Register, RequestReset, history, Becomes
<1>2. ~End(q)
  BY EndStep DEF IInv, Becomes, Idle
<1>3. \/ \E claim \in Passwords : Authenticate(q, claim)
      \/ \E l \in links : CheckLink(q, l)
      \/ OpenAdmin(q)
      \/ \E t \in Tokens : CheckRefresh(q, t) \/ CheckLogout(q, t)
  BY <1>1, <1>2 DEF Serve, SaveProfile, SaveAdmin, SaveAll, ChangePassword, ConfirmReset, Logout,
                    Rotate, Leave
<1>4. q = r
  BY <1>3 DEF Authenticate, OpenAdmin, CheckLink, CheckRefresh, CheckLogout, Begin, Becomes,
              IInv, TypeOK
<1>5. request \in [Requests -> Request]
  BY DEF IInv, TypeOK
<1>6. ASSUME NEW claim \in Passwords, Authenticate(r, claim) PROVE step = "authenticated"
  BY <1>5, <1>6 DEF Authenticate, Begin, Presented, Idle, Becomes
<1>7. ASSUME NEW l \in links, CheckLink(r, l) PROVE step = "checked"
  BY <1>5, <1>7 DEF CheckLink, Begin, Idle, Becomes
<1>8. ASSUME NEW t \in Tokens PROVE ~CheckRefresh(r, t) /\ ~CheckLogout(r, t)
  BY <1>5 DEF CheckRefresh, CheckLogout, Begin, Idle, Becomes
<1>9. ~OpenAdmin(r)
  BY <1>5 DEF OpenAdmin, Presented, Begin, Idle, Becomes
<1> QED
  BY <1>3, <1>4, <1>6, <1>7, <1>8, <1>9

\* Whoever is let in shows a token of the newest password, or of one that an
\* outdated profile put back (JWTAuthentication, CurrentUserView).
THEOREM SessionsEndWithPassword == Spec => SessionsEndWithPasswordUnlessStale
<1> DEFINE Admitted == \A r \in Requests :
             Becomes(r, "authenticated") => request'[r].claim \in {written} \cup restored
<1>1. IInv /\ [Next]_vars => [Admitted]_vars
  <2> SUFFICES ASSUME IInv, Next, NEW r \in Requests, Becomes(r, "authenticated")
               PROVE  request'[r].claim \in {written} \cup restored
    OBVIOUS
  <2>1. PICK claim \in Passwords : Authenticate(r, claim)
    BY Begun
  <2>2. request'[r].claim = claim
    BY <2>1 DEF IInv, TypeOK, Authenticate, Begin, Presented, Idle
  <2> QED
    BY <2>1, <2>2 DEF IInv, PasswordInv, Authenticate
<1> QED
  BY <1>1, InvAlways, PTL DEF Spec, SessionsEndWithPasswordUnlessStale

\* A link that has changed the password is accepted no more, unless that password
\* was put back (PasswordResetConfirmView).
THEOREM OneTimeLinks == Spec => OneTimeLinksUnlessStale
<1> DEFINE Accepted == \A r \in Requests :
             Becomes(r, "checked") /\ request'[r].link \in spent =>
               request'[r].link.password \in restored
<1>1. IInv /\ [Next]_vars => [Accepted]_vars
  <2> SUFFICES ASSUME IInv, Next, NEW r \in Requests, Becomes(r, "checked"),
                      request'[r].link \in spent
               PROVE  request'[r].link.password \in restored
    OBVIOUS
  <2>1. PICK l \in links : CheckLink(r, l)
    BY Begun
  <2>2. request'[r].link = l
    BY <2>1 DEF IInv, TypeOK, CheckLink, Begin, Idle
  <2>3. l.password = account.password
    BY <2>1 DEF CheckLink, LinkTo
  <2> QED
    BY <2>2, <2>3 DEF IInv, LinkInv
<1> QED
  BY <1>1, InvAlways, PTL DEF Spec, OneTimeLinksUnlessStale

\* A session has at most one refresh token that stands, and none once it has been
\* logged out, unless one of its tokens was refreshed and revoked by two requests
\* that had both found it standing (LogoutView, TokenRefreshView).
THEOREM LogoutEndsSession == Spec => []LogoutEndsSessionUnlessRaced
<1>1. IInv => LogoutEndsSessionUnlessRaced
  <2> SUFFICES ASSUME IInv, NEW s \in Tokens \ raced
               PROVE  Cardinality(ValidTokens(s)) <= IF s \in loggedOut THEN 0 ELSE 1
    BY DEF LogoutEndsSessionUnlessRaced
  <2>1. CASE ValidTokens(s) = {}
    BY <2>1, FS_EmptySet
  <2>2. CASE ValidTokens(s) # {}
    <3>1. PICK t \in Tokens : t \in ValidTokens(s)
      BY <2>2 DEF ValidTokens
    <3>2. ValidTokens(s) = {t} /\ s \notin loggedOut
      BY <3>1 DEF IInv, SessionInv, Valid, ValidTokens
    <3>3. Cardinality({t}) = 1
      BY FS_Singleton
    <3> QED
      BY <3>2, <3>3
  <2> QED
    BY <2>1, <2>2
<1> QED
  BY <1>1, InvAlways, PTL
==============================================================================
