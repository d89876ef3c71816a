--------------------------- MODULE AccountSessions ---------------------------
(***************************************************************************)
(* One account and what lets somebody act for it: its password, the JWTs   *)
(* that carry a digest of the password they were issued under, and the     *)
(* emailed links that reset it (src/apps/accounts/views.py,                *)
(* session_api.py, and the SIMPLE_JWT settings of src/config/settings.py). *)
(*                                                                         *)
(* A stored password is salted anew each time it is set, so its hash is a  *)
(* number counted up.  Requests run in autocommit: each reads the User row *)
(* once and saves, later, either one column or all of what it read.        *)
(* Tokens and links are never withdrawn when they expire: an expired one   *)
(* is one that nobody presents.                                            *)
(***************************************************************************)
EXTENDS Naturals, FiniteSets

CONSTANTS Requests,     \* requests in flight at once
          Tokens,       \* refresh tokens that can be issued
          Emails,       \* addresses the account can have
          NoToken,      \* in a request that is not about a refresh token
          NoLink,       \* in a request that is not about a reset link
          MaxPasswords  \* bound on the passwords ever set

ASSUME NullAssumption == NoToken \notin Tokens
ASSUME EmailAssumption == Emails # {}
ASSUME BoundAssumption == MaxPasswords \in Nat

VARIABLES
  account,   \* the User row
  written,   \* passwords set so far, at most MaxPasswords
  refresh,   \* refresh tokens with their blacklist
  access,    \* password digests that access tokens were issued under
  links,     \* reset links that were emailed
  request,   \* what each request in flight has read
  spent,     \* history: links that have changed the password
  restored,  \* history: passwords put back by saving an outdated row
  loggedOut, \* history: sessions ended by a logout
  raced      \* history: sessions refreshed with a token that another request revoked
             \* between its check and its use

tokens == <<refresh, access>>
history == <<spent, restored, loggedOut, raced>>
vars == <<account, written, tokens, links, request, history>>

Passwords == 1 .. MaxPasswords
User == [password : 0 .. MaxPasswords, email : Emails, active : BOOLEAN]

\* A link's token hashes the password and the address it was issued for.
Link == [password : Passwords, email : Emails]

\* A session is named by the refresh token it began with.  The blacklist does not
\* tell a token that was rotated from one that was logged out; the history does.
RefreshToken == [state : {"none", "valid", "rotated", "loggedOut"}, password : 0 .. MaxPasswords,
                 session : Tokens \cup {NoToken}]

Request == [step : {"idle", "authenticated", "editing", "checked", "refreshing", "loggingOut"},
            row : User, claim : 0 .. MaxPasswords, link : Link \cup {NoLink},
            token : Tokens \cup {NoToken}]

\* Before registration there is no row: its password is 0.
NoAccount == [password |-> 0, email |-> CHOOSE e \in Emails : TRUE, active |-> FALSE]
NotIssued == [state |-> "none", password |-> 0, session |-> NoToken]
Idle == [step |-> "idle", row |-> NoAccount, claim |-> 0, link |-> NoLink, token |-> NoToken]

Init == /\ account = NoAccount
        /\ written = 0
        /\ refresh = [t \in Tokens |-> NotIssued]
        /\ access = {}
        /\ links = {}
        /\ request = [r \in Requests |-> Idle]
        /\ spent = {} /\ restored = {} /\ loggedOut = {} /\ raced = {}

Begin(r, fields) == /\ request[r].step = "idle"
                    /\ request' = [request EXCEPT ![r] = fields]
End(r) == request' = [request EXCEPT ![r] = Idle]

-----------------------------------------------------------------------------
(* Registration and login.                                                 *)

\* RefreshToken.for_user and its access token, for the session s.
Issue(t, password, s) ==
  /\ refresh[t].state = "none"
  /\ refresh' = [refresh EXCEPT ![t] =
       [state |-> "valid", password |-> password, session |-> s]]
  /\ access' = access \cup {password}

\* RegisterView: the new account is logged in.
Register(t, e) ==
  /\ account.password = 0 /\ written < MaxPasswords
  /\ account' = [password |-> written + 1, email |-> e, active |-> TRUE]
  /\ written' = written + 1
  /\ Issue(t, written + 1, t)
  /\ UNCHANGED <<links, request, history>>

\* LoginView with the right password: the digest is that of the row just read.
Login(t) ==
  /\ account.active
  /\ Issue(t, account.password, t)
  /\ UNCHANGED <<account, written, links, request, history>>

-----------------------------------------------------------------------------
(* Requests with an access token.                                          *)

Presented(step, claim) == [Idle EXCEPT !.step = step, !.row = account, !.claim = claim]

\* Mutant: tokens are not tied to the password (CHECK_REVOKE_TOKEN off).
AuthenticateAnyClaim(r, claim) ==
  /\ claim \in access /\ account.active
  /\ Begin(r, Presented("authenticated", claim))
  /\ UNCHANGED <<account, written, tokens, links, history>>

\* JWTAuthentication.get_user: the row it reads is request.user from then on.
Authenticate(r, claim) ==
  /\ claim \in access /\ account.active
  /\ claim = account.password
  /\ Begin(r, Presented("authenticated", claim))
  /\ UNCHANGED <<account, written, tokens, links, history>>

\* The whole row is saved: its password is the one that was read.
SaveAll(r, row) ==
  /\ account' = row
  /\ restored' = IF row.password = account.password THEN restored
                 ELSE restored \cup {row.password}
  /\ End(r)
  /\ UNCHANGED <<written, tokens, links, spent, loggedOut, raced>>

\* CurrentUserView, PUT or PATCH.
SaveProfile(r, e) ==
  /\ request[r].step = "authenticated"
  /\ SaveAll(r, [request[r].row EXCEPT !.email = e])

\* Django's admin site, on users: the row is read, then saved with the form's fields.
OpenAdmin(r) ==
  /\ account.password # 0
  /\ Begin(r, Presented("editing", 0))
  /\ UNCHANGED <<account, written, tokens, links, history>>

SaveAdmin(r, e, active) ==
  /\ request[r].step = "editing"
  /\ SaveAll(r, [request[r].row EXCEPT !.email = e, !.active = active])

\* ChangePasswordView: the old password is compared with the row that was read,
\* and the whole row saved.
ChangePassword(r) ==
  /\ request[r].step = "authenticated" /\ written < MaxPasswords
  /\ account' = [request[r].row EXCEPT !.password = written + 1]
  /\ written' = written + 1
  /\ End(r)
  /\ UNCHANGED <<tokens, links, history>>

\* LogoutView: the refresh token is checked against the blacklist.
CheckLogout(r, t) ==
  /\ request[r].step = "authenticated"
  /\ refresh[t].state = "valid"
  /\ request' = [request EXCEPT ![r] = [Idle EXCEPT !.step = "loggingOut", !.token = t]]
  /\ UNCHANGED <<account, written, tokens, links, history>>

\* It is put on the blacklist, where somebody may have put it meanwhile.
Logout(r) ==
  LET t == request[r].token IN
  /\ request[r].step = "loggingOut"
  /\ refresh' = [refresh EXCEPT ![t].state = "loggedOut"]
  /\ loggedOut' = loggedOut \cup {refresh[t].session}
  /\ raced' = IF refresh[t].state = "rotated" THEN raced \cup {refresh[t].session} ELSE raced
  /\ End(r)
  /\ UNCHANGED <<account, written, access, links, spent, restored>>

\* Any request may end without a change: refused, invalid, or its process gone.
Leave(r) ==
  /\ request[r].step # "idle"
  /\ End(r)
  /\ UNCHANGED <<account, written, tokens, links, history>>

-----------------------------------------------------------------------------
(* Password reset.                                                         *)

LinkTo(row) == [password |-> row.password, email |-> row.email]

\* PasswordResetRequestView.  A failed email is a link nobody gets.
RequestReset ==
  /\ account.active
  /\ links' = links \cup {LinkTo(account)}
  /\ UNCHANGED <<account, written, tokens, request, history>>

\* Mutant: the token is made from the address alone.
CheckLinkByEmail(r, l) ==
  /\ l \in links /\ account.active
  /\ l.email = account.email
  /\ Begin(r, [Idle EXCEPT !.step = "checked", !.link = l])
  /\ UNCHANGED <<account, written, tokens, links, history>>

\* PasswordResetConfirmView up to check_token and the validation.
CheckLink(r, l) ==
  /\ l \in links /\ account.active
  /\ l = LinkTo(account)
  /\ Begin(r, [Idle EXCEPT !.step = "checked", !.link = l])
  /\ UNCHANGED <<account, written, tokens, links, history>>

\* The rest of it: only the password is saved, and it is not checked again.
ConfirmReset(r) ==
  /\ request[r].step = "checked" /\ written < MaxPasswords
  /\ account' = [account EXCEPT !.password = written + 1]
  /\ written' = written + 1
  /\ spent' = spent \cup {request[r].link}
  /\ End(r)
  /\ UNCHANGED <<tokens, links, restored, loggedOut, raced>>

-----------------------------------------------------------------------------
(* TokenRefreshView, with ROTATE_REFRESH_TOKENS and BLACKLIST_AFTER_ROTATION. *)

CheckRefresh(r, t) ==
  /\ refresh[t].state = "valid"
  /\ Begin(r, [Idle EXCEPT !.step = "refreshing", !.token = t])
  /\ UNCHANGED <<account, written, tokens, links, history>>

\* Mutant: the token that was used stays valid (BLACKLIST_AFTER_ROTATION off).
RotateAndKeep(r, u) ==
  LET t == request[r].token IN
  /\ request[r].step = "refreshing"
  /\ Issue(u, refresh[t].password, refresh[t].session)
  /\ raced' = IF refresh[t].state = "valid" THEN raced ELSE raced \cup {refresh[t].session}
  /\ End(r)
  /\ UNCHANGED <<account, written, links, spent, restored, loggedOut>>

\* The new tokens copy the claims of the old one, which is blacklisted, whether
\* or not somebody has blacklisted it meanwhile.
Rotate(r, u) ==
  LET t == request[r].token IN
  /\ request[r].step = "refreshing"
  /\ refresh[u].state = "none"
  /\ refresh' = [refresh EXCEPT ![u] = [@ EXCEPT !.state = "valid",
                                                 !.password = refresh[t].password,
                                                 !.session = refresh[t].session],
                                ![t].state = "rotated"]
  /\ access' = access \cup {refresh[t].password}
  /\ raced' = IF refresh[t].state = "valid" THEN raced ELSE raced \cup {refresh[t].session}
  /\ End(r)
  /\ UNCHANGED <<account, written, links, spent, restored, loggedOut>>

-----------------------------------------------------------------------------
Enter == \/ \E t \in Tokens : Login(t) \/ \E e \in Emails : Register(t, e)
         \/ RequestReset

Serve(r) == \/ \E claim \in Passwords : Authenticate(r, claim)
            \/ OpenAdmin(r)
            \/ \E e \in Emails : SaveProfile(r, e) \/ \E active \in BOOLEAN : SaveAdmin(r, e, active)
            \/ ChangePassword(r)
            \/ \E l \in links : CheckLink(r, l)
            \/ ConfirmReset(r)
            \/ \E t \in Tokens : CheckLogout(r, t) \/ CheckRefresh(r, t) \/ Rotate(r, t)
            \/ Logout(r)
            \/ Leave(r)

Next == Enter \/ \E r \in Requests : Serve(r)

Spec == Init /\ [][Next]_vars

-----------------------------------------------------------------------------
(* Properties.                                                             *)

\* Every variable has its type.
TypeOK == /\ account \in User
          /\ written \in 0 .. MaxPasswords
          /\ refresh \in [Tokens -> RefreshToken]
          /\ access \subseteq Passwords
          /\ links \subseteq Link /\ spent \subseteq links
          /\ request \in [Requests -> Request]
          /\ restored \subseteq Passwords
          /\ loggedOut \subseteq Tokens /\ raced \subseteq Tokens

Becomes(r, step) == request[r].step = "idle" /\ request'[r].step = step

\* "Password changes and completed password resets revoke older JWTs" (README.md),
\* refreshed ones included: whoever is let in shows a token of the newest
\* password, unless a profile or an admin form saved from an outdated row has put an
\* older one back.
SessionsEndWithPasswordUnlessStale ==
  [][\A r \in Requests :
       Becomes(r, "authenticated") => request'[r].claim \in {written} \cup restored]_vars

\* "One-time password-reset tokens" (README.md): a link that has changed the
\* password is accepted no more, unless its password was put back.
OneTimeLinksUnlessStale ==
  [][\A r \in Requests :
       Becomes(r, "checked") /\ request'[r].link \in spent =>
         request'[r].link.password \in restored]_vars

ValidTokens(s) == {t \in Tokens : refresh[t].state = "valid" /\ refresh[t].session = s}

\* "Refresh rotation blacklists old refresh tokens; logout revokes the submitted
\* refresh token" (API_IMPLEMENTATION_REPORT.md): a session has one refresh token
\* and after logging out none, unless one of its tokens was refreshed and revoked by
\* two requests that had both found it standing.
LogoutEndsSessionUnlessRaced ==
  \A s \in Tokens \ raced :
    Cardinality(ValidTokens(s)) <= IF s \in loggedOut THEN 0 ELSE 1
==============================================================================
