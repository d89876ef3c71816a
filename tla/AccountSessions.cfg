CONSTANTS
  Requests = {r1, r2}
  Tokens = {t1, t2, t3}
  Emails = {e1}
  NoToken = NoToken
  NoLink = NoLink
  MaxPasswords = 3
SPECIFICATION Spec
SYMMETRY Interchangeable
INVARIANTS
  LogoutEndsSessionUnlessRaced
PROPERTIES
  SessionsEndWithPasswordUnlessStale
  OneTimeLinksUnlessStale
CHECK_DEADLOCK FALSE
