CONSTANTS
  Users = {u1, u2}
  Owner = u1
  Requests = {q1, q2, q3, q4, q5}
  NoRole = NoRole
  NoUser = NoUser
SPECIFICATION Spec
SYMMETRY Interchangeable
INVARIANTS
  FinalOwnerStays
CHECK_DEADLOCK FALSE
