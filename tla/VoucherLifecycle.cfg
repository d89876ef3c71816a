CONSTANTS
  Vouchers = {v1, v2}
  Names = {a, b}
  Logins = {login}
  Managers = {manager}
  Duration = 1
  MaxTime = 2
  NotSet = NotSet
SPECIFICATION Spec
INVARIANTS
  AccessFollowsStatusUnlessStale
PROPERTIES
  OverdueVouchersExpire
