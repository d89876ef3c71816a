CONSTANTS
  tA = tA tB = tB d1 = d1 d2 = d2 d3 = d3 s1 = s1
  Requests = {r1, r2}
  Keys = {k1}
  Payloads = {p1, p2}
  None = None
  MaxCrashes = 1
  Tenants = {tA, tB}
  Devices = {d1, d2, d3}
  Addresses = {a}
  Sessions = {s1}
  NoDevice = NoDevice
  DeviceOf <- MCDeviceOf
  Subject <- MCSubject
SPECIFICATION DisconnectSpec
INVARIANTS
  RepliesAgree
  OnePacketPerKey
  ReplyMatchesTrail
PROPERTIES
  AmbiguousStaysReserved
  KeepsThePromise
  EveryRequestEnds
  OwnSessionsUnlessOutdated
CHECK_DEADLOCK FALSE
