CONSTANTS
  Routers = {r1, r2}
  NoRouter = NoRouter
  Keys = {k1}
  NoKey = NoKey
  Workers = {w1, w2}
  Calls = {c1}
  MaxOps = 1
  MaxFaults = 2
SPECIFICATION LiveSpec
INVARIANTS
  OneProvisioningAtATime
  ConfigurationHeldStill
  FinishedByItsHolder
  StatusIsTrue
  DeployingHasOwner
PROPERTY EveryOperationFinishes
CHECK_DEADLOCK FALSE
