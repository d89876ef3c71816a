CONSTANTS
  p1 = p1
  p2 = p2
  Payments <- MCPayments
  HasEmail <- MCHasEmail
  Workers = {w1, w2}
  MaxJobs = 3
  MaxCrashes = 2
SPECIFICATION LiveSpec
INVARIANTS
  NoUnacknowledgedDuplicate
  OutcomesAreTrue
PROPERTIES
  OutcomesAreFinal
  EveryJobSettles
