CONSTANTS
  Payments = {p1, p2, p3}
  short = short
  long = long
  SubscriptionPlans = {short, long}
  Days <- PlanDays
  Deliveries = {d1, d2}
  TrialEnd = 2
  MaxTime = 4
  Nobody = Nobody
  NotSet = NotSet
SPECIFICATION SubscriptionSpec
INVARIANTS
  PaidTimeIsHonoured
