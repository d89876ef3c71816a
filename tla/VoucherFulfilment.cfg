CONSTANTS
  p1 = p1 p2 = p2 e1 = e1 e2 = e2 e3 = e3 v1 = v1 v2 = v2 v3 = v3 r1 = r1 r2 = r2
  Payments <- MCPayments
  Plans = {pl}
  Vouchers <- LiveVouchers
  Events <- LiveEvents
  EventRef <- LiveEventRef
  Emailed <- MCEmailed
  Requests <- MCRequests
  MaxFaults = 1
  NoPlan = NoPlan
  NoVoucher = NoVoucher
  NoEvent = NoEvent
SPECIFICATION LiveSpec
INVARIANTS
  EachVoucherSoldOnce
  NothingDroppedUnsold
  OneDeliveryPerSale
PROPERTIES
  ExactlyOnceSale
  PaidIsFulfilled
