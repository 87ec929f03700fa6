\* An approved loan, a payment of all of it and the nightly job, without a fault.
CONSTANTS
  u1 = u1
  l1 = l1
  r1 = r1
  r2 = r2
  c1 = c1
  Users = {u1}
  Requests = {l1, r1, r2}
  Replicas = {c1}
  Kinds = {"approve", "repay"}
  Seeded = {l1}
  Owner <- MCOwner
  Principals = {400}
  Terms = {2}
  MonthlyPayment <- MCMonthlyPayment
  Payments = {400}
  MonthDays = 1
  GracePeriodDays = 1
  DefaultDays = 1
  RateLimitMax = 1
  Serial = FALSE
  MaxDay = 4
  MaxFaults = 0
  None = None
SPECIFICATION Spec
INVARIANT DefaultStays
\* Every request may have ended.
CHECK_DEADLOCK FALSE
