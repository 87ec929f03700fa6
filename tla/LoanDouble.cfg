\* Two approvals of one loan.
CONSTANTS
  u1 = u1
  l1 = l1
  r1 = r1
  r2 = r2
  c1 = c1
  Users = {u1}
  Requests = {l1, r1, r2}
  Replicas = {c1}
  Kinds = {"approve"}
  Seeded = {l1}
  Owner <- MCOwner
  Principals = {400}
  Terms = {2}
  MonthlyPayment <- MCMonthlyPayment
  Payments = {100}
  MonthDays = 1
  GracePeriodDays = 1
  DefaultDays = 1
  RateLimitMax = 1
  Serial = FALSE
  MaxDay = 0
  MaxFaults = 0
  None = None
SPECIFICATION Spec
INVARIANT OneSchedule
\* Every request may have ended.
CHECK_DEADLOCK FALSE
