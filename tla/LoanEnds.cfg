\* Two requests, the nightly job and one crash: what must happen in the end.
CONSTANTS
  u1 = u1
  l1 = l1
  r1 = r1
  r2 = r2
  c1 = c1
  Users = {u1}
  Requests = {l1, r1, r2}
  Replicas = {c1}
  Kinds = {"apply", "approve", "reject", "repay"}
  Seeded = {l1}
  Owner <- MCOwner
  Principals = {400}
  Terms = {2}
  MonthlyPayment <- MCMonthlyPayment
  Payments = {200, 400}
  MonthDays = 1
  GracePeriodDays = 1
  DefaultDays = 1
  RateLimitMax = 1
  Serial = FALSE
  MaxDay = 5
  MaxFaults = 1
  None = None
SPECIFICATION FairSpec
PROPERTIES DefaultReachesLoan LockoutEnds
\* Every request may have ended.
CHECK_DEADLOCK FALSE
