\* One loan waiting for a decision, three requests at any time of its life.
CONSTANTS
  u1 = u1
  l1 = l1
  r1 = r1
  r2 = r2
  r3 = r3
  c1 = c1
  Users = {u1}
  Requests = {l1, r1, r2, r3}
  Replicas = {c1}
  Kinds = {"apply", "approve", "reject", "repay"}
  Seeded = {l1}
  Owner <- MCOwner
  Principals = {400}
  Terms = {2}
  MonthlyPayment <- MCMonthlyPayment
  Payments = {100, 400}
  MonthDays = 1
  GracePeriodDays = 1
  DefaultDays = 1
  RateLimitMax = 1
  Serial = FALSE
  MaxDay = 4
  MaxFaults = 1
  None = None
SPECIFICATION OrderSpec
INVARIANTS
  TypeOK
  ScheduleBeforeMoney
  PaidIsBacked
  DefaultedForCause
  EventsAreBacked
  AtMostPerWindow
  ScoreIsOnRecord
  SettledInOrder
  ReceivedInOrder
PROPERTY LegalInOrder
SYMMETRY Symmetry
\* Every request may have ended.
CHECK_DEADLOCK FALSE
