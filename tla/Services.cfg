\* Every service once, on a small instance: requests overlap at every await,
\* and at most one fault strikes.
CONSTANTS
  b1 = b1
  b2 = b2
  c1 = c1
  c2 = c2
  a1 = a1
  p1 = p1
  n1 = n1
  n2 = n2
  KycUsers = {u1}
  KycSubmissions = {s1, s2}
  KycReviews = {v1, v2}
  KycRequiredProps = {}
  KycMaxFaults = 1
  KycNone = None
  InvPurchases = {i1, i2}
  InvWithdrawals = {w1, w2}
  InvJobs = {j1}
  InvProducts <- MCInvProducts
  InvAmounts = {1, 2}
  InvIdsCast = TRUE
  InvMaxFaults = 1
  InvNone = None
  FraudBoots = {b1, b2}
  FraudChecks = {c1, c2}
  FraudAdmins = {a1}
  FraudCrons = {p1}
  FraudGroups <- MCFraudGroups
  FraudRequests <- MCFraudRequests
  FraudDefaults <- MCFraudDefaults
  FraudNewRules <- MCFraudNewRules
  FraudMaxCount = 1
  FraudWindow = 0
  FraudThreshold = 2
  FraudMaxTime = 1
  FraudMaxFaults = 1
  FraudNone = None
  NotifConsumers = {n1, n2}
  NotifQueues <- MCNotifQueues
  NotifLimit = 1
  NotifMaxExpiries = 1
  NotifMaxFaults = 1
  ClientCalls = {k1, k2, k3}
  ClientAmounts = {1}
  ClientStart = 1
  ClientForeign = 1
  ClientNone = None
SPECIFICATION FairSpec
INVARIANTS
  TypeOK
  RecordPointsAtDocuments
  SecondDecisionOverlaps
  SecondPayoutOverlaps
  ClosedIsAnnounced
  FrozenIsExplained
  SecondDeviceFlagOverlaps
  DefaultsComplete
  MarkMeansProcessed
  CopiesAreExcused
  ImmortalNeedsRace
  
PROPERTIES
  VerifiedUndoneByOverlap
  EveryMessageHandled
\* Every request may have ended.
CHECK_DEADLOCK FALSE
