\* Three transactions of one user, at most two of which may fall into one
\* window.
CONSTANTS
  FraudBoots = {b1}
  FraudChecks = {c1, c2, c3}
  FraudAdmins = {}
  FraudCrons = {}
  FraudGroups <- MCFraudGroups
  FraudRequests <- MCFraudRequests
  FraudDefaults <- MCFraudDefaults
  FraudNewRules = {}
  FraudMaxCount = 2
  FraudWindow = 2
  FraudThreshold = 2
  FraudMaxTime = 2
  FraudMaxFaults = 0
  FraudNone = None
SPECIFICATION FraudSpec
INVARIANT BurstIsFlagged
\* Every check may have ended.
CHECK_DEADLOCK FALSE
