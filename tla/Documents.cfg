\* One submission and one purchase, and no fault. The document schema requires idDocFront
\* of every document, and the investment schema takes no uuid for an _id.
CONSTANTS
  KycUsers = {u1}
  KycSubmissions = {s1}
  KycReviews = {}
  KycRequiredProps <- MCKycRequiredProps
  KycMaxFaults = 0
  KycNone = None
  InvPurchases = {i1}
  InvWithdrawals = {w1}
  InvJobs = {}
  InvProducts <- MCInvProducts
  InvAmounts = {1, 2}
  InvIdsCast = FALSE
  InvMaxFaults = 0
  InvNone = None
SPECIFICATION Spec
INVARIANT DocumentsAreTaken
\* Every request may have ended.
CHECK_DEADLOCK FALSE
