\* Three requests at once, no fault, within the lifetime of every cache entry.
CONSTANTS
  usd = usd
  Wallets = {w1, w2}
  OpenWallets = {w1, w2}
  Opening <- MCOpening
  Currencies = {usd}
  CurrencyOf <- MCCurrencyOf
  Requests = {r1, r2, r3}
  Keys = {k1, k2}
  Amounts = {1}
  Kinds = {"topUp", "transfer"}
  Elapses = {}
  MaxFaults = 0
  None = None
SPECIFICATION Spec
SYMMETRY Symmetry
INVARIANTS IInv NoOverdraft OncePerKey AuditMatchesTransactions
           AuditEndsAtBalance OnlyCreditsMayGap LockedRowIsFresh EventsAreTrue
PROPERTY ImplementsLedger
\* Every request may have ended.
CHECK_DEADLOCK FALSE
