\* Two requests suffice for one to lose the race for a row version.
CONSTANTS
  usd = usd
  Wallets = {w1, w2}
  OpenWallets = {w1, w2}
  Opening <- MCOpening
  Currencies = {usd}
  CurrencyOf <- MCCurrencyOf
  Requests = {r1, r2}
  Keys = {k1, k2}
  Amounts = {1}
  Kinds = {"topUp", "transfer"}
  Elapses = {}
  MaxFaults = 0
  None = None
SPECIFICATION Spec
SYMMETRY Symmetry
INVARIANT LostRaceIsConflict
CHECK_DEADLOCK FALSE
