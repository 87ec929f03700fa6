\* Two requests of any kind, one crash, timeout or failed call; cache entries expire.
CONSTANTS
  usd = usd
  w1 = w1
  w2 = w2
  w3 = w3
  Wallets = {w1, w2, w3}
  OpenWallets = {w1, w2}
  Opening <- MCOpening
  Currencies = {usd}
  CurrencyOf <- MCCurrencyOf
  Requests = {r1, r2}
  Keys = {k1}
  Amounts = {1}
  Kinds = {"createWallet", "topUp", "transfer", "getBalance"}
  Elapses = {"balance", "idempotency"}
  MaxFaults = 1
  None = None
SPECIFICATION FairSpec
INVARIANTS IInv OncePerKey CreatedOnce
PROPERTIES EveryRequestEnds CacheSettles
\* Every request may have ended.
CHECK_DEADLOCK FALSE
