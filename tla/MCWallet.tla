------------------------------ MODULE MCWallet -----------------------------
(***************************************************************************)
(* Values for the model checker.                                           *)
(***************************************************************************)
EXTENDS WalletProperties, TLC

CONSTANTS usd

MCCurrencyOf == [w \in Wallets |-> usd]
MCOpening    == [w \in Wallets |-> 1]

\* The wallets open with equal balances, so all three sets are interchangeable.
Symmetry ==
  Permutations(Requests) \cup Permutations(Keys) \cup Permutations(Wallets)

=============================================================================
