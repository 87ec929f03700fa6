---------------------------- MODULE WalletLedger ---------------------------
(***************************************************************************)
(* What the wallet service promises its clients about money: wallets,      *)
(* transactions and audit rows change together, in one atomic step per     *)
(* idempotency key.  The one promise the code does not keep is that a      *)
(* transfer credits the balance the destination has at that moment: with   *)
(* StaleCredits the ledger allows any balance the destination ever had.    *)
(***************************************************************************)
EXTENDS Integers, Sequences

CONSTANTS Wallets, OpenWallets, Opening, Requests, Keys, Amounts, Currencies,
          StaleCredits, None

VARIABLES wallet, txns, audit

Absent    == [balance |-> 0, version |-> 0]
Exists(w) == wallet[w].version > 0

Init ==
  /\ wallet = [w \in Wallets |-> IF w \in OpenWallets
                                 THEN [balance |-> Opening[w], version |-> 1]
                                 ELSE Absent]
  /\ txns  = {}
  /\ audit = [w \in Wallets |-> <<>>]

Create(w) ==
  /\ ~Exists(w)
  /\ wallet' = [wallet EXCEPT ![w] = [balance |-> 0, version |-> 1]]
  /\ UNCHANGED <<txns, audit>>

StartBalance(w) == IF w \in OpenWallets THEN Opening[w] ELSE 0

\* Every balance wallet w has had so far.
PastBalances(w) ==
  {StartBalance(w)} \cup {audit[w][i].new : i \in 1..Len(audit[w])}

Fresh(id, key) == \A t \in txns : t.id # id /\ t.key # key

Entry(id, op, previous, new) ==
  [txn |-> id, operation |-> op, previous |-> previous, new |-> new]

Set(w, balance) == [balance |-> balance, version |-> wallet[w].version + 1]

TopUp(id, key, w, amount, currency) ==
  LET old == wallet[w].balance IN
  /\ Fresh(id, key)
  /\ Exists(w)
  /\ wallet' = [wallet EXCEPT ![w] = Set(w, old + amount)]
  /\ txns' = txns \cup {[id |-> id, key |-> key, from |-> None, to |-> w,
                         amount |-> amount, currency |-> currency]}
  /\ audit' = [audit EXCEPT ![w] = Append(@, Entry(id, "TOP_UP", old, old + amount))]

Transfer(id, key, from, to, amount, currency) ==
  LET old == wallet[from].balance IN
  /\ Fresh(id, key)
  /\ from # to /\ Exists(from) /\ Exists(to)
  /\ old >= amount
  /\ \E base \in IF StaleCredits THEN PastBalances(to) ELSE {wallet[to].balance} :
       /\ wallet' = [wallet EXCEPT ![from] = Set(from, old - amount),
                                   ![to] = Set(to, base + amount)]
       /\ audit' = [audit EXCEPT
            ![from] = Append(@, Entry(id, "DEBIT", old, old - amount)),
            ![to]   = Append(@, Entry(id, "CREDIT", base, base + amount))]
  /\ txns' = txns \cup {[id |-> id, key |-> key, from |-> from, to |-> to,
                         amount |-> amount, currency |-> currency]}

Next ==
  \/ \E w \in Wallets : Create(w)
  \/ \E id \in Requests, key \in Keys, to \in Wallets, amount \in Amounts,
        currency \in Currencies :
       \/ TopUp(id, key, to, amount, currency)
       \/ \E from \in Wallets : Transfer(id, key, from, to, amount, currency)

Spec == Init /\ [][Next]_<<wallet, txns, audit>>

=============================================================================
