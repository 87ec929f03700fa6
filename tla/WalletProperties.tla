-------------------------- MODULE WalletProperties -------------------------
(***************************************************************************)
(* What the wallet service keeps true, and what it does not.               *)
(***************************************************************************)
EXTENDS WalletService, Functions

TypeOK ==
  /\ wallet \in [Wallets -> Row]
  /\ txns \subseteq Txn
  /\ audit \in [Wallets -> Seq(AuditEntry)]
  /\ rowLock \in [Wallets -> Requests \cup {None}]
  /\ keyLock \in [Keys -> Requests \cup {None}]
  /\ cache \in [Wallets -> Int \cup {None}]
  /\ idem \subseteq Keys
  /\ events \subseteq Message
  /\ pc \in [Requests -> Labels]
  /\ req \in [Requests -> Request \cup {NoRequest}]
  /\ local \in [Requests -> Locals]
  /\ todo \in [Requests -> SUBSET Effects]
  /\ faults \in 0..MaxFaults

-----------------------------------------------------------------------------
(* Safety *)

\* No interleaving of debits takes a wallet below zero: the check before the
\* transaction may be stale, the one inside it is guarded by the row version.
NoOverdraft == \A w \in Wallets : wallet[w].balance >= 0

\* However often and however concurrently a key is sent, also after a crash, at
\* most one request commits under it, and that request commits once.
OncePerKey ==
  /\ \A t, u \in txns : t.key = u.key => t = u
  /\ \A w \in Wallets : \A i, j \in 1..Len(audit[w]) :
       audit[w][i].txn = audit[w][j].txn => i = j

Audits(t, w) == \E i \in 1..Len(audit[w]) :
  /\ audit[w][i].txn = t.id
  /\ audit[w][i].new = audit[w][i].previous + (IF w = t.from THEN -t.amount ELSE t.amount)

\* The transactions table and the audit log tell the same story: a committed
\* transaction has an audit row of its amount in exactly the wallets it names.
AuditMatchesTransactions ==
  /\ \A t \in txns, w \in Wallets : w \in {t.from, t.to} <=> Audits(t, w)
  /\ \A w \in Wallets : \A i \in 1..Len(audit[w]) :
       \E t \in txns : t.id = audit[w][i].txn

StartBalance(w) == IF w \in OpenWallets THEN Opening[w] ELSE 0

\* The balance after the first n audit rows of wallet w.
BalanceAfter(w, n) == IF n = 0 THEN StartBalance(w) ELSE audit[w][n].new

EndsAtBalance(w) ==
  /\ Exists(w) => wallet[w].version = Len(audit[w]) + 1
  /\ ~Exists(w) => audit[w] = <<>>
  /\ wallet[w].balance = BalanceAfter(w, Len(audit[w]))

\* The version of a wallet counts its audit rows and its balance is what the
\* last of them says: no committed update is overwritten without a trace.
AuditEndsAtBalance == \A w \in Wallets : EndsAtBalance(w)

\* Where the i-th audit row of wallet w starts.
Continues(w, i) ==
  LET e == audit[w][i] IN
  IF e.operation = "CREDIT" THEN \E n \in 0..(i - 1) : e.previous = BalanceAfter(w, n)
                            ELSE e.previous = BalanceAfter(w, i - 1)

\* The audit rows of debits and top-ups start at the balance the row before left.
\* A credit may start at any earlier balance: transfer() computes it from a row
\* read before the transaction.
OnlyCreditsMayGap ==
  \A w \in Wallets : \A i \in 1..Len(audit[w]) : Continues(w, i)

\* While a database transaction holds a row it updated, the committed row is the
\* one it read: what it writes at commit is based on the current balance.
LockedRowIsFresh ==
  \A w \in Wallets, r \in Requests : rowLock[w] = r =>
    /\ pc[r] \in InTx
    /\ \/ w = req[r].from /\ wallet[w] = local[r].freshFrom
       \/ w = req[r].to /\ wallet[w] = local[r].freshTo

Backed(r, topic) ==
  \E t \in txns : t.id = r /\ (topic = "wallet.debited" => t.from # None)

\* No event announces money that did not move: each refers to a committed
\* transaction, and only a transfer announces a debit.
EventsAreTrue == \A m \in events : Backed(m.txn, m.topic)

\* The requests that have created wallet w.
Creators(w) ==
  {r \in Requests : /\ req[r].kind = "createWallet" /\ req[r].to = w
                    /\ pc[r] \in After \cup {"ok", "error"}}

\* A user has one wallet of a currency: of the requests to create it that all find
\* none, one succeeds, and none when the wallet was open before.
CreatedOnce ==
  \A w \in Wallets :
    /\ \A r, s \in Creators(w) : r = s
    /\ w \in OpenWallets => Creators(w) = {}

-----------------------------------------------------------------------------
(* The inductive invariant behind them *)

Holding == {"freshTo", "updateTo", "insert", "commit"}

\* A handler is only ever at a line of the operation it was called for.
AtLine(q, label) ==
  /\ label # "idle" => q \in Request /\ WellFormed(q)
  /\ label = "readWallet" => q.kind = "topUp"
  /\ label \in InTx \cup {"checkKey", "readFrom", "readTo"} => q.kind \in {"topUp", "transfer"}
  /\ label \in {"readFrom", "readTo", "freshFrom", "updateFrom"} => q.kind = "transfer"
  /\ label \in InTx \cup {"readFrom", "readTo"} => q.from # q.to

RequestInv == \A r \in Requests : AtLine(req[r], pc[r])

\* Row versions only grow, and a row with the same version is the same row.
Seen(row, w) == /\ row.version <= wallet[w].version
                /\ row.version = wallet[w].version => row = wallet[w]

\* What a handler remembers of rows it has read.
Snapshot(r) ==
  LET q == req[r] l == local[r] IN
  /\ l.from >= 0 /\ l.to >= 0 /\ l.freshFrom.balance >= 0 /\ l.freshTo.balance >= 0
  /\ pc[r] = "updateFrom" => Seen(l.freshFrom, q.from)
  /\ pc[r] = "updateTo" => Seen(l.freshTo, q.to)
  /\ pc[r] \in {"updateFrom"} \cup Holding /\ q.kind = "transfer"
        => l.freshFrom.balance >= q.amount

SnapshotInv == \A r \in Requests : Snapshot(r)

\* Who holds which lock, and that a locked row is the one its holder read.
LockInv ==
  /\ \A w \in Wallets, r \in Requests : rowLock[w] = r =>
       \/ /\ pc[r] \in Holding /\ req[r].kind = "transfer"
          /\ w = req[r].from /\ wallet[w] = local[r].freshFrom
       \/ /\ pc[r] \in {"insert", "commit"}
          /\ w = req[r].to /\ wallet[w] = local[r].freshTo
  /\ \A r \in Requests :
       /\ pc[r] \in Holding /\ req[r].kind = "transfer" => rowLock[req[r].from] = r
       /\ pc[r] \in {"insert", "commit"} => rowLock[req[r].to] = r
       /\ pc[r] = "commit" => keyLock[req[r].key] = r
  /\ \A k \in Keys, r \in Requests : keyLock[k] = r => pc[r] = "commit" /\ req[r].key = k

\* A key is locked only while it is unused, and a request commits only once.
UniqueInv ==
  /\ \A k \in Keys : keyLock[k] # None => ~KeyUsed(k)
  /\ \A t \in txns : pc[t.id] \in After \cup {"ok", "error", "lost"}

\* The balance from which a transfer computes its credit is one the wallet had.
PastInv == \A r \in Requests :
  pc[r] \in InTx /\ req[r].kind = "transfer" =>
    \E n \in 0..Len(audit[req[r].to]) : local[r].to = BalanceAfter(req[r].to, n)

\* Wallets named by a request that passed its reads exist.
WalletsExist(r) ==
  /\ pc[r] = "checkKey" /\ req[r].kind = "topUp" => Exists(req[r].to)
  /\ pc[r] \in InTx => Exists(req[r].to)
  /\ pc[r] \in InTx \cup {"readTo"} /\ req[r].kind = "transfer" => Exists(req[r].from)

ExistInv == \A r \in Requests : WalletsExist(r)

\* A wallet that was open is never lost: one that is created starts at 0.
OpenInv == \A w \in OpenWallets : Exists(w)

\* An event is still to be sent only by the request that moved the money.
PendingInv == \A r \in Requests : \A e \in todo[r] \cap [topic: Topics] : Backed(r, e.topic)

IInv ==
  /\ TypeOK /\ RequestInv /\ SnapshotInv /\ LockInv /\ NoOverdraft /\ ExistInv
  /\ UniqueInv /\ OncePerKey /\ AuditMatchesTransactions
  /\ OpenInv /\ AuditEndsAtBalance /\ OnlyCreditsMayGap /\ PastInv
  /\ PendingInv /\ EventsAreTrue

-----------------------------------------------------------------------------
(* The abstract ledger *)

Ledger == INSTANCE WalletLedger WITH StaleCredits <- TRUE

\* Every database transaction takes effect at its commit, all of it at once.
ImplementsLedger == Ledger!Spec

-----------------------------------------------------------------------------
(* Liveness *)

\* A handler that was entered returns, crashes or is aborted: requests that
\* block each other on rows or keys are always released.
EveryRequestEnds == \A r \in Requests : pc[r] # "idle" ~> pc[r] \in Final

\* Once requests stop, a cached balance that a race or a crash left behind is
\* gone in the end.
CacheSettles ==
  \A w \in Wallets : <>[](cache[w] = None \/ cache[w] = wallet[w].balance)

-----------------------------------------------------------------------------
(* What the documents say and the code does not do *)

Total(f, S) == FoldFunctionOnSet(+, 0, f, S)

\* Money enters by top-ups only: a transfer moves it from one wallet to another.
MoneyConserved ==
  Total([w \in Wallets |-> wallet[w].balance], Wallets)
    = Total(Opening, OpenWallets)
      + Total([t \in txns |-> IF t.from = None THEN t.amount ELSE 0], txns)

\* A transfer that loses the race for a row version is answered 409, so that the
\* client knows it may retry.
LostRaceIsConflict ==
  \A r \in Requests :
    req[r].kind = "transfer" /\ pc[r] = "staleVersion" => Status(pc[r]) = 409

=============================================================================
