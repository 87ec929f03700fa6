--------------------------- MODULE WalletService ---------------------------
(***************************************************************************)
(* The wallet microservice: requests handled concurrently by any number of *)
(* replicas, over one PostgreSQL database at READ COMMITTED, one Redis and *)
(* one Kafka broker.  A request is a process; each of its steps is one     *)
(* await of the code, because another request may run at every await.      *)
(* Money is counted in cents.                                              *)
(***************************************************************************)
EXTENDS Integers, Sequences, FiniteSets

CONSTANTS
  Wallets,      \* the (user, currency) pairs that may own a wallet
  OpenWallets,  \* the wallets that exist when the model starts
  Opening,      \* Opening[w]: balance of an open wallet at the start, in cents
  Currencies,
  CurrencyOf,   \* CurrencyOf[w]: the currency of wallet w
  Requests,     \* request identifiers; also the id of the transaction one makes
  Keys,         \* idempotency keys chosen by clients
  Amounts,      \* amounts clients ask for, in cents (the DTOs demand >= 1 cent)
  Kinds,        \* the operations clients call in this instance
  Elapses,      \* the Redis lifetimes short enough to run out in this instance
  MaxFaults,    \* bound on crashes, timeouts and failed Redis or Kafka calls
  None

AllKinds == {"createWallet", "topUp", "transfer", "getBalance"}

ASSUME WalletAssumption ==
  /\ OpenWallets \subseteq Wallets
  /\ Opening \in [Wallets -> Nat]
  /\ CurrencyOf \in [Wallets -> Currencies]
  /\ Amounts \subseteq Nat \ {0}
  /\ Kinds \subseteq AllKinds
  /\ Elapses \subseteq {"balance", "idempotency"}
  /\ MaxFaults \in Nat
  /\ None \notin Wallets \cup Requests \cup Keys \cup Int

VARIABLES
  wallet,   \* table wallets: the committed row of each wallet
  txns,     \* table transactions: the committed rows
  audit,    \* table balance_audit_logs: the committed rows of each wallet
  rowLock,  \* the open database transaction that updated a wallet row
  keyLock,  \* the open database transaction that inserted an idempotency key
  cache,    \* Redis balance:<id>
  idem,     \* Redis idempotency:<key>: the keys that hold a response
  events,   \* Kafka messages accepted by the broker
  pc,       \* where each request is in its handler
  req,      \* what each request asks for
  local,    \* rows each handler has read
  todo,     \* members of its Promise.all a handler still waits for
  faults    \* crashes, timeouts and failed calls so far

dbVars    == <<wallet, txns, audit>>
lockVars  == <<rowLock, keyLock>>
redisVars == <<cache, idem>>
vars == <<wallet, txns, audit, rowLock, keyLock, cache, idem, events,
          pc, req, local, todo, faults>>

-----------------------------------------------------------------------------
(* Rows, requests and states *)

Row      == [balance: Int, version: Nat]
Absent   == [balance |-> 0, version |-> 0]
Exists(w) == wallet[w].version > 0

Request == [kind: Kinds, key: Keys \cup {None}, from: Wallets \cup {None},
            to: Wallets, amount: Amounts \cup {0}, currency: Currencies]

\* Only a transfer names two wallets and a currency of its own; the others find
\* their wallet by owner and currency.
WellFormed(q) ==
  CASE q.kind = "transfer" ->
         q.key \in Keys /\ q.from \in Wallets /\ q.amount \in Amounts
    [] q.kind = "topUp" ->
         /\ q.key \in Keys /\ q.from = None /\ q.amount \in Amounts
         /\ q.currency = CurrencyOf[q.to]
    [] OTHER ->
         /\ q.key = None /\ q.from = None /\ q.amount = 0
         /\ q.currency = CurrencyOf[q.to]

NoRequest == [kind |-> "none", key |-> None, from |-> None, to |-> None,
              amount |-> 0, currency |-> None]

\* from, to: balances the service read before the database transaction;
\* freshFrom, freshTo: rows read inside it.
Locals   == [from: Int, to: Int, freshFrom: Row, freshTo: Row]
NoLocals == [from |-> 0, to |-> 0, freshFrom |-> Absent, freshTo |-> Absent]

Txn == [id: Requests, key: Keys, from: Wallets \cup {None}, to: Wallets,
        amount: Amounts, currency: Currencies]
AuditEntry == [txn: Requests, operation: {"TOP_UP", "DEBIT", "CREDIT"},
               previous: Int, new: Int]

Topics  == {"wallet.debited", "wallet.credited"}
Message == [topic: Topics, txn: Requests]
Effects == [wallet: Wallets, balance: Int] \cup [topic: Topics]

InTx  == {"freshFrom", "updateFrom", "freshTo", "updateTo", "insert", "commit"}
After == {"effects", "effectsFailed"}
Aborted == {"insufficient", "staleVersion", "duplicateKey", "deadlock", "timeout"}
Final == {"ok", "replayed", "rejected", "conflict", "error", "lost"} \cup Aborted
Before == {"findWallet", "insertWallet", "readRow", "getCached", "readWallet",
           "checkKey", "readFrom", "readTo"}
Running == Before \cup InTx \cup After
Labels  == {"idle"} \cup Running \cup Final

Init ==
  /\ wallet  = [w \in Wallets |-> IF w \in OpenWallets
                                  THEN [balance |-> Opening[w], version |-> 1]
                                  ELSE Absent]
  /\ txns    = {}
  /\ audit   = [w \in Wallets |-> <<>>]
  /\ rowLock = [w \in Wallets |-> None]
  /\ keyLock = [k \in Keys |-> None]
  /\ cache   = [w \in Wallets |-> None]
  /\ idem    = {}
  /\ events  = {}
  /\ pc      = [r \in Requests |-> "idle"]
  /\ req     = [r \in Requests |-> NoRequest]
  /\ local   = [r \in Requests |-> NoLocals]
  /\ todo    = [r \in Requests |-> {}]
  /\ faults  = 0

-----------------------------------------------------------------------------
(* Control *)

At(r, label) == pc[r] = label

Goto(r, label) == pc' = [pc EXCEPT ![r] = label]

\* The handler returns or throws before it opened a database transaction.
Return(r, outcome) ==
  /\ Goto(r, outcome)
  /\ local' = [local EXCEPT ![r] = NoLocals]

\* The database drops the locks of request r's transaction.
Unlock(r) ==
  /\ rowLock' = [w \in Wallets |-> IF rowLock[w] = r THEN None ELSE rowLock[w]]
  /\ keyLock' = [k \in Keys |-> IF keyLock[k] = r THEN None ELSE keyLock[k]]

\* A statement of the transaction throws: Prisma rolls it back.
Rollback(r, cause) ==
  /\ Return(r, cause)
  /\ Unlock(r)
  /\ UNCHANGED <<dbVars, redisVars, events, req, todo, faults>>

Entry(kind) == CASE kind = "createWallet" -> "findWallet"
                 [] kind = "getBalance"   -> "readRow"
                 [] kind = "topUp"        -> "readWallet"
                 [] kind = "transfer"     -> "checkKey"

\* A client sends request r; the interceptor refuses a key with a response.
Submit(r) ==
  /\ At(r, "idle")
  /\ \E q \in Request :
       /\ WellFormed(q)
       /\ req' = [req EXCEPT ![r] = q]
       /\ Goto(r, IF q.key \in idem THEN "conflict" ELSE Entry(q.kind))
  /\ UNCHANGED <<dbVars, lockVars, redisVars, events, local, todo, faults>>

-----------------------------------------------------------------------------
(* createWallet and getBalance *)

FindWallet(r) ==
  /\ At(r, "findWallet")
  /\ IF Exists(req[r].to) THEN Return(r, "conflict")
     ELSE Goto(r, "insertWallet") /\ UNCHANGED local
  /\ UNCHANGED <<dbVars, lockVars, redisVars, events, req, todo, faults>>

\* Faulty variant: no unique index on (userId, currency).
InsertWalletNoIndex(r) ==
  LET w == req[r].to IN
  /\ At(r, "insertWallet")
  /\ wallet' = [wallet EXCEPT ![w] = [balance |-> 0, version |-> 1]]
  /\ todo' = [todo EXCEPT ![r] = {[wallet |-> w, balance |-> 0]}]
  /\ Goto(r, "effects")
  /\ UNCHANGED <<txns, audit, lockVars, redisVars, events, req, local, faults>>

\* The unique index on (userId, currency) decides between racing creations.
InsertWallet(r) ==
  LET w == req[r].to IN
  /\ At(r, "insertWallet")
  /\ IF Exists(w)
     THEN Goto(r, "duplicateKey") /\ UNCHANGED <<wallet, todo>>
     ELSE /\ wallet' = [wallet EXCEPT ![w] = [balance |-> 0, version |-> 1]]
          /\ todo' = [todo EXCEPT ![r] = {[wallet |-> w, balance |-> 0]}]
          /\ Goto(r, "effects")
  /\ UNCHANGED <<txns, audit, lockVars, redisVars, events, req, local, faults>>

\* getBalance reads the row first ...
ReadRow(r) ==
  /\ At(r, "readRow")
  /\ IF Exists(req[r].to)
     THEN /\ local' = [local EXCEPT ![r].to = wallet[req[r].to].balance]
          /\ Goto(r, "getCached")
     ELSE Return(r, "rejected")
  /\ UNCHANGED <<dbVars, lockVars, redisVars, events, req, todo, faults>>

\* ... and on a cache miss caches the balance of that row.
GetCached(r) ==
  LET w == req[r].to IN
  /\ At(r, "getCached")
  /\ IF cache[w] # None
     THEN Return(r, "ok") /\ UNCHANGED todo
     ELSE /\ todo' = [todo EXCEPT ![r] = {[wallet |-> w, balance |-> local[r].to]}]
          /\ Return(r, "effects")
  /\ UNCHANGED <<dbVars, lockVars, redisVars, events, req, faults>>

-----------------------------------------------------------------------------
(* topUp and transfer up to the database transaction *)

ReadWallet(r) ==
  /\ At(r, "readWallet")
  /\ IF Exists(req[r].to)
     THEN /\ local' = [local EXCEPT ![r].to = wallet[req[r].to].balance]
          /\ Goto(r, "checkKey")
     ELSE Return(r, "rejected")
  /\ UNCHANGED <<dbVars, lockVars, redisVars, events, req, todo, faults>>

KeyUsed(k) == \E t \in txns : t.key = k

CheckKey(r) ==
  LET q == req[r] IN
  /\ At(r, "checkKey")
  /\ \/ /\ q.from = q.to
        /\ Return(r, "rejected")
        /\ UNCHANGED idem
     \/ /\ q.from # q.to /\ KeyUsed(q.key)
        /\ Return(r, "replayed")
        /\ idem' = idem \cup {q.key}   \* the replay is a successful answer too
     \/ /\ q.from # q.to /\ ~KeyUsed(q.key)
        /\ Goto(r, IF q.kind = "topUp" THEN "freshTo" ELSE "readFrom")
        /\ UNCHANGED <<local, idem>>
  /\ UNCHANGED <<dbVars, lockVars, cache, events, req, todo, faults>>

ReadFrom(r) ==
  /\ At(r, "readFrom")
  /\ IF Exists(req[r].from)
     THEN /\ local' = [local EXCEPT ![r].from = wallet[req[r].from].balance]
          /\ Goto(r, "readTo")
     ELSE Return(r, "rejected")
  /\ UNCHANGED <<dbVars, lockVars, redisVars, events, req, todo, faults>>

ReadTo(r) ==
  /\ At(r, "readTo")
  /\ IF Exists(req[r].to) /\ local[r].from >= req[r].amount
     THEN /\ local' = [local EXCEPT ![r].to = wallet[req[r].to].balance]
          /\ Goto(r, "freshFrom")
     ELSE Return(r, "rejected")
  /\ UNCHANGED <<dbVars, lockVars, redisVars, events, req, todo, faults>>

-----------------------------------------------------------------------------
(* executeTransfer and executeTopUp: one database transaction *)

\* Faulty variant: the balance is not checked again inside the transaction.
FreshFromUnchecked(r) ==
  /\ At(r, "freshFrom")
  /\ local' = [local EXCEPT ![r].freshFrom = wallet[req[r].from]]
  /\ Goto(r, "updateFrom")
  /\ UNCHANGED <<dbVars, lockVars, redisVars, events, req, todo, faults>>

FreshFrom(r) ==
  LET row == wallet[req[r].from] IN
  /\ At(r, "freshFrom")
  /\ IF row.balance < req[r].amount THEN Rollback(r, "insufficient")
     ELSE /\ local' = [local EXCEPT ![r].freshFrom = row]
          /\ Goto(r, "updateFrom")
          /\ UNCHANGED <<dbVars, lockVars, redisVars, events, req, todo, faults>>

\* Faulty variant: UPDATE ... WHERE id, without the version.
UpdateRowUnversioned(r, w, seen, next) ==
  /\ rowLock[w] = None
  /\ rowLock' = [rowLock EXCEPT ![w] = r]
  /\ Goto(r, next)
  /\ UNCHANGED <<dbVars, keyLock, redisVars, events, req, local, todo, faults>>

\* Faulty variant: wait for the version that was read to come back.
UpdateRowPatient(r, w, seen, next) ==
  /\ wallet[w].version = seen.version
  /\ UpdateRowUnversioned(r, w, seen, next)

\* UPDATE ... WHERE id AND version: it waits for the holder of the row lock,
\* and fails (P2025) when the committed version is not the one that was read.
UpdateRow(r, w, seen, next) ==
  \/ /\ wallet[w].version # seen.version
     /\ Rollback(r, "staleVersion")
  \/ /\ wallet[w].version = seen.version
     /\ rowLock[w] = None
     /\ rowLock' = [rowLock EXCEPT ![w] = r]
     /\ Goto(r, next)
     /\ UNCHANGED <<dbVars, keyLock, redisVars, events, req, local, todo, faults>>

UpdateFrom(r) ==
  /\ At(r, "updateFrom")
  /\ UpdateRow(r, req[r].from, local[r].freshFrom, "freshTo")

FreshTo(r) ==
  /\ At(r, "freshTo")
  /\ local' = [local EXCEPT ![r].freshTo = wallet[req[r].to]]
  /\ Goto(r, "updateTo")
  /\ UNCHANGED <<dbVars, lockVars, redisVars, events, req, todo, faults>>

UpdateTo(r) ==
  /\ At(r, "updateTo")
  /\ UpdateRow(r, req[r].to, local[r].freshTo, "insert")

\* Faulty variant: no unique index on idempotencyKey.
InsertTxnNoIndex(r) ==
  /\ At(r, "insert")
  /\ Goto(r, "commit")
  /\ UNCHANGED <<dbVars, lockVars, redisVars, events, req, local, todo, faults>>

\* The unique index on idempotencyKey: a second insert waits for the first
\* one's transaction, and fails (P2002) when that has committed.
InsertTxn(r) ==
  LET k == req[r].key IN
  /\ At(r, "insert")
  /\ \/ KeyUsed(k) /\ Rollback(r, "duplicateKey")
     \/ /\ ~KeyUsed(k)
        /\ keyLock[k] = None
        /\ keyLock' = [keyLock EXCEPT ![k] = r]
        /\ Goto(r, "commit")
        /\ UNCHANGED <<dbVars, rowLock, redisVars, events, req, local, todo, faults>>

\* Faulty variant: the top-up credits the balance read before the transaction too.
CreditBaseStale(r) == local[r].to

\* executeTransfer computes the credit from the balance transfer() read before
\* the transaction; executeTopUp from the row it reads itself.
CreditBase(r) == IF req[r].kind = "transfer" THEN local[r].to
                                             ELSE local[r].freshTo.balance

NewFrom(r) == local[r].freshFrom.balance - req[r].amount
NewTo(r)   == CreditBase(r) + req[r].amount

\* Faulty variant: only the debit of a transfer is audited.
EntriesDebitOnly(r, w) ==
  IF w = req[r].from
  THEN <<[txn |-> r, operation |-> "DEBIT",
          previous |-> local[r].freshFrom.balance, new |-> NewFrom(r)]>>
  ELSE <<>>

Entries(r, w) ==
  IF w = req[r].from
  THEN <<[txn |-> r, operation |-> "DEBIT",
          previous |-> local[r].freshFrom.balance, new |-> NewFrom(r)]>>
  ELSE IF w = req[r].to
  THEN <<[txn |-> r, previous |-> CreditBase(r), new |-> NewTo(r),
          operation |-> IF req[r].kind = "transfer" THEN "CREDIT" ELSE "TOP_UP"]>>
  ELSE <<>>

\* Faulty variant: a top-up announces both events.
PostCommitBothTopics(r) ==
  {[wallet |-> req[r].to, balance |-> local[r].to + req[r].amount]}
  \cup [topic: Topics]

\* What Promise.all is given once the transaction has committed.
PostCommit(r) ==
  LET q == req[r] IN
  {[wallet |-> q.to, balance |-> local[r].to + q.amount],
   [topic |-> "wallet.credited"]}
  \cup (IF q.kind = "topUp" THEN {}
        ELSE {[wallet |-> q.from, balance |-> local[r].from - q.amount],
              [topic |-> "wallet.debited"]})

\* The audit rows are written and the transaction commits: so ends executeTransfer,
\* and executeTopUp, which has one wallet to write to.
Commit(r) ==
  LET q == req[r] IN
  /\ At(r, "commit")
  /\ wallet' = [w \in Wallets |->
       CASE w = q.from -> [balance |-> NewFrom(r),
                           version |-> local[r].freshFrom.version + 1]
         [] w = q.to   -> [balance |-> NewTo(r),
                           version |-> local[r].freshTo.version + 1]
         [] OTHER      -> wallet[w]]
  /\ txns' = txns \cup {[id |-> r, key |-> q.key, from |-> q.from, to |-> q.to,
                         amount |-> q.amount, currency |-> q.currency]}
  /\ audit' = [w \in Wallets |-> audit[w] \o Entries(r, w)]
  /\ Unlock(r)
  /\ todo' = [todo EXCEPT ![r] = PostCommit(r)]
  /\ Return(r, "effects")
  /\ UNCHANGED <<redisVars, events, req, faults>>

-----------------------------------------------------------------------------
(* After the transaction: cache and events, in any order, then the answer *)

CacheBalance(r) ==
  \E e \in todo[r] \cap [wallet: Wallets, balance: Int] :
    /\ pc[r] \in After
    /\ cache' = [cache EXCEPT ![e.wallet] = e.balance]
    /\ todo' = [todo EXCEPT ![r] = @ \ {e}]
    /\ UNCHANGED <<dbVars, lockVars, idem, events, pc, req, local, faults>>

EmitKafkaEvent(r) ==
  \E e \in todo[r] \cap [topic: Topics] :
    /\ pc[r] \in After
    /\ events' = events \cup {[topic |-> e.topic, txn |-> r]}
    /\ todo' = [todo EXCEPT ![r] = @ \ {e}]
    /\ UNCHANGED <<dbVars, lockVars, redisVars, pc, req, local, faults>>

\* The answer; the interceptor stores a successful one under the key.
Respond(r) ==
  /\ pc[r] \in After
  /\ todo[r] = {}
  /\ idem' = IF At(r, "effects") THEN idem \cup ({req[r].key} \ {None}) ELSE idem
  /\ Goto(r, IF At(r, "effects") THEN "ok" ELSE "error")
  /\ UNCHANGED <<dbVars, lockVars, cache, events, req, local, todo, faults>>

-----------------------------------------------------------------------------
(* Faults and time *)

Fault == faults < MaxFaults /\ faults' = faults + 1

\* A setex is refused: Promise.all rejects, its other members still run.
CacheBalanceFails(r) ==
  \E e \in todo[r] \cap [wallet: Wallets, balance: Int] :
    /\ pc[r] \in After
    /\ Fault
    /\ todo' = [todo EXCEPT ![r] = @ \ {e}]
    /\ Goto(r, "effectsFailed")
    /\ UNCHANGED <<dbVars, lockVars, redisVars, events, req, local>>

\* emitKafkaEvent logs a failed emit and swallows it.
EmitKafkaEventFails(r) ==
  \E e \in todo[r] \cap [topic: Topics] :
    /\ pc[r] \in After
    /\ Fault
    /\ todo' = [todo EXCEPT ![r] = @ \ {e}]
    /\ UNCHANGED <<dbVars, lockVars, redisVars, events, pc, req, local>>

\* Prisma gives an interactive transaction five seconds.
TxTimeout(r) ==
  /\ pc[r] \in InTx
  /\ Fault
  /\ Return(r, "timeout")
  /\ Unlock(r)
  /\ UNCHANGED <<dbVars, redisVars, events, req, todo>>

\* The replica that handles r dies; the database rolls an open transaction back.
Crash(r) ==
  /\ pc[r] \in Running
  /\ Fault
  /\ Return(r, "lost")
  /\ Unlock(r)
  /\ todo' = [todo EXCEPT ![r] = {}]
  /\ UNCHANGED <<dbVars, redisVars, events, req>>

\* r waits for a lock that s holds.
WaitsFor(r, s) ==
  \/ /\ At(r, "updateFrom") /\ rowLock[req[r].from] = s
     /\ wallet[req[r].from].version = local[r].freshFrom.version
  \/ /\ At(r, "updateTo") /\ rowLock[req[r].to] = s
     /\ wallet[req[r].to].version = local[r].freshTo.version
  \/ At(r, "insert") /\ keyLock[req[r].key] = s /\ ~KeyUsed(req[r].key)

\* PostgreSQL aborts a transaction that is part of a cycle of waiting ones.
DeadlockAbort(r) ==
  /\ \E D \in SUBSET Requests :
       /\ r \in D
       /\ \A s \in D : (\E t \in D : WaitsFor(s, t)) /\ (\E t \in D : WaitsFor(t, s))
  /\ Rollback(r, "deadlock")

\* Faulty variant: the balance is cached without a lifetime.
ExpireBalanceNever(w) == FALSE /\ UNCHANGED vars

\* Sixty seconds pass since balance:<w> was set.
ExpireBalance(w) ==
  /\ "balance" \in Elapses
  /\ cache[w] # None
  /\ cache' = [cache EXCEPT ![w] = None]
  /\ UNCHANGED <<dbVars, lockVars, idem, events, pc, req, local, todo, faults>>

\* A day passes since idempotency:<k> was set.
ExpireKey(k) ==
  /\ "idempotency" \in Elapses
  /\ k \in idem
  /\ idem' = idem \ {k}
  /\ UNCHANGED <<dbVars, lockVars, cache, events, pc, req, local, todo, faults>>

-----------------------------------------------------------------------------
(* The answer a client sees *)

\* transfer() turns an error whose message contains 'version conflict' into a 409;
\* Prisma's own error for an update that matches no row does not contain it, so
\* the exception filter answers 500 as for any other error.  400 stands for 404 too.
Status(outcome) ==
  CASE outcome \in {"ok", "replayed"} -> 200
    [] outcome = "rejected"           -> 400
    [] outcome = "conflict"           -> 409
    [] outcome \in Aborted \cup {"error"} -> 500
    [] OTHER                          -> 0

-----------------------------------------------------------------------------
(* The specification *)

Step(r) ==
  \/ FindWallet(r) \/ InsertWallet(r) \/ ReadRow(r) \/ GetCached(r)
  \/ ReadWallet(r) \/ CheckKey(r) \/ ReadFrom(r) \/ ReadTo(r)
  \/ FreshFrom(r) \/ UpdateFrom(r) \/ FreshTo(r) \/ UpdateTo(r)
  \/ InsertTxn(r) \/ Commit(r)
  \/ CacheBalance(r) \/ EmitKafkaEvent(r) \/ Respond(r)

FaultStep(r) ==
  CacheBalanceFails(r) \/ EmitKafkaEventFails(r) \/ TxTimeout(r) \/ Crash(r)

Next ==
  \/ \E r \in Requests : Submit(r) \/ Step(r) \/ FaultStep(r) \/ DeadlockAbort(r)
  \/ \E w \in Wallets : ExpireBalance(w)
  \/ \E k \in Keys : ExpireKey(k)

Spec == Init /\ [][Next]_vars

\* Replicas and the deadlock detector keep running, and Redis keeps time; nobody
\* has to send a request, and no fault has to happen.
Fairness ==
  /\ \A r \in Requests : WF_vars(Step(r)) /\ WF_vars(DeadlockAbort(r))
  /\ \A w \in Wallets : WF_vars(ExpireBalance(w))

FairSpec == Spec /\ Fairness

=============================================================================
