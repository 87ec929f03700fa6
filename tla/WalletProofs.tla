---------------------------- MODULE WalletProofs ---------------------------
(***************************************************************************)
(* The wallet service, for any wallets, requests and keys: its types, no   *)
(* overdraft, one transaction per idempotency key, an audit log that tells *)
(* the story of every balance, events that are true, and the refinement of *)
(* WalletLedger.                                                           *)
(***************************************************************************)
EXTENDS WalletProperties, TLAPS

TypeInv == TypeOK /\ RequestInv

-----------------------------------------------------------------------------
(* Lemmas about the ways an action changes the handler's state *)

\* A handler that remembers nothing is of the right type.
LEMMA NoLocalsType == NoLocals \in Locals
BY DEF NoLocals, Locals, Absent, Row

\* A handler may move to any label.
LEMMA GotoType ==
  ASSUME pc \in [Requests -> Labels], NEW r \in Requests, NEW s \in Labels, Goto(r, s)
  PROVE  pc' \in [Requests -> Labels]
BY DEF Goto

\* A handler that ends moves to a final label and forgets what it read.
LEMMA ReturnType ==
  ASSUME pc \in [Requests -> Labels], local \in [Requests -> Locals],
         NEW r \in Requests, NEW s \in Labels, Return(r, s)
  PROVE  pc' \in [Requests -> Labels] /\ local' \in [Requests -> Locals]
BY NoLocalsType DEF Return, Goto

\* A balance read may be remembered.
LEMMA RemembersBalance ==
  ASSUME local \in [Requests -> Locals], NEW r \in Requests, NEW b \in Int,
         \/ local' = [local EXCEPT ![r].to = b]
         \/ local' = [local EXCEPT ![r].from = b]
  PROVE  local' \in [Requests -> Locals]
BY DEF Locals

\* A row read may be remembered.
LEMMA RemembersRow ==
  ASSUME local \in [Requests -> Locals], NEW r \in Requests, NEW row \in Row,
         \/ local' = [local EXCEPT ![r].freshTo = row]
         \/ local' = [local EXCEPT ![r].freshFrom = row]
  PROVE  local' \in [Requests -> Locals]
BY DEF Locals

\* Releasing locks leaves the lock tables well formed.
LEMMA UnlockType ==
  ASSUME NEW r \in Requests, Unlock(r),
         rowLock \in [Wallets -> Requests \cup {None}],
         keyLock \in [Keys -> Requests \cup {None}]
  PROVE  /\ rowLock' \in [Wallets -> Requests \cup {None}]
         /\ keyLock' \in [Keys -> Requests \cup {None}]
BY DEF Unlock

\* The labels a handler may jump to, whatever it is called for.
LEMMA LabelsOutside ==
  ASSUME NEW q, NEW label \in Labels \ {"idle", "readWallet", "checkKey", "readFrom", "readTo"},
         label \notin InTx, q \in Request, WellFormed(q)
  PROVE  AtLine(q, label)
BY DEF AtLine, InTx

\* A handler that moves to a line of its operation keeps RequestInv.
LEMMA MovesWithin ==
  ASSUME pc \in [Requests -> Labels], RequestInv, NEW r \in Requests, NEW s,
         Goto(r, s), req' = req, AtLine(req[r], s)
  PROVE  RequestInv'
<1> SUFFICES ASSUME NEW x \in Requests PROVE AtLine(req[x], pc'[x])
  BY DEF RequestInv, AtLine, WellFormed, Request
<1>1. CASE x = r
  BY <1>1 DEF Goto
<1>2. CASE x # r
  BY <1>2 DEF Goto, RequestInv
<1> QED BY <1>1, <1>2

\* What a handler that is running has been asked for.
LEMMA RunningRequest ==
  ASSUME RequestInv, NEW r \in Requests, pc[r] # "idle"
  PROVE  req[r] \in Request /\ WellFormed(req[r]) /\ req[r].to \in Wallets
BY DEF RequestInv, AtLine, Request

-----------------------------------------------------------------------------
(* The type invariant *)

\* Nothing has been requested yet.
LEMMA TypeInit == Init => TypeInv
<1> SUFFICES ASSUME Init PROVE TypeInv
  OBVIOUS
<1> USE WalletAssumption DEF Init
<1>1. TypeOK
  BY NoLocalsType DEF TypeOK, Row, Absent, Labels
<1>2. RequestInv
  BY DEF RequestInv, AtLine, InTx
<1> QED BY <1>1, <1>2 DEF TypeInv

\* The interceptor sends a request to the first line of its handler, or away.
LEMMA SubmitType ==
  ASSUME TypeInv, NEW r \in Requests, Submit(r) PROVE TypeInv'
<1> USE DEF TypeInv
<1>1. PICK q \in Request : /\ WellFormed(q) /\ req' = [req EXCEPT ![r] = q]
                           /\ Goto(r, IF q.key \in idem THEN "conflict" ELSE Entry(q.kind))
  BY DEF Submit
<1>2. q.kind \in AllKinds
  BY WalletAssumption DEF Request
<1>3. Entry(q.kind) \in {"findWallet", "readRow", "readWallet", "checkKey"}
      /\ (Entry(q.kind) = "readWallet" => q.kind = "topUp")
      /\ (Entry(q.kind) = "checkKey" => q.kind = "transfer")
  BY <1>2 DEF Entry, AllKinds
<1>4. PICK s \in Labels : Goto(r, s) /\ AtLine(q, s)
  BY <1>1, <1>3 DEF AtLine, InTx, Labels, Running, Before, Final
<1>5. TypeOK'
  <2>1. pc' \in [Requests -> Labels]
    BY <1>4, GotoType DEF TypeOK
  <2>2. req' \in [Requests -> Request \cup {NoRequest}]
    BY <1>1 DEF TypeOK
  <2> QED BY <2>1, <2>2 DEF TypeOK, Submit, dbVars, lockVars, redisVars
<1>6. RequestInv'
  <2> SUFFICES ASSUME NEW x \in Requests PROVE AtLine(req'[x], pc'[x])
    BY DEF RequestInv, AtLine, WellFormed, Request
  <2>1. CASE x = r
    BY <2>1, <1>1, <1>4 DEF Goto, TypeOK
  <2>2. CASE x # r
    BY <2>2, <1>1, <1>4 DEF Goto, RequestInv, TypeOK
  <2> QED BY <2>1, <2>2
<1> QED BY <1>5, <1>6

\* createWallet and getBalance.
LEMMA SimpleType ==
  ASSUME TypeInv, NEW r \in Requests,
         FindWallet(r) \/ InsertWallet(r) \/ ReadRow(r) \/ GetCached(r)
  PROVE  TypeInv'
<1> USE DEF TypeInv
<1>1. req[r] \in Request /\ WellFormed(req[r]) /\ req[r].to \in Wallets /\ req' = req
  BY RunningRequest DEF FindWallet, InsertWallet, ReadRow, GetCached, At
<1>2. wallet[req[r].to].balance \in Int /\ local[r].to \in Int
  BY <1>1 DEF TypeOK, Row, Locals
<1>3. \E s \in {"insertWallet", "getCached", "effects", "ok", "rejected",
            "conflict", "duplicateKey"} :
        Goto(r, s)
  BY DEF FindWallet, InsertWallet, ReadRow, GetCached, Return
<1>4. RequestInv' /\ pc' \in [Requests -> Labels]
  <2>1. PICK s \in {"insertWallet", "getCached", "effects", "ok", "rejected",
            "conflict", "duplicateKey"} :
          Goto(r, s)
    BY <1>3
  <2>2. s \in Labels /\ AtLine(req[r], s)
    BY <1>1, LabelsOutside DEF Labels, Running, Before, After, Final, Aborted, InTx
  <2> QED BY <1>1, <2>1, <2>2, MovesWithin, GotoType DEF TypeOK
<1>5. CASE FindWallet(r)
  <2>1. local' \in [Requests -> Locals]
    BY <1>5, NoLocalsType DEF FindWallet, Return, TypeOK
  <2> QED BY <1>4, <1>5, <2>1 DEF FindWallet, TypeOK, dbVars, lockVars, redisVars
<1>6. CASE InsertWallet(r)
  <2>1. wallet' \in [Wallets -> Row]
    <3>1. [balance |-> 0, version |-> 1] \in Row
      BY DEF Row
    <3>2. \/ wallet' = wallet
          \/ wallet' = [wallet EXCEPT ![req[r].to] = [balance |-> 0, version |-> 1]]
      BY <1>6 DEF InsertWallet
    <3> QED BY <1>1, <3>1, <3>2 DEF TypeOK
  <2>2. todo' \in [Requests -> SUBSET Effects]
    <3>1. [wallet |-> req[r].to, balance |-> 0] \in Effects
      BY <1>1 DEF Effects
    <3>2. todo' = todo \/ todo' = [todo EXCEPT ![r] = {[wallet |-> req[r].to, balance |-> 0]}]
      BY <1>6 DEF InsertWallet
    <3>3. todo \in [Requests -> SUBSET Effects]
      BY DEF TypeOK
    <3> QED BY <3>1, <3>2, <3>3
  <2> QED BY <1>4, <1>6, <2>1, <2>2 DEF InsertWallet, TypeOK, lockVars, redisVars
<1>7. CASE ReadRow(r)
  <2>1. local' \in [Requests -> Locals]
    <3>1. CASE Exists(req[r].to)
      BY <1>2, <1>7, <3>1, RemembersBalance DEF ReadRow, TypeOK
    <3>2. CASE ~Exists(req[r].to)
      BY <1>7, <3>2, NoLocalsType DEF ReadRow, Return, TypeOK
    <3> QED BY <3>1, <3>2
  <2> QED BY <1>4, <1>7, <2>1 DEF ReadRow, TypeOK, dbVars, lockVars, redisVars
<1>8. CASE GetCached(r)
  <2>1. local' \in [Requests -> Locals]
    BY <1>8, NoLocalsType DEF GetCached, Return, TypeOK
  <2>2. todo' \in [Requests -> SUBSET Effects]
    BY <1>1, <1>2, <1>8 DEF GetCached, TypeOK, Effects
  <2> QED BY <1>4, <1>8, <2>1, <2>2 DEF GetCached, TypeOK, dbVars, lockVars, redisVars
<1> QED BY <1>5, <1>6, <1>7, <1>8

\* The reads of topUp and transfer before the database transaction.
LEMMA ReadsType ==
  ASSUME TypeInv, NEW r \in Requests,
         ReadWallet(r) \/ CheckKey(r) \/ ReadFrom(r) \/ ReadTo(r)
  PROVE  TypeInv'
<1> USE DEF TypeInv
<1>1. req[r] \in Request /\ WellFormed(req[r]) /\ req[r].to \in Wallets /\ req' = req
  BY RunningRequest DEF ReadWallet, CheckKey, ReadFrom, ReadTo, At
<1>2. PICK s \in {"checkKey", "readFrom", "readTo", "freshFrom", "freshTo",
                  "replayed", "rejected"} : Goto(r, s) /\ AtLine(req[r], s)
  BY <1>1, WalletAssumption DEF ReadWallet, CheckKey, ReadFrom, ReadTo, Return, At, RequestInv,
     AtLine, InTx, WellFormed
<1>3. s \in Labels
  BY DEF Labels, Running, Before, InTx, Final
<1>4. RequestInv' /\ pc' \in [Requests -> Labels]
  BY <1>1, <1>2, <1>3, MovesWithin, GotoType DEF TypeOK
<1>5. wallet[req[r].to].balance \in Int
  BY <1>1 DEF TypeOK, Row
<1>6. ReadFrom(r) => wallet[req[r].from].balance \in Int
  BY <1>1 DEF TypeOK, Row, ReadFrom, At, RequestInv, AtLine, WellFormed
<1>7. local' \in [Requests -> Locals]
  BY <1>5, <1>6, NoLocalsType, RemembersBalance
  DEF ReadWallet, CheckKey, ReadFrom, ReadTo, Return, TypeOK
<1>8. CheckKey(r) => idem' \subseteq Keys
  BY <1>1 DEF CheckKey, TypeOK, At, RequestInv, AtLine, WellFormed
<1> QED
  BY <1>4, <1>7, <1>8
  DEF ReadWallet, CheckKey, ReadFrom, ReadTo, TypeOK, dbVars, lockVars, redisVars

\* Inside the database transaction.
LEMMA FreshType ==
  ASSUME TypeInv, NEW r \in Requests, FreshFrom(r) \/ FreshTo(r)
  PROVE  TypeInv'
<1> USE DEF TypeInv
<1>1. /\ req[r] \in Request /\ WellFormed(req[r]) /\ req[r].to \in Wallets
      /\ FreshFrom(r) => req[r].from \in Wallets
      /\ req' = req
  BY RunningRequest
  DEF FreshFrom, FreshTo, Rollback, At, RequestInv, AtLine, WellFormed
<1>2. PICK s \in {"updateFrom", "updateTo", "insufficient"} : Goto(r, s) /\ AtLine(req[r], s)
  BY <1>1 DEF FreshFrom, FreshTo, Rollback, Return, At, RequestInv, AtLine, InTx
<1>3. s \in Labels
  BY DEF Labels, Running, InTx, Final, Aborted
<1>4. RequestInv' /\ pc' \in [Requests -> Labels]
  BY <1>1, <1>2, <1>3, MovesWithin, GotoType DEF TypeOK
<1>5. wallet[req[r].to] \in Row /\ (FreshFrom(r) => wallet[req[r].from] \in Row)
  BY <1>1 DEF TypeOK
<1>6. CASE FreshTo(r)
  <2>1. local' \in [Requests -> Locals]
    BY <1>5, <1>6, RemembersRow DEF FreshTo, TypeOK
  <2> QED BY <1>4, <1>6, <2>1 DEF FreshTo, TypeOK, dbVars, lockVars, redisVars
<1>7. CASE FreshFrom(r) /\ wallet[req[r].from].balance < req[r].amount
  <2>1. local' \in [Requests -> Locals]
    BY <1>7, NoLocalsType DEF FreshFrom, Rollback, Return, TypeOK
  <2>2. Unlock(r)
    BY <1>7 DEF FreshFrom, Rollback
  <2> QED BY <1>4, <1>7, <2>1, <2>2, UnlockType DEF FreshFrom, Rollback, TypeOK, dbVars, redisVars
<1>8. CASE FreshFrom(r) /\ ~(wallet[req[r].from].balance < req[r].amount)
  <2>1. local' \in [Requests -> Locals]
    BY <1>5, <1>8, RemembersRow DEF FreshFrom, TypeOK
  <2> QED BY <1>4, <1>8, <2>1 DEF FreshFrom, TypeOK, dbVars, lockVars, redisVars
<1> QED BY <1>6, <1>7, <1>8

\* A transaction that aborts changes locks and its own handler only.
LEMMA RollbackType ==
  ASSUME TypeInv, NEW r \in Requests, pc[r] # "idle", NEW cause \in Aborted,
         Rollback(r, cause)
  PROVE  TypeInv'
<1> USE DEF TypeInv
<1>1. cause \in Labels /\ AtLine(req[r], cause) /\ req' = req
  BY RunningRequest, LabelsOutside DEF Rollback, Labels, Final, Aborted, InTx
<1>2. RequestInv' /\ pc' \in [Requests -> Labels]
  BY <1>1, MovesWithin, GotoType DEF TypeOK, Rollback, Return
<1>3. local' \in [Requests -> Locals]
  BY NoLocalsType DEF Rollback, Return, TypeOK
<1>4. Unlock(r)
  BY DEF Rollback
<1> QED BY <1>2, <1>3, <1>4, UnlockType DEF Rollback, TypeOK, dbVars, redisVars

\* Taking a row lock or the lock of a key.
LEMMA LockType ==
  ASSUME TypeInv, NEW r \in Requests,
         UpdateFrom(r) \/ UpdateTo(r) \/ InsertTxn(r) \/ DeadlockAbort(r)
  PROVE  TypeInv'
<1> USE DEF TypeInv
<1>1. /\ req[r] \in Request /\ WellFormed(req[r]) /\ req[r].to \in Wallets
      /\ ~DeadlockAbort(r) => req[r].from # req[r].to /\ req[r].kind \in {"topUp", "transfer"}
      /\ pc[r] # "idle"
  BY RunningRequest
  DEF UpdateFrom, UpdateTo, InsertTxn, DeadlockAbort, WaitsFor, At, RequestInv, AtLine, InTx
<1>2. CASE \E cause \in Aborted : Rollback(r, cause)
  BY <1>1, <1>2, RollbackType
<1>3. CASE ~\E cause \in Aborted : Rollback(r, cause)
  <2>1. PICK s \in {"freshTo", "insert", "commit"} : Goto(r, s) /\ AtLine(req[r], s)
    BY <1>1, <1>3 DEF UpdateFrom, UpdateTo, InsertTxn, DeadlockAbort, UpdateRow, At, AtLine,
       RequestInv, InTx, Aborted
  <2>2. req' = req /\ s \in Labels
    BY <1>3 DEF UpdateFrom, UpdateTo, InsertTxn, DeadlockAbort, UpdateRow, Aborted, Labels,
       Running, InTx
  <2>3. RequestInv' /\ pc' \in [Requests -> Labels]
    BY <2>1, <2>2, MovesWithin, GotoType DEF TypeOK
  <2> QED
    BY <1>3, <2>3 DEF UpdateFrom, UpdateTo, InsertTxn, DeadlockAbort, UpdateRow, Aborted, TypeOK,
       dbVars, redisVars
<1> QED BY <1>2, <1>3

\* What a commit writes to the tables is of the right type.
LEMMA CommitType ==
  ASSUME TypeInv, NEW r \in Requests, Commit(r)
  PROVE  TypeInv'
<1> USE DEF TypeInv
<1> DEFINE q == req[r]
<1>1. /\ q \in Request /\ WellFormed(q) /\ q.to \in Wallets /\ q.amount \in Amounts
      /\ q.amount \in Int /\ q.key \in Keys /\ q.currency \in Currencies
      /\ q.from \in Wallets \cup {None}
      /\ q.kind \in {"topUp", "transfer"} /\ (q.kind = "transfer" <=> q.from \in Wallets)
      /\ req' = req
  BY RunningRequest, WalletAssumption
  DEF Commit, At, RequestInv, AtLine, InTx, WellFormed, Request
<1>2. local[r] \in Locals
  BY DEF TypeOK
<1>3. /\ NewFrom(r) \in Int /\ NewTo(r) \in Int /\ CreditBase(r) \in Int
      /\ local[r].freshFrom.version \in Nat /\ local[r].freshTo.version \in Nat
      /\ local[r].freshFrom.balance \in Int
  BY <1>1, <1>2 DEF NewFrom, NewTo, CreditBase, Locals, Row
<1>4. RequestInv' /\ pc' \in [Requests -> Labels]
  <2>1. Goto(r, "effects") /\ "effects" \in Labels /\ AtLine(q, "effects")
    BY <1>1, LabelsOutside DEF Commit, Return, Labels, Running, After, InTx
  <2> QED BY <1>1, <2>1, MovesWithin, GotoType DEF TypeOK
<1>5. local' \in [Requests -> Locals]
  BY NoLocalsType DEF Commit, Return, TypeOK
<1>6. wallet' \in [Wallets -> Row]
  <2> DEFINE rowFrom == [balance |-> NewFrom(r), version |-> local[r].freshFrom.version + 1]
             rowTo == [balance |-> NewTo(r), version |-> local[r].freshTo.version + 1]
  <2>1. rowFrom \in Row /\ rowTo \in Row
    BY <1>3 DEF Row
  <2>2. wallet' = [w \in Wallets |-> IF w = q.from THEN rowFrom
                                      ELSE IF w = q.to THEN rowTo ELSE wallet[w]]
    <3>1. wallet' = [w \in Wallets |-> CASE w = q.from -> rowFrom [] w = q.to -> rowTo
                                        [] OTHER -> wallet[w]]
      BY DEF Commit
    <3>2. q.from # q.to
      BY DEF Commit, At, RequestInv, AtLine, InTx
    <3> HIDE DEF rowFrom, rowTo, q
    <3> QED BY <3>1, <3>2
  <2> HIDE DEF rowFrom, rowTo
  <2> QED BY <2>1, <2>2 DEF TypeOK
<1>7. txns' \subseteq Txn
  BY <1>1 DEF Commit, TypeOK, Txn
<1>8. audit' \in [Wallets -> Seq(AuditEntry)]
  <2> SUFFICES ASSUME NEW w \in Wallets PROVE audit[w] \o Entries(r, w) \in Seq(AuditEntry)
    BY DEF Commit
  <2>1. Entries(r, w) \in Seq(AuditEntry)
    <3>1. [txn |-> r, operation |-> "DEBIT",
           previous |-> local[r].freshFrom.balance, new |-> NewFrom(r)] \in AuditEntry
      BY <1>3 DEF AuditEntry
    <3>2. [txn |-> r, previous |-> CreditBase(r), new |-> NewTo(r),
           operation |-> IF req[r].kind = "transfer" THEN "CREDIT" ELSE "TOP_UP"] \in AuditEntry
      BY <1>3 DEF AuditEntry
    <3>3. \A e \in AuditEntry : <<e>> \in Seq(AuditEntry)
      OBVIOUS
    <3> QED BY <3>1, <3>2, <3>3 DEF Entries
  <2> QED BY <2>1 DEF TypeOK
<1>9. todo' \in [Requests -> SUBSET Effects]
  <2>1. local[r].to + q.amount \in Int /\ local[r].from - q.amount \in Int
    BY <1>1, <1>2 DEF Locals
  <2>2. PostCommit(r) \subseteq Effects
    BY <1>1, <2>1 DEF PostCommit, Effects, Topics
  <2> QED BY <2>2 DEF Commit, TypeOK
<1>10. Unlock(r)
  BY DEF Commit
<1> QED
  BY <1>4, <1>5, <1>6, <1>7, <1>8, <1>9, <1>10, UnlockType DEF Commit, TypeOK, redisVars

\* After the database transaction, and faults.
LEMMA EffectsType ==
  ASSUME TypeInv, NEW r \in Requests,
         CacheBalance(r) \/ EmitKafkaEvent(r) \/ Respond(r) \/ CacheBalanceFails(r)
         \/ EmitKafkaEventFails(r)
  PROVE  TypeInv'
<1> USE DEF TypeInv
<1>1. req[r] \in Request /\ WellFormed(req[r]) /\ req' = req
  BY RunningRequest
  DEF CacheBalance, EmitKafkaEvent, Respond, CacheBalanceFails, EmitKafkaEventFails, At, After
<1>2. PICK s \in After \cup {"ok", "error"} : Goto(r, s)
  BY DEF CacheBalance, EmitKafkaEvent, Respond, CacheBalanceFails, EmitKafkaEventFails, Goto,
     TypeOK, After
<1>3. s \in Labels /\ AtLine(req[r], s)
  BY <1>1, LabelsOutside DEF Labels, Running, After, Final, InTx
<1>4. RequestInv' /\ pc' \in [Requests -> Labels]
  BY <1>1, <1>2, <1>3, MovesWithin, GotoType DEF TypeOK
<1>5. todo' \in [Requests -> SUBSET Effects]
  BY DEF CacheBalance, EmitKafkaEvent, Respond, CacheBalanceFails, EmitKafkaEventFails, TypeOK
<1>6. faults' \in 0..MaxFaults
  BY WalletAssumption
  DEF CacheBalance, EmitKafkaEvent, Respond, CacheBalanceFails, EmitKafkaEventFails, TypeOK, Fault
<1>7. cache' \in [Wallets -> Int \cup {None}]
  BY DEF CacheBalance, EmitKafkaEvent, Respond, CacheBalanceFails, EmitKafkaEventFails, TypeOK,
     redisVars
<1>8. idem' \subseteq Keys
  BY <1>1 DEF CacheBalance, EmitKafkaEvent, Respond, CacheBalanceFails, EmitKafkaEventFails,
     TypeOK, redisVars, Request
<1>9. events' \subseteq Message
  BY DEF CacheBalance, EmitKafkaEvent, Respond, CacheBalanceFails, EmitKafkaEventFails, TypeOK,
     Message
<1>10. UNCHANGED <<wallet, txns, audit, rowLock, keyLock, local>>
  <2>1. CacheBalance(r) => UNCHANGED <<dbVars, lockVars, local>>
    BY DEF CacheBalance
  <2>2. EmitKafkaEvent(r) => UNCHANGED <<dbVars, lockVars, local>>
    BY DEF EmitKafkaEvent
  <2>3. Respond(r) => UNCHANGED <<dbVars, lockVars, local>>
    BY DEF Respond
  <2>4. CacheBalanceFails(r) => UNCHANGED <<dbVars, lockVars, local>>
    BY DEF CacheBalanceFails
  <2>5. EmitKafkaEventFails(r) => UNCHANGED <<dbVars, lockVars, local>>
    BY DEF EmitKafkaEventFails
  <2> QED BY <2>1, <2>2, <2>3, <2>4, <2>5 DEF dbVars, lockVars
<1> QED
  BY <1>1, <1>4, <1>5, <1>6, <1>7, <1>8, <1>9, <1>10 DEF TypeOK

\* Timeouts, crashes and deadlocks.
LEMMA StopType ==
  ASSUME TypeInv, NEW r \in Requests, TxTimeout(r) \/ Crash(r)
  PROVE  TypeInv'
<1> USE DEF TypeInv
<1>1. req[r] \in Request /\ WellFormed(req[r]) /\ req' = req
  BY RunningRequest DEF TxTimeout, Crash, InTx, Running, Before, After
<1>2. PICK s \in {"timeout", "lost"} : Return(r, s)
  BY DEF TxTimeout, Crash
<1>3. s \in Labels /\ AtLine(req[r], s)
  BY <1>1, LabelsOutside DEF Labels, Final, Aborted, InTx
<1>4. RequestInv' /\ pc' \in [Requests -> Labels]
  BY <1>1, <1>2, <1>3, MovesWithin, GotoType DEF TypeOK, Return
<1>5. local' \in [Requests -> Locals]
  BY <1>2, NoLocalsType DEF Return, TypeOK
<1>6. Unlock(r)
  BY DEF TxTimeout, Crash
<1>7. faults' \in 0..MaxFaults
  BY WalletAssumption DEF TxTimeout, Crash, Fault, TypeOK
<1>8. todo' \in [Requests -> SUBSET Effects]
  BY DEF TxTimeout, Crash, TypeOK
<1> QED
  BY <1>1, <1>4, <1>5, <1>6, <1>7, <1>8, UnlockType DEF TxTimeout, Crash, TypeOK, dbVars, redisVars

\* Redis forgets an entry.
LEMMA ExpiryType ==
  ASSUME TypeInv, (\E w \in Wallets : ExpireBalance(w)) \/ (\E k \in Keys : ExpireKey(k))
  PROVE  TypeInv'
<1>1. /\ UNCHANGED <<dbVars, lockVars, events, pc, req, local, todo, faults>>
      /\ cache' \in [Wallets -> Int \cup {None}] /\ idem' \subseteq Keys
  BY DEF ExpireBalance, ExpireKey, TypeInv, TypeOK
<1> QED
  BY <1>1 DEF TypeInv, TypeOK, RequestInv, AtLine, WellFormed, Request, dbVars, lockVars

\* The inductive step: one case per action.
LEMMA TypeStep == TypeInv /\ [Next]_vars => TypeInv'
<1> SUFFICES ASSUME TypeInv, [Next]_vars PROVE TypeInv'
  OBVIOUS
<1>1. CASE UNCHANGED vars
  BY <1>1 DEF TypeInv, TypeOK, RequestInv, AtLine, WellFormed, Request, vars
<1>2. CASE Next
  BY <1>2, SubmitType, SimpleType, ReadsType, FreshType, LockType, CommitType, EffectsType,
     StopType, ExpiryType DEF Next, Step, FaultStep
<1> QED BY <1>1, <1>2

\* Every variable keeps its type, and no handler strays to a line of another
\* operation.
THEOREM TypeCorrect == Spec => [](TypeOK /\ RequestInv)
<1>1. Spec => []TypeInv
  BY TypeInit, TypeStep, PTL DEF Spec
<1> QED BY <1>1, PTL DEF TypeInv

-----------------------------------------------------------------------------
(* No overdraft: the row versions and the row locks together make every    *)
(* debit start from the balance the wallet has when the debit commits.     *)

GuardInv == SnapshotInv /\ LockInv /\ NoOverdraft /\ ExistInv

\* Labels at which a handler neither holds a row nor has one to compare.
Calm == Labels \ (Holding \cup {"updateFrom"})

OthersKeep(r) == \A x \in Requests \ {r} :
  pc'[x] = pc[x] /\ local'[x] = local[x] /\ req'[x] = req[x]

NotNegative(l) ==
  l.from >= 0 /\ l.to >= 0 /\ l.freshFrom.balance >= 0 /\ l.freshTo.balance >= 0

-----------------------------------------------------------------------------
(* One lemma for each way a step can disturb GuardInv *)

\* Nothing is locked and nothing has been read.
LEMMA GuardInit == Init => GuardInv
<1> SUFFICES ASSUME Init PROVE GuardInv
  OBVIOUS
<1> USE WalletAssumption DEF Init
<1>1. SnapshotInv
  BY DEF SnapshotInv, Snapshot, NoLocals, Absent, Holding
<1>2. LockInv
  BY DEF LockInv, Holding
<1>3. NoOverdraft
  BY DEF NoOverdraft, Absent
<1>4. ExistInv
  BY DEF ExistInv, WalletsExist, InTx
<1> QED BY <1>1, <1>2, <1>3, <1>4 DEF GuardInv

\* A handler outside its database transaction moves on and touches no table.
LEMMA CalmKeeps ==
  ASSUME TypeInv, TypeInv', GuardInv, NEW r \in Requests, OthersKeep(r),
         UNCHANGED <<wallet, rowLock, keyLock>>,
         pc[r] \in Calm, pc'[r] \in Calm \cup {"freshTo"},
         pc'[r] = "freshTo" => req'[r].kind = "topUp",
         NotNegative(local'[r]),
         pc'[r] \in InTx => Exists(req'[r].to),
         pc'[r] = "checkKey" /\ req'[r].kind = "topUp" => Exists(req'[r].to),
         pc'[r] \in InTx \cup {"readTo"} /\ req'[r].kind = "transfer" => Exists(req'[r].from)
  PROVE  GuardInv'
<1>1. SnapshotInv'
  <2> SUFFICES ASSUME NEW x \in Requests PROVE Snapshot(x)'
    BY DEF SnapshotInv
  <2>1. CASE x = r
    BY <2>1 DEF Calm, Holding, Snapshot, NotNegative
  <2>2. CASE x # r
    BY <2>2 DEF GuardInv, SnapshotInv, Snapshot, Seen, OthersKeep
  <2> QED BY <2>1, <2>2
<1>2. LockInv'
  <2>1. \A w \in Wallets : rowLock[w] # r
    BY DEF GuardInv, LockInv, Calm, Holding
  <2>2. \A k \in Keys : keyLock[k] # r
    BY DEF GuardInv, LockInv, Calm, Holding
  <2> QED BY <2>1, <2>2 DEF GuardInv, LockInv, OthersKeep, Calm, Holding
<1>3. NoOverdraft'
  BY DEF GuardInv, NoOverdraft
<1>4. ExistInv'
  <2> SUFFICES ASSUME NEW x \in Requests PROVE WalletsExist(x)'
    BY DEF ExistInv
  <2>1. CASE x = r
    BY <2>1 DEF WalletsExist, Exists
  <2>2. CASE x # r
    BY <2>2 DEF GuardInv, ExistInv, WalletsExist, Exists, OthersKeep
  <2> QED BY <2>1, <2>2
<1> QED BY <1>1, <1>2, <1>3, <1>4 DEF GuardInv

\* The database drops the locks of a handler that leaves its transaction.
LEMMA ReleaseKeeps ==
  ASSUME TypeInv, GuardInv, NEW r \in Requests, OthersKeep(r), Unlock(r), UNCHANGED wallet,
         pc'[r] \in Final, local'[r] = NoLocals
  PROVE  GuardInv'
<1> USE DEF GuardInv
<1>1. SnapshotInv'
  <2> SUFFICES ASSUME NEW x \in Requests PROVE Snapshot(x)'
    BY DEF SnapshotInv
  <2>1. CASE x = r
    BY <2>1 DEF Final, Aborted, Holding, Snapshot, NoLocals, Absent
  <2>2. CASE x # r
    BY <2>2 DEF SnapshotInv, Snapshot, Seen, OthersKeep
  <2> QED BY <2>1, <2>2
<1>2. LockInv'
  <2>1. /\ rowLock' = [w \in Wallets |-> IF rowLock[w] = r THEN None ELSE rowLock[w]]
        /\ keyLock' = [k \in Keys |-> IF keyLock[k] = r THEN None ELSE keyLock[k]]
    BY DEF Unlock
  <2>2. pc'[r] \notin Holding
    BY DEF Final, Aborted, Holding
  <2>3. ASSUME NEW w \in Wallets, NEW x \in Requests, rowLock'[w] = x
        PROVE  x # r /\ rowLock[w] = x
    BY <2>1, <2>3, WalletAssumption
  <2>4. ASSUME NEW k \in Keys, NEW x \in Requests, keyLock'[k] = x
        PROVE  x # r /\ keyLock[k] = x
    BY <2>1, <2>4, WalletAssumption
  <2>5. ASSUME NEW x \in Requests, x # r, pc[x] \in Holding
        PROVE  req[x].to \in Wallets /\ (req[x].kind = "transfer" => req[x].from \in Wallets)
               /\ req[x].key \in Keys
    BY <2>5, RunningRequest
    DEF TypeInv, RequestInv, AtLine, WellFormed, Holding, InTx
  <2>6. ASSUME NEW w \in Wallets, NEW x \in Requests, rowLock'[w] = x
        PROVE  \/ /\ pc'[x] \in Holding /\ req'[x].kind = "transfer"
                  /\ w = req'[x].from /\ wallet'[w] = local'[x].freshFrom
               \/ /\ pc'[x] \in {"insert", "commit"}
                  /\ w = req'[x].to /\ wallet'[w] = local'[x].freshTo
    BY <2>3, <2>6 DEF LockInv, OthersKeep
  <2>7. ASSUME NEW x \in Requests
        PROVE  /\ pc'[x] \in Holding /\ req'[x].kind = "transfer" => rowLock'[req'[x].from] = x
               /\ pc'[x] \in {"insert", "commit"} => rowLock'[req'[x].to] = x
               /\ pc'[x] = "commit" => keyLock'[req'[x].key] = x
    <3>1. CASE x = r
      BY <2>2, <3>1 DEF Holding
    <3>2. CASE x # r
      BY <2>1, <2>5, <3>2 DEF LockInv, OthersKeep, Holding
    <3> QED BY <3>1, <3>2
  <2>8. ASSUME NEW k \in Keys, NEW x \in Requests, keyLock'[k] = x
        PROVE  pc'[x] = "commit" /\ req'[x].key = k
    BY <2>4, <2>8 DEF LockInv, OthersKeep
  <2> QED BY <2>6, <2>7, <2>8 DEF LockInv
<1>3. NoOverdraft'
  BY DEF NoOverdraft
<1>4. ExistInv'
  BY DEF ExistInv, WalletsExist, OthersKeep, Exists, Final, Aborted, InTx
<1> QED BY <1>1, <1>2, <1>3, <1>4

\* A row that does not exist yet is neither locked nor compared with.
LEMMA InsertWalletKeeps ==
  ASSUME TypeInv, GuardInv, NEW r \in Requests, InsertWallet(r)
  PROVE  GuardInv'
<1> USE DEF GuardInv
<1> DEFINE w == req[r].to
<1>1. /\ w \in Wallets /\ UNCHANGED <<rowLock, keyLock, local, req>>
      /\ pc[r] = "insertWallet" /\ pc'[r] \in {"effects", "duplicateKey"}
      /\ \A x \in Requests \ {r} : pc'[x] = pc[x]
  BY RunningRequest DEF InsertWallet, lockVars, At, TypeInv, TypeOK, Goto
<1>2. \/ wallet' = wallet
      \/ ~Exists(w) /\ wallet' = [wallet EXCEPT ![w] = [balance |-> 0, version |-> 1]]
  BY DEF InsertWallet
<1>3. \A v \in Wallets : /\ Exists(v) => wallet'[v] = wallet[v]
                         /\ wallet'[v] # wallet[v] => wallet[v].version = 0
                                                      /\ wallet'[v].version = 1
                         /\ wallet'[v].balance >= 0
  BY <1>1, <1>2 DEF Exists, TypeInv, TypeOK, Row, NoOverdraft
<1>4. \A x \in Requests : pc[x] \in InTx => req[x].to \in Wallets
                          /\ (req[x].kind = "transfer" => req[x].from \in Wallets)
                          /\ (pc[x] = "updateFrom" => req[x].kind = "transfer")
  BY RunningRequest DEF TypeInv, RequestInv, AtLine, WellFormed, InTx
<1>5. SnapshotInv'
  <2> SUFFICES ASSUME NEW x \in Requests PROVE Snapshot(x)'
    BY DEF SnapshotInv
  <2>1. CASE x = r
    BY <1>1, <2>1 DEF SnapshotInv, Snapshot, Holding
  <2>2. CASE x # r /\ pc[x] \in InTx
    BY <1>1, <1>3, <1>4, <2>2 DEF SnapshotInv, Snapshot, Seen, ExistInv, WalletsExist, Exists, InTx
  <2>3. CASE x # r /\ pc[x] \notin InTx
    BY <1>1, <2>3 DEF SnapshotInv, Snapshot, InTx, Holding
  <2> QED BY <2>1, <2>2, <2>3
<1>6. LockInv'
  <2>1. \A v \in Wallets, x \in Requests : rowLock[v] = x => Exists(v)
    BY DEF LockInv, ExistInv, WalletsExist, Holding, InTx
  <2>2. pc[r] \notin Holding /\ pc'[r] \notin Holding
    BY <1>1 DEF Holding
  <2> QED
    BY <1>1, <1>3, <2>1, <2>2 DEF LockInv, Holding
<1>7. NoOverdraft'
  BY <1>3 DEF NoOverdraft
<1>8. ExistInv'
  <2>1. \A v \in Wallets : Exists(v) => Exists(v)'
    BY <1>3 DEF Exists
  <2> SUFFICES ASSUME NEW x \in Requests PROVE WalletsExist(x)'
    BY DEF ExistInv
  <2>2. CASE x = r
    BY <1>1, <2>2 DEF WalletsExist, InTx
  <2>3. CASE x # r
    <3>1. pc[x] \in InTx \cup {"checkKey", "readTo"} =>
            req[x].to \in Wallets /\ (req[x].kind = "transfer" => req[x].from \in Wallets)
      BY RunningRequest DEF TypeInv, RequestInv, AtLine, WellFormed, InTx
    <3> QED BY <1>1, <2>1, <2>3, <3>1 DEF ExistInv, WalletsExist, Exists
  <2> QED BY <2>2, <2>3
<1> QED BY <1>5, <1>6, <1>7, <1>8

\* A handler in its transaction reads a row it will compare with later.
LEMMA FreshKeeps ==
  ASSUME TypeInv, TypeInv', GuardInv, NEW r \in Requests, OthersKeep(r), req' = req,
         UNCHANGED <<wallet, rowLock, keyLock>>,
         \/ /\ pc[r] = "freshFrom" /\ pc'[r] = "updateFrom"
            /\ local' = [local EXCEPT ![r].freshFrom = wallet[req[r].from]]
            /\ wallet[req[r].from].balance >= req[r].amount
         \/ /\ pc[r] = "freshTo" /\ pc'[r] = "updateTo"
            /\ local' = [local EXCEPT ![r].freshTo = wallet[req[r].to]]
  PROVE  GuardInv'
<1> USE DEF GuardInv
<1>1. /\ req[r].to \in Wallets /\ req[r].kind \in {"topUp", "transfer"}
      /\ req[r].kind = "transfer" => req[r].from \in Wallets
      /\ pc[r] = "freshFrom" => req[r].kind = "transfer"
      /\ req[r].from # req[r].to
  BY RunningRequest DEF TypeInv, RequestInv, AtLine, WellFormed, InTx
<1>2. local[r] \in Locals /\ wallet[req[r].to] \in Row
      /\ (req[r].kind = "transfer" => wallet[req[r].from] \in Row)
  BY <1>1 DEF TypeInv, TypeOK
<1>3. SnapshotInv'
  <2> SUFFICES ASSUME NEW x \in Requests PROVE Snapshot(x)'
    BY DEF SnapshotInv
  <2>1. CASE x = r /\ pc[r] = "freshFrom"
    <3>1. /\ local'[r].freshFrom = wallet[req[r].from] /\ local'[r].freshTo = local[r].freshTo
          /\ local'[r].to = local[r].to /\ local'[r].from = local[r].from
          /\ pc'[r] = "updateFrom"
      BY <1>2, <2>1 DEF TypeInv, TypeOK, Locals
    <3> QED BY <1>1, <1>2, <2>1, <3>1 DEF SnapshotInv, Snapshot, Seen, NoOverdraft, Row
  <2>2. CASE x = r /\ pc[r] = "freshTo"
    <3>1. /\ local'[r].freshTo = wallet[req[r].to] /\ local'[r].freshFrom = local[r].freshFrom
          /\ local'[r].to = local[r].to /\ local'[r].from = local[r].from
          /\ pc'[r] = "updateTo"
      BY <1>2, <2>2 DEF TypeInv, TypeOK, Locals
    <3> QED BY <1>1, <1>2, <2>2, <3>1 DEF SnapshotInv, Snapshot, Seen, NoOverdraft, Row, Holding
  <2>3. CASE x # r
    BY <2>3 DEF SnapshotInv, Snapshot, Seen, OthersKeep
  <2> QED BY <2>1, <2>2, <2>3
<1>4. LockInv'
  <2>1. \A w \in Wallets : rowLock[w] = r =>
          pc[r] = "freshTo" /\ req[r].kind = "transfer" /\ w = req[r].from
          /\ wallet[w] = local[r].freshFrom
    BY DEF LockInv, Holding
  <2>2. \A k \in Keys : keyLock[k] # r
    BY DEF LockInv
  <2>3. pc[r] = "freshTo" => local'[r].freshFrom = local[r].freshFrom
    BY <1>2 DEF TypeInv, TypeOK, Locals
  <2>4. pc[r] = "freshTo" /\ req[r].kind = "transfer" => rowLock[req[r].from] = r
    BY DEF LockInv, Holding
  <2>5. ASSUME NEW w \in Wallets, NEW x \in Requests, rowLock[w] = x
        PROVE  \/ /\ pc'[x] \in Holding /\ req'[x].kind = "transfer"
                  /\ w = req'[x].from /\ wallet'[w] = local'[x].freshFrom
               \/ /\ pc'[x] \in {"insert", "commit"}
                  /\ w = req'[x].to /\ wallet'[w] = local'[x].freshTo
    <3>1. CASE x = r
      BY <2>1, <2>3, <2>5, <3>1 DEF Holding
    <3>2. CASE x # r
      BY <2>5, <3>2 DEF LockInv, OthersKeep
    <3> QED BY <3>1, <3>2
  <2>6. ASSUME NEW x \in Requests
        PROVE  /\ pc'[x] \in Holding /\ req'[x].kind = "transfer" => rowLock'[req'[x].from] = x
               /\ pc'[x] \in {"insert", "commit"} => rowLock'[req'[x].to] = x
               /\ pc'[x] = "commit" => keyLock'[req'[x].key] = x
    <3>1. CASE x = r
      BY <2>4, <3>1 DEF Holding
    <3>2. CASE x # r
      BY <3>2 DEF LockInv, OthersKeep
    <3> QED BY <3>1, <3>2
  <2>7. ASSUME NEW k \in Keys, NEW x \in Requests, keyLock'[k] = x
        PROVE  pc'[x] = "commit" /\ req'[x].key = k
    BY <2>2, <2>7 DEF LockInv, OthersKeep
  <2> QED BY <2>5, <2>6, <2>7 DEF LockInv
<1>5. NoOverdraft'
  BY DEF NoOverdraft
<1>6. ExistInv'
  BY DEF ExistInv, WalletsExist, OthersKeep, Exists, InTx
<1> QED BY <1>3, <1>4, <1>5, <1>6

\* A handler whose row is still the committed one takes its lock.
LEMMA RowLockKeeps ==
  ASSUME TypeInv, TypeInv', GuardInv, NEW r \in Requests, OthersKeep(r),
         UNCHANGED <<wallet, keyLock, local, req>>,
         NEW w \in Wallets, rowLock[w] = None, rowLock' = [rowLock EXCEPT ![w] = r],
         \/ /\ pc[r] = "updateFrom" /\ pc'[r] = "freshTo"
            /\ w = req[r].from /\ wallet[w].version = local[r].freshFrom.version
         \/ /\ pc[r] = "updateTo" /\ pc'[r] = "insert"
            /\ w = req[r].to /\ wallet[w].version = local[r].freshTo.version
  PROVE  GuardInv'
<1> USE DEF GuardInv
<1>1. /\ req[r].to \in Wallets /\ req[r].kind \in {"topUp", "transfer"}
      /\ req[r].kind = "transfer" => req[r].from \in Wallets
      /\ pc[r] = "updateFrom" => req[r].kind = "transfer"
      /\ req[r].from # req[r].to
  BY RunningRequest DEF TypeInv, RequestInv, AtLine, WellFormed, InTx
<1>2. /\ pc[r] = "updateFrom" => wallet[w] = local[r].freshFrom
      /\ pc[r] = "updateTo" => wallet[w] = local[r].freshTo
  BY DEF SnapshotInv, Snapshot, Seen
<1>3. \A x \in Requests : pc[x] \in Holding =>
        /\ req[x].to \in Wallets /\ req[x].key \in Keys
        /\ req[x].kind = "transfer" => req[x].from \in Wallets
  BY RunningRequest DEF TypeInv, RequestInv, AtLine, WellFormed, Holding, InTx
<1>4. rowLock \in [Wallets -> Requests \cup {None}] /\ r # None
  BY WalletAssumption DEF TypeInv, TypeOK
<1>5. SnapshotInv'
  <2> SUFFICES ASSUME NEW x \in Requests PROVE Snapshot(x)'
    BY DEF SnapshotInv
  <2>1. CASE x = r
    BY <2>1 DEF SnapshotInv, Snapshot, Holding
  <2>2. CASE x # r
    BY <2>2 DEF SnapshotInv, Snapshot, Seen, OthersKeep
  <2> QED BY <2>1, <2>2
<1>6. LockInv'
  <2>1. ASSUME NEW v \in Wallets, NEW x \in Requests, rowLock'[v] = x
        PROVE  \/ /\ pc'[x] \in Holding /\ req'[x].kind = "transfer"
                  /\ v = req'[x].from /\ wallet'[v] = local'[x].freshFrom
               \/ /\ pc'[x] \in {"insert", "commit"}
                  /\ v = req'[x].to /\ wallet'[v] = local'[x].freshTo
    <3>1. CASE v = w
      BY <1>1, <1>2, <1>4, <2>1, <3>1 DEF Holding
    <3>2. CASE v # w /\ x = r
      BY <1>4, <2>1, <3>2 DEF LockInv, Holding
    <3>3. CASE v # w /\ x # r
      BY <1>4, <2>1, <3>3 DEF LockInv, OthersKeep
    <3> QED BY <3>1, <3>2, <3>3
  <2>2. ASSUME NEW x \in Requests
        PROVE  /\ pc'[x] \in Holding /\ req'[x].kind = "transfer" => rowLock'[req'[x].from] = x
               /\ pc'[x] \in {"insert", "commit"} => rowLock'[req'[x].to] = x
               /\ pc'[x] = "commit" => keyLock'[req'[x].key] = x
    <3>1. CASE x = r
      BY <1>1, <1>4, <3>1 DEF LockInv, Holding
    <3>2. CASE x # r
      BY <1>3, <1>4, <3>2, WalletAssumption DEF LockInv, OthersKeep, Holding
    <3> QED BY <3>1, <3>2
  <2>3. ASSUME NEW k \in Keys, NEW x \in Requests, keyLock'[k] = x
        PROVE  pc'[x] = "commit" /\ req'[x].key = k
    BY <2>3 DEF LockInv, OthersKeep
  <2> QED BY <2>1, <2>2, <2>3 DEF LockInv
<1>7. NoOverdraft'
  BY DEF NoOverdraft
<1>8. ExistInv'
  BY DEF ExistInv, WalletsExist, OthersKeep, Exists, InTx
<1> QED BY <1>5, <1>6, <1>7, <1>8

\* A handler locks the idempotency key it inserts.
LEMMA KeyLockKeeps ==
  ASSUME TypeInv, TypeInv', GuardInv, NEW r \in Requests, OthersKeep(r),
         UNCHANGED <<wallet, rowLock, local, req>>,
         pc[r] = "insert", pc'[r] = "commit",
         keyLock[req[r].key] = None, keyLock' = [keyLock EXCEPT ![req[r].key] = r]
  PROVE  GuardInv'
<1> USE DEF GuardInv
<1>1. req[r].key \in Keys /\ keyLock \in [Keys -> Requests \cup {None}] /\ r # None
  BY RunningRequest, WalletAssumption DEF TypeInv, TypeOK, RequestInv, AtLine, WellFormed, InTx
<1>2. SnapshotInv'
  <2> SUFFICES ASSUME NEW x \in Requests PROVE Snapshot(x)'
    BY DEF SnapshotInv
  <2>1. CASE x = r
    BY <2>1 DEF SnapshotInv, Snapshot, Holding
  <2>2. CASE x # r
    BY <2>2 DEF SnapshotInv, Snapshot, Seen, OthersKeep
  <2> QED BY <2>1, <2>2
<1>3. LockInv'
  <2>1. \A x \in Requests : pc[x] = "commit" => req[x].key \in Keys
    BY RunningRequest DEF TypeInv, RequestInv, AtLine, WellFormed, InTx
  <2>2. ASSUME NEW v \in Wallets, NEW x \in Requests, rowLock'[v] = x
        PROVE  \/ /\ pc'[x] \in Holding /\ req'[x].kind = "transfer"
                  /\ v = req'[x].from /\ wallet'[v] = local'[x].freshFrom
               \/ /\ pc'[x] \in {"insert", "commit"}
                  /\ v = req'[x].to /\ wallet'[v] = local'[x].freshTo
    BY <2>2 DEF LockInv, OthersKeep, Holding
  <2>3. ASSUME NEW x \in Requests
        PROVE  /\ pc'[x] \in Holding /\ req'[x].kind = "transfer" => rowLock'[req'[x].from] = x
               /\ pc'[x] \in {"insert", "commit"} => rowLock'[req'[x].to] = x
               /\ pc'[x] = "commit" => keyLock'[req'[x].key] = x
    <3>1. CASE x = r
      BY <1>1, <3>1 DEF LockInv, Holding
    <3>2. CASE x # r
      BY <1>1, <2>1, <3>2, WalletAssumption DEF LockInv, OthersKeep
    <3> QED BY <3>1, <3>2
  <2>4. ASSUME NEW k \in Keys, NEW x \in Requests, keyLock'[k] = x
        PROVE  pc'[x] = "commit" /\ req'[x].key = k
    BY <1>1, <2>4 DEF LockInv, OthersKeep
  <2> QED BY <2>2, <2>3, <2>4 DEF LockInv
<1>4. NoOverdraft'
  BY DEF NoOverdraft
<1>5. ExistInv'
  BY DEF ExistInv, WalletsExist, OthersKeep, Exists, InTx
<1> QED BY <1>2, <1>3, <1>4, <1>5

\* What a commit writes, in terms of the rows committed before it.
LEMMA CommitWrites ==
  ASSUME TypeInv, LockInv, NEW r \in Requests, Commit(r)
  PROVE  /\ req[r].to \in Wallets /\ req[r].kind \in {"topUp", "transfer"}
         /\ req[r].amount \in Nat \ {0} /\ req[r].key \in Keys
         /\ req[r].kind = "transfer" => req[r].from \in Wallets
         /\ req[r].kind = "topUp" => req[r].from = None
         /\ req[r].from # req[r].to
         /\ pc[r] = "commit" /\ pc'[r] = "effects" /\ local'[r] = NoLocals /\ req' = req
         /\ wallet'[req[r].to] = [balance |-> NewTo(r), version |-> wallet[req[r].to].version + 1]
         /\ wallet[req[r].to] = local[r].freshTo
         /\ req[r].kind = "transfer" =>
              /\ wallet[req[r].from] = local[r].freshFrom
              /\ wallet'[req[r].from] = [balance |-> wallet[req[r].from].balance - req[r].amount,
                                         version |-> wallet[req[r].from].version + 1]
         /\ \A w \in Wallets \ {req[r].from, req[r].to} : wallet'[w] = wallet[w]
         /\ rowLock[req[r].to] = r /\ keyLock[req[r].key] = r
         /\ OthersKeep(r)
<1> DEFINE q == req[r]
<1>1. /\ q.to \in Wallets /\ q.kind \in {"topUp", "transfer"} /\ q.amount \in Nat \ {0}
      /\ q.key \in Keys /\ q.from # q.to /\ (q.kind = "transfer" => q.from \in Wallets)
      /\ (q.kind = "topUp" => q.from = None)
  BY RunningRequest, WalletAssumption
  DEF Commit, At, TypeInv, RequestInv, AtLine, WellFormed, InTx
<1>2. /\ pc[r] = "commit" /\ pc'[r] = "effects" /\ local'[r] = NoLocals /\ req' = req
      /\ OthersKeep(r)
  BY DEF Commit, At, Return, Goto, TypeInv, TypeOK, OthersKeep
<1>3. \A w \in Wallets : wallet'[w] =
        IF w = q.from THEN [balance |-> NewFrom(r), version |-> local[r].freshFrom.version + 1]
        ELSE IF w = q.to THEN [balance |-> NewTo(r), version |-> local[r].freshTo.version + 1]
        ELSE wallet[w]
  <2> DEFINE rowFrom == [balance |-> NewFrom(r), version |-> local[r].freshFrom.version + 1]
             rowTo == [balance |-> NewTo(r), version |-> local[r].freshTo.version + 1]
  <2>1. wallet' = [w \in Wallets |-> CASE w = q.from -> rowFrom [] w = q.to -> rowTo
                                      [] OTHER -> wallet[w]]
    BY DEF Commit
  <2> HIDE DEF rowFrom, rowTo, q
  <2>2. \A w \in Wallets : wallet'[w] = IF w = q.from THEN rowFrom
                                        ELSE IF w = q.to THEN rowTo ELSE wallet[w]
    BY <1>1, <2>1 DEF q
  <2> QED BY <2>2 DEF rowFrom, rowTo, q
<1>4. rowLock[q.to] = r /\ keyLock[q.key] = r /\ (q.kind = "transfer" => rowLock[q.from] = r)
  BY <1>2 DEF LockInv, Holding
<1>5. /\ wallet[q.to] = local[r].freshTo
      /\ q.kind = "transfer" => wallet[q.from] = local[r].freshFrom
  BY <1>1, <1>4 DEF LockInv
<1>6. q.kind = "topUp" => q.from \notin Wallets
  BY <1>1, WalletAssumption
<1> QED BY <1>1, <1>2, <1>3, <1>4, <1>5, <1>6 DEF NewFrom

\* A commit debits a balance that covers the amount, and nobody else's snapshot
\* is taken for fresher than it is.
LEMMA CommitKeeps ==
  ASSUME TypeInv, TypeInv', GuardInv, NEW r \in Requests, Commit(r)
  PROVE  GuardInv'
<1> USE DEF GuardInv
<1> DEFINE q == req[r]
<1>1. /\ q.to \in Wallets /\ q.kind \in {"topUp", "transfer"} /\ q.amount \in Nat \ {0}
      /\ q.key \in Keys
      /\ q.kind = "transfer" => q.from \in Wallets
      /\ q.kind = "topUp" => q.from = None
      /\ q.from # q.to /\ pc[r] = "commit"
  BY CommitWrites
<1>2. pc'[r] = "effects" /\ local'[r] = NoLocals /\ req' = req /\ OthersKeep(r)
  BY CommitWrites
<1>3. /\ wallet'[q.to] = [balance |-> NewTo(r), version |-> wallet[q.to].version + 1]
      /\ wallet[q.to] = local[r].freshTo
      /\ q.kind = "transfer" =>
           /\ wallet[q.from] = local[r].freshFrom
           /\ wallet'[q.from] = [balance |-> wallet[q.from].balance - q.amount,
                                 version |-> wallet[q.from].version + 1]
  BY CommitWrites
<1>4. \A w \in Wallets \ {q.from, q.to} : wallet'[w] = wallet[w]
  BY CommitWrites
<1>5. \A w \in Wallets : wallet[w] \in Row
  BY DEF TypeInv, TypeOK
<1>6. \A w \in Wallets : \/ wallet'[w] = wallet[w]
                         \/ wallet'[w].version = wallet[w].version + 1
  <2> SUFFICES ASSUME NEW w \in Wallets PROVE wallet'[w] = wallet[w]
                                              \/ wallet'[w].version = wallet[w].version + 1
    OBVIOUS
  <2>1. CASE w = q.from
    BY <1>1, <1>3, <2>1, WalletAssumption
  <2>2. CASE w = q.to
    BY <1>3, <2>2
  <2>3. CASE w \notin {q.from, q.to}
    BY <1>4, <2>3
  <2> QED BY <2>1, <2>2, <2>3
<1>7. \A w \in Wallets : wallet'[w].balance >= 0
  <2>1. local[r] \in Locals /\ local[r].to >= 0 /\ local[r].freshTo.balance >= 0
    BY DEF TypeInv, TypeOK, SnapshotInv, Snapshot
  <2>2. NewTo(r) >= 0
    BY <1>1, <2>1 DEF NewTo, CreditBase, Locals, Row
  <2>3. q.kind = "transfer" => wallet[q.from].balance >= q.amount
    BY <1>1, <1>3 DEF SnapshotInv, Snapshot, Holding
  <2> SUFFICES ASSUME NEW w \in Wallets PROVE wallet'[w].balance >= 0
    OBVIOUS
  <2>4. CASE w = q.from
    BY <1>1, <1>3, <1>5, <2>3, <2>4, WalletAssumption DEF Row
  <2>5. CASE w = q.to
    BY <1>3, <2>2, <2>5
  <2>6. CASE w \notin {q.from, q.to}
    BY <1>4, <2>6 DEF NoOverdraft
  <2> QED BY <2>4, <2>5, <2>6
<1>8. SnapshotInv'
  <2> SUFFICES ASSUME NEW x \in Requests PROVE Snapshot(x)'
    BY DEF SnapshotInv
  <2>1. CASE x = r
    BY <1>2, <2>1 DEF Snapshot, Holding, NoLocals, Absent
  <2>2. CASE x # r
    <3>1. /\ pc[x] = "updateFrom" => req[x].from \in Wallets
          /\ pc[x] = "updateTo" => req[x].to \in Wallets
      BY RunningRequest DEF TypeInv, RequestInv, AtLine, WellFormed, InTx
    <3>2. local[x] \in Locals
      BY DEF TypeInv, TypeOK
    <3>3. /\ pc[x] = "updateFrom" => Seen(local[x].freshFrom, req[x].from)'
          /\ pc[x] = "updateTo" => Seen(local[x].freshTo, req[x].to)'
      BY <1>2, <1>5, <1>6, <2>2, <3>1, <3>2
      DEF SnapshotInv, Snapshot, Seen, OthersKeep, Locals, Row
    <3> QED BY <1>2, <2>2, <3>3 DEF SnapshotInv, Snapshot, OthersKeep
  <2> QED BY <2>1, <2>2
<1>9. LockInv'
  <2>1. /\ rowLock' = [w \in Wallets |-> IF rowLock[w] = r THEN None ELSE rowLock[w]]
        /\ keyLock' = [k \in Keys |-> IF keyLock[k] = r THEN None ELSE keyLock[k]]
    BY DEF Commit, Unlock
  <2>2. ASSUME NEW w \in Wallets, NEW x \in Requests, rowLock'[w] = x
        PROVE  x # r /\ rowLock[w] = x /\ wallet'[w] = wallet[w]
    <3>1. x # r /\ rowLock[w] = x
      BY <2>1, <2>2, WalletAssumption
    <3>2. rowLock[q.to] = r /\ (q.kind = "transfer" => rowLock[q.from] = r)
      BY <1>1 DEF LockInv, Holding
    <3> QED BY <1>1, <1>4, <3>1, <3>2, WalletAssumption
  <2>3. ASSUME NEW w \in Wallets, NEW x \in Requests, rowLock'[w] = x
        PROVE  \/ /\ pc'[x] \in Holding /\ req'[x].kind = "transfer"
                  /\ w = req'[x].from /\ wallet'[w] = local'[x].freshFrom
               \/ /\ pc'[x] \in {"insert", "commit"}
                  /\ w = req'[x].to /\ wallet'[w] = local'[x].freshTo
    BY <1>2, <2>2, <2>3 DEF LockInv, OthersKeep
  <2>4. \A x \in Requests : pc[x] \in Holding =>
          /\ req[x].to \in Wallets /\ req[x].key \in Keys
          /\ req[x].kind = "transfer" => req[x].from \in Wallets
    BY RunningRequest DEF TypeInv, RequestInv, AtLine, WellFormed, Holding, InTx
  <2>5. ASSUME NEW x \in Requests
        PROVE  /\ pc'[x] \in Holding /\ req'[x].kind = "transfer" => rowLock'[req'[x].from] = x
               /\ pc'[x] \in {"insert", "commit"} => rowLock'[req'[x].to] = x
               /\ pc'[x] = "commit" => keyLock'[req'[x].key] = x
    <3>1. CASE x = r
      BY <1>2, <3>1 DEF Holding
    <3>2. CASE x # r
      BY <1>2, <2>1, <2>4, <3>2 DEF LockInv, OthersKeep, Holding
    <3> QED BY <3>1, <3>2
  <2>6. ASSUME NEW k \in Keys, NEW x \in Requests, keyLock'[k] = x
        PROVE  pc'[x] = "commit" /\ req'[x].key = k
    <3>1. x # r /\ keyLock[k] = x
      BY <2>1, <2>6, WalletAssumption
    <3> QED BY <1>2, <3>1 DEF LockInv, OthersKeep
  <2> QED BY <2>3, <2>5, <2>6 DEF LockInv
<1>10. NoOverdraft'
  BY <1>7 DEF NoOverdraft
<1>11. ExistInv'
  <2> SUFFICES ASSUME NEW x \in Requests PROVE WalletsExist(x)'
    BY DEF ExistInv
  <2>1. \A w \in Wallets : Exists(w) => Exists(w)'
    BY <1>5, <1>6 DEF Exists, Row
  <2>2. CASE x = r
    BY <1>2, <2>2 DEF WalletsExist, InTx
  <2>3. CASE x # r
    <3>1. pc[x] \in InTx \cup {"checkKey", "readTo"} =>
            req[x].to \in Wallets /\ (req[x].kind = "transfer" => req[x].from \in Wallets)
      BY RunningRequest DEF TypeInv, RequestInv, AtLine, WellFormed, InTx
    <3> QED BY <1>2, <2>1, <2>3, <3>1 DEF ExistInv, WalletsExist, Exists, OthersKeep
  <2> QED BY <2>2, <2>3
<1> QED BY <1>8, <1>9, <1>10, <1>11

-----------------------------------------------------------------------------
(* Every action is one of those ways *)

\* A request is sent: it starts at a line that touches no row it has read.
LEMMA SubmitGuard ==
  ASSUME TypeInv, TypeInv', GuardInv, NEW r \in Requests, Submit(r)
  PROVE  GuardInv'
<1>1. PICK q \in Request : /\ WellFormed(q) /\ req' = [req EXCEPT ![r] = q]
                           /\ Goto(r, IF q.key \in idem THEN "conflict" ELSE Entry(q.kind))
  BY DEF Submit
<1>2. Entry(q.kind) \in {"findWallet", "readRow", "readWallet", "checkKey"}
      /\ (Entry(q.kind) = "checkKey" => q.kind = "transfer")
  BY WalletAssumption DEF Entry, AllKinds, Request
<1>3. /\ pc[r] = "idle" /\ req'[r] = q /\ OthersKeep(r) /\ local' = local
      /\ UNCHANGED <<wallet, rowLock, keyLock>>
  BY <1>1 DEF Submit, At, Goto, OthersKeep, TypeInv, TypeOK, dbVars, lockVars
<1>4. pc'[r] \in {"conflict", "findWallet", "readRow", "readWallet", "checkKey"}
      /\ (pc'[r] = "checkKey" => q.kind = "transfer")
  BY <1>1, <1>2 DEF Goto, TypeInv, TypeOK
<1>5. NotNegative(local'[r])
  BY <1>3 DEF GuardInv, SnapshotInv, Snapshot, NotNegative
<1>6. pc[r] \in Calm /\ pc'[r] \in Calm \ InTx
  BY <1>3, <1>4 DEF Calm, Holding, Labels, Running, Before, Final, InTx
<1>7. /\ pc'[r] \notin InTx /\ pc'[r] # "readTo"
      /\ ~(pc'[r] = "checkKey" /\ req'[r].kind = "topUp")
  BY <1>3, <1>4, <1>6
<1> QED BY <1>3, <1>5, <1>6, <1>7, CalmKeeps DEF InTx

\* createWallet's find, getBalance, and the reads before the transaction.
LEMMA ReadsGuard ==
  ASSUME TypeInv, TypeInv', GuardInv, NEW r \in Requests,
         FindWallet(r) \/ ReadRow(r) \/ GetCached(r) \/ ReadWallet(r) \/ CheckKey(r)
         \/ ReadFrom(r) \/ ReadTo(r)
  PROVE  GuardInv'
<1> USE DEF FindWallet, ReadRow, GetCached, ReadWallet, CheckKey, ReadFrom, ReadTo
<1>1. /\ pc[r] \in Before \ {"insertWallet"} /\ req' = req
      /\ req[r].to \in Wallets /\ WellFormed(req[r])
  BY RunningRequest DEF At, Before, TypeInv
<1>2. UNCHANGED <<wallet, rowLock, keyLock>>
  BY DEF dbVars, lockVars
<1>3. OthersKeep(r)
  BY <1>1 DEF OthersKeep, Goto, Return, TypeInv, TypeOK
<1>4. /\ pc'[r] \in {"conflict", "insertWallet", "getCached", "effects", "ok", "rejected",
                     "checkKey", "replayed", "readFrom", "readTo", "freshTo", "freshFrom"}
      /\ pc'[r] = "freshTo" => pc[r] = "checkKey" /\ req[r].kind = "topUp"
      /\ pc'[r] = "freshFrom" => pc[r] = "readTo" /\ Exists(req[r].to)
      /\ pc'[r] = "checkKey" => pc[r] = "readWallet" /\ Exists(req[r].to)
      /\ pc'[r] = "readTo" => pc[r] = "readFrom" /\ Exists(req[r].from)
  BY DEF At, Goto, Return, TypeInv, TypeOK
<1>5. pc'[r] \in InTx => Exists(req[r].to)
  BY <1>1, <1>4 DEF InTx, GuardInv, ExistInv, WalletsExist
<1>6. pc'[r] \in InTx \cup {"readTo"} /\ req[r].kind = "transfer" => Exists(req[r].from)
  BY <1>1, <1>4 DEF InTx, GuardInv, ExistInv, WalletsExist
<1>7. NotNegative(local'[r])
  <2>1. local \in [Requests -> Locals] /\ NotNegative(local[r])
    BY DEF TypeInv, TypeOK, GuardInv, SnapshotInv, Snapshot, NotNegative
  <2>2. pc[r] = "readFrom" => req[r].from \in Wallets
    BY <1>1 DEF TypeInv, RequestInv, AtLine, WellFormed
  <2>3. /\ wallet[req[r].to].balance \in Int /\ wallet[req[r].to].balance >= 0
        /\ pc[r] = "readFrom" =>
             wallet[req[r].from].balance \in Int /\ wallet[req[r].from].balance >= 0
    BY <1>1, <2>2 DEF TypeInv, TypeOK, Row, GuardInv, NoOverdraft
  <2>4. \/ local' = local \/ local'[r] = NoLocals
        \/ local' = [local EXCEPT ![r].to = wallet[req[r].to].balance]
        \/ pc[r] = "readFrom" /\ local' = [local EXCEPT ![r].from = wallet[req[r].from].balance]
    BY <2>1 DEF At, Return
  <2> QED BY <2>1, <2>3, <2>4 DEF NotNegative, NoLocals, Absent, Locals, Row
<1>8. pc[r] \in Calm
  BY <1>1 DEF Calm, Holding, Labels, Running, Before
<1>9. /\ pc'[r] \in Calm \cup {"freshTo"}
      /\ pc'[r] = "freshTo" => req'[r].kind = "topUp"
  BY <1>1, <1>4 DEF Calm, Holding, Labels, Running, Before, InTx, After, Final
<1>10. pc'[r] = "checkKey" /\ req'[r].kind = "topUp" => Exists(req'[r].to)
  BY <1>1, <1>4
<1> QED BY <1>1, <1>2, <1>3, <1>5, <1>6, <1>7, <1>8, <1>9, <1>10, CalmKeeps

\* Caching, events and the answer touch no table and no lock.
LEMMA EffectsGuard ==
  ASSUME TypeInv, TypeInv', GuardInv, NEW r \in Requests,
         CacheBalance(r) \/ EmitKafkaEvent(r) \/ Respond(r) \/ CacheBalanceFails(r)
         \/ EmitKafkaEventFails(r)
  PROVE  GuardInv'
<1>1. /\ pc[r] \in After /\ UNCHANGED <<local, req>>
      /\ UNCHANGED <<wallet, rowLock, keyLock>>
  <2>1. CacheBalance(r) => pc[r] \in After /\ UNCHANGED <<dbVars, lockVars, local, req>>
    BY DEF CacheBalance
  <2>2. EmitKafkaEvent(r) => pc[r] \in After /\ UNCHANGED <<dbVars, lockVars, local, req>>
    BY DEF EmitKafkaEvent
  <2>3. Respond(r) => pc[r] \in After /\ UNCHANGED <<dbVars, lockVars, local, req>>
    BY DEF Respond
  <2>4. CacheBalanceFails(r) => pc[r] \in After /\ UNCHANGED <<dbVars, lockVars, local, req>>
    BY DEF CacheBalanceFails
  <2>5. EmitKafkaEventFails(r) => pc[r] \in After /\ UNCHANGED <<dbVars, lockVars, local, req>>
    BY DEF EmitKafkaEventFails
  <2> QED BY <2>1, <2>2, <2>3, <2>4, <2>5 DEF dbVars, lockVars
<1>2. pc' = pc \/ Goto(r, "ok") \/ Goto(r, "error") \/ Goto(r, "effectsFailed")
  BY DEF CacheBalance, EmitKafkaEvent, Respond, CacheBalanceFails, EmitKafkaEventFails, Goto
<1>3. OthersKeep(r) /\ pc'[r] \in After \cup {"ok", "error"}
  BY <1>1, <1>2 DEF OthersKeep, Goto, TypeInv, TypeOK, After
<1>4. pc[r] \in Calm /\ pc'[r] \in Calm \ (InTx \cup {"checkKey", "readTo"})
  BY <1>1, <1>3 DEF Calm, Holding, Labels, Running, After, Final, InTx
<1>5. NotNegative(local'[r])
  BY <1>1 DEF GuardInv, SnapshotInv, Snapshot, NotNegative
<1>6. pc'[r] \notin InTx /\ pc'[r] # "readTo" /\ pc'[r] # "checkKey"
  BY <1>4
<1> QED BY <1>1, <1>3, <1>4, <1>5, <1>6, CalmKeeps DEF InTx

\* A statement that throws, a timeout, a crash and a deadlock release the locks.
LEMMA StopGuard ==
  ASSUME TypeInv, TypeInv', GuardInv, NEW r \in Requests, req' = req, Unlock(r),
         UNCHANGED wallet, NEW s \in Final, Return(r, s)
  PROVE  GuardInv'
BY ReleaseKeeps DEF Return, Goto, OthersKeep, TypeInv, TypeOK

\* A transaction that aborts leaves the rows it read as they were.
LEMMA RollbackGuard ==
  ASSUME TypeInv, TypeInv', GuardInv, NEW r \in Requests, NEW cause \in Aborted,
         Rollback(r, cause)
  PROVE  GuardInv'
BY StopGuard DEF Rollback, dbVars, Final

\* Reads and updates of rows inside the transaction.
LEMMA RowsGuard ==
  ASSUME TypeInv, TypeInv', GuardInv, NEW r \in Requests,
         FreshFrom(r) \/ UpdateFrom(r) \/ FreshTo(r) \/ UpdateTo(r)
  PROVE  GuardInv'
<1>1. /\ req[r].to \in Wallets /\ req[r].amount \in Int
      /\ FreshFrom(r) \/ UpdateFrom(r) => req[r].from \in Wallets
      /\ \A w \in Wallets : wallet[w].balance \in Int
  <2>1. pc[r] \in {"freshFrom", "updateFrom", "freshTo", "updateTo"}
        /\ (FreshFrom(r) \/ UpdateFrom(r) => pc[r] \in {"freshFrom", "updateFrom"})
    BY DEF FreshFrom, UpdateFrom, FreshTo, UpdateTo, At
  <2>2. /\ req[r] \in Request /\ WellFormed(req[r]) /\ req[r].to \in Wallets
        /\ pc[r] \in {"freshFrom", "updateFrom"} => req[r].kind = "transfer"
    BY <2>1, RunningRequest DEF TypeInv, RequestInv, AtLine
  <2>3. req[r].amount \in Int
    <3>1. req[r].amount \in Amounts \cup {0}
      BY <2>2 DEF Request
    <3>2. Amounts \cup {0} \subseteq Int
      BY WalletAssumption
    <3> QED BY <3>1, <3>2
  <2> QED BY <2>1, <2>2, <2>3 DEF WellFormed, TypeInv, TypeOK, Row
<1>2. CASE \E cause \in Aborted : Rollback(r, cause)
  BY <1>2, RollbackGuard
<1>3. CASE FreshFrom(r) /\ ~(\E cause \in Aborted : Rollback(r, cause))
  <2>1. /\ pc[r] = "freshFrom" /\ Goto(r, "updateFrom")
        /\ wallet[req[r].from].balance >= req[r].amount
        /\ local' = [local EXCEPT ![r].freshFrom = wallet[req[r].from]]
        /\ UNCHANGED <<wallet, rowLock, keyLock, req>>
    BY <1>1, <1>3 DEF FreshFrom, At, Aborted, dbVars, lockVars
  <2>2. OthersKeep(r) /\ pc'[r] = "updateFrom"
    BY <2>1 DEF OthersKeep, Goto, TypeInv, TypeOK
  <2> QED BY <2>1, <2>2, FreshKeeps
<1>4. CASE FreshTo(r)
  <2>1. /\ pc[r] = "freshTo" /\ Goto(r, "updateTo")
        /\ local' = [local EXCEPT ![r].freshTo = wallet[req[r].to]]
        /\ UNCHANGED <<wallet, rowLock, keyLock, req>>
    BY <1>4 DEF FreshTo, At, dbVars, lockVars
  <2>2. OthersKeep(r) /\ pc'[r] = "updateTo"
    BY <2>1 DEF OthersKeep, Goto, TypeInv, TypeOK
  <2> QED BY <2>1, <2>2, FreshKeeps
<1>5. CASE UpdateFrom(r) /\ ~(\E cause \in Aborted : Rollback(r, cause))
  <2>1. /\ pc[r] = "updateFrom" /\ Goto(r, "freshTo")
        /\ wallet[req[r].from].version = local[r].freshFrom.version
        /\ rowLock[req[r].from] = None /\ rowLock' = [rowLock EXCEPT ![req[r].from] = r]
        /\ UNCHANGED <<wallet, keyLock, local, req>>
    BY <1>5 DEF UpdateFrom, UpdateRow, At, Aborted, dbVars
  <2>2. OthersKeep(r) /\ pc'[r] = "freshTo"
    BY <2>1 DEF OthersKeep, Goto, TypeInv, TypeOK
  <2> QED BY <1>1, <1>5, <2>1, <2>2, RowLockKeeps
<1>6. CASE UpdateTo(r) /\ ~(\E cause \in Aborted : Rollback(r, cause))
  <2>1. /\ pc[r] = "updateTo" /\ Goto(r, "insert")
        /\ wallet[req[r].to].version = local[r].freshTo.version
        /\ rowLock[req[r].to] = None /\ rowLock' = [rowLock EXCEPT ![req[r].to] = r]
        /\ UNCHANGED <<wallet, keyLock, local, req>>
    BY <1>6 DEF UpdateTo, UpdateRow, At, Aborted, dbVars
  <2>2. OthersKeep(r) /\ pc'[r] = "insert"
    BY <2>1 DEF OthersKeep, Goto, TypeInv, TypeOK
  <2> QED BY <1>1, <2>1, <2>2, RowLockKeeps
<1> QED BY <1>2, <1>3, <1>4, <1>5, <1>6

\* The insert under the idempotency key.
LEMMA InsertTxnGuard ==
  ASSUME TypeInv, TypeInv', GuardInv, NEW r \in Requests, InsertTxn(r)
  PROVE  GuardInv'
<1>1. CASE Rollback(r, "duplicateKey")
  BY <1>1, RollbackGuard DEF Aborted
<1>2. CASE ~Rollback(r, "duplicateKey")
  <2>1. /\ pc[r] = "insert" /\ Goto(r, "commit") /\ keyLock[req[r].key] = None
        /\ keyLock' = [keyLock EXCEPT ![req[r].key] = r]
        /\ UNCHANGED <<wallet, rowLock, local, req>>
    BY <1>2 DEF InsertTxn, At, dbVars
  <2>2. OthersKeep(r) /\ pc'[r] = "commit"
    BY <2>1 DEF OthersKeep, Goto, TypeInv, TypeOK
  <2> QED BY <2>1, <2>2, KeyLockKeeps
<1> QED BY <1>1, <1>2

\* A stuttering step keeps the invariant.
LEMMA GuardSame ==
  ASSUME GuardInv, UNCHANGED <<wallet, rowLock, keyLock, pc, local, req>>
  PROVE  GuardInv'
BY DEF GuardInv, SnapshotInv, Snapshot, Seen, LockInv, NoOverdraft, ExistInv, WalletsExist, Exists

\* The inductive step: one case per action.
LEMMA GuardStep == TypeInv /\ TypeInv' /\ GuardInv /\ [Next]_vars => GuardInv'
<1> SUFFICES ASSUME TypeInv, TypeInv', GuardInv, [Next]_vars PROVE GuardInv'
  OBVIOUS
<1>1. CASE UNCHANGED vars
  BY <1>1, GuardSame DEF vars
<1>2. CASE (\E w \in Wallets : ExpireBalance(w)) \/ (\E k \in Keys : ExpireKey(k))
  BY <1>2, GuardSame DEF ExpireBalance, ExpireKey, dbVars, lockVars
<1>3. ASSUME NEW r \in Requests, Submit(r) \/ Step(r) \/ FaultStep(r) \/ DeadlockAbort(r)
      PROVE  GuardInv'
  <2>1. CASE TxTimeout(r) \/ Crash(r)
    BY <2>1, StopGuard DEF TxTimeout, Crash, dbVars, Final, Aborted
  <2>2. CASE DeadlockAbort(r)
    BY <2>2, RollbackGuard DEF DeadlockAbort, Aborted
  <2> QED
    BY <1>3, <2>1, <2>2, SubmitGuard, ReadsGuard, InsertWalletKeeps, RowsGuard, InsertTxnGuard,
       CommitKeeps, EffectsGuard DEF Step, FaultStep
<1> QED BY <1>1, <1>2, <1>3 DEF Next

\* Row versions, row locks, and what every handler remembers stay consistent.
THEOREM Guarded == Spec => [](TypeInv /\ GuardInv)
<1>1. Init => TypeInv /\ GuardInv
  BY TypeInit, GuardInit
<1>2. TypeInv /\ GuardInv /\ [Next]_vars => (TypeInv /\ GuardInv)'
  BY TypeStep, GuardStep
<1> QED BY <1>1, <1>2, PTL DEF Spec

\* No interleaving of debits, crash or timeout takes a wallet below zero.
THEOREM NeverOverdrawn == Spec => []NoOverdraft
<1>1. TypeInv /\ GuardInv => NoOverdraft
  BY DEF GuardInv
<1> QED BY <1>1, Guarded, PTL

\* A row that a transaction has updated is the one that transaction read.
THEOREM UpdatesAreFresh == Spec => []LockedRowIsFresh
<1>1. TypeInv /\ GuardInv => LockedRowIsFresh
  BY DEF GuardInv, LockInv, LockedRowIsFresh, Holding, InTx
<1> QED BY <1>1, Guarded, PTL

-----------------------------------------------------------------------------
(* What the tables record: once per key, audit, events, refinement *)

\* Where a request may be once it has committed.
Settled == After \cup {"ok", "error", "lost"}

AuditInv == AuditMatchesTransactions /\ AuditEndsAtBalance /\ OnlyCreditsMayGap
KeyInv   == UniqueInv /\ OncePerKey
EventInv == PendingInv /\ EventsAreTrue

RecordInv == OpenInv /\ KeyInv /\ AuditInv /\ PastInv /\ EventInv

\* One audit row more, and it is e.
Logs(w, e) == audit'[w] = Append(audit[w], e)

\* One transaction more: u, which request r made under a new key.
Adds(r, u) ==
  /\ u.id = r /\ u.key = req[r].key /\ u.from = req[r].from /\ u.to = req[r].to
  /\ u.amount = req[r].amount /\ u.currency = req[r].currency
  /\ txns' = txns \cup {u}
  /\ \A t \in txns : t.id # r /\ t.key # u.key

-----------------------------------------------------------------------------
(* Sequences *)

\* Appending keeps what was there and puts the new element at the end.
LEMMA AppendKeeps ==
  ASSUME NEW S, NEW s \in Seq(S), NEW e \in S
  PROVE  /\ Append(s, e) \in Seq(S) /\ Len(s) \in Nat
         /\ Len(Append(s, e)) = Len(s) + 1
         /\ \A i \in 1..Len(s) : Append(s, e)[i] = s[i]
         /\ Append(s, e)[Len(s) + 1] = e
OBVIOUS

\* Concatenating a sequence of one element is appending it.
LEMMA ConcatAppends ==
  ASSUME NEW S, NEW s \in Seq(S), NEW e \in S
  PROVE  s \o <<e>> = Append(s, e)
OBVIOUS

\* Concatenating nothing changes nothing.
LEMMA ConcatEmpty == ASSUME NEW S, NEW s \in Seq(S) PROVE s \o <<>> = s
OBVIOUS

-----------------------------------------------------------------------------
(* What one step does to the tables *)

\* A request that has committed stays where committed requests are.
LEMMA SettledStays ==
  ASSUME TypeInv, [Next]_vars, NEW x \in Requests, pc[x] \in Settled
  PROVE  pc'[x] \in Settled
<1> USE DEF Settled, After
<1>1. CASE UNCHANGED vars
  BY <1>1 DEF vars
<1>2. CASE (\E w \in Wallets : ExpireBalance(w)) \/ (\E k \in Keys : ExpireKey(k))
  BY <1>2 DEF ExpireBalance, ExpireKey
<1>3. ASSUME NEW r \in Requests, Submit(r) \/ Step(r) \/ FaultStep(r) \/ DeadlockAbort(r)
      PROVE  pc'[x] \in Settled
  <2>1. CASE r = x
    <3>1. CacheBalance(r) \/ EmitKafkaEvent(r) \/ Respond(r) \/ CacheBalanceFails(r)
          \/ EmitKafkaEventFails(r) \/ Crash(r)
      BY <1>3, <2>1 DEF Step, FaultStep, Submit, FindWallet, InsertWallet, ReadRow, GetCached,
         ReadWallet, CheckKey, ReadFrom, ReadTo, FreshFrom, UpdateFrom, FreshTo, UpdateTo,
         InsertTxn, Commit, TxTimeout, DeadlockAbort, WaitsFor, At, InTx
    <3> QED
      BY <2>1, <3>1 DEF CacheBalance, EmitKafkaEvent, Respond, CacheBalanceFails,
         EmitKafkaEventFails, Crash, Goto, Return, TypeInv, TypeOK
  <2>2. CASE r # x
    <3>1. pc' = pc \/ \E s : Goto(r, s)
      BY <1>3 DEF Step, FaultStep, Submit, FindWallet, InsertWallet, ReadRow, GetCached,
         ReadWallet, CheckKey, ReadFrom, ReadTo, FreshFrom, UpdateFrom, FreshTo, UpdateTo,
         UpdateRow, InsertTxn, Commit, CacheBalance, EmitKafkaEvent, Respond, CacheBalanceFails,
         EmitKafkaEventFails, TxTimeout, Crash, DeadlockAbort, Rollback, Return
    <3> QED BY <2>2, <3>1 DEF Goto, TypeInv, TypeOK
  <2> QED BY <2>1, <2>2
<1> QED BY <1>1, <1>2, <1>3 DEF Next

\* The tables change when a wallet is created and when a transaction commits.
LEMMA TablesChange ==
  ASSUME [Next]_vars
  PROVE  \/ UNCHANGED <<wallet, txns, audit>>
         \/ \E r \in Requests : InsertWallet(r) \/ Commit(r)
<1>1. CASE UNCHANGED vars
  BY <1>1 DEF vars
<1>2. CASE (\E w \in Wallets : ExpireBalance(w)) \/ (\E k \in Keys : ExpireKey(k))
  BY <1>2 DEF ExpireBalance, ExpireKey, dbVars
<1>3. ASSUME NEW r \in Requests, Submit(r) \/ Step(r) \/ FaultStep(r) \/ DeadlockAbort(r)
      PROVE  UNCHANGED dbVars \/ InsertWallet(r) \/ Commit(r)
  <2>1. Submit(r) \/ FindWallet(r) \/ ReadRow(r) \/ GetCached(r) \/ ReadWallet(r) \/ CheckKey(r)
        \/ ReadFrom(r) \/ ReadTo(r) => UNCHANGED dbVars
    BY DEF Submit, FindWallet, ReadRow, GetCached, ReadWallet, CheckKey, ReadFrom, ReadTo
  <2>2. FreshFrom(r) \/ UpdateFrom(r) \/ FreshTo(r) \/ UpdateTo(r) \/ InsertTxn(r)
        \/ DeadlockAbort(r) => UNCHANGED dbVars
    BY DEF FreshFrom, UpdateFrom, FreshTo, UpdateTo, UpdateRow, InsertTxn, DeadlockAbort, Rollback
  <2>3. CacheBalance(r) \/ EmitKafkaEvent(r) \/ Respond(r) \/ FaultStep(r) => UNCHANGED dbVars
    BY DEF CacheBalance, EmitKafkaEvent, Respond, FaultStep, CacheBalanceFails,
       EmitKafkaEventFails, TxTimeout, Crash
  <2> QED BY <1>3, <2>1, <2>2, <2>3 DEF Step
<1> QED BY <1>1, <1>2, <1>3 DEF Next, dbVars

\* A key is locked only while no transaction has it.
LEMMA KeyLocksChange ==
  ASSUME TypeInv, [Next]_vars, NEW k \in Keys, keyLock'[k] # None
  PROVE  keyLock[k] # None \/ ~KeyUsed(k)
<1> USE DEF TypeInv, TypeOK
<1>1. CASE UNCHANGED keyLock
  BY <1>1
<1>2. ASSUME NEW r \in Requests, Unlock(r)
      PROVE  keyLock[k] # None \/ ~KeyUsed(k)
  BY <1>2 DEF Unlock
<1>3. ASSUME NEW r \in Requests, InsertTxn(r)
      PROVE  keyLock[k] # None \/ ~KeyUsed(k)
  BY <1>2, <1>3 DEF InsertTxn, Rollback
<1>4. CASE (\E w \in Wallets : ExpireBalance(w)) \/ (\E j \in Keys : ExpireKey(j))
  BY <1>1, <1>4 DEF ExpireBalance, ExpireKey, lockVars
<1>5. ASSUME NEW r \in Requests, Submit(r) \/ Step(r) \/ FaultStep(r) \/ DeadlockAbort(r)
      PROVE  UNCHANGED keyLock \/ Unlock(r) \/ InsertTxn(r)
  <2>1. Submit(r) \/ FindWallet(r) \/ InsertWallet(r) \/ ReadRow(r) \/ GetCached(r)
        \/ ReadWallet(r) \/ CheckKey(r) \/ ReadFrom(r) \/ ReadTo(r) => UNCHANGED lockVars
    BY DEF Submit, FindWallet, InsertWallet, ReadRow, GetCached, ReadWallet, CheckKey, ReadFrom,
       ReadTo
  <2>2. FreshFrom(r) \/ UpdateFrom(r) \/ FreshTo(r) \/ UpdateTo(r) \/ DeadlockAbort(r)
        => UNCHANGED keyLock \/ Unlock(r)
    BY DEF FreshFrom, UpdateFrom, FreshTo, UpdateTo, UpdateRow, DeadlockAbort, Rollback, lockVars
  <2>3. Commit(r) \/ TxTimeout(r) \/ Crash(r) => Unlock(r)
    BY DEF Commit, TxTimeout, Crash
  <2>4. CacheBalance(r) \/ EmitKafkaEvent(r) \/ Respond(r) \/ CacheBalanceFails(r)
        \/ EmitKafkaEventFails(r) => UNCHANGED lockVars
    BY DEF CacheBalance, EmitKafkaEvent, Respond, CacheBalanceFails, EmitKafkaEventFails
  <2> QED BY <1>5, <2>1, <2>2, <2>3, <2>4 DEF Step, FaultStep, lockVars
<1>6. CASE UNCHANGED vars
  BY <1>1, <1>6 DEF vars
<1> QED BY <1>1, <1>2, <1>3, <1>4, <1>5, <1>6 DEF Next

\* What a commit adds to the audit log of a wallet it changes: a row of its
\* amount, which ends at the new balance and starts at the old one, or for the
\* destination of a transfer at the balance transfer() had read.
LEMMA CommitLogs ==
  ASSUME TypeInv, GuardInv, NEW r \in Requests, Commit(r), NEW w \in Wallets
  PROVE  \/ /\ w \notin {req[r].from, req[r].to}
            /\ audit'[w] = audit[w] /\ wallet'[w] = wallet[w]
         \/ /\ w \in {req[r].from, req[r].to}
            /\ wallet'[w].version = wallet[w].version + 1 /\ Exists(w)
            /\ \E e \in AuditEntry :
                 /\ Logs(w, e) /\ e.txn = r
                 /\ e.new = e.previous + (IF w = req[r].from THEN -req[r].amount ELSE req[r].amount)
                 /\ e.new = wallet'[w].balance
                 /\ IF e.operation = "CREDIT"
                    THEN req[r].kind = "transfer" /\ w = req[r].to /\ e.previous = local[r].to
                    ELSE e.previous = wallet[w].balance
<1> DEFINE q == req[r]
           debit == [txn |-> r, operation |-> "DEBIT",
                     previous |-> local[r].freshFrom.balance, new |-> NewFrom(r)]
           credit == [txn |-> r, previous |-> CreditBase(r), new |-> NewTo(r),
                      operation |-> IF q.kind = "transfer" THEN "CREDIT" ELSE "TOP_UP"]
<1>1. /\ q.to \in Wallets /\ q.kind \in {"topUp", "transfer"} /\ q.amount \in Nat \ {0}
      /\ q.kind = "transfer" => q.from \in Wallets
      /\ q.kind = "topUp" => q.from = None
      /\ q.from # q.to /\ pc[r] = "commit"
      /\ wallet'[q.to] = [balance |-> NewTo(r), version |-> wallet[q.to].version + 1]
      /\ wallet[q.to] = local[r].freshTo
      /\ q.kind = "transfer" =>
           /\ wallet[q.from] = local[r].freshFrom
           /\ wallet'[q.from] = [balance |-> wallet[q.from].balance - q.amount,
                                 version |-> wallet[q.from].version + 1]
      /\ \A v \in Wallets \ {q.from, q.to} : wallet'[v] = wallet[v]
  BY CommitWrites DEF GuardInv
<1>2. Exists(q.to) /\ (q.kind = "transfer" => Exists(q.from))
  BY <1>1 DEF GuardInv, ExistInv, WalletsExist, InTx
<1>3. audit'[w] = audit[w] \o Entries(r, w) /\ audit[w] \in Seq(AuditEntry)
  BY DEF Commit, TypeInv, TypeOK
<1>4. local[r] \in Locals
  BY DEF TypeInv, TypeOK
<1>5. CASE w = q.from
  <2>1. q.kind = "transfer"
    BY <1>1, <1>5, WalletAssumption
  <2>2. debit \in AuditEntry
    BY <1>1, <1>4 DEF AuditEntry, NewFrom, Locals, Row
  <2>3. Logs(w, debit)
    BY <1>3, <1>5, <2>2, ConcatAppends DEF Entries, Logs
  <2>4. debit.new = debit.previous - q.amount /\ debit.new = wallet'[w].balance
        /\ debit.previous = wallet[w].balance
    BY <1>1, <1>5, <2>1 DEF NewFrom
  <2>5. -q.amount \in Int /\ debit.previous \in Int
    BY <1>1, <1>4 DEF Locals, Row
  <2>6. debit.new = debit.previous + (-q.amount)
    BY <1>1, <2>4, <2>5
  <2> QED BY <1>1, <1>2, <1>5, <2>1, <2>2, <2>3, <2>4, <2>6
<1>6. CASE w = q.to
  <2>1. credit \in AuditEntry
    BY <1>1, <1>4 DEF AuditEntry, NewTo, CreditBase, Locals, Row
  <2>2. Logs(w, credit)
    BY <1>1, <1>3, <1>6, <2>1, ConcatAppends DEF Entries, Logs
  <2>3. credit.new = credit.previous + q.amount /\ credit.new = wallet'[w].balance
    BY <1>1, <1>6 DEF NewTo
  <2>4. IF credit.operation = "CREDIT"
        THEN q.kind = "transfer" /\ credit.previous = local[r].to
        ELSE credit.previous = wallet[w].balance
    BY <1>1, <1>6 DEF CreditBase
  <2> QED BY <1>1, <1>2, <1>6, <2>1, <2>2, <2>3, <2>4
<1>7. CASE w \notin {q.from, q.to}
  BY <1>1, <1>3, <1>7, ConcatEmpty DEF Entries
<1> QED BY <1>5, <1>6, <1>7

\* An audit log only grows, by at most one row in a step.
LEMMA LogsGrow ==
  ASSUME TypeInv, GuardInv, [Next]_vars, NEW w \in Wallets
  PROVE  audit'[w] = audit[w] \/ \E e \in AuditEntry : Logs(w, e)
BY TablesChange, CommitLogs DEF InsertWallet

\* What a log says of the past stays as it is.
LEMMA PastStays ==
  ASSUME TypeInv, GuardInv, [Next]_vars, NEW w \in Wallets, NEW n \in 0..Len(audit[w])
  PROVE  /\ n \in 0..Len(audit'[w])
         /\ BalanceAfter(w, n)' = BalanceAfter(w, n)
         /\ n # 0 => audit'[w][n] = audit[w][n]
<1>1. audit[w] \in Seq(AuditEntry)
  BY DEF TypeInv, TypeOK
<1>2. n # 0 => n \in 1..Len(audit[w])
  BY <1>1
<1>3. n \in 0..Len(audit'[w]) /\ (n # 0 => audit'[w][n] = audit[w][n])
  BY <1>1, <1>2, LogsGrow, AppendKeeps DEF Logs
<1> QED BY <1>3 DEF BalanceAfter, StartBalance

\* A commit adds one transaction, its own, under a key nobody has used.
LEMMA CommitAdds ==
  ASSUME TypeInv, GuardInv, UniqueInv, NEW r \in Requests, Commit(r)
  PROVE  \E u \in Txn : Adds(r, u)
<1> DEFINE q == req[r]
           u == [id |-> r, key |-> q.key, from |-> q.from, to |-> q.to,
                 amount |-> q.amount, currency |-> q.currency]
<1>1. txns' = txns \cup {u} /\ pc[r] = "commit"
  BY DEF Commit, At
<1>2. /\ q \in Request /\ WellFormed(q) /\ q.kind \in {"topUp", "transfer"}
  BY <1>1, RunningRequest DEF TypeInv, RequestInv, AtLine, InTx
<1>3. u \in Txn
  BY <1>2 DEF Txn, Request, WellFormed
<1>4. ASSUME NEW t \in txns PROVE t.id # r /\ t.key # u.key
  <2>1. t.id # r
    BY <1>1, <1>4 DEF UniqueInv, After
  <2>2. keyLock[q.key] = r /\ r # None /\ q.key \in Keys
    BY <1>1, <1>2, WalletAssumption DEF GuardInv, LockInv, WellFormed
  <2> QED BY <1>4, <2>1, <2>2 DEF UniqueInv, KeyUsed
<1> QED BY <1>1, <1>3, <1>4 DEF Adds

-----------------------------------------------------------------------------
(* Once per key *)

\* A key is used once: its lock is taken while it is free and kept to the commit.
LEMMA KeyStep ==
  ASSUME TypeInv, TypeInv', GuardInv, KeyInv, AuditInv, [Next]_vars
  PROVE  KeyInv'
<1> USE DEF KeyInv
<1>1. \A t \in txns : t.id \in Requests
  BY DEF TypeInv, TypeOK, Txn
<1>2. \A t \in txns : pc'[t.id] \in Settled
  BY <1>1, SettledStays DEF UniqueInv, Settled
<1>3. CASE UNCHANGED <<txns, audit>>
  <2>1. UniqueInv'
    BY <1>2, <1>3, KeyLocksChange DEF UniqueInv, Settled, KeyUsed
  <2> QED BY <1>3, <2>1 DEF OncePerKey
<1>4. ASSUME NEW r \in Requests, Commit(r) PROVE KeyInv'
  <2>0. PICK u \in Txn : Adds(r, u)
    BY <1>4, CommitAdds
  <2>1. /\ u.id = r /\ u.key = req[r].key /\ txns' = txns \cup {u}
        /\ \A t \in txns : t.id # r /\ t.key # u.key
    BY <2>0 DEF Adds
  <2>2. pc'[r] = "effects" /\ keyLock[req[r].key] = r
    BY <1>4, CommitWrites DEF GuardInv
  <2>3. keyLock' = [k \in Keys |-> IF keyLock[k] = r THEN None ELSE keyLock[k]]
    BY <1>4 DEF Commit, Unlock
  <2>4. UniqueInv'
    BY <1>2, <2>1, <2>2, <2>3 DEF UniqueInv, Settled, After, KeyUsed
  <2>5. \A t, v \in txns' : t.key = v.key => t = v
    BY <2>1 DEF OncePerKey
  <2>6. ASSUME NEW w \in Wallets, NEW i \in 1..Len(audit'[w]), NEW j \in 1..Len(audit'[w]),
               audit'[w][i].txn = audit'[w][j].txn
        PROVE  i = j
    <3>1. CASE audit'[w] = audit[w]
      BY <2>6, <3>1 DEF OncePerKey
    <3>2. ASSUME NEW e \in AuditEntry, Logs(w, e), e.txn = r
          PROVE  i = j
      <4>1. audit[w] \in Seq(AuditEntry)
        BY DEF TypeInv, TypeOK
      <4>2. \A n \in 1..Len(audit[w]) : audit[w][n].txn # r
        BY <2>1 DEF AuditInv, AuditMatchesTransactions
      <4>3. /\ Len(audit[w]) \in Nat /\ Len(audit'[w]) = Len(audit[w]) + 1
            /\ \A n \in 1..Len(audit[w]) : audit'[w][n] = audit[w][n]
            /\ audit'[w][Len(audit[w]) + 1] = e
        BY <3>2, <4>1, AppendKeeps DEF Logs
      <4> DEFINE last == Len(audit[w]) + 1
      <4>4. i \in 1..Len(audit[w]) \/ i = last
        BY <4>3
      <4>5. j \in 1..Len(audit[w]) \/ j = last
        BY <4>3
      <4>6. CASE i = last /\ j = last
        BY <4>6
      <4>7. CASE i \in 1..Len(audit[w]) /\ j \in 1..Len(audit[w])
        BY <2>6, <4>3, <4>7 DEF OncePerKey
      <4> QED BY <2>6, <3>2, <4>2, <4>3, <4>4, <4>5, <4>6, <4>7
    <3> QED BY <1>4, <3>1, <3>2, CommitLogs
  <2> QED BY <2>4, <2>5, <2>6 DEF OncePerKey
<1>5. ASSUME NEW r \in Requests, InsertWallet(r) PROVE KeyInv'
  BY <1>3, <1>5 DEF InsertWallet
<1> QED BY <1>3, <1>4, <1>5, TablesChange

-----------------------------------------------------------------------------
(* The audit log *)

\* Both tables are written by one commit, so they go on telling the same story.
LEMMA MatchStep ==
  ASSUME TypeInv, GuardInv, KeyInv, AuditMatchesTransactions, [Next]_vars
  PROVE  AuditMatchesTransactions'
<1>1. CASE UNCHANGED <<txns, audit>>
  BY <1>1 DEF AuditMatchesTransactions, Audits
<1>2. ASSUME NEW r \in Requests, Commit(r) PROVE AuditMatchesTransactions'
  <2>1. PICK u \in Txn : Adds(r, u)
    BY <1>2, CommitAdds DEF KeyInv
  <2>2. \A w \in Wallets : \A i \in 1..Len(audit[w]) : audit[w][i].txn # r
    BY <2>1 DEF Adds, AuditMatchesTransactions
  <2>3. ASSUME NEW w \in Wallets
        PROVE  /\ \A t \in txns' : w \in {t.from, t.to} <=> Audits(t, w)'
               /\ \A i \in 1..Len(audit'[w]) : \E t \in txns' : t.id = audit'[w][i].txn
    <3>1. CASE w \notin {u.from, u.to}
      <4>1. audit'[w] = audit[w]
        BY <1>2, <2>1, <3>1, CommitLogs DEF Adds
      <4>2. ~Audits(u, w)'
        BY <2>1, <2>2, <4>1 DEF Audits, Adds
      <4>3. \A t \in txns : Audits(t, w)' <=> Audits(t, w)
        BY <4>1 DEF Audits
      <4> QED BY <2>1, <3>1, <4>1, <4>2, <4>3 DEF AuditMatchesTransactions, Adds
    <3>2. CASE w \in {u.from, u.to}
      <4>1. PICK e \in AuditEntry :
              /\ Logs(w, e) /\ e.txn = r
              /\ e.new = e.previous + (IF w = u.from THEN -u.amount ELSE u.amount)
        BY <1>2, <2>1, <3>2, CommitLogs DEF Adds
      <4> DEFINE last == Len(audit[w]) + 1
      <4>2. /\ Len(audit[w]) \in Nat /\ Len(audit'[w]) = last /\ audit'[w][last] = e
            /\ \A n \in 1..Len(audit[w]) : audit'[w][n] = audit[w][n]
        BY <4>1, AppendKeeps DEF Logs, TypeInv, TypeOK
      <4>3. 1..Len(audit'[w]) = 1..Len(audit[w]) \cup {last}
        BY <4>2
      <4>4. Audits(u, w)'
        BY <2>1, <4>1, <4>2, <4>3 DEF Audits, Adds
      <4>5. ASSUME NEW t \in txns PROVE Audits(t, w)' <=> Audits(t, w)
        <5>1. t.id # e.txn
          BY <2>1, <4>1 DEF Adds
        <5> QED BY <4>2, <4>3, <5>1 DEF Audits
      <4>6. \A i \in 1..Len(audit'[w]) : \E t \in txns' : t.id = audit'[w][i].txn
        BY <2>1, <4>1, <4>2, <4>3 DEF AuditMatchesTransactions, Adds
      <4> QED BY <2>1, <3>2, <4>4, <4>5, <4>6 DEF AuditMatchesTransactions, Adds
    <3> QED BY <3>1, <3>2
  <2> QED BY <2>3 DEF AuditMatchesTransactions
<1>3. ASSUME NEW r \in Requests, InsertWallet(r) PROVE AuditMatchesTransactions'
  BY <1>1, <1>3 DEF InsertWallet
<1> QED BY <1>1, <1>2, <1>3, TablesChange

\* An update is written on top of the row it was computed from, so the last audit
\* row is the balance and the version counts the rows.
LEMMA EndsStep ==
  ASSUME TypeInv, GuardInv, OpenInv, AuditEndsAtBalance, [Next]_vars
  PROVE  AuditEndsAtBalance' /\ OpenInv'
<1> SUFFICES ASSUME NEW w \in Wallets PROVE EndsAtBalance(w)' /\ (Exists(w) => Exists(w)')
  BY WalletAssumption DEF AuditEndsAtBalance, OpenInv
<1>1. wallet[w] \in Row /\ audit[w] \in Seq(AuditEntry) /\ EndsAtBalance(w)
  BY DEF TypeInv, TypeOK, AuditEndsAtBalance
<1>2. CASE wallet'[w] = wallet[w] /\ audit'[w] = audit[w]
  BY <1>1, <1>2 DEF EndsAtBalance, Exists, BalanceAfter, StartBalance
<1>3. ASSUME NEW r \in Requests, InsertWallet(r), wallet'[w] # wallet[w]
      PROVE  EndsAtBalance(w)' /\ Exists(w)'
  <2>1. /\ ~Exists(w) /\ wallet'[w] = [balance |-> 0, version |-> 1] /\ audit' = audit
    BY <1>3 DEF InsertWallet, TypeInv, TypeOK
  <2>2. audit[w] = <<>> /\ w \notin OpenWallets
    BY <1>1, <2>1 DEF EndsAtBalance, OpenInv
  <2>3. Len(audit'[w]) = 0 /\ wallet'[w].version = 1 /\ wallet'[w].balance = 0
    BY <2>1, <2>2
  <2> QED BY <2>2, <2>3 DEF EndsAtBalance, Exists, BalanceAfter, StartBalance
<1>4. ASSUME NEW e \in AuditEntry, Logs(w, e), Exists(w), e.new = wallet'[w].balance,
             wallet'[w].version = wallet[w].version + 1
      PROVE  EndsAtBalance(w)' /\ Exists(w)'
  <2>1. /\ Len(audit[w]) \in Nat /\ Len(audit'[w]) = Len(audit[w]) + 1
        /\ audit'[w][Len(audit[w]) + 1] = e
    BY <1>1, <1>4, AppendKeeps DEF Logs
  <2>2. wallet'[w].version = Len(audit'[w]) + 1 /\ wallet'[w].version > 0
    BY <1>1, <1>4, <2>1 DEF EndsAtBalance
  <2>3. Len(audit'[w]) # 0 /\ wallet'[w].balance = audit'[w][Len(audit'[w])].new
    BY <1>4, <2>1
  <2> QED BY <2>2, <2>3 DEF EndsAtBalance, Exists, BalanceAfter
<1>5. ASSUME NEW r \in Requests, Commit(r)
      PROVE  EndsAtBalance(w)' /\ (Exists(w) => Exists(w)')
  BY <1>2, <1>4, <1>5, CommitLogs DEF Exists
<1>6. CASE UNCHANGED <<wallet, txns, audit>>
  BY <1>2, <1>6 DEF Exists
<1>7. ASSUME NEW r \in Requests, InsertWallet(r)
      PROVE  EndsAtBalance(w)' /\ (Exists(w) => Exists(w)')
  BY <1>2, <1>3, <1>7 DEF InsertWallet, Exists
<1> QED BY <1>5, <1>6, <1>7, TablesChange

\* A transfer in its database transaction has been there before, or has just read
\* the balance of its destination.
LEMMA EntersTx ==
  ASSUME TypeInv, [Next]_vars, NEW x \in Requests, pc'[x] \in InTx, req'[x].kind = "transfer"
  PROVE  /\ req'[x] = req[x]
         /\ \/ pc[x] \in InTx /\ local'[x].to = local[x].to
            \/ /\ pc[x] = "readTo" /\ local'[x].to = wallet[req[x].to].balance
               /\ UNCHANGED <<wallet, audit>>
<1> USE DEF TypeInv, TypeOK
<1>1. CASE UNCHANGED vars
  BY <1>1 DEF vars
<1>2. CASE (\E w \in Wallets : ExpireBalance(w)) \/ (\E k \in Keys : ExpireKey(k))
  BY <1>2 DEF ExpireBalance, ExpireKey
<1>3. ASSUME NEW r \in Requests, r # x,
             Submit(r) \/ Step(r) \/ FaultStep(r) \/ DeadlockAbort(r)
      PROVE  pc'[x] = pc[x] /\ local'[x] = local[x] /\ req'[x] = req[x]
  <2>1. CASE Submit(r)
    BY <1>3, <2>1 DEF Submit, Goto
  <2>2. CASE FindWallet(r) \/ InsertWallet(r) \/ ReadRow(r) \/ GetCached(r)
    BY <1>3, <2>2 DEF FindWallet, InsertWallet, ReadRow, GetCached, Goto, Return
  <2>3. CASE ReadWallet(r) \/ CheckKey(r) \/ ReadFrom(r) \/ ReadTo(r)
    BY <1>3, <2>3 DEF ReadWallet, CheckKey, ReadFrom, ReadTo, Goto, Return
  <2>4. CASE FreshFrom(r) \/ UpdateFrom(r) \/ FreshTo(r) \/ UpdateTo(r)
    BY <1>3, <2>4 DEF FreshFrom, UpdateFrom, FreshTo, UpdateTo, UpdateRow, Rollback, Goto, Return
  <2>5. CASE InsertTxn(r) \/ Commit(r) \/ DeadlockAbort(r)
    BY <1>3, <2>5 DEF InsertTxn, Commit, DeadlockAbort, Rollback, Goto, Return
  <2>6. CASE CacheBalance(r) \/ EmitKafkaEvent(r) \/ Respond(r) \/ FaultStep(r)
    BY <1>3, <2>6 DEF CacheBalance, EmitKafkaEvent, Respond, FaultStep, CacheBalanceFails,
       EmitKafkaEventFails, TxTimeout, Crash, Goto, Return
  <2> QED BY <1>3, <2>1, <2>2, <2>3, <2>4, <2>5, <2>6 DEF Step
<1>4. CASE Submit(x)
  BY <1>4, WalletAssumption DEF Submit, Goto, Entry, InTx, Request, AllKinds
<1>5. CASE FindWallet(x) \/ InsertWallet(x) \/ ReadRow(x) \/ GetCached(x)
  BY <1>5 DEF FindWallet, InsertWallet, ReadRow, GetCached, Goto, Return, InTx
<1>6. CASE ReadWallet(x) \/ CheckKey(x) \/ ReadFrom(x)
  BY <1>6 DEF ReadWallet, CheckKey, ReadFrom, Goto, Return, InTx
<1>7. CASE ReadTo(x)
  BY <1>7 DEF ReadTo, At, Goto, Return, InTx, dbVars, Locals
<1>8. CASE FreshFrom(x) \/ UpdateFrom(x) \/ FreshTo(x) \/ UpdateTo(x) \/ InsertTxn(x)
  <2>1. pc[x] \in InTx /\ req' = req
    BY <1>8 DEF FreshFrom, UpdateFrom, FreshTo, UpdateTo, UpdateRow, InsertTxn, At, Rollback, InTx
  <2>2. \A cause \in Aborted : ~Rollback(x, cause)
    BY DEF Rollback, Return, Goto, InTx, Aborted
  <2>3. local' = local \/ (\E row : local' = [local EXCEPT ![x].freshFrom = row])
        \/ (\E row : local' = [local EXCEPT ![x].freshTo = row])
    BY <1>8, <2>2 DEF FreshFrom, UpdateFrom, FreshTo, UpdateTo, UpdateRow, InsertTxn, Aborted
  <2>4. local[x] \in Locals
    OBVIOUS
  <2>5. local'[x].to = local[x].to
    BY <2>3, <2>4 DEF Locals
  <2> QED BY <2>1, <2>5
<1>9. CASE Commit(x) \/ DeadlockAbort(x) \/ TxTimeout(x) \/ Crash(x)
  BY <1>9 DEF Commit, DeadlockAbort, TxTimeout, Crash, Rollback, Return, Goto, InTx
<1>10. CASE CacheBalance(x) \/ EmitKafkaEvent(x) \/ Respond(x) \/ CacheBalanceFails(x)
            \/ EmitKafkaEventFails(x)
  BY <1>10 DEF CacheBalance, EmitKafkaEvent, Respond, CacheBalanceFails, EmitKafkaEventFails,
     Goto, InTx, After
<1> QED
  BY <1>1, <1>2, <1>3, <1>4, <1>5, <1>6, <1>7, <1>8, <1>9, <1>10 DEF Next, Step, FaultStep

\* The balance a transfer credits on top of is one its destination had.
LEMMA PastStep ==
  ASSUME TypeInv, GuardInv, AuditEndsAtBalance, PastInv, [Next]_vars
  PROVE  PastInv'
<1> SUFFICES ASSUME NEW x \in Requests, pc'[x] \in InTx, req'[x].kind = "transfer"
             PROVE  \E n \in 0..Len(audit'[req'[x].to]) :
                      local'[x].to = BalanceAfter(req[x].to, n)'
  BY DEF PastInv
<1>1. req'[x] = req[x] /\ pc[x] # "idle"
  BY EntersTx DEF InTx
<1>2. PICK v \in Wallets : v = req[x].to
  BY <1>1, RunningRequest DEF TypeInv
<1>3. \E n \in 0..Len(audit[v]) : local'[x].to = BalanceAfter(v, n)
  <2>1. CASE pc[x] \in InTx /\ local'[x].to = local[x].to
    BY <1>1, <1>2, <2>1 DEF PastInv
  <2>2. CASE local'[x].to = wallet[v].balance
    <3>1. Len(audit[v]) \in 0..Len(audit[v])
      BY <1>2 DEF TypeInv, TypeOK
    <3> QED BY <1>2, <2>2, <3>1 DEF AuditEndsAtBalance, EndsAtBalance
  <2> QED BY <1>2, <2>1, <2>2, EntersTx
<1>4. PICK n \in 0..Len(audit[v]) : local'[x].to = BalanceAfter(v, n)
  BY <1>3
<1>5. n \in 0..Len(audit'[v]) /\ BalanceAfter(v, n)' = BalanceAfter(v, n)
  BY PastStays
<1> QED BY <1>1, <1>2, <1>4, <1>5 DEF BalanceAfter, StartBalance

\* Only the credit of a transfer starts at another balance than the last one.
LEMMA GapStep ==
  ASSUME TypeInv, GuardInv, AuditEndsAtBalance, OnlyCreditsMayGap, PastInv, [Next]_vars
  PROVE  OnlyCreditsMayGap'
<1>1. ASSUME NEW w \in Wallets, NEW i \in 1..Len(audit[w]) PROVE Continues(w, i)'
  <2>1. Continues(w, i) /\ audit[w] \in Seq(AuditEntry)
    BY DEF OnlyCreditsMayGap, TypeInv, TypeOK
  <2>2. /\ \A n \in 0..(i - 1) : n \in 0..Len(audit[w])
        /\ i \in 0..Len(audit[w]) /\ i - 1 \in 0..Len(audit[w]) /\ i # 0
    BY <2>1
  <2>3. audit'[w][i] = audit[w][i]
    BY <2>2, PastStays
  <2>4. \A n \in 0..(i - 1) : BalanceAfter(w, n)' = BalanceAfter(w, n)
    BY <2>2, PastStays
  <2>5. i - 1 \in 0..(i - 1)
    BY <2>1
  <2> QED BY <2>1, <2>3, <2>4, <2>5 DEF Continues
<1>2. ASSUME NEW w \in Wallets, audit'[w] # audit[w] PROVE Continues(w, Len(audit[w]))'
  <2>1. PICK r \in Requests : Commit(r)
    BY <1>2, TablesChange DEF InsertWallet
  <2>2. PICK e \in AuditEntry :
          /\ Logs(w, e) /\ w \in {req[r].from, req[r].to}
          /\ IF e.operation = "CREDIT"
             THEN req[r].kind = "transfer" /\ w = req[r].to /\ e.previous = local[r].to
             ELSE e.previous = wallet[w].balance
    BY <1>2, <2>1, CommitLogs
  <2> DEFINE len == Len(audit[w])
  <2>3. /\ len \in Nat /\ Len(audit'[w]) = len + 1 /\ audit'[w][len + 1] = e
    BY <2>2, AppendKeeps DEF Logs, TypeInv, TypeOK
  <2>4. \A n \in 0..len : BalanceAfter(w, n)' = BalanceAfter(w, n)
    BY PastStays
  <2>5. len \in 0..len /\ Len(audit'[w]) - 1 = len
    BY <2>3
  <2>6. CASE e.operation = "CREDIT"
    <3>1. pc[r] \in InTx
      BY <2>1 DEF Commit, At, InTx
    <3>2. \E n \in 0..len : e.previous = BalanceAfter(w, n)
      BY <2>2, <2>6, <3>1 DEF PastInv
    <3> QED BY <2>3, <2>4, <2>5, <2>6, <3>2 DEF Continues
  <2>7. CASE e.operation # "CREDIT"
    <3>1. e.previous = BalanceAfter(w, len)
      BY <2>2, <2>7 DEF AuditEndsAtBalance, EndsAtBalance
    <3> QED BY <2>3, <2>4, <2>5, <2>7, <3>1 DEF Continues
  <2> QED BY <2>6, <2>7
<1>3. ASSUME NEW w \in Wallets, NEW i \in 1..Len(audit'[w])
      PROVE  i \in 1..Len(audit[w]) \/ (audit'[w] # audit[w] /\ i = Len(audit'[w]))
  <2>1. CASE audit'[w] = audit[w]
    BY <2>1
  <2>2. ASSUME NEW e \in AuditEntry, Logs(w, e)
        PROVE  i \in 1..Len(audit[w]) \/ (audit'[w] # audit[w] /\ i = Len(audit'[w]))
    <3>1. Len(audit[w]) \in Nat /\ Len(audit'[w]) = Len(audit[w]) + 1
      BY <2>2, AppendKeeps DEF Logs, TypeInv, TypeOK
    <3> QED BY <3>1
  <2> QED BY <2>1, <2>2, LogsGrow
<1>4. ASSUME NEW w \in Wallets, NEW i \in 1..Len(audit'[w]) PROVE Continues(w, i)'
  <2>1. CASE i \in 1..Len(audit[w])
    BY <1>1, <2>1
  <2>2. CASE audit'[w] # audit[w] /\ i = Len(audit'[w])
    BY <1>2, <2>2 DEF Continues
  <2> QED BY <1>3, <2>1, <2>2
<1> QED BY <1>4 DEF OnlyCreditsMayGap

-----------------------------------------------------------------------------
(* Events *)

\* What is still to be cached or sent shrinks, but for a commit, a creation and
\* a cache miss, and of these only a commit has events to send.
LEMMA PendingGrows ==
  ASSUME TypeInv, [Next]_vars, NEW x \in Requests, NEW e \in todo'[x], e \in [topic: Topics]
  PROVE  e \in todo[x] \/ (Commit(x) /\ e \in PostCommit(x))
<1> USE DEF TypeInv, TypeOK
<1>1. CASE UNCHANGED todo
  BY <1>1
<1>2. CASE UNCHANGED vars
  BY <1>1, <1>2 DEF vars
<1>3. CASE (\E w \in Wallets : ExpireBalance(w)) \/ (\E k \in Keys : ExpireKey(k))
  BY <1>1, <1>3 DEF ExpireBalance, ExpireKey
<1>4. ASSUME NEW v, NEW b PROVE e # [wallet |-> v, balance |-> b]
  <2>1. DOMAIN e = {"topic"}
    OBVIOUS
  <2>2. DOMAIN [wallet |-> v, balance |-> b] = {"wallet", "balance"}
    OBVIOUS
  <2> QED BY <2>1, <2>2
<1>5. ASSUME NEW r \in Requests, Submit(r) \/ Step(r) \/ FaultStep(r) \/ DeadlockAbort(r)
      PROVE  e \in todo[x] \/ (Commit(x) /\ e \in PostCommit(x))
  <2>1. CASE InsertWallet(r) \/ GetCached(r)
    <3>1. todo' = todo \/ \E v, b : todo' = [todo EXCEPT ![r] = {[wallet |-> v, balance |-> b]}]
      BY <2>1 DEF InsertWallet, GetCached
    <3>2. ASSUME NEW v, NEW b, todo' = [todo EXCEPT ![r] = {[wallet |-> v, balance |-> b]}]
          PROVE  e \in todo[x]
      <4> DEFINE cached == [wallet |-> v, balance |-> b]
      <4>1. e # cached
        BY <1>4
      <4> HIDE DEF cached
      <4>2. todo'[x] = IF x = r THEN {cached} ELSE todo[x]
        BY <3>2 DEF cached
      <4> QED BY <4>1, <4>2
    <3> QED BY <1>1, <3>1, <3>2
  <2>2. CASE Commit(r)
    <3>1. todo' = [todo EXCEPT ![r] = PostCommit(r)]
      BY <2>2 DEF Commit
    <3> QED BY <2>2, <3>1
  <2>3. CASE CacheBalance(r) \/ EmitKafkaEvent(r) \/ FaultStep(r)
    BY <2>3 DEF CacheBalance, EmitKafkaEvent, FaultStep, CacheBalanceFails, EmitKafkaEventFails,
       TxTimeout, Crash
  <2>4. CASE Submit(r) \/ FindWallet(r) \/ ReadRow(r) \/ ReadWallet(r) \/ CheckKey(r)
             \/ ReadFrom(r) \/ ReadTo(r) \/ Respond(r)
    BY <1>1, <2>4 DEF Submit, FindWallet, ReadRow, ReadWallet, CheckKey, ReadFrom, ReadTo, Respond
  <2>5. CASE FreshFrom(r) \/ UpdateFrom(r) \/ FreshTo(r) \/ UpdateTo(r) \/ InsertTxn(r)
             \/ DeadlockAbort(r)
    BY <1>1, <2>5 DEF FreshFrom, UpdateFrom, FreshTo, UpdateTo, UpdateRow, InsertTxn,
       DeadlockAbort, Rollback
  <2> QED BY <1>5, <2>1, <2>2, <2>3, <2>4, <2>5 DEF Step
<1> QED BY <1>2, <1>3, <1>5 DEF Next

\* A message is one that was accepted before, or was to be sent.
LEMMA EventsGrow ==
  ASSUME [Next]_vars, NEW m \in events', m \notin events
  PROVE  \E r \in Requests : \E e \in todo[r] \cap [topic: Topics] :
           m = [topic |-> e.topic, txn |-> r]
<1>1. ASSUME NEW r \in Requests, Submit(r) \/ Step(r) \/ FaultStep(r) \/ DeadlockAbort(r)
      PROVE  UNCHANGED events \/ EmitKafkaEvent(r)
  <2>1. CASE Submit(r) \/ FindWallet(r) \/ InsertWallet(r) \/ ReadRow(r) \/ GetCached(r)
             \/ ReadWallet(r) \/ CheckKey(r) \/ ReadFrom(r) \/ ReadTo(r)
    BY <2>1 DEF Submit, FindWallet, InsertWallet, ReadRow, GetCached, ReadWallet, CheckKey,
       ReadFrom, ReadTo
  <2>2. CASE FreshFrom(r) \/ UpdateFrom(r) \/ FreshTo(r) \/ UpdateTo(r) \/ InsertTxn(r)
             \/ DeadlockAbort(r)
    BY <2>2 DEF FreshFrom, UpdateFrom, FreshTo, UpdateTo, UpdateRow, InsertTxn, DeadlockAbort,
       Rollback
  <2>3. CASE Commit(r) \/ CacheBalance(r) \/ Respond(r) \/ FaultStep(r)
    BY <2>3 DEF Commit, CacheBalance, Respond, FaultStep, CacheBalanceFails,
       EmitKafkaEventFails, TxTimeout, Crash
  <2> QED BY <1>1, <2>1, <2>2, <2>3 DEF Step
<1>2. PICK r \in Requests : EmitKafkaEvent(r)
  BY <1>1 DEF Next, vars, ExpireBalance, ExpireKey
<1> QED BY <1>2 DEF EmitKafkaEvent

\* An event is only sent by a request whose transaction is in the table.
LEMMA EventStep ==
  ASSUME TypeInv, GuardInv, UniqueInv, EventInv, [Next]_vars
  PROVE  EventInv'
<1> USE DEF EventInv
<1>1. \A r, topic : Backed(r, topic) => Backed(r, topic)'
  <2>1. txns \subseteq txns'
    BY TablesChange DEF InsertWallet, Commit
  <2> QED BY <2>1 DEF Backed
<1>2. ASSUME NEW r \in Requests, NEW e \in PostCommit(r) \cap [topic: Topics], Commit(r)
      PROVE  Backed(r, e.topic)'
  <2>1. PICK u \in Txn : Adds(r, u)
    BY <1>2, CommitAdds
  <2>2. e.topic = "wallet.debited" => req[r].kind = "transfer"
    <3>1. CASE req[r].kind = "topUp"
      BY <1>2, <3>1 DEF PostCommit
    <3>2. CASE req[r].kind # "topUp"
      BY <1>2, <3>2, CommitWrites DEF GuardInv
    <3> QED BY <3>1, <3>2
  <2>3. req[r].kind = "transfer" => req[r].from # None
    <3>1. req[r].kind = "transfer" => req[r].from \in Wallets
      BY <1>2, CommitWrites DEF GuardInv
    <3> QED BY <3>1, WalletAssumption
  <2> QED BY <2>1, <2>2, <2>3 DEF Backed, Adds
<1>3. PendingInv'
  BY <1>1, <1>2, PendingGrows DEF PendingInv
<1>4. EventsAreTrue'
  BY <1>1, EventsGrow DEF EventsAreTrue, PendingInv
<1> QED BY <1>3, <1>4

-----------------------------------------------------------------------------
(* The inductive invariant *)

\* Nothing is recorded yet.
LEMMA RecordInit == Init => RecordInv
<1> SUFFICES ASSUME Init PROVE RecordInv
  OBVIOUS
<1> USE WalletAssumption DEF Init
<1>1. OpenInv
  BY DEF OpenInv, Exists
<1>2. KeyInv
  BY DEF KeyInv, UniqueInv, OncePerKey
<1>3. AuditMatchesTransactions
  BY DEF AuditMatchesTransactions
<1>4. AuditEndsAtBalance
  BY DEF AuditEndsAtBalance, EndsAtBalance, Exists, BalanceAfter, StartBalance, Absent
<1>5. OnlyCreditsMayGap
  BY DEF OnlyCreditsMayGap
<1>6. PastInv
  BY DEF PastInv, InTx
<1>7. EventInv
  BY DEF EventInv, PendingInv, EventsAreTrue
<1> QED BY <1>1, <1>2, <1>3, <1>4, <1>5, <1>6, <1>7 DEF RecordInv, AuditInv

\* A step keeps the records, part by part.
LEMMA RecordStep ==
  TypeInv /\ TypeInv' /\ GuardInv /\ RecordInv /\ [Next]_vars => RecordInv'
BY KeyStep, MatchStep, EndsStep, GapStep, PastStep, EventStep DEF RecordInv, AuditInv, KeyInv

\* The whole inductive invariant holds, whatever the requests, keys and faults.
THEOREM Recorded == Spec => []IInv
<1>1. Init => TypeInv /\ GuardInv /\ RecordInv
  BY TypeInit, GuardInit, RecordInit
<1>2. TypeInv /\ GuardInv /\ RecordInv /\ [Next]_vars => (TypeInv /\ GuardInv /\ RecordInv)'
  BY TypeStep, GuardStep, RecordStep
<1>3. TypeInv /\ GuardInv /\ RecordInv => IInv
  BY DEF TypeInv, GuardInv, RecordInv, KeyInv, AuditInv, EventInv, IInv
<1> QED BY <1>1, <1>2, <1>3, PTL DEF Spec

\* However often a key is sent, and whatever crashes, one request commits under it
\* and it commits once.
THEOREM CommitsOncePerKey == Spec => []OncePerKey
<1>1. IInv => OncePerKey
  BY DEF IInv
<1> QED BY <1>1, Recorded, PTL

\* The audit log and the transactions table have the same story to tell.
THEOREM AuditTellsTransactions == Spec => []AuditMatchesTransactions
<1>1. IInv => AuditMatchesTransactions
  BY DEF IInv
<1> QED BY <1>1, Recorded, PTL

\* The audit log of a wallet ends at its balance, and has a row for every version.
THEOREM AuditTellsBalance == Spec => []AuditEndsAtBalance
<1>1. IInv => AuditEndsAtBalance
  BY DEF IInv
<1> QED BY <1>1, Recorded, PTL

\* Only the credit of a transfer may overwrite an update it has not seen.
THEOREM DebitsAndTopUpsLoseNothing == Spec => []OnlyCreditsMayGap
<1>1. IInv => OnlyCreditsMayGap
  BY DEF IInv
<1> QED BY <1>1, Recorded, PTL

\* No event announces money that did not move.
THEOREM EventsTellTransactions == Spec => []EventsAreTrue
<1>1. IInv => EventsAreTrue
  BY DEF IInv
<1> QED BY <1>1, Recorded, PTL

-----------------------------------------------------------------------------
(* A wallet is created once *)

\* Only createWallet inserts, and only getBalance fills the cache on a miss.
LineInv ==
  \A r \in Requests :
    /\ pc[r] \in {"findWallet", "insertWallet"} => req[r].kind = "createWallet"
    /\ pc[r] \in {"readRow", "getCached"} => req[r].kind = "getBalance"

\* A wallet that a request has created exists.
CreatedInv ==
  /\ LineInv /\ CreatedOnce
  /\ \A w \in Wallets : Creators(w) # {} => Exists(w)

\* The places of a request that has changed a table, but a crash.
Answered == After \cup {"ok", "error"}

\* A wallet that exists goes on existing: rows are never deleted, versions grow.
LEMMA ExistsStays ==
  ASSUME TypeInv, TypeInv', [Next]_vars, NEW w \in Wallets, Exists(w)
  PROVE  Exists(w)'
<1> USE DEF TypeInv, TypeOK, Exists
<1>1. CASE UNCHANGED wallet
  BY <1>1
<1>2. ASSUME NEW r \in Requests, InsertWallet(r) PROVE Exists(w)'
  BY <1>2 DEF InsertWallet
<1>3. ASSUME NEW r \in Requests, Commit(r) PROVE Exists(w)'
  <2>1. local[r].freshFrom.version \in Nat /\ local[r].freshTo.version \in Nat
    BY DEF Locals, Row
  <2>2. wallet'[w].version \in {local[r].freshFrom.version + 1, local[r].freshTo.version + 1,
                               wallet[w].version}
    BY <1>3 DEF Commit
  <2> QED BY <2>1, <2>2
<1> QED BY <1>1, <1>2, <1>3, TablesChange

\* What a step does to the place of a request: it is sent, it moves on within its
\* operation, or it comes to the answer by one of the ways the code has for it.
LEMMA PlaceChanges ==
  ASSUME TypeInv, LineInv, [Next]_vars, NEW x \in Requests
  PROVE  \/ pc'[x] = pc[x] /\ req'[x] = req[x]
         \/ Submit(x)
         \/ req'[x] = req[x] /\ FindWallet(x)
         \/ req'[x] = req[x] /\ ReadRow(x)
         \/ /\ req'[x] = req[x]
            /\ pc'[x] \notin {"findWallet", "insertWallet", "readRow", "getCached"}
            /\ \/ pc'[x] \notin Answered \/ pc[x] \in Answered \/ InsertWallet(x)
               \/ req[x].kind = "getBalance" \/ Commit(x)
<1> USE DEF TypeInv, TypeOK
<1>1. CASE UNCHANGED vars
  BY <1>1 DEF vars
<1>2. CASE (\E w \in Wallets : ExpireBalance(w)) \/ (\E k \in Keys : ExpireKey(k))
  BY <1>2 DEF ExpireBalance, ExpireKey
<1>3. ASSUME NEW r \in Requests, r # x, Submit(r) \/ Step(r) \/ FaultStep(r) \/ DeadlockAbort(r)
      PROVE  pc'[x] = pc[x] /\ req'[x] = req[x]
  <2>1. pc' = pc \/ \E s : Goto(r, s)
    BY <1>3 DEF Step, FaultStep, Submit, FindWallet, InsertWallet, ReadRow, GetCached,
       ReadWallet, CheckKey, ReadFrom, ReadTo, FreshFrom, UpdateFrom, FreshTo, UpdateTo,
       UpdateRow, InsertTxn, Commit, CacheBalance, EmitKafkaEvent, Respond, CacheBalanceFails,
       EmitKafkaEventFails, TxTimeout, Crash, DeadlockAbort, Rollback, Return
  <2>2. req' = req \/ \E q : req' = [req EXCEPT ![r] = q]
    BY <1>3 DEF Step, FaultStep, Submit, FindWallet, InsertWallet, ReadRow, GetCached,
       ReadWallet, CheckKey, ReadFrom, ReadTo, FreshFrom, UpdateFrom, FreshTo, UpdateTo,
       UpdateRow, InsertTxn, Commit, CacheBalance, EmitKafkaEvent, Respond, CacheBalanceFails,
       EmitKafkaEventFails, TxTimeout, Crash, DeadlockAbort, Rollback
  <2> QED BY <1>3, <2>1, <2>2 DEF Goto
<1>4. ASSUME Step(x) \/ FaultStep(x) \/ DeadlockAbort(x) PROVE req'[x] = req[x]
  BY <1>4 DEF Step, FaultStep, FindWallet, InsertWallet, ReadRow, GetCached,
     ReadWallet, CheckKey, ReadFrom, ReadTo, FreshFrom, UpdateFrom, FreshTo, UpdateTo,
     UpdateRow, InsertTxn, Commit, CacheBalance, EmitKafkaEvent, Respond, CacheBalanceFails,
     EmitKafkaEventFails, TxTimeout, Crash, DeadlockAbort, Rollback
<1> DEFINE Elsewhere == pc'[x] \notin {"findWallet", "insertWallet", "readRow", "getCached"}
<1>5. InsertWallet(x) \/ Commit(x) => Elsewhere
  BY DEF InsertWallet, Commit, Return, Goto
<1>6. GetCached(x) => Elsewhere /\ req[x].kind = "getBalance"
  BY DEF GetCached, Return, Goto, At, LineInv
<1>7. ReadWallet(x) \/ CheckKey(x) \/ ReadFrom(x) \/ ReadTo(x) \/ FreshFrom(x) \/ UpdateFrom(x)
      \/ FreshTo(x) \/ UpdateTo(x) \/ InsertTxn(x) \/ TxTimeout(x) \/ Crash(x) \/ DeadlockAbort(x)
      => Elsewhere /\ pc'[x] \notin Answered
  BY DEF ReadWallet, CheckKey, ReadFrom, ReadTo, FreshFrom, UpdateFrom, FreshTo, UpdateTo,
     UpdateRow, InsertTxn, TxTimeout, Crash, DeadlockAbort, Rollback, Return, Goto, Answered, After
<1>8. CacheBalance(x) \/ EmitKafkaEvent(x) \/ Respond(x) \/ CacheBalanceFails(x)
      \/ EmitKafkaEventFails(x) => Elsewhere /\ pc[x] \in Answered
  BY DEF CacheBalance, EmitKafkaEvent, Respond, CacheBalanceFails, EmitKafkaEventFails, Goto,
     Answered, After
<1>9. ASSUME Submit(x) \/ Step(x) \/ FaultStep(x) \/ DeadlockAbort(x)
      PROVE  \/ Submit(x)
             \/ req'[x] = req[x] /\ FindWallet(x)
             \/ req'[x] = req[x] /\ ReadRow(x)
             \/ /\ req'[x] = req[x] /\ Elsewhere
                /\ \/ pc'[x] \notin Answered \/ pc[x] \in Answered \/ InsertWallet(x)
                   \/ req[x].kind = "getBalance" \/ Commit(x)
  BY <1>4, <1>5, <1>6, <1>7, <1>8, <1>9 DEF Step, FaultStep
<1> QED BY <1>1, <1>2, <1>3, <1>9 DEF Next

\* A handler keeps to the lines of its operation.
LEMMA LineStep == ASSUME TypeInv, LineInv, [Next]_vars PROVE LineInv'
<1> SUFFICES ASSUME NEW x \in Requests
             PROVE  /\ pc'[x] \in {"findWallet", "insertWallet"} => req'[x].kind = "createWallet"
                    /\ pc'[x] \in {"readRow", "getCached"} => req'[x].kind = "getBalance"
  BY DEF LineInv
<1> USE DEF TypeInv, TypeOK
<1>1. CASE Submit(x)
  <2>1. PICK q \in Request : WellFormed(q) /\ req' = [req EXCEPT ![x] = q]
                             /\ Goto(x, IF q.key \in idem THEN "conflict" ELSE Entry(q.kind))
    BY <1>1 DEF Submit
  <2>2. q.kind \in {"createWallet", "getBalance", "topUp", "transfer"}
    BY <2>1, WalletAssumption DEF Request, AllKinds
  <2> QED BY <2>1, <2>2 DEF Goto, Entry
<1>2. CASE req'[x] = req[x] /\ FindWallet(x)
  BY <1>2 DEF FindWallet, Return, Goto, At, LineInv
<1>3. CASE req'[x] = req[x] /\ ReadRow(x)
  BY <1>3 DEF ReadRow, Return, Goto, At, LineInv
<1> QED BY <1>1, <1>2, <1>3, PlaceChanges DEF LineInv

\* A request creates a wallet by inserting it where there is none.
LEMMA CreatorInserts ==
  ASSUME TypeInv, LineInv, [Next]_vars, NEW w \in Wallets, NEW x \in Creators(w)'
  PROVE  x \in Creators(w) \/ (InsertWallet(x) /\ ~Exists(w) /\ req[x].to = w)
<1> USE DEF TypeInv, TypeOK
<1>1. x \in Requests /\ req'[x].kind = "createWallet" /\ req'[x].to = w /\ pc'[x] \in Answered
  BY DEF Creators, Answered
<1>2. ~Submit(x)
  BY <1>1 DEF Submit, Goto, Entry, Answered, After, Request
<1>3. ~FindWallet(x) /\ ~ReadRow(x)
  BY <1>1 DEF FindWallet, ReadRow, Return, Goto, Answered, After
<1>4. ~Commit(x) \/ req'[x] # req[x]
  <2>1. ASSUME Commit(x) PROVE req[x].kind # "createWallet"
    BY <1>1, <2>1 DEF Commit, At, RequestInv, AtLine, InTx
  <2> QED BY <1>1, <2>1
<1>5. InsertWallet(x) /\ pc'[x] \in Answered => ~Exists(req[x].to)
  BY <1>1 DEF InsertWallet, Goto, Answered, After
<1> QED BY <1>1, <1>2, <1>3, <1>4, <1>5, PlaceChanges DEF Creators, Answered

\* Whoever inserts a wallet is its only creator.
LEMMA CreatedStep ==
  ASSUME TypeInv, TypeInv', OpenInv, CreatedInv, [Next]_vars
  PROVE  CreatedInv'
<1> USE DEF CreatedInv
<1>1. LineInv'
  BY LineStep
<1>2. ASSUME NEW w \in Wallets, NEW x \in Creators(w)' PROVE Exists(w)'
  <2>1. CASE x \in Creators(w)
    BY <2>1, ExistsStays
  <2>2. CASE InsertWallet(x) /\ ~Exists(w) /\ req[x].to = w
    BY <2>2 DEF InsertWallet, Exists, TypeInv, TypeOK
  <2> QED BY <2>1, <2>2, CreatorInserts
<1>3. ASSUME NEW w \in Wallets, NEW x \in Creators(w)', NEW y \in Creators(w)' PROVE x = y
  <2>1. CASE x \in Creators(w) /\ y \in Creators(w)
    BY <2>1 DEF CreatedOnce
  <2>2. CASE InsertWallet(x) /\ InsertWallet(y) /\ ~Exists(w) /\ req[x].to = w /\ req[y].to = w
    BY <2>2 DEF InsertWallet, At, Goto, TypeInv, TypeOK, Creators
  <2> QED BY <2>1, <2>2, CreatorInserts
<1>4. ASSUME NEW w \in OpenWallets PROVE Creators(w)' = {}
  <2>1. w \in Wallets /\ Exists(w)
    BY WalletAssumption DEF OpenInv
  <2> QED BY <2>1, CreatorInserts DEF CreatedOnce
<1> QED BY <1>1, <1>2, <1>3, <1>4 DEF CreatedOnce

\* Of the requests that create one wallet, also at once and with crashes in between,
\* one succeeds.
THEOREM WalletsCreatedOnce == Spec => []CreatedOnce
<1>1. Init => CreatedInv
  BY DEF Init, CreatedInv, LineInv, CreatedOnce, Creators, After
<1>2. IInv /\ IInv' /\ CreatedInv /\ [Next]_vars => CreatedInv'
  BY CreatedStep DEF IInv, TypeInv
<1>3. CreatedInv => CreatedOnce
  BY DEF CreatedInv
<1> QED BY <1>1, <1>2, <1>3, Recorded, PTL DEF Spec

-----------------------------------------------------------------------------
(* The refinement of the ledger *)

\* What a commit appends to the audit logs, and the rows it writes.
LEMMA CommitTables ==
  ASSUME TypeInv, TypeInv', GuardInv, NEW r \in Requests, Commit(r)
  PROVE  LET q == req[r]
             credit == Ledger!Entry(r, IF q.kind = "transfer" THEN "CREDIT" ELSE "TOP_UP",
                                    CreditBase(r), CreditBase(r) + q.amount)
         IN  IF q.kind = "transfer"
             THEN LET old == wallet[q.from].balance IN
                  /\ wallet' = [wallet EXCEPT ![q.from] = Ledger!Set(q.from, old - q.amount),
                                   ![q.to] = Ledger!Set(q.to, CreditBase(r) + q.amount)]
                  /\ audit' = [audit EXCEPT
                       ![q.from] = Append(@, Ledger!Entry(r, "DEBIT", old, old - q.amount)),
                       ![q.to]   = Append(@, credit)]
             ELSE /\ wallet' = [wallet EXCEPT ![q.to] = Ledger!Set(q.to, CreditBase(r) + q.amount)]
                  /\ audit' = [audit EXCEPT ![q.to] = Append(@, credit)]
<1> DEFINE q == req[r]
           credit == [txn |-> r, operation |-> IF q.kind = "transfer" THEN "CREDIT" ELSE "TOP_UP",
                      previous |-> CreditBase(r), new |-> CreditBase(r) + q.amount]
           debit == [txn |-> r, operation |-> "DEBIT", previous |-> wallet[q.from].balance,
                     new |-> wallet[q.from].balance - q.amount]
<1>1. /\ q.to \in Wallets /\ q.kind \in {"topUp", "transfer"} /\ q.amount \in Nat \ {0}
      /\ q.kind = "transfer" => q.from \in Wallets
      /\ q.kind = "topUp" => q.from = None
      /\ q.from # q.to
      /\ wallet'[q.to] = [balance |-> NewTo(r), version |-> wallet[q.to].version + 1]
      /\ q.kind = "transfer" =>
           /\ wallet[q.from] = local[r].freshFrom
           /\ wallet'[q.from] = [balance |-> wallet[q.from].balance - q.amount,
                                 version |-> wallet[q.from].version + 1]
      /\ \A v \in Wallets \ {q.from, q.to} : wallet'[v] = wallet[v]
  BY CommitWrites DEF GuardInv
<1>2. /\ wallet \in [Wallets -> Row] /\ wallet' \in [Wallets -> Row]
      /\ audit \in [Wallets -> Seq(AuditEntry)] /\ local[r] \in Locals
  BY DEF TypeInv, TypeOK
<1>3. audit' = [w \in Wallets |-> audit[w] \o Entries(r, w)]
  BY DEF Commit
<1>4. credit \in AuditEntry
  <2>1. CreditBase(r) \in Int /\ CreditBase(r) + q.amount \in Int
    <3>1. CreditBase(r) \in Int
      BY <1>2 DEF CreditBase, Locals, Row
    <3> QED BY <1>1, <3>1
  <2>2. IF q.kind = "transfer" THEN credit.operation = "CREDIT" ELSE credit.operation = "TOP_UP"
    OBVIOUS
  <2> HIDE DEF q
  <2> QED BY <2>1, <2>2 DEF AuditEntry
<1>5. audit[q.to] \o Entries(r, q.to) = Append(audit[q.to], credit)
  BY <1>1, <1>2, <1>4, ConcatAppends DEF Entries, NewTo
<1>6. \A w \in Wallets \ {q.from, q.to} : audit[w] \o Entries(r, w) = audit[w]
  BY <1>1, <1>2, ConcatEmpty DEF Entries
<1>7. CASE q.kind = "transfer"
  <2>1. debit \in AuditEntry
    BY <1>1, <1>2, <1>7 DEF AuditEntry, Row
  <2>2. audit[q.from] \o Entries(r, q.from) = Append(audit[q.from], debit)
    BY <1>1, <1>2, <1>7, <2>1, ConcatAppends DEF Entries, NewFrom
  <2>3. audit' = [audit EXCEPT ![q.from] = Append(@, debit), ![q.to] = Append(@, credit)]
    <3> HIDE DEF q, credit, debit
    <3> QED BY <1>1, <1>2, <1>3, <1>5, <1>6, <1>7, <2>2
  <2>4. wallet' = [wallet EXCEPT ![q.from] = Ledger!Set(q.from, wallet[q.from].balance - q.amount),
                                 ![q.to] = Ledger!Set(q.to, CreditBase(r) + q.amount)]
    <3> HIDE DEF q, credit, debit
    <3> QED BY <1>1, <1>2, <1>7 DEF Ledger!Set, NewTo, q
  <2> QED BY <1>7, <2>3, <2>4 DEF Ledger!Entry
<1>8. CASE q.kind = "topUp"
  <2>1. \A w \in Wallets \ {q.to} : w # q.from
    BY <1>1, <1>8, WalletAssumption
  <2>2. audit' = [audit EXCEPT ![q.to] = Append(@, credit)]
    <3> HIDE DEF q, credit, debit
    <3> QED BY <1>1, <1>2, <1>3, <1>5, <1>6, <2>1
  <2>3. wallet' = [wallet EXCEPT ![q.to] = Ledger!Set(q.to, CreditBase(r) + q.amount)]
    <3> HIDE DEF q, credit, debit
    <3> QED BY <1>1, <1>2, <2>1 DEF Ledger!Set, NewTo, q
  <2> QED BY <1>8, <2>2, <2>3 DEF Ledger!Entry
<1> QED BY <1>1, <1>7, <1>8

\* A commit is one atomic top-up or transfer of the ledger.
LEMMA CommitIsAtomic ==
  ASSUME TypeInv, TypeInv', GuardInv, RecordInv, NEW r \in Requests, Commit(r)
  PROVE  Ledger!Next
<1> DEFINE q == req[r]
<1>1. /\ q.to \in Wallets /\ q.kind \in {"topUp", "transfer"} /\ q.key \in Keys
      /\ q.kind = "transfer" => q.from \in Wallets
      /\ q.kind = "topUp" => q.from = None
      /\ q.from # q.to /\ pc[r] = "commit" /\ wallet[q.to] = local[r].freshTo
      /\ q.kind = "transfer" => wallet[q.from] = local[r].freshFrom
  BY CommitWrites DEF GuardInv
<1>2. q.amount \in Amounts /\ q.currency \in Currencies
  BY <1>1, RunningRequest DEF TypeInv, Request, WellFormed
<1>3. Ledger!Fresh(r, q.key)
  BY CommitAdds DEF RecordInv, KeyInv, Adds, Ledger!Fresh
<1>4. Ledger!Exists(q.to) /\ (q.kind = "transfer" => Ledger!Exists(q.from))
  BY <1>1 DEF GuardInv, ExistInv, WalletsExist, InTx, Exists, Ledger!Exists
<1>5. txns' = txns \cup {[id |-> r, key |-> q.key, from |-> q.from, to |-> q.to,
                          amount |-> q.amount, currency |-> q.currency]}
  BY DEF Commit
<1>6. CASE q.kind = "topUp"
  <2>1. Ledger!TopUp(r, q.key, q.to, q.amount, q.currency)
    BY <1>1, <1>3, <1>4, <1>5, <1>6, CommitTables DEF Ledger!TopUp, CreditBase
  <2> QED BY <1>1, <1>2, <2>1 DEF Ledger!Next
<1>7. CASE q.kind = "transfer"
  <2>1. CreditBase(r) \in Ledger!PastBalances(q.to)
    <3>1. PICK n \in 0..Len(audit[q.to]) : local[r].to = BalanceAfter(q.to, n)
      BY <1>1, <1>7 DEF RecordInv, PastInv, InTx
    <3>2. n = 0 \/ n \in 1..Len(audit[q.to])
      OBVIOUS
    <3> QED BY <1>7, <3>1, <3>2 DEF CreditBase, BalanceAfter, StartBalance,
               Ledger!PastBalances, Ledger!StartBalance
  <2>2. wallet[q.from].balance >= q.amount
    BY <1>1, <1>7 DEF GuardInv, SnapshotInv, Snapshot, Holding
  <2>3. Ledger!Transfer(r, q.key, q.from, q.to, q.amount, q.currency)
    BY <1>1, <1>3, <1>4, <1>5, <1>7, <2>1, <2>2, CommitTables DEF Ledger!Transfer
  <2> QED BY <1>1, <1>2, <1>7, <2>3 DEF Ledger!Next
<1> QED BY <1>1, <1>6, <1>7

\* A wallet is created in the ledger when its row is inserted.
LEMMA InsertIsCreate ==
  ASSUME TypeInv, NEW r \in Requests, InsertWallet(r)
  PROVE  Ledger!Next \/ UNCHANGED <<wallet, txns, audit>>
<1>1. req[r].to \in Wallets
  BY RunningRequest DEF TypeInv, InsertWallet, At
<1>2. CASE Exists(req[r].to)
  BY <1>2 DEF InsertWallet
<1>3. CASE ~Exists(req[r].to)
  <2>1. Ledger!Create(req[r].to)
    BY <1>3 DEF InsertWallet, Ledger!Create, Ledger!Exists, Exists
  <2> QED BY <1>1, <2>1 DEF Ledger!Next
<1> QED BY <1>2, <1>3

\* Whatever overlaps, crashes and is retried, the tables change as those of the
\* atomic ledger do: one step for each transaction, at its commit.
THEOREM LedgerRefined == Spec => ImplementsLedger
<1>1. Init => Ledger!Init
  BY DEF Init, Ledger!Init, Absent, Ledger!Absent
<1>2. TypeInv /\ TypeInv' /\ GuardInv /\ RecordInv /\ [Next]_vars
        => [Ledger!Next]_<<wallet, txns, audit>>
  BY TablesChange, CommitIsAtomic, InsertIsCreate
<1>3. Init => TypeInv /\ GuardInv /\ RecordInv
  BY TypeInit, GuardInit, RecordInit
<1>4. TypeInv /\ GuardInv /\ RecordInv /\ [Next]_vars => (TypeInv /\ GuardInv /\ RecordInv)'
  BY TypeStep, GuardStep, RecordStep
<1> QED BY <1>1, <1>2, <1>3, <1>4, PTL DEF Spec, ImplementsLedger, Ledger!Spec

=============================================================================
