----------------------------- MODULE LoanMoney -----------------------------
(***************************************************************************)
(* Repayments, for any number of requests and replicas: what is paid on    *)
(* the rows of a loan never exceeds what its borrower handed over; when    *)
(* handlers do not overlap it equals it, statuses follow the life of a     *)
(* loan, and a row marked paid is paid in full. Last, the types of loans   *)
(* and scores, whatever races.                                             *)
(***************************************************************************)
EXTENDS LoanProofs

-----------------------------------------------------------------------------
(* When handlers do not overlap *)

OneRuns == \A g, h \in Handlers : pc[g] \in Running /\ pc[h] \in Running => g = h

\* What a handler that runs alone remembers is what the table says.
Fresh(h) == pc[h] \in Running => \A id \in DOMAIN local[h].rows :
  local[h].rows[id] = RowOf(id) /\ Unpaid(RowOf(id))

\* The loan of a request is where the request found or put it.
RequestLife(r) ==
  /\ pc[r] = "idle" => DOMAIN local[r].rows = {}
  /\ pc[r] \in {"approve", "reject"} => loan[req[r].loan].status = "PENDING"
  /\ pc[r] \in {"schedule", "disburse"} => loan[req[r].loan].status = "APPROVED"
  /\ pc[r] \in Repaying => loan[req[r].loan].status = "ACTIVE"
  /\ pc[r] = "complete" => \A id \in Ids(req[r].loan) : RowOf(id).status = "PAID"

JobLife(c) ==
  /\ pc[c] \in {"findLoan", "default", "emitDefault"} =>
       \E id \in Ids(local[c].loan) : RowOf(id).status = "DEFAULTED"
  /\ pc[c] = "default" => loan[local[c].loan].status # "DEFAULTED"

HandlerLife(h) ==
  Fresh(h) /\ (h \in Requests => RequestLife(h)) /\ (h \in Replicas => JobLife(h))

\* Repayments come with the approval, and a loan stays approved only while its
\* handler runs, or when that handler died.
LoanLife(l) ==
  /\ loan[l].status \in LoanStatus \cup {"absent"}
  /\ loan[l].status \in {"absent", "PENDING", "REJECTED"} => Ids(l) = {}
  /\ loan[l].status = "COMPLETED" => \A id \in Ids(l) : RowOf(id).status = "PAID"
  /\ loan[l].status = "APPROVED" =>
       faults > 0 \/ \E r \in Requests : pc[r] \in {"schedule", "disburse"} /\ req[r].loan = l

Settled(row) == row.status = "PAID" => row.paid >= row.amount + row.penalty

RowsSettled == \A a \in Requests : \A i \in DOMAIN repayment[a] : Settled(repayment[a][i])

SerialInv ==
  /\ OneRuns /\ faults \in Nat /\ RowsSettled
  /\ \A h \in Handlers : HandlerLife(h)
  /\ \A l \in Requests : LoanLife(l)

\* Nobody but h runs.
Alone(h) == \A g \in Handlers \ {h} : pc[g] \notin Running

LEMMA RunnerIsAlone ==
  ASSUME SerialInv, NEW h \in Handlers, pc[h] \in Running PROVE Alone(h)
BY DEF SerialInv, OneRuns, Alone

LEMMA QuietIsAlone == ASSUME Quiet, NEW h PROVE Alone(h)
BY DEF Quiet, Alone

\* A handler that runs alone has to answer for itself and the tables.
LEMMA AloneKeeps ==
  ASSUME SerialInv, NEW h \in Handlers, Alone(h),
         \A g \in Handlers \ {h} : pc'[g] = pc[g] /\ local'[g] = local[g],
         HandlerLife(h)', \A l \in Requests : LoanLife(l)', RowsSettled', faults' \in Nat
  PROVE  SerialInv'
<1>1. OneRuns'
  BY DEF Alone, OneRuns
<1>2. ASSUME NEW g \in Handlers, g # h PROVE HandlerLife(g)'
  <2>1. pc'[g] = pc[g] /\ pc[g] \notin Running /\ local'[g] = local[g] /\ HandlerLife(g)
    BY <1>2 DEF Alone, SerialInv
  <2> QED BY <2>1 DEF HandlerLife, Fresh, RequestLife, JobLife, Running, Deciding, Repaying, Nightly
<1> QED BY <1>1, <1>2 DEF SerialInv

\* Steps that leave loans and repayments as they are.
LEMMA AloneMoves ==
  ASSUME SerialInv, NEW h \in Handlers, Alone(h),
         \A g \in Handlers \ {h} : pc'[g] = pc[g] /\ local'[g] = local[g],
         UNCHANGED <<loan, repayment, req>>, HandlerLife(h)',
         faults' \in Nat, faults <= faults', pc[h] \in {"schedule", "disburse"} => faults' > 0
  PROVE  SerialInv'
<1>1. ASSUME NEW l \in Requests PROVE LoanLife(l)'
  <2>1. LoanLife(l) /\ faults \in Nat
    BY DEF SerialInv
  <2>2. Ids(l)' = Ids(l)
    BY DEF Ids, Approvals
  <2>3. ASSUME loan[l].status = "APPROVED"
        PROVE  \/ faults' > 0
               \/ \E r \in Requests : pc'[r] \in {"schedule", "disburse"} /\ req[r].loan = l
    <3>1. CASE faults > 0
      BY <2>1, <3>1
    <3>2. ASSUME NEW r \in Requests, pc[r] \in {"schedule", "disburse"}, req[r].loan = l,
                 r # h
          PROVE  pc'[r] \in {"schedule", "disburse"}
      BY <3>2 DEF Handlers
    <3> QED BY <2>1, <2>3, <3>1, <3>2 DEF LoanLife
  <2> QED BY <2>1, <2>2, <2>3 DEF LoanLife, RowOf
<1>2. RowsSettled'
  BY DEF SerialInv, RowsSettled
<1> QED BY <1>1, <1>2, AloneKeeps

\* A handler moves on without having touched or read anything.
LEMMA AloneGoes ==
  ASSUME IInv, SerialInv, NEW h \in Handlers, pc[h] \in Running, NEW label, Goto(h, label),
         UNCHANGED <<loan, repayment, req>>, NEW memory, local' = [local EXCEPT ![h] = memory],
         \/ memory.rows = local[h].rows \/ memory.rows = <<>>,
         faults' \in Nat, faults <= faults', pc[h] \in {"schedule", "disburse"} => faults' > 0,
         h \in Requests => RequestLife(h)', h \in Replicas => JobLife(h)'
  PROVE  SerialInv'
<1>1. /\ pc'[h] = label /\ local'[h] = memory
      /\ \A g \in Handlers \ {h} : pc'[g] = pc[g] /\ local'[g] = local[g]
  BY DEF IInv, TypeInv, Goto
<1>2. Fresh(h)
  BY DEF SerialInv, HandlerLife
<1>3. Fresh(h)'
  BY <1>1, <1>2 DEF Fresh, RowOf
<1>4. HandlerLife(h)'
  BY <1>3 DEF HandlerLife
<1> QED BY <1>1, <1>4, RunnerIsAlone, AloneMoves

\* It also keeps what it remembers.
LEMMA AloneStays ==
  ASSUME IInv, SerialInv, NEW h \in Handlers, pc[h] \in Running, NEW label, Goto(h, label),
         UNCHANGED <<loan, repayment, req, local, faults>>,
         pc[h] \notin {"schedule", "disburse"},
         h \in Requests => RequestLife(h)', h \in Replicas => JobLife(h)'
  PROVE  SerialInv'
<1>1. local' = [local EXCEPT ![h] = local[h]]
  BY DEF IInv, TypeInv
<1>2. faults' \in Nat /\ faults <= faults'
  BY DEF SerialInv
<1> QED BY <1>1, <1>2, AloneGoes

\* Places of a request that say nothing about its loan.
Elsewhere == {"incr", "expire", "evaluate", "create", "upsertScore", "readLoan", "emit",
              "ok", "rejected", "tooMany", "lost"}

LEMMA ElsewhereIsLife ==
  ASSUME NEW r, pc'[r] \in Elsewhere PROVE RequestLife(r)'
BY DEF RequestLife, Elsewhere, Repaying

LEMMA ApplicationAlone ==
  ASSUME Serial, IInv, SerialInv, NEW r \in Requests,
         Incr(r) \/ Expire(r) \/ Evaluate(r) \/ UpsertCreditScore(r)
  PROVE  SerialInv'
<1>1. r \in Handlers /\ r \notin Replicas
  BY LoanAssumption DEF Handlers
<1>2. CASE Incr(r) \/ Expire(r)
  <2>1. PICK label \in {"expire", "evaluate", "tooMany"} : Goto(r, label)
    BY <1>2 DEF Incr, Expire
  <2>2. /\ pc[r] \in Running /\ pc[r] \notin {"schedule", "disburse"}
        /\ UNCHANGED <<loan, repayment, req, local, faults>>
    BY <1>2 DEF Incr, Expire, At, Running, Applying, tables
  <2>3. pc'[r] = label
    BY <1>1, <2>1 DEF IInv, TypeInv, Goto
  <2>4. RequestLife(r)'
    BY <2>3, ElsewhereIsLife DEF Elsewhere
  <2> QED BY <1>1, <2>1, <2>2, <2>4, AloneStays
<1>3. CASE Evaluate(r)
  <2> DEFINE points == EvaluateCreditScore(req[r].user, req[r].principal, req[r].term)
             memory == [local[r] EXCEPT !.score = points]
  <2>1. /\ pc[r] \in Running /\ pc[r] \notin {"schedule", "disburse"} /\ Goto(r, "create")
        /\ UNCHANGED <<loan, repayment, req, faults>>
        /\ local' = [local EXCEPT ![r].score = points]
    BY <1>3 DEF Evaluate, At, Running, Applying, tables
  <2> HIDE DEF points
  <2>2. local' = [local EXCEPT ![r] = memory]
    BY <1>1, <2>1 DEF IInv, TypeInv
  <2>3. memory.rows = local[r].rows
    <3>1. DOMAIN local[r] = {"rows", "score", "loan"}
      BY <1>1 DEF IInv, TypeInv, LocalFields
    <3> QED BY <3>1
  <2>4. pc'[r] = "create"
    BY <1>1, <2>1 DEF IInv, TypeInv, Goto
  <2>5. RequestLife(r)'
    BY <2>4, ElsewhereIsLife DEF Elsewhere
  <2>6. faults' \in Nat /\ faults <= faults'
    BY <2>1 DEF SerialInv
  <2> HIDE DEF memory
  <2> QED BY <1>1, <2>1, <2>2, <2>3, <2>5, <2>6, AloneGoes
<1>4. CASE UpsertCreditScore(r)
  <2>1. /\ pc[r] \in Running /\ pc[r] \notin {"schedule", "disburse"} /\ Goto(r, "ok")
        /\ UNCHANGED <<loan, repayment, req, faults>>
        /\ local' = [local EXCEPT ![r] = NoLocals]
    BY <1>4 DEF UpsertCreditScore, Finish, At, Running, Applying
  <2>2. NoLocals.rows = <<>>
    BY DEF NoLocals
  <2>3. pc'[r] = "ok"
    BY <1>1, <2>1 DEF IInv, TypeInv, Goto
  <2>4. RequestLife(r)'
    BY <2>3, ElsewhereIsLife DEF Elsewhere
  <2>5. faults' \in Nat /\ faults <= faults'
    BY <2>1 DEF SerialInv
  <2> QED BY <1>1, <2>1, <2>2, <2>4, <2>5, AloneGoes
<1> QED BY <1>2, <1>3, <1>4

LEMMA ReadLoanAlone ==
  ASSUME Serial, IInv, SerialInv, NEW r \in Requests, ReadLoan(r) PROVE SerialInv'
<1>1. r \in Handlers /\ r \notin Replicas
  BY LoanAssumption DEF Handlers
<1>2. /\ pc[r] \in Running /\ pc[r] \notin {"schedule", "disburse"}
      /\ UNCHANGED <<loan, repayment, req, local, faults>>
  BY DEF ReadLoan, At, Running, Deciding, tables
<1>3. PICK label \in {"approve", "reject", "readRows", "rejected"} :
        /\ Goto(r, label)
        /\ label \in {"approve", "reject"} => loan[req[r].loan].status = "PENDING"
        /\ label = "readRows" => loan[req[r].loan].status = "ACTIVE"
  BY DEF ReadLoan, Repayable, Decidable
<1>4. pc'[r] = label
  BY <1>1, <1>3 DEF IInv, TypeInv, Goto
<1>5. RequestLife(r)'
  BY <1>2, <1>3, <1>4 DEF RequestLife, Repaying
<1> QED BY <1>1, <1>2, <1>3, <1>5, AloneStays

LEMMA CheckRowsAlone ==
  ASSUME Serial, IInv, SerialInv, NEW r \in Requests, CheckRows(r) PROVE SerialInv'
<1>1. r \in Handlers /\ r \notin Replicas /\ RequestLife(r)
  BY LoanAssumption DEF Handlers, SerialInv, HandlerLife
<1>2. /\ pc[r] = "checkRows" /\ pc[r] \in Running /\ pc[r] \in Repaying
      /\ UNCHANGED <<loan, repayment, req, local, faults>>
  BY DEF CheckRows, At, Running, Repaying, tables
<1>3. PICK label \in {"complete", "emit"} :
        /\ Goto(r, label)
        /\ label = "complete" => \A id \in Ids(req[r].loan) : RowOf(id).status = "PAID"
  BY DEF CheckRows
<1>4. pc'[r] = label
  BY <1>1, <1>3 DEF IInv, TypeInv, Goto
<1>5. UNCHANGED <<Ids(req[r].loan)>>
  BY <1>2 DEF Ids, Approvals
<1>6. RequestLife(r)'
  BY <1>1, <1>2, <1>3, <1>4, <1>5 DEF RequestLife, Repaying, RowOf
<1> QED BY <1>1, <1>2, <1>3, <1>6, AloneStays

LEMMA EmitAlone ==
  ASSUME Serial, IInv, SerialInv, NEW r \in Requests, EmitKafkaEvent(r) PROVE SerialInv'
<1>1. r \in Handlers /\ r \notin Replicas
  BY LoanAssumption DEF Handlers
<1>2. /\ pc[r] \in Running /\ pc[r] \notin {"schedule", "disburse"} /\ Goto(r, "ok")
      /\ UNCHANGED <<loan, repayment, req>>
      /\ local' = [local EXCEPT ![r] = NoLocals]
  BY DEF EmitKafkaEvent, Finish, At, Running, tables
<1>3. NoLocals.rows = <<>>
  BY DEF NoLocals
<1>4. pc'[r] = "ok"
  BY <1>1, <1>2 DEF IInv, TypeInv, Goto
<1>5. RequestLife(r)'
  BY <1>4, ElsewhereIsLife DEF Elsewhere
<1>6. faults' \in Nat /\ faults <= faults'
  BY DEF EmitKafkaEvent, Emit, SerialInv
<1> QED BY <1>1, <1>2, <1>3, <1>5, <1>6, AloneGoes

LEMMA CrashAlone ==
  ASSUME Serial, IInv, SerialInv, NEW h \in Handlers, Crash(h) PROVE SerialInv'
<1> DEFINE label == IF h \in Replicas THEN "idle" ELSE "lost"
<1>1. /\ pc[h] \in Running /\ Goto(h, label) /\ UNCHANGED <<loan, repayment, req>>
      /\ local' = [local EXCEPT ![h] = NoLocals] /\ faults' = faults + 1
  BY DEF Crash, Finish, tables
<1>2. NoLocals.rows = <<>>
  BY DEF NoLocals
<1>3. pc'[h] = label
  BY <1>1 DEF IInv, TypeInv, Goto
<1>4. h \in Requests => RequestLife(h)'
  BY <1>3, LoanAssumption, ElsewhereIsLife DEF Elsewhere
<1>5. h \in Replicas => JobLife(h)'
  BY <1>3 DEF JobLife
<1>6. faults' \in Nat /\ faults <= faults' /\ faults' > 0
  BY <1>1 DEF SerialInv
<1> HIDE DEF label
<1> QED BY <1>1, <1>2, <1>4, <1>5, <1>6, AloneGoes

LEMMA FindLoanAlone ==
  ASSUME Serial, IInv, SerialInv, NEW c \in Replicas, FindLoan(c) \/ EmitDefault(c) PROVE SerialInv'
<1>1. c \in Handlers /\ c \notin Requests /\ JobLife(c)
  BY LoanAssumption DEF Handlers, SerialInv, HandlerLife
<1>2. /\ pc[c] \in {"findLoan", "emitDefault"} /\ pc[c] \in Running
      /\ UNCHANGED <<loan, repayment, req, local>>
  BY DEF FindLoan, EmitDefault, At, Running, Nightly, tables
<1>3. PICK label \in {"default", "idle", "penalty"} :
        /\ Goto(c, label)
        /\ label = "default" => loan[local[c].loan].status # "DEFAULTED"
  BY DEF FindLoan, EmitDefault, NextRow
<1>4. pc'[c] = label
  BY <1>1, <1>3 DEF IInv, TypeInv, Goto
<1>5. UNCHANGED Ids(local[c].loan)
  BY <1>2 DEF Ids, Approvals
<1>6. JobLife(c)'
  BY <1>1, <1>2, <1>3, <1>4, <1>5 DEF JobLife, RowOf
<1>7. faults' \in Nat /\ faults <= faults'
  BY DEF FindLoan, EmitDefault, Emit, SerialInv
<1>8. local' = [local EXCEPT ![c] = local[c]]
  BY <1>1, <1>2 DEF IInv, TypeInv
<1> QED BY <1>1, <1>2, <1>3, <1>6, <1>7, <1>8, AloneGoes

\* What is read now is what the table says.
LEMMA ReadRowsAlone ==
  ASSUME Serial, IInv, SerialInv, NEW r \in Requests, ReadRows(r) PROVE SerialInv'
<1> DEFINE rows == DueRows(req[r].loan)
<1>1. r \in Handlers /\ r \notin Replicas /\ RequestLife(r)
  BY LoanAssumption DEF Handlers, SerialInv, HandlerLife
<1>2. /\ pc[r] \in Running /\ pc[r] = "readRows" /\ UNCHANGED <<loan, repayment, req, faults>>
  BY DEF ReadRows, At, Running, Repaying, tables
<1>3. CASE Goto(r, "rejected") /\ UNCHANGED local
  <2>1. pc'[r] = "rejected"
    BY <1>1, <1>3 DEF IInv, TypeInv, Goto
  <2>2. RequestLife(r)'
    BY <2>1, ElsewhereIsLife DEF Elsewhere
  <2> QED BY <1>1, <1>2, <1>3, <2>2, AloneStays
<1>4. CASE Goto(r, "pay") /\ local' = [local EXCEPT ![r].rows = rows]
  <2>1. DOMAIN local[r] = {"rows", "score", "loan"}
    BY <1>1 DEF IInv, TypeInv, LocalFields
  <2>2. \A id \in DOMAIN rows : rows[id] = RowOf(id) /\ Unpaid(RowOf(id))
    BY DEF DueRows
  <2> HIDE DEF rows
  <2>3. /\ pc'[r] = "pay" /\ local'[r].rows = rows
        /\ \A g \in Handlers \ {r} : pc'[g] = pc[g] /\ local'[g] = local[g]
    BY <1>1, <1>4, <2>1 DEF IInv, TypeInv, Goto
  <2>4. Fresh(r)'
    BY <1>2, <2>2, <2>3 DEF Fresh, RowOf, Unpaid
  <2>5. RequestLife(r)'
    BY <1>1, <1>2, <2>3 DEF RequestLife, Repaying
  <2>6. HandlerLife(r)'
    BY <1>1, <2>4, <2>5 DEF HandlerLife
  <2>7. faults' \in Nat /\ faults <= faults'
    BY <1>2 DEF SerialInv
  <2> QED BY <1>1, <1>2, <2>3, <2>6, <2>7, RunnerIsAlone, AloneMoves
<1> QED BY <1>3, <1>4 DEF ReadRows

LEMMA FindOverdueAlone ==
  ASSUME Serial, IInv, SerialInv, NEW c \in Replicas, FindOverdueRepayments(c) PROVE SerialInv'
<1> DEFINE ids == {id \in UNION {Ids(l) : l \in Requests} : Overdue(RowOf(id))}
           rows == [id \in ids |-> RowOf(id)]
<1>1. c \in Handlers /\ c \notin Requests /\ DOMAIN local[c] = {"rows", "score", "loan"}
  BY LoanAssumption DEF Handlers, IInv, TypeInv, LocalFields
<1>2. /\ pc[c] = "idle" /\ Alone(c) /\ UNCHANGED <<loan, repayment, req, faults>>
      /\ local' = [local EXCEPT ![c].rows = rows]
  BY QuietIsAlone DEF FindOverdueRepayments, At, tables
<1>3. PICK label \in {"idle", "penalty"} : Goto(c, label)
  BY DEF FindOverdueRepayments
<1>4. \A id \in DOMAIN rows : rows[id] = RowOf(id) /\ Unpaid(RowOf(id))
  BY DEF Overdue
<1> HIDE DEF rows
<1>5. /\ pc'[c] = label /\ local'[c].rows = rows
      /\ \A g \in Handlers \ {c} : pc'[g] = pc[g] /\ local'[g] = local[g]
  BY <1>1, <1>2, <1>3 DEF IInv, TypeInv, Goto
<1>6. Fresh(c)'
  BY <1>2, <1>4, <1>5 DEF Fresh, RowOf, Unpaid
<1>7. JobLife(c)'
  BY <1>5 DEF JobLife
<1>8. HandlerLife(c)'
  BY <1>1, <1>6, <1>7 DEF HandlerLife
<1>9. faults' \in Nat /\ faults <= faults'
  BY <1>2 DEF SerialInv
<1> QED BY <1>1, <1>2, <1>5, <1>8, <1>9, AloneMoves

\* A request that is sent changes no schedule: it has none yet.
LEMMA SubmitKeepsIds ==
  ASSUME NEW r \in Requests, req[r] = NoRequest, repayment[r] = <<>>, repayment' = repayment,
         \A p \in Requests \ {r} : req'[p] = req[p], NEW l
  PROVE  Ids(l)' = Ids(l)
<1>1. ASSUME NEW id \in Ids(l) PROVE id \in Ids(l)'
  <2>1. PICK a \in Approvals(l) : id \in {a} \X DOMAIN repayment[a]
    BY DEF Ids
  <2>2. a \in Approvals(l)'
    BY <2>1 DEF Approvals
  <2> QED BY <2>1, <2>2 DEF Ids
<1>2. ASSUME NEW id \in Ids(l)' PROVE id \in Ids(l)
  <2>1. PICK a \in Approvals(l)' : id \in {a} \X DOMAIN repayment[a]
    BY DEF Ids
  <2>2. a # r
    BY <2>1
  <2>3. a \in Approvals(l)
    BY <2>1, <2>2 DEF Approvals
  <2> QED BY <2>1, <2>3 DEF Ids
<1> QED BY <1>1, <1>2

LEMMA SubmitAlone ==
  ASSUME Serial, IInv, SerialInv, NEW r \in Requests, Submit(r) PROVE SerialInv'
<1>1. PICK q \in Request :
        /\ req' = [req EXCEPT ![r] = q]
        /\ Goto(r, IF q.kind = "apply" THEN "incr" ELSE "readLoan")
  BY DEF Submit
<1>2. /\ r \in Handlers /\ r \notin Replicas /\ pc[r] = "idle" /\ RequestAt(r, "idle")
      /\ Quiet /\ Alone(r) /\ UNCHANGED <<loan, repayment, local, faults>>
  BY LoanAssumption, QuietIsAlone
  DEF Submit, At, Handlers, IInv, HandlerInv, RequestInv, tables
<1>3. req[r] = NoRequest /\ repayment[r] = <<>>
  BY <1>2 DEF RequestAt
<1>4. /\ pc'[r] \in {"incr", "readLoan"} /\ \A g \in Handlers \ {r} : pc'[g] = pc[g]
      /\ \A p \in Requests \ {r} : req'[p] = req[p]
  BY <1>1, <1>2 DEF IInv, TypeInv, Goto
<1>5. RequestLife(r)'
  BY <1>4, ElsewhereIsLife DEF Elsewhere
<1>6. Fresh(r)'
  <2>1. DOMAIN local[r].rows = {}
    BY <1>2 DEF SerialInv, HandlerLife, RequestLife
  <2> QED BY <1>2, <2>1 DEF Fresh
<1>7. HandlerLife(r)'
  BY <1>2, <1>5, <1>6 DEF HandlerLife
<1>8. ASSUME NEW l \in Requests PROVE LoanLife(l)'
  <2>1. Ids(l)' = Ids(l)
    BY <1>2, <1>3, <1>4, SubmitKeepsIds
  <2>2. LoanLife(l)
    BY DEF SerialInv
  <2>3. loan[l].status = "APPROVED" => faults > 0
    BY <1>2, <2>2 DEF LoanLife, Quiet, Handlers, Running, Deciding
  <2> QED BY <1>2, <2>1, <2>2, <2>3 DEF LoanLife, RowOf
<1>9. RowsSettled' /\ faults' \in Nat
  BY <1>2 DEF SerialInv, RowsSettled
<1> QED BY <1>2, <1>4, <1>7, <1>8, <1>9, AloneKeeps

\* A handler that sets the status of the loan it works on.
LEMMA StatusAlone ==
  ASSUME IInv, SerialInv, NEW h \in Handlers, pc[h] \in Running, NEW l \in Requests,
         NEW from, NEW status, NEW to, UpdateLoanStatus(h, from, l, status, to),
         pc[h] \in {"schedule", "disburse"} => req[h].loan = l,
         (loan'[l].status = status /\ pc'[h] = to /\ Ids(l)' = Ids(l)) => LoanLife(l)',
         (loan'[l].status = status /\ pc'[h] = to /\ Ids(l)' = Ids(l)) =>
           (h \in Requests => RequestLife(h)') /\ (h \in Replicas => JobLife(h)')
  PROVE  SerialInv'
<1>1. /\ UNCHANGED <<repayment, req, local, faults>> /\ Goto(h, to)
      /\ loan' = [loan EXCEPT ![l].status = status]
  BY DEF UpdateLoanStatus
<1>2. DOMAIN loan[l] = {"status", "user", "principal", "term", "score"} /\ l \in DOMAIN loan
  BY DEF IInv, TypeInv, LoanFields
<1>3. /\ loan'[l].status = status /\ \A m \in Requests \ {l} : loan'[m] = loan[m]
      /\ pc'[h] = to /\ \A g \in Handlers \ {h} : pc'[g] = pc[g]
  BY <1>1, <1>2 DEF IInv, TypeInv, Goto
<1>4. \A m : Ids(m)' = Ids(m)
  BY <1>1 DEF Ids, Approvals
<1>5. ASSUME NEW m \in Requests, m # l PROVE LoanLife(m)'
  <2>1. LoanLife(m) /\ loan'[m] = loan[m]
    BY <1>3, <1>5 DEF SerialInv
  <2>2. ASSUME NEW r \in Requests, pc[r] \in {"schedule", "disburse"}, req[r].loan = m
        PROVE  pc'[r] = pc[r]
    BY <1>3, <1>5, <2>2 DEF Handlers
  <2> QED BY <1>1, <1>4, <2>1, <2>2 DEF LoanLife, RowOf
<1>6. \A m \in Requests : LoanLife(m)'
  BY <1>3, <1>4, <1>5
<1>7. Fresh(h)'
  BY <1>1 DEF SerialInv, HandlerLife, Fresh, RowOf, Unpaid
<1>8. HandlerLife(h)'
  BY <1>3, <1>4, <1>7 DEF HandlerLife
<1>9. RowsSettled' /\ faults' \in Nat
  BY <1>1 DEF SerialInv, RowsSettled
<1> QED BY <1>1, <1>3, <1>6, <1>8, <1>9, RunnerIsAlone, AloneKeeps

LEMMA DecideAlone ==
  ASSUME Serial, IInv, SerialInv, NEW r \in Requests,
         Approve(r) \/ DisburseLoan(r) \/ RejectLoan(r) \/ CompleteLoan(r)
  PROVE  SerialInv'
<1>1. /\ r \in Handlers /\ r \notin Replicas /\ RequestLife(r) /\ RequestInv(r)
  BY LoanAssumption DEF Handlers, SerialInv, HandlerLife, IInv, HandlerInv
<1>2. /\ pc[r] \in {"approve", "disburse", "reject", "complete"} /\ pc[r] \in Running
      /\ UNCHANGED <<repayment, req, faults>>
  BY DEF Approve, DisburseLoan, RejectLoan, CompleteLoan, UpdateLoanStatus, At, Running,
         Deciding, Repaying
<1>3. PICK l \in Requests : l = req[r].loan /\ LoanLife(l)
  <2>1. req[r].kind \in {"approve", "reject", "repay"}
    BY <1>1, <1>2 DEF RequestInv, RequestAt, Repaying
  <2> QED BY <2>1, Asked DEF SerialInv
<1>4. CASE Approve(r)
  <2>1. UpdateLoanStatus(r, "approve", l, "APPROVED", "schedule") /\ pc[r] = "approve"
    BY <1>3, <1>4 DEF Approve, UpdateLoanStatus, At
  <2>2. loan[l].status = "PENDING"
    BY <1>1, <1>3, <2>1 DEF RequestLife
  <2>3. ASSUME loan'[l].status = "APPROVED", pc'[r] = "schedule", Ids(l)' = Ids(l)
        PROVE  LoanLife(l)' /\ RequestLife(r)'
    <3>1. req'[r].loan = l
      BY <1>2, <1>3
    <3>2. RequestLife(r)'
      BY <2>3, <3>1 DEF RequestLife, Repaying
    <3>3. LoanLife(l)'
      BY <2>3, <3>1 DEF LoanLife, LoanStatus
    <3> QED BY <3>2, <3>3
  <2> QED BY <1>1, <1>2, <1>3, <2>1, <2>3, StatusAlone
<1>5. CASE DisburseLoan(r)
  <2>1. UpdateLoanStatus(r, "disburse", l, "ACTIVE", "emit") /\ pc[r] = "disburse"
    BY <1>3, <1>5 DEF DisburseLoan, UpdateLoanStatus, At
  <2>2. ASSUME loan'[l].status = "ACTIVE", pc'[r] = "emit", Ids(l)' = Ids(l)
        PROVE  LoanLife(l)' /\ RequestLife(r)'
    BY <2>2, ElsewhereIsLife DEF LoanLife, LoanStatus, Elsewhere
  <2>3. pc[r] \in {"schedule", "disburse"} => req[r].loan = l
    BY <1>3
  <2> QED BY <1>1, <1>2, <1>3, <2>1, <2>2, <2>3, StatusAlone
<1>6. CASE RejectLoan(r)
  <2>1. UpdateLoanStatus(r, "reject", l, "REJECTED", "ok") /\ pc[r] = "reject"
    BY <1>3, <1>6 DEF RejectLoan, UpdateLoanStatus, At
  <2>2. loan[l].status = "PENDING"
    BY <1>1, <1>3, <2>1 DEF RequestLife
  <2>3. ASSUME loan'[l].status = "REJECTED", pc'[r] = "ok", Ids(l)' = Ids(l)
        PROVE  LoanLife(l)' /\ RequestLife(r)'
    BY <1>3, <2>2, <2>3, ElsewhereIsLife DEF LoanLife, LoanStatus, Elsewhere
  <2> QED BY <1>1, <1>2, <1>3, <2>1, <2>3, StatusAlone
<1>7. CASE CompleteLoan(r)
  <2>1. UpdateLoanStatus(r, "complete", l, "COMPLETED", "emit") /\ pc[r] = "complete"
    BY <1>3, <1>7 DEF CompleteLoan, UpdateLoanStatus, At
  <2>2. \A id \in Ids(l) : RowOf(id).status = "PAID"
    BY <1>1, <1>3, <2>1 DEF RequestLife
  <2>3. ASSUME loan'[l].status = "COMPLETED", pc'[r] = "emit", Ids(l)' = Ids(l)
        PROVE  LoanLife(l)' /\ RequestLife(r)'
    BY <1>2, <2>2, <2>3, ElsewhereIsLife DEF LoanLife, LoanStatus, Elsewhere, RowOf
  <2> QED BY <1>1, <1>2, <1>3, <2>1, <2>3, StatusAlone
<1> QED BY <1>4, <1>5, <1>6, <1>7

LEMMA DefaultAlone ==
  ASSUME Serial, IInv, SerialInv, NEW c \in Replicas, DefaultLoan(c) PROVE SerialInv'
<1>1. c \in Handlers /\ c \notin Requests /\ JobLife(c) /\ JobInv(c)
  BY LoanAssumption DEF Handlers, SerialInv, HandlerLife, IInv, HandlerInv
<1>2. /\ pc[c] = "default" /\ pc[c] \in Running /\ UNCHANGED <<repayment, req, local, faults>>
      /\ UpdateLoanStatus(c, "default", local[c].loan, "DEFAULTED", "emitDefault")
  BY DEF DefaultLoan, UpdateLoanStatus, At, Running, Nightly
<1>3. PICK l \in Requests : l = local[c].loan
  BY <1>1, <1>2 DEF JobInv
<1>4. ASSUME loan'[l].status = "DEFAULTED", pc'[c] = "emitDefault", Ids(l)' = Ids(l)
      PROVE  LoanLife(l)' /\ JobLife(c)'
  <2>1. JobLife(c)'
    BY <1>1, <1>2, <1>3, <1>4 DEF JobLife, RowOf
  <2> QED BY <1>4, <2>1 DEF LoanLife, LoanStatus
<1> QED BY <1>1, <1>2, <1>3, <1>4, StatusAlone

LEMMA CreateAlone ==
  ASSUME Serial, IInv, SerialInv, NEW r \in Requests, CreateLoan(r) PROVE SerialInv'
<1>1. /\ r \in Handlers /\ r \notin Replicas /\ pc[r] = "create" /\ pc[r] \in Running
      /\ Goto(r, "upsertScore") /\ UNCHANGED <<repayment, req, local, faults>>
      /\ loan' = [loan EXCEPT ![r] = NewLoan(req[r], local[r].score)] /\ RequestAt(r, "create")
  BY LoanAssumption
  DEF Handlers, CreateLoan, At, Running, Applying, IInv, HandlerInv, RequestInv
<1>2. /\ pc'[r] = "upsertScore" /\ \A g \in Handlers \ {r} : pc'[g] = pc[g]
      /\ loan'[r].status = "PENDING" /\ \A m \in Requests \ {r} : loan'[m] = loan[m]
  BY <1>1 DEF IInv, TypeInv, Goto, NewLoan
<1>3. \A m : Ids(m)' = Ids(m)
  BY <1>1 DEF Ids, Approvals
<1>4. LoanLife(r)'
  <2>1. loan[r].status = "absent" /\ LoanLife(r)
    BY <1>1 DEF RequestAt, Exists, SerialInv
  <2>2. Ids(r) = {}
    BY <2>1 DEF LoanLife
  <2> QED BY <1>2, <1>3, <2>2 DEF LoanLife, LoanStatus
<1>5. ASSUME NEW m \in Requests, m # r PROVE LoanLife(m)'
  <2>1. LoanLife(m) /\ loan'[m] = loan[m]
    BY <1>2, <1>5 DEF SerialInv
  <2>2. ASSUME NEW p \in Requests, pc[p] \in {"schedule", "disburse"} PROVE pc'[p] = pc[p]
    BY <1>1, <1>2, <2>2 DEF Handlers
  <2> QED BY <1>1, <1>3, <2>1, <2>2 DEF LoanLife, RowOf
<1>6. Fresh(r)'
  BY <1>1 DEF SerialInv, HandlerLife, Fresh, RowOf, Unpaid
<1>7. HandlerLife(r)'
  BY <1>1, <1>2, <1>6, ElsewhereIsLife DEF HandlerLife, Elsewhere
<1>8. RowsSettled' /\ faults' \in Nat /\ \A l \in Requests : LoanLife(l)'
  BY <1>1, <1>4, <1>5 DEF SerialInv, RowsSettled
<1> QED BY <1>1, <1>2, <1>7, <1>8, RunnerIsAlone, AloneKeeps

LEMMA ScheduleAlone ==
  ASSUME Serial, IInv, SerialInv, NEW r \in Requests, GenerateRepaymentSchedule(r)
  PROVE  SerialInv'
<1>1. /\ r \in Handlers /\ r \notin Replicas /\ pc[r] = "schedule" /\ pc[r] \in Running
      /\ Goto(r, "disburse") /\ UNCHANGED <<loan, req, local, faults>>
      /\ RequestAt(r, "schedule") /\ RowsInv(r) /\ RequestLife(r)
  BY LoanAssumption
  DEF Handlers, GenerateRepaymentSchedule, At, Running, Deciding, IInv, HandlerInv, RequestInv,
      SerialInv, HandlerLife
<1>2. PICK rows : /\ repayment' = [repayment EXCEPT ![r] = rows]
                  /\ \A i \in DOMAIN rows : rows[i].status = "PENDING"
  <2> DEFINE term == loan[req[r].loan].term
             rows == FreshSchedule(term, MonthlyPayment[term], today, MonthDays)
  <2>1. repayment' = [repayment EXCEPT ![r] = rows]
    BY DEF GenerateRepaymentSchedule, FreshSchedule, Instalments
  <2>2. \A i \in DOMAIN rows : rows[i].status = "PENDING"
    BY DEF FreshSchedule
  <2> HIDE DEF rows
  <2> QED BY <2>1, <2>2
<1>3. /\ pc'[r] = "disburse" /\ \A g \in Handlers \ {r} : pc'[g] = pc[g]
      /\ repayment'[r] = rows /\ \A a \in Requests \ {r} : repayment'[a] = repayment[a]
  BY <1>1, <1>2 DEF IInv, TypeInv, Goto
<1>4. PICK l \in Requests : req[r].loan = l /\ req[r].kind = "approve"
  BY <1>1, Asked DEF RequestAt
<1>5. loan[l].status = "APPROVED" /\ repayment[r] = <<>>
  BY <1>1, <1>4 DEF RequestLife, RequestAt
<1>6. LoanLife(l)'
  BY <1>1, <1>3, <1>4, <1>5 DEF LoanLife, LoanStatus
<1>7. ASSUME NEW m \in Requests, m # l PROVE LoanLife(m)'
  <2>1. r \notin Approvals(m)
    BY <1>4, <1>7 DEF Approvals
  <2>2. Ids(m)' = Ids(m)
    BY <1>1, <1>3, <2>1 DEF Ids, Approvals
  <2>3. \A id \in Ids(m) : RowOf(id)' = RowOf(id)
    <3>1. \A id \in Ids(m) : id[1] \in Requests \ {r}
      BY <2>1 DEF Ids, Approvals
    <3> QED BY <1>3, <3>1 DEF RowOf
  <2>4. ASSUME NEW p \in Requests, pc[p] \in {"schedule", "disburse"}
        PROVE  pc'[p] \in {"schedule", "disburse"}
    BY <1>3, <2>4 DEF Handlers
  <2>5. LoanLife(m)
    BY DEF SerialInv
  <2> QED BY <1>1, <2>2, <2>3, <2>4, <2>5 DEF LoanLife
<1>8. Fresh(r)'
  <2>1. Fresh(r)
    BY DEF SerialInv, HandlerLife, Handlers
  <2>2. \A id \in DOMAIN local[r].rows : id[1] \in Requests \ {r}
    BY <1>1, <1>5 DEF RowsInv
  <2> QED BY <1>1, <1>3, <2>1, <2>2 DEF Fresh, RowOf, Unpaid
<1>9. RequestLife(r)'
  BY <1>1, <1>3, <1>4, <1>5 DEF RequestLife, Repaying
<1>10. RowsSettled'
  <2>1. ASSUME NEW a \in Requests, NEW i \in DOMAIN repayment'[a]
        PROVE  Settled(repayment'[a][i])
    <3>1. CASE a = r
      BY <1>2, <1>3, <3>1 DEF Settled
    <3>2. CASE a # r
      BY <1>3, <3>2 DEF SerialInv, RowsSettled
    <3> QED BY <3>1, <3>2
  <2> QED BY <2>1 DEF RowsSettled, Settled
<1>11. HandlerLife(r)' /\ faults' \in Nat
  BY <1>1, <1>8, <1>9 DEF HandlerLife, SerialInv
<1> QED BY <1>1, <1>3, <1>6, <1>7, <1>10, <1>11, RunnerIsAlone, AloneKeeps

\* One repayment is written, and nothing else.
LEMMA OneRowWritten ==
  ASSUME TypeInv, NEW id \in Requests \X Nat, id[2] \in DOMAIN repayment[id[1]],
         NEW row \in Instalment, row.due = RowOf(id).due,
         repayment' = [repayment EXCEPT ![id[1]][id[2]] = row]
  PROVE  /\ \A a \in Requests : DOMAIN repayment'[a] = DOMAIN repayment[a]
         /\ repayment'[id[1]][id[2]] = row
         /\ \A a \in Requests : \A i \in DOMAIN repayment[a] :
              <<a, i>> # id => repayment'[a][i] = repayment[a][i]
<1>1. id[1] \in Requests /\ id = <<id[1], id[2]>>
  OBVIOUS
<1>2. \A a \in Requests : DOMAIN repayment'[a] = DOMAIN repayment[a]
  BY <1>1, TableWithRow DEF RowOf
<1>3. repayment[id[1]] \in Seq(Instalment) /\ id[1] \in DOMAIN repayment
  BY <1>1 DEF TypeInv
<1>4. repayment'[id[1]][id[2]] = row
  BY <1>3
<1>5. ASSUME NEW a \in Requests, NEW i \in DOMAIN repayment[a], <<a, i>> # id
      PROVE  repayment'[a][i] = repayment[a][i]
  <2>1. CASE a # id[1]
    BY <1>3, <2>1
  <2>2. CASE a = id[1]
    <3>1. i # id[2]
      BY <1>1, <1>5, <2>2
    <3> QED BY <1>3, <2>2, <3>1
  <2> QED BY <2>1, <2>2
<1> QED BY <1>2, <1>4, <1>5

\* The handler that runs alone writes an unpaid repayment it remembers.
LEMMA RowWrittenAlone ==
  ASSUME IInv, SerialInv, NEW h \in Handlers, pc[h] \in Running,
         pc[h] \notin {"schedule", "disburse"},
         \A g \in Handlers \ {h} : pc'[g] = pc[g] /\ local'[g] = local[g],
         NEW id \in DOMAIN local[h].rows, NEW row \in Instalment, row.due = RowOf(id).due,
         repayment' = [repayment EXCEPT ![id[1]][id[2]] = row], Settled(row),
         local'[h].rows = Restrict(local[h].rows, DOMAIN local[h].rows \ {id}),
         UNCHANGED <<loan, req, faults>>,
         h \in Requests => RequestLife(h)', h \in Replicas => JobLife(h)'
  PROVE  SerialInv'
<1>1. RowsInv(h) /\ Fresh(h) /\ TypeInv
  BY DEF IInv, HandlerInv, SerialInv, HandlerLife
<1>2. id \in Requests \X Nat /\ id[2] \in DOMAIN repayment[id[1]] /\ Unpaid(RowOf(id))
  BY <1>1 DEF RowsInv, Fresh
<1>3. /\ \A a \in Requests : DOMAIN repayment'[a] = DOMAIN repayment[a]
      /\ repayment'[id[1]][id[2]] = row
      /\ \A a \in Requests : \A i \in DOMAIN repayment[a] :
           <<a, i>> # id => repayment'[a][i] = repayment[a][i]
  BY <1>1, <1>2, OneRowWritten
<1>4. ASSUME NEW m \in Requests PROVE LoanLife(m)'
  <2>1. LoanLife(m)
    BY DEF SerialInv
  <2>2. Ids(m)' = Ids(m)
    BY <1>3 DEF Ids, Approvals
  <2>3. ASSUME NEW p \in Requests, pc[p] \in {"schedule", "disburse"} PROVE pc'[p] = pc[p]
    BY <2>3 DEF Handlers
  <2>4. ASSUME loan[m].status = "COMPLETED", NEW other \in Ids(m)
        PROVE  RowOf(other)'.status = "PAID"
    <3>1. RowOf(other).status = "PAID"
      BY <2>1, <2>4 DEF LoanLife
    <3>2. other # id
      BY <1>2, <3>1 DEF Unpaid
    <3>3. /\ other[1] \in Requests /\ other[2] \in DOMAIN repayment[other[1]]
          /\ other = <<other[1], other[2]>>
      BY <2>4 DEF Ids, Approvals
    <3> QED BY <1>3, <3>1, <3>2, <3>3 DEF RowOf
  <2> QED BY <2>1, <2>2, <2>3, <2>4 DEF LoanLife
<1>5. Fresh(h)'
  <2> DEFINE rows == local[h].rows
             more == DOMAIN rows \ {id}
  <2>1. DOMAIN local'[h].rows = more /\ \A other \in more : local'[h].rows[other] = rows[other]
    BY DEF Restrict
  <2>2. ASSUME NEW other \in more PROVE RowOf(other)' = RowOf(other)
    <3>1. other \in Requests \X Nat /\ other[2] \in DOMAIN repayment[other[1]] /\ other # id
      BY <1>1 DEF RowsInv
    <3>2. other = <<other[1], other[2]>> /\ other[1] \in Requests
      BY <3>1
    <3> QED BY <1>3, <3>1, <3>2 DEF RowOf
  <2> QED BY <1>1, <2>1, <2>2 DEF Fresh, Unpaid
<1>6. RowsSettled'
  <2>1. ASSUME NEW a \in Requests, NEW i \in DOMAIN repayment'[a]
        PROVE  Settled(repayment'[a][i])
    <3>1. CASE <<a, i>> = id
      BY <1>3, <3>1 DEF Settled
    <3>2. CASE <<a, i>> # id
      BY <1>3, <3>2 DEF SerialInv, RowsSettled
    <3> QED BY <3>1, <3>2
  <2> QED BY <2>1 DEF RowsSettled, Settled
<1>7. HandlerLife(h)' /\ faults' \in Nat
  BY <1>5 DEF HandlerLife, SerialInv
<1> QED BY <1>4, <1>6, <1>7, RunnerIsAlone, AloneKeeps

\* What Pay writes, remembers and takes of the payment.
Paying(r, id, row) ==
  /\ id \in Requests \X Nat /\ id[2] \in DOMAIN repayment[id[1]]
  /\ local[r].rows[id] \in Instalment /\ RowOf(id) \in Instalment
  /\ row.due = RowOf(id).due /\ row.amount = RowOf(id).amount /\ row.penalty = RowOf(id).penalty
  /\ row.paid = PaidWith(r, local[r].rows[id])
  /\ row.status = IF Covers(local[r].rows[id], row.paid) THEN "PAID" ELSE RowOf(id).status
  /\ repayment' = [repayment EXCEPT ![id[1]][id[2]] = row]
  /\ Part(r, local[r].rows[id]) \in Nat /\ left[r] \in Nat
  /\ left' = [left EXCEPT ![r] = Rest(r, local[r].rows[id])]
  /\ Rest(r, local[r].rows[id]) \in Nat
  /\ local'[r].rows = Restrict(local[r].rows, DOMAIN local[r].rows \ {id})
  /\ pc'[r] \in {"pay", "checkRows"}
  /\ \A g \in Handlers \ {r} : pc'[g] = pc[g] /\ local'[g] = local[g]
  /\ \A p \in Requests \ {r} : left'[p] = left[p]

LEMMA PayWrites ==
  ASSUME IInv, NEW r \in Requests, Pay(r)
  PROVE  \E id \in DOMAIN local[r].rows : \E row \in Instalment : Paying(r, id, row)
<1> DEFINE rows == local[r].rows
<1>1. /\ r \in Handlers /\ RequestAt(r, "pay") /\ RowsInv(r) /\ DOMAIN local[r] = LocalFields
  <2>1. r \in Handlers /\ pc[r] = "pay"
    BY DEF Pay, At, Handlers
  <2> QED BY <2>1 DEF IInv, HandlerInv, RequestInv, TypeInv
<1>2. left[r] \in Nat \ {0}
  BY <1>1 DEF RequestAt, Repaying, IInv, TypeInv
<1>3. PICK id \in DOMAIN rows :
        /\ repayment' = [repayment EXCEPT ![id[1]][id[2]] =
             [RowOf(id) EXCEPT !.paid = PaidWith(r, rows[id]),
                       !.status = IF Covers(rows[id], PaidWith(r, rows[id])) THEN "PAID" ELSE @]]
        /\ left' = [left EXCEPT ![r] = Rest(r, rows[id])]
        /\ local' = [local EXCEPT ![r].rows = Restrict(rows, DOMAIN rows \ {id})]
        /\ Goto(r, IF Rest(r, rows[id]) > 0 /\ DOMAIN rows \ {id} # {} THEN "pay" ELSE "checkRows")
  BY DEF Pay
<1>4. /\ id \in Requests \X Nat /\ id[2] \in DOMAIN repayment[id[1]] /\ rows[id] \in Instalment
      /\ RowOf(id) \in Instalment
  BY <1>1 DEF RowsInv, IInv, TypeInv, RowOf
<1>5. Rest(r, rows[id]) \in Nat /\ Part(r, rows[id]) \in Nat
  BY <1>2, <1>4, PartIsPositive
<1> DEFINE paid == PaidWith(r, rows[id])
           done == Covers(rows[id], paid)
           status == IF done THEN "PAID" ELSE RowOf(id).status
           row == [RowOf(id) EXCEPT !.paid = paid, !.status = status]
<1>6. row \in Instalment
  <2>1. paid \in Nat
    BY <1>4, <1>5 DEF PaidWith, Instalment
  <2>2. status \in {"PENDING", "PAID", "LATE", "DEFAULTED"}
    BY <1>4 DEF Instalment
  <2> HIDE DEF paid, status
  <2> QED BY <1>4, <2>1, <2>2, PaidRow
<1>7. /\ row.due = RowOf(id).due /\ row.amount = RowOf(id).amount
      /\ row.penalty = RowOf(id).penalty /\ row.paid = paid /\ row.status = status
  <2> HIDE DEF paid, status
  <2> QED BY <1>4 DEF Instalment
<1>8. repayment' = [repayment EXCEPT ![id[1]][id[2]] = row]
  <2> HIDE DEF paid, done
  <2>1. repayment' = [repayment EXCEPT ![id[1]][id[2]] =
          [RowOf(id) EXCEPT !.paid = paid, !.status = IF done THEN "PAID" ELSE @]]
    BY <1>3 DEF paid, done
  <2> QED BY <1>4, <2>1 DEF Instalment
<1>9. /\ local'[r].rows = Restrict(rows, DOMAIN rows \ {id})
      /\ \A g \in Handlers \ {r} : local'[g] = local[g]
  BY <1>1, <1>3 DEF IInv, TypeInv, LocalFields
<1>10. /\ pc'[r] \in {"pay", "checkRows"} /\ \A g \in Handlers \ {r} : pc'[g] = pc[g]
       /\ \A p \in Requests \ {r} : left'[p] = left[p]
  BY <1>1, <1>3 DEF IInv, TypeInv, Goto
<1>11. Paying(r, id, row)
  <2> HIDE DEF row, status
  <2> QED BY <1>2, <1>3, <1>4, <1>5, <1>7, <1>8, <1>9, <1>10 DEF Paying, status
<1> HIDE DEF row
<1> QED BY <1>6, <1>11

\* What UpdatePenalty writes and remembers.
Penalizing(c, id, row) ==
  /\ id \in Requests \X Nat /\ id[2] \in DOMAIN repayment[id[1]]
  /\ RowOf(id) \in Instalment
  /\ row.due = RowOf(id).due /\ row.amount = RowOf(id).amount /\ row.paid = RowOf(id).paid
  /\ row.status = IF Defaults(local[c].rows[id]) THEN "DEFAULTED" ELSE "LATE"
  /\ repayment' = [repayment EXCEPT ![id[1]][id[2]] = row]
  /\ local'[c].rows = Restrict(local[c].rows, DOMAIN local[c].rows \ {id})
  /\ local'[c].loan = req[id[1]].loan
  /\ pc'[c] \in {"findLoan", "penalty", "idle"}
  /\ pc'[c] = "findLoan" => Defaults(local[c].rows[id])
  /\ \A g \in Handlers \ {c} : pc'[g] = pc[g] /\ local'[g] = local[g]

LEMMA PenaltyWrites ==
  ASSUME IInv, NEW c \in Replicas, UpdatePenalty(c)
  PROVE  \E id \in DOMAIN local[c].rows : \E row \in Instalment : Penalizing(c, id, row)
<1> DEFINE rows == local[c].rows
<1>1. c \in Handlers /\ c \notin Requests /\ RowsInv(c) /\ DOMAIN local[c] = LocalFields
  BY LoanAssumption DEF UpdatePenalty, At, Handlers, IInv, HandlerInv, TypeInv
<1>2. PICK id \in DOMAIN rows :
        /\ repayment' = [repayment EXCEPT ![id[1]][id[2]] =
             [@ EXCEPT !.penalty = PenaltyAmount(rows[id]),
                       !.status = IF Defaults(rows[id]) THEN "DEFAULTED" ELSE "LATE"]]
        /\ local' = [local EXCEPT ![c].rows = Restrict(rows, DOMAIN rows \ {id}),
                                  ![c].loan = req[id[1]].loan]
        /\ Goto(c, AfterPenalty(rows[id], Restrict(rows, DOMAIN rows \ {id})))
  BY DEF UpdatePenalty
<1>3. /\ id \in Requests \X Nat /\ id[2] \in DOMAIN repayment[id[1]] /\ rows[id] \in Instalment
      /\ RowOf(id) \in Instalment /\ Overdue(rows[id]) /\ today \in Nat
  BY <1>1 DEF RowsInv, IInv, TypeInv, RowOf
<1> DEFINE amount == PenaltyAmount(rows[id])
           status == IF Defaults(rows[id]) THEN "DEFAULTED" ELSE "LATE"
           row == [RowOf(id) EXCEPT !.penalty = amount, !.status = status]
<1>4. amount \in Nat /\ status \in {"LATE", "DEFAULTED"}
  BY <1>3, PenaltyIsNatural
<1>5. /\ row \in Instalment /\ row.due = RowOf(id).due /\ row.amount = RowOf(id).amount
      /\ row.paid = RowOf(id).paid /\ row.status = status
  <2> HIDE DEF amount, status
  <2>1. row \in Instalment /\ row.due = RowOf(id).due
    BY <1>3, <1>4, PenalizedRow
  <2> QED BY <1>3, <2>1 DEF Instalment
<1>6. repayment' = [repayment EXCEPT ![id[1]][id[2]] = row]
  <2>1. repayment[id[1]][id[2]] = RowOf(id)
    BY DEF RowOf
  <2> HIDE DEF amount, status
  <2>2. repayment' = [repayment EXCEPT ![id[1]][id[2]] =
             [@ EXCEPT !.penalty = amount, !.status = status]]
    BY <1>2 DEF amount, status
  <2> QED BY <2>1, <2>2
<1>7. /\ local'[c].rows = Restrict(rows, DOMAIN rows \ {id}) /\ local'[c].loan = req[id[1]].loan
      /\ \A g \in Handlers \ {c} : local'[g] = local[g]
  BY <1>1, <1>2 DEF IInv, TypeInv, LocalFields
<1>8. /\ pc'[c] \in {"findLoan", "penalty", "idle"}
      /\ pc'[c] = "findLoan" => Defaults(rows[id])
      /\ \A g \in Handlers \ {c} : pc'[g] = pc[g]
  BY <1>1, <1>2 DEF IInv, TypeInv, Goto, AfterPenalty, NextRow
<1>9. Penalizing(c, id, row)
  <2> HIDE DEF row, status, amount
  <2> QED BY <1>3, <1>5, <1>6, <1>7, <1>8 DEF Penalizing, status
<1> HIDE DEF row
<1> QED BY <1>5, <1>9

LEMMA PayAlone ==
  ASSUME Serial, IInv, SerialInv, NEW r \in Requests, Pay(r) PROVE SerialInv'
<1>1. /\ r \in Handlers /\ r \notin Replicas /\ pc[r] = "pay" /\ pc[r] \in Running
      /\ RequestLife(r) /\ Fresh(r) /\ UNCHANGED <<loan, req, faults>>
  BY LoanAssumption DEF Pay, At, Running, Repaying, Handlers, SerialInv, HandlerLife
<1>2. PICK id \in DOMAIN local[r].rows : \E row \in Instalment : Paying(r, id, row)
  BY PayWrites
<1>3. PICK row \in Instalment : Paying(r, id, row)
  BY <1>2
<1>4. Settled(row)
  <2>1. local[r].rows[id] = RowOf(id) /\ RowOf(id).status # "PAID"
    BY <1>1 DEF Fresh, Unpaid
  <2> QED BY <1>3, <2>1 DEF Settled, Paying, Covers
<1>5. RequestLife(r)'
  BY <1>1, <1>3 DEF RequestLife, Repaying, Paying
<1> QED BY <1>1, <1>3, <1>4, <1>5, RowWrittenAlone DEF Paying

LEMMA PenaltyAlone ==
  ASSUME Serial, IInv, SerialInv, NEW c \in Replicas, UpdatePenalty(c) PROVE SerialInv'
<1>1. /\ c \in Handlers /\ c \notin Requests /\ pc[c] = "penalty" /\ pc[c] \in Running
      /\ RowsInv(c) /\ UNCHANGED <<loan, req, faults>> /\ TypeInv
  BY LoanAssumption DEF UpdatePenalty, At, Running, Nightly, Handlers, IInv, HandlerInv
<1>2. PICK id \in DOMAIN local[c].rows : \E row \in Instalment : Penalizing(c, id, row)
  BY PenaltyWrites
<1>3. PICK row \in Instalment : Penalizing(c, id, row)
  BY <1>2
<1>4. Settled(row)
  BY <1>3 DEF Settled, Penalizing
<1>5. JobLife(c)'
  <2>1. ASSUME pc'[c] = "findLoan"
        PROVE  \E other \in Ids(local[c].loan)' : RowOf(other)'.status = "DEFAULTED"
    <3>1. row.status = "DEFAULTED"
      BY <1>3, <2>1 DEF Penalizing
    <3>2. /\ repayment'[id[1]][id[2]] = row /\ id[1] \in Requests
          /\ DOMAIN repayment'[id[1]] = DOMAIN repayment[id[1]]
      BY <1>1, <1>3, OneRowWritten DEF Penalizing
    <3>3. repayment[id[1]] # <<>> /\ id = <<id[1], id[2]>>
      BY <1>1 DEF RowsInv
    <3>4. req[id[1]].kind = "approve"
      BY <3>2, <3>3 DEF IInv, SafetyInv, CompleteInv
    <3>5. PICK l \in {local'[c].loan} : TRUE
      OBVIOUS
    <3>6. id[1] \in Approvals(l)'
      BY <1>1, <1>3, <3>2, <3>4, <3>5 DEF Approvals, Penalizing
    <3>7. id \in {id[1]} \X DOMAIN repayment'[id[1]]
      BY <1>3, <3>2, <3>3 DEF Penalizing
    <3>8. id \in Ids(l)'
      BY <3>6, <3>7 DEF Ids
    <3>9. RowOf(id)'.status = "DEFAULTED"
      BY <3>1, <3>2 DEF RowOf
    <3> QED BY <3>5, <3>8, <3>9
  <2> QED BY <1>3, <2>1 DEF JobLife, Penalizing
<1> QED BY <1>1, <1>3, <1>4, <1>5, RowWrittenAlone DEF Penalizing

LEMMA TimeAlone ==
  ASSUME SerialInv, UNCHANGED <<loan, repayment, pc, req, local, faults>> PROVE SerialInv'
<1>1. \A l : Ids(l)' = Ids(l)
  BY DEF Ids, Approvals
<1>2. \A h \in Handlers : HandlerLife(h)'
  BY <1>1 DEF SerialInv, HandlerLife, Fresh, RequestLife, JobLife, RowOf, Unpaid
<1>3. \A l \in Requests : LoanLife(l)'
  BY <1>1 DEF SerialInv, LoanLife, RowOf
<1>4. OneRuns' /\ RowsSettled' /\ faults' \in Nat
  BY DEF SerialInv, OneRuns, RowsSettled, Settled
<1> QED BY <1>2, <1>3, <1>4 DEF SerialInv

LEMMA SerialStart == ASSUME Init PROVE SerialInv
<1>1. \A h \in Handlers : pc[h] \in {"idle", "ok"} /\ local[h] = NoLocals
  BY DEF Init
<1>2. \A h \in Handlers : HandlerLife(h)
  BY <1>1 DEF HandlerLife, Fresh, RequestLife, JobLife, NoLocals, Running, Applying, Deciding,
              Repaying, Nightly
<1>3. \A a \in Requests : DOMAIN repayment[a] = {}
  BY DEF Init
<1>4. \A l : Ids(l) = {}
  BY <1>3 DEF Ids, Approvals
<1>5. \A l \in Requests : loan[l].status \in {"absent", "PENDING"}
  BY DEF Init, SeededLoan, NoLoan
<1>6. \A l \in Requests : LoanLife(l)
  BY <1>4, <1>5 DEF LoanLife, LoanStatus
<1>7. OneRuns
  BY <1>1 DEF OneRuns, Running, Applying, Deciding, Repaying, Nightly
<1>8. RowsSettled /\ faults \in Nat
  BY <1>3 DEF RowsSettled, Init
<1> QED BY <1>2, <1>6, <1>7, <1>8 DEF SerialInv

LEMMA SerialStep ==
  ASSUME Serial, IInv, SerialInv, [Next]_vars PROVE SerialInv'
<1>1. ASSUME NEW r \in Requests, Submit(r) \/ Step(r) PROVE SerialInv'
  BY <1>1, SubmitAlone, ApplicationAlone, CreateAlone, ReadLoanAlone, DecideAlone, ScheduleAlone,
     ReadRowsAlone, PayAlone, CheckRowsAlone, EmitAlone DEF Step
<1>2. ASSUME NEW c \in Replicas, ProcessDailyPenalties(c) PROVE SerialInv'
  BY <1>2, FindOverdueAlone, PenaltyAlone, FindLoanAlone, DefaultAlone DEF ProcessDailyPenalties
<1>3. ASSUME NEW h \in Handlers, Crash(h) PROVE SerialInv'
  BY <1>3, CrashAlone
<1>4. ASSUME NEW u \in Users, CounterExpires(u) PROVE SerialInv'
  BY <1>4, TimeAlone DEF CounterExpires, tables
<1>5. ASSUME NextDay PROVE SerialInv'
  BY <1>5, TimeAlone DEF NextDay, tables
<1>6. ASSUME UNCHANGED vars PROVE SerialInv'
  BY <1>6, TimeAlone DEF vars
<1> QED BY <1>1, <1>2, <1>3, <1>4, <1>5, <1>6 DEF Next

\* Loans in order, rows fresh, and one handler at a time: what holds of the loan service
\* as long as no two of its handlers overlap, crashes included.
THEOREM SeriallyConsistent == Serial => (Spec => [](IInv /\ SerialInv))
<1> SUFFICES ASSUME Serial PROVE Spec => [](IInv /\ SerialInv)
  OBVIOUS
<1>1. Init => IInv /\ SerialInv
  BY LoanStart, SerialStart
<1>2. (IInv /\ SerialInv) /\ [Next]_vars => (IInv /\ SerialInv)'
  BY LoanStep, SerialStep
<1> QED BY <1>1, <1>2, PTL DEF Spec

LEMMA SerialSettles == SerialInv => SettledInFull
<1> SUFFICES ASSUME SerialInv, NEW l \in Requests
             PROVE  /\ \A id \in Ids(l) : RowOf(id).status = "PAID" =>
                         RowOf(id).paid >= RowOf(id).amount + RowOf(id).penalty
                    /\ loan[l].status = "COMPLETED" =>
                         \A id \in Ids(l) : RowOf(id).status = "PAID"
  BY DEF SettledInFull, Settles
<1>1. \A id \in Ids(l) : id[1] \in Requests /\ id[2] \in DOMAIN repayment[id[1]]
  BY DEF Ids, Approvals
<1>2. \A id \in Ids(l) : Settled(RowOf(id))
  BY <1>1 DEF SerialInv, RowsSettled, RowOf
<1>3. LoanLife(l)
  BY DEF SerialInv
<1> QED BY <1>2, <1>3 DEF Settled, LoanLife

\* A repayment is settled only when what was paid covers it with its penalties, and a loan
\* is completed only when all its repayments are (repayLoan), when handlers do not overlap.
THEOREM SettlesInFull == Serial => (Spec => []SettledInFull)
<1> SUFFICES ASSUME Serial PROVE Spec => []SettledInFull
  OBVIOUS
<1>1. Spec => [](IInv /\ SerialInv)
  BY SeriallyConsistent
<1>2. IInv /\ SerialInv => SettledInFull
  BY SerialSettles
<1> QED BY <1>1, <1>2, PTL

-----------------------------------------------------------------------------
(* The life of a loan, step by step *)

Legal(l) ==
  \/ <<loan[l].status, loan'[l].status>> \in Lifecycle
  \/ faults > 0 /\ loan[l].status = "APPROVED" /\ loan'[l].status = "DEFAULTED"

LEMMA StatusMoves ==
  ASSUME TypeInv, NEW h, NEW from, NEW l \in Requests, NEW status, NEW to,
         UpdateLoanStatus(h, from, l, status, to), NEW m \in Requests,
         loan'[m].status # loan[m].status
  PROVE  m = l /\ loan'[m].status = status /\ pc[h] = from
<1>1. loan' = [loan EXCEPT ![l].status = status] /\ pc[h] = from
  BY DEF UpdateLoanStatus, At
<1>2. DOMAIN loan[l] = {"status", "user", "principal", "term", "score"} /\ l \in DOMAIN loan
  BY DEF TypeInv, LoanFields
<1> QED BY <1>1, <1>2

LEMMA RequestIsLegal ==
  ASSUME IInv, SerialInv, NEW r \in Requests, Step(r), NEW l \in Requests,
         loan'[l].status # loan[l].status
  PROVE  Legal(l)
<1>1. RequestLife(r) /\ RequestInv(r) /\ TypeInv
  BY DEF Handlers, SerialInv, HandlerLife, IInv, HandlerInv
<1>2. \/ CreateLoan(r) \/ Approve(r) \/ DisburseLoan(r) \/ RejectLoan(r) \/ CompleteLoan(r)
      \/ loan' = loan
  BY DEF Step, Incr, Expire, Evaluate, UpsertCreditScore, ReadLoan, GenerateRepaymentSchedule,
         ReadRows, Pay, CheckRows, EmitKafkaEvent, tables
<1>3. CASE CreateLoan(r)
  <2>1. loan' = [loan EXCEPT ![r] = NewLoan(req[r], local[r].score)] /\ pc[r] = "create"
    BY <1>3 DEF CreateLoan, At
  <2>2. l = r /\ loan'[l].status = "PENDING"
    BY <1>1, <2>1 DEF TypeInv, NewLoan
  <2>3. loan[l].status = "absent"
    BY <1>1, <2>1, <2>2 DEF RequestInv, RequestAt, Exists
  <2> QED BY <2>2, <2>3 DEF Legal, Lifecycle
<1>4. ASSUME Approve(r) \/ DisburseLoan(r) \/ RejectLoan(r) \/ CompleteLoan(r) PROVE Legal(l)
  <2>1. PICK p \in Requests : p = req[r].loan
    <3>1. pc[r] \in {"approve", "disburse", "reject", "complete"}
      BY <1>4 DEF Approve, DisburseLoan, RejectLoan, CompleteLoan, UpdateLoanStatus, At
    <3>2. req[r].kind \in {"approve", "reject", "repay"}
      BY <1>1, <3>1 DEF RequestInv, RequestAt, Repaying
    <3> QED BY <3>2, Asked
  <2>2. CASE Approve(r)
    <3>1. l = p /\ loan'[l].status = "APPROVED" /\ pc[r] = "approve"
      BY <1>1, <2>1, <2>2, StatusMoves DEF Approve
    <3> QED BY <1>1, <2>1, <3>1 DEF RequestLife, Legal, Lifecycle
  <2>3. CASE DisburseLoan(r)
    <3>1. l = p /\ loan'[l].status = "ACTIVE" /\ pc[r] = "disburse"
      BY <1>1, <2>1, <2>3, StatusMoves DEF DisburseLoan
    <3> QED BY <1>1, <2>1, <3>1 DEF RequestLife, Legal, Lifecycle
  <2>4. CASE RejectLoan(r)
    <3>1. l = p /\ loan'[l].status = "REJECTED" /\ pc[r] = "reject"
      BY <1>1, <2>1, <2>4, StatusMoves DEF RejectLoan
    <3> QED BY <1>1, <2>1, <3>1 DEF RequestLife, Legal, Lifecycle
  <2>5. CASE CompleteLoan(r)
    <3>1. l = p /\ loan'[l].status = "COMPLETED" /\ pc[r] = "complete"
      BY <1>1, <2>1, <2>5, StatusMoves DEF CompleteLoan
    <3> QED BY <1>1, <2>1, <3>1 DEF RequestLife, Repaying, Legal, Lifecycle
  <2> QED BY <1>4, <2>2, <2>3, <2>4, <2>5
<1> QED BY <1>2, <1>3, <1>4

LEMMA JobIsLegal ==
  ASSUME IInv, SerialInv, NEW c \in Replicas, ProcessDailyPenalties(c), NEW l \in Requests,
         loan'[l].status # loan[l].status
  PROVE  Legal(l)
<1>1. c \in Handlers /\ c \notin Requests /\ JobLife(c) /\ JobInv(c) /\ TypeInv
  BY LoanAssumption DEF Handlers, SerialInv, HandlerLife, IInv, HandlerInv
<1>2. DefaultLoan(c)
  BY DEF ProcessDailyPenalties, FindOverdueRepayments, UpdatePenalty, FindLoan, EmitDefault, tables
<1>3. pc[c] = "default" /\ pc[c] \in Running
  BY <1>2 DEF DefaultLoan, UpdateLoanStatus, At, Running, Nightly
<1>4. PICK p \in Requests : p = local[c].loan
  BY <1>1, <1>3 DEF JobInv
<1>5. l = p /\ loan'[l].status = "DEFAULTED"
  BY <1>1, <1>2, <1>4, StatusMoves DEF DefaultLoan
<1>6. PICK id \in Ids(l) : RowOf(id).status = "DEFAULTED"
  BY <1>1, <1>3, <1>4, <1>5 DEF JobLife
<1>7. LoanLife(l)
  BY DEF SerialInv
<1>8. loan[l].status \in {"ACTIVE", "APPROVED"}
  BY <1>5, <1>6, <1>7 DEF LoanLife, LoanStatus
<1>9. loan[l].status = "APPROVED" => faults > 0
  <2>1. ASSUME NEW r \in Requests, pc[r] \in {"schedule", "disburse"} PROVE FALSE
    <3>1. r \in Handlers /\ pc[r] \in Running
      BY <2>1 DEF Handlers, Running, Deciding
    <3> QED BY <1>1, <1>3, <3>1 DEF SerialInv, OneRuns
  <2> QED BY <1>7, <2>1 DEF LoanLife
<1> QED BY <1>5, <1>8, <1>9 DEF Legal, Lifecycle

LEMMA StepIsLegal ==
  ASSUME IInv, SerialInv, [Next]_vars, NEW l \in Requests, loan'[l].status # loan[l].status
  PROVE  Legal(l)
<1>1. ASSUME NEW r \in Requests, Submit(r) \/ Step(r) PROVE Legal(l)
  BY <1>1, RequestIsLegal DEF Submit, tables
<1>2. ASSUME NEW c \in Replicas, ProcessDailyPenalties(c) PROVE Legal(l)
  BY <1>2, JobIsLegal
<1>3. ASSUME NEW h \in Handlers, Crash(h) PROVE Legal(l)
  BY <1>3 DEF Crash, tables
<1>4. ASSUME NEW u \in Users, CounterExpires(u) PROVE Legal(l)
  BY <1>4 DEF CounterExpires, tables
<1>5. ASSUME NextDay \/ UNCHANGED vars PROVE Legal(l)
  BY <1>5 DEF NextDay, vars, tables
<1> QED BY <1>1, <1>2, <1>3, <1>4, <1>5 DEF Next

\* A loan goes through its life in order (approveLoan, rejectLoan, repayLoan and
\* processDailyPenalties check where they change a status, or changed it themselves), when
\* handlers do not overlap; only a crash lets an approved loan default unpaid.
THEOREM LifeIsLegal == Serial => (Spec => LegalLifecycle)
<1> SUFFICES ASSUME Serial PROVE Spec => LegalLifecycle
  OBVIOUS
<1>1. Spec => [](IInv /\ SerialInv)
  BY SeriallyConsistent
<1>2. (IInv /\ SerialInv) /\ [Next]_vars =>
        [\A l \in Requests : LegalStep(l)]_vars
  BY StepIsLegal DEF Legal, LegalStep
<1> QED BY <1>1, <1>2, PTL DEF Spec, LegalLifecycle

-----------------------------------------------------------------------------
(* Sums over finite sets: the fold of Folds and Functions, for + and 0 *)

Sum(f, S) == FoldFunctionOnSet(+, 0, f, S)

Pick(s) == CHOOSE x \in s : TRUE

\* g adds up the values of f over every subset of S, one after the other.
Adds(f, S, g) ==
  g = [s \in SUBSET S |-> IF s = {} THEN 0 ELSE f[Pick(s)] + g[s \ {Pick(s)}]]

LEMMA SumIsFold ==
  ASSUME NEW f, NEW S PROVE Sum(f, S) = (CHOOSE g : Adds(f, S, g))[S]
BY DEF Sum, FoldFunctionOnSet, MapThenFoldSet, Adds, Pick

\* Among sets of subsets of a finite set there is always a smallest one.
LEMMA SmallestSet ==
  ASSUME NEW U, IsFiniteSet(U), NEW B \in SUBSET SUBSET U, B # {}
  PROVE  \E T \in B : \A V \in SUBSET T : V # T => V \notin B
<1>1. IsWellFoundedOn(StrictSubsetOrdering(U), SUBSET U)
  BY FS_StrictSubsetOrderingWellFounded, FS_FiniteSubsetsOfFinite
<1>2. PICK T \in B : \A V \in B : ~ (<<V, T>> \in StrictSubsetOrdering(U))
  BY <1>1, WFMin
<1>3. ASSUME NEW V \in SUBSET T, V # T, V \in B PROVE FALSE
  <2>1. <<V, T>> \in StrictSubsetOrdering(U)
    BY <1>3 DEF StrictSubsetOrdering
  <2> QED BY <1>2, <1>3, <2>1
<1> QED BY <1>3

\* Induction over the subsets of a finite set.
LEMMA SubsetInduction ==
  ASSUME NEW U, IsFiniteSet(U), NEW F \in SUBSET SUBSET U, {} \in F,
         \A S \in F : \A x \in U \ S : S \cup {x} \in F
  PROVE  F = SUBSET U
<1> DEFINE B == {S \in SUBSET U : S \notin F}
<1> SUFFICES ASSUME B # {} PROVE FALSE
  OBVIOUS
<1>1. PICK T \in B : \A V \in SUBSET T : V # T => V \notin B
  <2>1. B \in SUBSET SUBSET U
    OBVIOUS
  <2> HIDE DEF B
  <2> QED BY <2>1, SmallestSet
<1>2. PICK x \in T : TRUE
  <2>1. T # {}
    BY <1>1
  <2> QED BY <2>1
<1>3. T \ {x} \in F
  <2>1. T \ {x} \in SUBSET T /\ T \ {x} # T /\ T \ {x} \in SUBSET U
    BY <1>1, <1>2
  <2> QED BY <1>1, <2>1
<1>4. x \in U \ (T \ {x}) /\ (T \ {x}) \cup {x} = T
  BY <1>1, <1>2
<1>5. T \in F
  BY <1>3, <1>4
<1> QED BY <1>1, <1>5

LEMMA PickIsIn == ASSUME NEW s, s # {} PROVE Pick(s) \in s
BY DEF Pick

\* What adds up over S and what adds up over T agree on what both contain.
LEMMA AddsAgree ==
  ASSUME NEW f, NEW S, NEW T, IsFiniteSet(S), NEW g, NEW h, Adds(f, S, g), Adds(f, T, h)
  PROVE  \A s \in SUBSET (S \cap T) : g[s] = h[s]
<1> DEFINE B == {s \in SUBSET (S \cap T) : g[s] # h[s]}
<1> SUFFICES ASSUME B # {} PROVE FALSE
  OBVIOUS
<1>1. PICK s \in B : \A V \in SUBSET s : V # s => V \notin B
  <2>1. B \in SUBSET SUBSET S
    OBVIOUS
  <2> HIDE DEF B
  <2> QED BY <2>1, SmallestSet
<1>2. s \in SUBSET S /\ s \in SUBSET T /\ g[s] # h[s]
  BY <1>1
<1>3. /\ g[s] = IF s = {} THEN 0 ELSE f[Pick(s)] + g[s \ {Pick(s)}]
      /\ h[s] = IF s = {} THEN 0 ELSE f[Pick(s)] + h[s \ {Pick(s)}]
  BY <1>2 DEF Adds
<1>4. CASE s = {}
  BY <1>2, <1>3, <1>4
<1>5. CASE s # {}
  <2>1. s \ {Pick(s)} \in SUBSET s /\ s \ {Pick(s)} # s
    BY <1>5, PickIsIn
  <2>2. g[s \ {Pick(s)}] = h[s \ {Pick(s)}]
    BY <1>1, <1>2, <2>1
  <2> QED BY <1>2, <1>3, <1>5, <2>2
<1> QED BY <1>4, <1>5

LEMMA AddsExists ==
  ASSUME NEW f, NEW U, IsFiniteSet(U) PROVE \E g : Adds(f, U, g)
<1> DEFINE B == {S \in SUBSET U : ~ \E g : Adds(f, S, g)}
<1> SUFFICES ASSUME B # {} PROVE FALSE
  OBVIOUS
<1>1. PICK S \in B : \A V \in SUBSET S : V # S => V \notin B
  <2>1. B \in SUBSET SUBSET U
    OBVIOUS
  <2> HIDE DEF B
  <2> QED BY <2>1, SmallestSet
<1>2. S \in SUBSET U /\ IsFiniteSet(S) /\ ~ \E g : Adds(f, S, g)
  BY <1>1, FS_Subset
<1>3. \A V \in SUBSET S : V # S => \E g : Adds(f, V, g)
  BY <1>1, <1>2
<1> HIDE DEF B
<1> DEFINE G(V) == CHOOSE g : Adds(f, V, g)
           low(s) == G(s)[s]
           all == [s \in SUBSET S |-> IF s # S THEN low(s)
                                      ELSE IF S = {} THEN 0
                                      ELSE f[Pick(S)] + low(S \ {Pick(S)})]
<1>4. \A V \in SUBSET S : V # S => Adds(f, V, G(V))
  BY <1>3
<1>5. ASSUME NEW s \in SUBSET S, s # S
      PROVE  low(s) = IF s = {} THEN 0 ELSE f[Pick(s)] + low(s \ {Pick(s)})
  <2>1. Adds(f, s, G(s)) /\ IsFiniteSet(s)
    BY <1>2, <1>4, <1>5, FS_Subset
  <2> HIDE DEF G
  <2>2. G(s)[s] = IF s = {} THEN 0 ELSE f[Pick(s)] + G(s)[s \ {Pick(s)}]
    <3>1. s \in SUBSET s
      OBVIOUS
    <3> QED BY <2>1, <3>1 DEF Adds
  <2>3. ASSUME s # {} PROVE G(s)[s \ {Pick(s)}] = G(s \ {Pick(s)})[s \ {Pick(s)}]
    <3> DEFINE t == s \ {Pick(s)}
    <3>1. t \in SUBSET S /\ t # S
      BY <1>5
    <3>2. Adds(f, t, G(t))
      BY <1>4, <3>1
    <3>3. t \in SUBSET (s \cap t)
      OBVIOUS
    <3> HIDE DEF t
    <3>4. G(s)[t] = G(t)[t]
      BY <2>1, <3>2, <3>3, AddsAgree
    <3> QED BY <3>4 DEF t
  <2> QED BY <2>2, <2>3
<1>6. ASSUME NEW s \in SUBSET S
      PROVE  all[s] = IF s = {} THEN 0 ELSE f[Pick(s)] + all[s \ {Pick(s)}]
  <2> HIDE DEF low
  <2>1. CASE s = {}
    <3>1. s # S => low(s) = 0
      BY <1>5, <2>1
    <3> QED BY <2>1, <3>1
  <2>2. CASE s # {}
    <3>1. s \ {Pick(s)} \in SUBSET S /\ s \ {Pick(s)} # S
      BY <2>2, PickIsIn
    <3>2. all[s \ {Pick(s)}] = low(s \ {Pick(s)})
      BY <3>1
    <3>3. all[s] = f[Pick(s)] + low(s \ {Pick(s)})
      BY <1>5, <2>2
    <3> QED BY <2>2, <3>2, <3>3
  <2> QED BY <2>1, <2>2
<1>7. Adds(f, S, all)
  <2>1. all = [s \in SUBSET S |-> all[s]]
    OBVIOUS
  <2> HIDE DEF all
  <2>2. [s \in SUBSET S |-> all[s]]
          = [s \in SUBSET S |-> IF s = {} THEN 0 ELSE f[Pick(s)] + all[s \ {Pick(s)}]]
    BY <1>6
  <2> QED BY <2>1, <2>2 DEF Adds
<1> QED BY <1>2, <1>7

LEMMA SumAdds ==
  ASSUME NEW f, NEW S, IsFiniteSet(S)
  PROVE  \E g : Adds(f, S, g) /\ Sum(f, S) = g[S]
BY SumIsFold, AddsExists

LEMMA SumOfNone == ASSUME NEW f PROVE Sum(f, {}) = 0
<1>1. PICK g : Adds(f, {}, g) /\ Sum(f, {}) = g[{}]
  BY FS_EmptySet, SumAdds
<1> QED BY <1>1 DEF Adds

LEMMA SumByPick ==
  ASSUME NEW f, NEW S, IsFiniteSet(S), S # {}
  PROVE  Sum(f, S) = f[Pick(S)] + Sum(f, S \ {Pick(S)})
<1> DEFINE T == S \ {Pick(S)}
<1>1. PICK g : Adds(f, S, g) /\ Sum(f, S) = g[S]
  BY SumAdds
<1>2. T \in SUBSET S /\ IsFiniteSet(T)
  BY FS_Subset
<1>3. PICK h : Adds(f, T, h) /\ Sum(f, T) = h[T]
  <2> HIDE DEF T
  <2> QED BY <1>2, SumAdds
<1>4. g[T] = h[T]
  <2>1. T \in SUBSET (S \cap T)
    BY <1>2
  <2> HIDE DEF T
  <2> QED BY <1>1, <1>3, <2>1, AddsAgree
<1>5. g[S] = f[Pick(S)] + g[T]
  BY <1>1 DEF Adds
<1> QED BY <1>1, <1>3, <1>4, <1>5

LEMMA SumIsNatural ==
  ASSUME NEW f, NEW U, IsFiniteSet(U), \A x \in U : f[x] \in Nat
  PROVE  Sum(f, U) \in Nat
<1> DEFINE B == {S \in SUBSET U : Sum(f, S) \notin Nat}
<1> SUFFICES ASSUME B # {} PROVE FALSE
  OBVIOUS
<1>1. PICK S \in B : \A V \in SUBSET S : V # S => V \notin B
  <2>1. B \in SUBSET SUBSET U
    OBVIOUS
  <2> HIDE DEF B
  <2> QED BY <2>1, SmallestSet
<1>2. S \in SUBSET U /\ Sum(f, S) \notin Nat /\ IsFiniteSet(S)
  BY <1>1, FS_Subset
<1>3. S # {}
  BY <1>2, SumOfNone
<1>4. Pick(S) \in S
  BY <1>3, PickIsIn
<1>5. Sum(f, S \ {Pick(S)}) \in Nat
  <2>1. S \ {Pick(S)} \in SUBSET S /\ S \ {Pick(S)} # S
    BY <1>4
  <2> QED BY <1>1, <1>2, <2>1
<1>6. Sum(f, S) = f[Pick(S)] + Sum(f, S \ {Pick(S)})
  BY <1>2, <1>3, SumByPick
<1>7. f[Pick(S)] \in Nat
  BY <1>2, <1>4
<1> QED BY <1>2, <1>5, <1>6, <1>7

\* The order does not matter: any value can be taken out of the sum.
LEMMA SumTakeOut ==
  ASSUME NEW f, NEW U, IsFiniteSet(U), \A y \in U : f[y] \in Nat, NEW x \in U
  PROVE  Sum(f, U) = f[x] + Sum(f, U \ {x})
<1> DEFINE Out(S, y) == Sum(f, S) = f[y] + Sum(f, S \ {y})
           B == {S \in SUBSET U : \E y \in S : ~ Out(S, y)}
<1> SUFFICES ASSUME B # {} PROVE FALSE
  <2>1. U \in SUBSET U
    OBVIOUS
  <2> QED BY <2>1
<1>1. PICK S \in B : \A V \in SUBSET S : V # S => V \notin B
  <2>1. B \in SUBSET SUBSET U
    OBVIOUS
  <2> HIDE DEF B
  <2> QED BY <2>1, SmallestSet
<1>2. PICK y \in S : ~ Out(S, y)
  BY <1>1
<1>3. S \in SUBSET U /\ IsFiniteSet(S)
  BY <1>1, FS_Subset
<1>4. \A V \in SUBSET S : V # S => \A z \in V : Out(V, z)
  BY <1>1, <1>3
<1> HIDE DEF B
<1>5. PICK p \in S : p = Pick(S) /\ Out(S, p)
  BY <1>3, PickIsIn, SumByPick
<1>6. p # y
  BY <1>2, <1>5
<1> DEFINE P == S \ {p}
           Y == S \ {y}
<1>7. Sum(f, P) = f[y] + Sum(f, P \ {y})
  <2>1. P \in SUBSET S /\ P # S /\ y \in P
    BY <1>6
  <2>2. Out(P, y)
    BY <1>4, <2>1
  <2> QED BY <2>2
<1>8. Sum(f, Y) = f[p] + Sum(f, Y \ {p})
  <2>1. Y \in SUBSET S /\ Y # S /\ p \in Y
    BY <1>6
  <2>2. Out(Y, p)
    BY <1>4, <2>1
  <2> QED BY <2>2
<1>9. Y \ {p} = P \ {y}
  OBVIOUS
<1>10. f[p] \in Nat /\ f[y] \in Nat /\ Sum(f, P \ {y}) \in Nat
  <2>1. IsFiniteSet(P \ {y}) /\ P \ {y} \in SUBSET U
    BY <1>3, FS_Subset
  <2>2. Sum(f, P \ {y}) \in Nat
    <3> DEFINE R == P \ {y}
    <3>1. IsFiniteSet(R) /\ \A z \in R : f[z] \in Nat
      BY <2>1
    <3> HIDE DEF R
    <3>2. Sum(f, R) \in Nat
      BY <3>1, SumIsNatural
    <3> QED BY <3>2 DEF R
  <2> QED BY <1>3, <2>2
<1>11. Sum(f, S) = f[p] + Sum(f, P)
  BY <1>5
<1>12. Sum(f, S) = f[y] + Sum(f, Y)
  <2>1. \A i, j, k \in Nat : i + (j + k) = j + (i + k)
    OBVIOUS
  <2> HIDE DEF P, Y, Out
  <2>2. Sum(f, Y) = f[p] + Sum(f, P \ {y})
    BY <1>8, <1>9
  <2> QED BY <1>7, <1>10, <1>11, <2>1, <2>2
<1> QED BY <1>2, <1>12

LEMMA SumAddOne ==
  ASSUME NEW f, NEW S, IsFiniteSet(S), NEW x, x \notin S, \A y \in S \cup {x} : f[y] \in Nat
  PROVE  Sum(f, S \cup {x}) = f[x] + Sum(f, S)
<1> DEFINE U == S \cup {x}
<1>1. IsFiniteSet(U) /\ x \in U /\ U \ {x} = S
  BY FS_AddElement
<1> HIDE DEF U
<1>2. \A y \in U : f[y] \in Nat
  BY DEF U
<1>3. Sum(f, U) = f[x] + Sum(f, U \ {x})
  BY <1>1, <1>2, SumTakeOut
<1> QED BY <1>1, <1>3 DEF U

\* A sum grows with each of its values, and with what is added up.
LEMMA SumGrows ==
  ASSUME NEW U, IsFiniteSet(U), NEW f, NEW g,
         \A x \in U : f[x] \in Nat /\ g[x] \in Nat /\ f[x] <= g[x]
  PROVE  Sum(f, U) <= Sum(g, U)
<1> DEFINE F == {S \in SUBSET U : Sum(f, S) <= Sum(g, S)}
<1>1. {} \in F
  BY SumOfNone
<1>2. ASSUME NEW S \in F, NEW x \in U \ S PROVE S \cup {x} \in F
  <2>1. IsFiniteSet(S) /\ S \in SUBSET U /\ Sum(f, S) <= Sum(g, S)
    BY FS_Subset
  <2>2. Sum(f, S \cup {x}) = f[x] + Sum(f, S) /\ Sum(g, S \cup {x}) = g[x] + Sum(g, S)
    BY <2>1, SumAddOne
  <2>3. Sum(f, S) \in Nat /\ Sum(g, S) \in Nat
    BY <2>1, SumIsNatural
  <2>4. Sum(f, S \cup {x}) <= Sum(g, S \cup {x})
    BY <2>1, <2>2, <2>3
  <2> QED BY <2>1, <2>4
<1> HIDE DEF F
<1>3. F = SUBSET U
  <2>1. F \in SUBSET SUBSET U
    BY DEF F
  <2> QED BY <1>1, <1>2, <2>1, SubsetInduction
<1>4. U \in F
  BY <1>3
<1> QED BY <1>4 DEF F

LEMMA SumOfSame ==
  ASSUME NEW U, IsFiniteSet(U), NEW f, NEW g, \A x \in U : f[x] \in Nat /\ f[x] = g[x]
  PROVE  Sum(f, U) = Sum(g, U)
<1>1. \A x \in U : f[x] <= g[x] /\ g[x] <= f[x] /\ g[x] \in Nat
  OBVIOUS
<1>2. Sum(f, U) <= Sum(g, U) /\ Sum(g, U) <= Sum(f, U)
  BY <1>1, SumGrows
<1>3. Sum(f, U) \in Nat /\ Sum(g, U) \in Nat
  BY <1>1, SumIsNatural
<1> QED BY <1>2, <1>3

\* One value changes: the sum changes by as much.
LEMMA SumWithOne ==
  ASSUME NEW U, IsFiniteSet(U), NEW f, NEW g, NEW x \in U,
         \A y \in U : f[y] \in Nat /\ g[y] \in Nat, \A y \in U \ {x} : g[y] = f[y]
  PROVE  Sum(g, U) + f[x] = Sum(f, U) + g[x]
<1> DEFINE V == U \ {x}
<1>1. Sum(f, U) = f[x] + Sum(f, V) /\ Sum(g, U) = g[x] + Sum(g, V)
  BY SumTakeOut
<1>2. IsFiniteSet(V) /\ \A y \in V : f[y] \in Nat /\ f[y] = g[y]
  BY FS_Subset
<1> HIDE DEF V
<1>3. Sum(f, V) = Sum(g, V) /\ Sum(f, V) \in Nat
  BY <1>2, SumOfSame, SumIsNatural
<1>4. f[x] \in Nat /\ g[x] \in Nat
  OBVIOUS
<1> QED BY <1>1, <1>3, <1>4

\* What is nothing can be left out.
LEMMA SumOfRest ==
  ASSUME NEW U, IsFiniteSet(U), NEW f, \A x \in U : f[x] \in Nat, NEW V \in SUBSET U,
         \A x \in U \ V : f[x] = 0
  PROVE  Sum(f, U) = Sum(f, V)
<1> DEFINE F == {S \in SUBSET (U \ V) : Sum(f, V \cup S) = Sum(f, V)}
           W == U \ V
<1>1. {} \in F
  <2>1. V \cup {} = V
    OBVIOUS
  <2> QED BY <2>1
<1>2. ASSUME NEW S \in F, NEW x \in W \ S PROVE S \cup {x} \in F
  <2> DEFINE T == V \cup S
  <2>1. /\ IsFiniteSet(T) /\ T \in SUBSET U /\ Sum(f, T) = Sum(f, V) /\ x \notin T
        /\ f[x] = 0 /\ V \cup (S \cup {x}) = T \cup {x}
    <3>1. T \in SUBSET U
      OBVIOUS
    <3> QED BY <3>1, FS_Subset
  <2> HIDE DEF T, F
  <2>2. Sum(f, T \cup {x}) = f[x] + Sum(f, T) /\ Sum(f, T) \in Nat
    BY <2>1, SumAddOne, SumIsNatural
  <2>3. Sum(f, V \cup (S \cup {x})) = Sum(f, V)
    <3>1. \A n \in Nat : 0 + n = n
      OBVIOUS
    <3>2. Sum(f, T \cup {x}) = Sum(f, T)
      BY <2>1, <2>2, <3>1
    <3> QED BY <2>1, <3>2
  <2>4. S \cup {x} \in SUBSET (U \ V)
    BY DEF F
  <2> QED BY <2>3, <2>4 DEF F
<1>3. F \in SUBSET SUBSET W /\ IsFiniteSet(W) /\ V \cup W = U
  BY FS_Subset
<1>4. W \in F
  <2> HIDE DEF F, W
  <2>1. F = SUBSET W
    BY <1>1, <1>2, <1>3, SubsetInduction
  <2> QED BY <2>1
<1> QED BY <1>3, <1>4

LEMMA SumOfBoth ==
  ASSUME NEW U, IsFiniteSet(U), NEW f, NEW g, NEW h,
         \A x \in U : f[x] \in Nat /\ g[x] \in Nat /\ h[x] = f[x] + g[x]
  PROVE  Sum(h, U) = Sum(f, U) + Sum(g, U)
<1> DEFINE F == {S \in SUBSET U : Sum(h, S) = Sum(f, S) + Sum(g, S)}
<1>1. {} \in F
  BY SumOfNone
<1>2. ASSUME NEW S \in F, NEW x \in U \ S PROVE S \cup {x} \in F
  <2>1. IsFiniteSet(S) /\ S \in SUBSET U /\ Sum(h, S) = Sum(f, S) + Sum(g, S)
    BY FS_Subset
  <2>2. \A y \in U : h[y] \in Nat
    OBVIOUS
  <2>3. /\ Sum(f, S \cup {x}) = f[x] + Sum(f, S) /\ Sum(g, S \cup {x}) = g[x] + Sum(g, S)
        /\ Sum(h, S \cup {x}) = h[x] + Sum(h, S)
    BY <2>1, <2>2, SumAddOne
  <2>4. Sum(f, S) \in Nat /\ Sum(g, S) \in Nat /\ f[x] \in Nat /\ g[x] \in Nat
    BY <2>1, SumIsNatural
  <2>5. \A i, j, k, n \in Nat : (i + j) + (k + n) = (i + k) + (j + n)
    OBVIOUS
  <2>6. Sum(h, S \cup {x}) = Sum(f, S \cup {x}) + Sum(g, S \cup {x})
    BY <2>1, <2>3, <2>4, <2>5
  <2> QED BY <2>1, <2>6
<1> HIDE DEF F
<1>3. F = SUBSET U
  <2>1. F \in SUBSET SUBSET U
    BY DEF F
  <2> QED BY <1>1, <1>2, <2>1, SubsetInduction
<1>4. U \in F
  BY <1>3
<1> QED BY <1>4 DEF F

\* A table adds up to the same by rows and by columns.
LEMMA SumBothWays ==
  ASSUME NEW R, IsFiniteSet(R), NEW T, IsFiniteSet(T), NEW m,
         \A r \in R : \A t \in T : m[r][t] \in Nat
  PROVE  Sum([t \in T |-> Sum([r \in R |-> m[r][t]], R)], T)
           = Sum([r \in R |-> Sum(m[r], T)], R)
<1> DEFINE Column(t, S) == Sum([r \in R |-> m[r][t]], S)
           Columns(S) == [t \in T |-> Column(t, S)]
           Rows == [r \in R |-> Sum(m[r], T)]
           F == {S \in SUBSET R : Sum(Columns(S), T) = Sum(Rows, S)}
<1>0. ASSUME NEW S \in SUBSET R, NEW t \in T PROVE Column(t, S) \in Nat
  <2>1. IsFiniteSet(S) /\ \A r \in S : [p \in R |-> m[p][t]][r] \in Nat
    BY FS_Subset
  <2> QED BY <2>1, SumIsNatural
<1>1. {} \in F
  <2>1. \A t \in T : Columns({})[t] = 0
    BY SumOfNone
  <2>2. Sum(Columns({}), T) = Sum(Columns({}), {})
    <3> HIDE DEF Columns
    <3> QED BY <2>1, SumOfRest
  <2> QED BY <2>2, SumOfNone
<1>2. ASSUME NEW S \in F, NEW x \in R \ S PROVE S \cup {x} \in F
  <2>1. IsFiniteSet(S) /\ S \in SUBSET R /\ Sum(Columns(S), T) = Sum(Rows, S)
        /\ S \cup {x} \in SUBSET R
    BY FS_Subset
  <2>2. ASSUME NEW t \in T PROVE Column(t, S \cup {x}) = m[x][t] + Column(t, S)
    <3> DEFINE c == [r \in R |-> m[r][t]]
    <3>1. \A y \in S \cup {x} : c[y] \in Nat
      BY <2>1
    <3>2. c[x] = m[x][t]
      OBVIOUS
    <3> HIDE DEF c
    <3>3. Sum(c, S \cup {x}) = c[x] + Sum(c, S)
      BY <2>1, <3>1, SumAddOne
    <3> QED BY <3>2, <3>3 DEF c
  <2>3. \A t \in T : /\ Columns(S \cup {x})[t] = m[x][t] + Columns(S)[t]
                     /\ m[x][t] \in Nat /\ Columns(S)[t] \in Nat
    <3> HIDE DEF Column
    <3> QED BY <1>0, <2>1, <2>2
  <2>4. Sum(Columns(S \cup {x}), T) = Sum(m[x], T) + Sum(Columns(S), T)
    <3> HIDE DEF Columns
    <3> QED BY <2>3, SumOfBoth
  <2>5. Sum(Rows, S \cup {x}) = Rows[x] + Sum(Rows, S) /\ Rows[x] = Sum(m[x], T)
    <3>1. \A y \in R : Rows[y] \in Nat
      <4> SUFFICES ASSUME NEW y \in R PROVE Sum(m[y], T) \in Nat
        OBVIOUS
      <4> QED BY SumIsNatural
    <3>2. Rows[x] = Sum(m[x], T)
      OBVIOUS
    <3> HIDE DEF Rows
    <3>3. Sum(Rows, S \cup {x}) = Rows[x] + Sum(Rows, S)
      BY <2>1, <3>1, SumAddOne
    <3> QED BY <3>2, <3>3
  <2> HIDE DEF Columns, Rows
  <2>6. Sum(Columns(S \cup {x}), T) = Sum(Rows, S \cup {x})
    BY <2>1, <2>4, <2>5
  <2> QED BY <2>1, <2>6
<1>3. F \in SUBSET SUBSET R
  OBVIOUS
<1>4. R \in F
  <2> HIDE DEF F
  <2>1. F = SUBSET R
    BY <1>1, <1>2, <1>3, SubsetInduction
  <2> QED BY <2>1
<1> QED BY <1>4

-----------------------------------------------------------------------------
(* Who paid what *)

\* The requests sent so far: finitely many, however many there may be.
Sent == {r \in Requests : req[r] # NoRequest}

\* c[r][id]: what request r put on the repayment id.
Parts == [Requests -> [Requests \X Nat -> Nat]]

Column(c, id) == [r \in Requests |-> c[r][id]]

Put(c, id) == Sum(Column(c, id), Sent)

\* A payment goes to rows of the loan it is for, and is gone from what is left of it.
PaymentInv(c, r) ==
  /\ \A id \in Requests \X Nat : c[r][id] # 0 =>
       req[r].kind = "repay" /\ id \in Ids(req[r].loan)
  /\ req[r].kind = "repay" => left[r] + Sum(c[r], Ids(req[r].loan)) = req[r].amount
  /\ pc[r] \in {"readLoan", "readRows"} => \A id \in Requests \X Nat : c[r][id] = 0

\* The rows a payment still has to deal with got nothing of it yet, and were paid what
\* others put on them, or less: others may have paid since.
MemoryInv(c, r) == \A id \in DOMAIN local[r].rows :
  /\ id \in Requests \X Nat /\ req[r].kind = "repay" /\ id \in Ids(req[r].loan)
  /\ c[r][id] = 0 /\ local[r].rows[id].paid <= Put(c, id)

\* A row may have lost payments to a writer that did not know of them.
PaidInv(c, id) ==
  /\ RowOf(id).paid <= Put(c, id)
  /\ Serial => RowOf(id).paid = Put(c, id)

PartsInv(c) ==
  /\ c \in Parts
  /\ \A r \in Requests : PaymentInv(c, r) /\ MemoryInv(c, r)
  /\ \A l \in Requests : \A id \in Ids(l) : PaidInv(c, id)

MoneyInv == IsFiniteSet(Sent) /\ \E c : PartsInv(c)

\* What else is known where handlers do not overlap.
LoanKnown == IInv /\ (Serial => SerialInv)

LEMMA IdsAreFinite ==
  ASSUME IInv, IsFiniteSet(Sent), NEW l
  PROVE  IsFiniteSet(Ids(l)) /\ Ids(l) \subseteq Requests \X Nat
<1> DEFINE Over(S) == UNION {{a} \X DOMAIN repayment[a] : a \in S}
           F == {S \in SUBSET Approvals(l) : IsFiniteSet(Over(S))}
<1>1. IsFiniteSet(Approvals(l))
  <2>1. Approvals(l) \subseteq Sent
    BY DEF Approvals, Sent, NoRequest
  <2> QED BY <2>1, FS_Subset
<1>2. {} \in F
  <2>1. Over({}) = {}
    OBVIOUS
  <2> HIDE DEF Over
  <2> QED BY <2>1, FS_EmptySet
<1>3. ASSUME NEW S \in F, NEW x \in Approvals(l) \ S PROVE S \cup {x} \in F
  <2>1. Over(S \cup {x}) = Over(S) \cup ({x} \X DOMAIN repayment[x])
    OBVIOUS
  <2>2. IsFiniteSet({x} \X DOMAIN repayment[x])
    <3>1. IsFiniteSet(DOMAIN repayment[x])
      <4>1. repayment[x] \in Seq(Instalment)
        BY DEF Approvals, IInv, TypeInv
      <4>2. DOMAIN repayment[x] = 1..Len(repayment[x]) /\ Len(repayment[x]) \in Int
        BY <4>1
      <4> QED BY <4>2, FS_Interval
    <3>2. IsFiniteSet({x})
      BY FS_Singleton
    <3> QED BY <3>1, <3>2, FS_Product
  <2>3. IsFiniteSet(Over(S \cup {x}))
    <3>1. IsFiniteSet(Over(S))
      OBVIOUS
    <3>2. IsFiniteSet(Over(S) \cup ({x} \X DOMAIN repayment[x]))
      <4> HIDE DEF Over
      <4> QED BY <2>2, <3>1, FS_Union
    <3> QED BY <2>1, <3>2
  <2> QED BY <2>3
<1>4. Approvals(l) \in F
  <2>1. F \in SUBSET SUBSET Approvals(l)
    OBVIOUS
  <2> HIDE DEF F
  <2>2. F = SUBSET Approvals(l)
    BY <1>1, <1>2, <1>3, <2>1, SubsetInduction
  <2> QED BY <2>2
<1>5. IsFiniteSet(Ids(l))
  BY <1>4 DEF Ids
<1>6. Ids(l) \subseteq Requests \X Nat
  BY RowsAreThere DEF IInv
<1> QED BY <1>5, <1>6

LEMMA PutIsNatural ==
  ASSUME IsFiniteSet(Sent), NEW c \in Parts, NEW id \in Requests \X Nat PROVE Put(c, id) \in Nat
<1>1. \A r \in Sent : Column(c, id)[r] \in Nat
  BY DEF Parts, Column, Sent
<1> QED BY <1>1, SumIsNatural DEF Put

\* No request has put anything on a row that is in no schedule.
LEMMA NothingElsewhere ==
  ASSUME IsFiniteSet(Sent), NEW c \in Parts, NEW id \in Requests \X Nat,
         \A r \in Requests : c[r][id] = 0
  PROVE  Put(c, id) = 0
<1>1. \A r \in Sent : Column(c, id)[r] \in Nat /\ Column(c, id)[r] = 0
  BY DEF Parts, Column, Sent
<1>2. Sum(Column(c, id), Sent) = Sum(Column(c, id), {})
  BY <1>1, SumOfRest
<1> QED BY <1>2, SumOfNone DEF Put

\* Steps that pay nothing, write nothing that was paid, and read no rows.
LEMMA NothingPaid ==
  ASSUME LoanKnown, MoneyInv, UNCHANGED <<repayment, req, left>>,
         \A r \in Requests : local'[r].rows = local[r].rows \/ local'[r].rows = <<>>,
         \A r \in Requests : pc'[r] \in {"readLoan", "readRows"} =>
           pc[r] \in {"readLoan", "readRows"}
  PROVE  MoneyInv'
<1>1. PICK c : PartsInv(c)
  BY DEF MoneyInv
<1>2. IsFiniteSet(Sent')
  BY DEF MoneyInv, Sent
<1>3. (\A l : Ids(l)' = Ids(l)) /\ Sent' = Sent
  BY DEF Ids, Approvals, Sent
<1>4. \A r \in Requests : PaymentInv(c, r)'
  BY <1>1, <1>3 DEF PartsInv, PaymentInv
<1>5. \A r \in Requests : MemoryInv(c, r)'
  BY <1>1, <1>3 DEF PartsInv, MemoryInv, Put
<1>6. \A l \in Requests : \A id \in Ids(l)' : PaidInv(c, id)'
  BY <1>1, <1>3 DEF PartsInv, PaidInv, Put, RowOf
<1>7. PartsInv(c)'
  BY <1>1, <1>4, <1>5, <1>6 DEF PartsInv
<1> QED BY <1>2, <1>7 DEF MoneyInv

LEMMA MovesPayNothing ==
  ASSUME LoanKnown, MoneyInv, NEW r \in Requests,
         \/ Incr(r) \/ Expire(r) \/ Evaluate(r) \/ CreateLoan(r) \/ UpsertCreditScore(r)
         \/ ReadLoan(r) \/ Approve(r) \/ DisburseLoan(r) \/ RejectLoan(r) \/ CheckRows(r)
         \/ CompleteLoan(r) \/ EmitKafkaEvent(r)
  PROVE  MoneyInv'
<1>1. IInv /\ DOMAIN local[r] = {"rows", "score", "loan"}
  BY DEF LoanKnown, IInv, TypeInv, LocalFields, Handlers
<1>2. UNCHANGED <<repayment, req, left>>
  BY DEF Incr, Expire, Evaluate, CreateLoan, UpsertCreditScore, ReadLoan, Approve, DisburseLoan,
         RejectLoan, CheckRows, CompleteLoan, EmitKafkaEvent, UpdateLoanStatus, tables
<1>3. ASSUME NEW p \in Requests PROVE local'[p].rows = local[p].rows \/ local'[p].rows = <<>>
  <2>1. \/ local' = local \/ local' = [local EXCEPT ![r] = NoLocals]
        \/ \E n : local' = [local EXCEPT ![r].score = n]
    BY DEF Incr, Expire, Evaluate, CreateLoan, UpsertCreditScore, ReadLoan, Approve, DisburseLoan,
           RejectLoan, CheckRows, CompleteLoan, EmitKafkaEvent, UpdateLoanStatus, Finish
  <2>2. ASSUME NEW n, local' = [local EXCEPT ![r].score = n] PROVE local'[p].rows = local[p].rows
    BY <1>1, <2>2 DEF IInv, TypeInv
  <2>3. ASSUME local' = [local EXCEPT ![r] = NoLocals]
        PROVE  local'[p].rows = local[p].rows \/ local'[p].rows = <<>>
    BY <1>1, <2>3 DEF IInv, TypeInv, NoLocals, Handlers
  <2> QED BY <2>1, <2>2, <2>3
<1>4. ASSUME NEW p \in Requests, pc'[p] \in {"readLoan"} PROVE pc[p] \in {"readLoan", "readRows"}
  <2>1. \E label : Goto(r, label) /\ label # "readLoan"
    BY DEF Incr, Expire, Evaluate, CreateLoan, UpsertCreditScore, ReadLoan, Approve, DisburseLoan,
           RejectLoan, CheckRows, CompleteLoan, EmitKafkaEvent, UpdateLoanStatus, Finish
  <2> QED BY <1>1, <1>4, <2>1 DEF IInv, TypeInv, Goto, Handlers
<1>5. ASSUME NEW p \in Requests, pc'[p] = "readRows" PROVE pc[p] \in {"readLoan", "readRows"}
  <2>1. \E label : Goto(r, label) /\ (label # "readRows" \/ pc[r] = "readLoan")
    BY DEF Incr, Expire, Evaluate, CreateLoan, UpsertCreditScore, ReadLoan, Approve, DisburseLoan,
           RejectLoan, CheckRows, CompleteLoan, EmitKafkaEvent, UpdateLoanStatus, Finish, At
  <2> QED BY <1>1, <1>5, <2>1 DEF IInv, TypeInv, Goto, Handlers
<1> QED BY <1>2, <1>3, <1>4, <1>5, NothingPaid

LEMMA OthersPayNothing ==
  ASSUME LoanKnown, MoneyInv,
         \/ \E c \in Replicas : FindOverdueRepayments(c) \/ FindLoan(c) \/ DefaultLoan(c)
                                \/ EmitDefault(c)
         \/ \E h \in Handlers : Crash(h)
         \/ \E u \in Users : CounterExpires(u)
         \/ NextDay \/ UNCHANGED vars
  PROVE  MoneyInv'
<1>1. IInv
  BY DEF LoanKnown
<1>2. UNCHANGED <<repayment, req, left>>
  BY DEF FindOverdueRepayments, FindLoan, DefaultLoan, EmitDefault, UpdateLoanStatus, Crash,
         CounterExpires, NextDay, vars, tables
<1>3. CASE UNCHANGED <<pc, local>>
  BY <1>2, <1>3, NothingPaid
<1>4. ASSUME NEW c \in Replicas,
             FindOverdueRepayments(c) \/ FindLoan(c) \/ DefaultLoan(c) \/ EmitDefault(c)
      PROVE  MoneyInv'
  <2>1. \A r \in Requests : r \in Handlers /\ r # c
    BY LoanAssumption DEF Handlers
  <2>2. \A r \in Requests : local'[r] = local[r] /\ pc'[r] = pc[r]
    BY <1>1, <1>4, <2>1
    DEF IInv, TypeInv, Goto, FindOverdueRepayments, FindLoan, DefaultLoan, EmitDefault,
        UpdateLoanStatus
  <2> QED BY <1>2, <2>2, NothingPaid
<1>5. ASSUME NEW h \in Handlers, Crash(h) PROVE MoneyInv'
  <2>1. \A r \in Requests : local'[r].rows = local[r].rows \/ local'[r].rows = <<>>
    BY <1>1, <1>5 DEF Crash, Finish, NoLocals, IInv, TypeInv, Handlers
  <2>2. \A r \in Requests : pc'[r] = pc[r] \/ pc'[r] \in {"idle", "lost"}
    BY <1>1, <1>5 DEF Crash, Finish, Goto, IInv, TypeInv, Handlers
  <2> QED BY <1>2, <2>1, <2>2, NothingPaid
<1> QED BY <1>3, <1>4, <1>5 DEF CounterExpires, NextDay, vars

\* A request that is sent has put nothing anywhere.
LEMMA SubmitPaysNothing ==
  ASSUME LoanKnown, MoneyInv, NEW r \in Requests, Submit(r) PROVE MoneyInv'
<1>1. PICK q \in Request :
        /\ req' = [req EXCEPT ![r] = q]
        /\ left' = [left EXCEPT ![r] = IF q.kind = "repay" THEN q.amount ELSE 0]
        /\ Goto(r, IF q.kind = "apply" THEN "incr" ELSE "readLoan")
  BY DEF Submit
<1>2. /\ IInv /\ pc[r] = "idle" /\ RequestAt(r, "idle") /\ UNCHANGED <<repayment, local>>
  BY DEF LoanKnown, Submit, At, Handlers, IInv, HandlerInv, RequestInv, tables
<1>3. req[r] = NoRequest /\ repayment[r] = <<>>
  BY <1>2 DEF RequestAt
<1>4. /\ req'[r] = q /\ \A p \in Requests \ {r} : req'[p] = req[p] /\ left'[p] = left[p]
      /\ left'[r] = IF q.kind = "repay" THEN q.amount ELSE 0
      /\ \A p \in Requests \ {r} : pc'[p] = pc[p]
  BY <1>1, <1>2 DEF IInv, TypeInv, Goto, Handlers
<1>5. \A l : Ids(l)' = Ids(l)
  BY <1>2, <1>3, <1>4, SubmitKeepsIds
<1>6. PICK c : PartsInv(c)
  BY DEF MoneyInv
<1>7. IsFiniteSet(Sent) /\ IsFiniteSet(Sent') /\ Sent' = Sent \cup {r} /\ r \notin Sent
  <2>1. q # NoRequest
    BY DEF Request, NoRequest
  <2>2. Sent' = Sent \cup {r} /\ r \notin Sent
    BY <1>3, <1>4, <2>1 DEF Sent
  <2> QED BY <2>2, FS_AddElement DEF MoneyInv
<1>8. \A id \in Requests \X Nat : c[r][id] = 0
  BY <1>3, <1>6 DEF PartsInv, PaymentInv, NoRequest
<1>9. \A id \in Requests \X Nat : Put(c, id)' = Put(c, id)
  <2> SUFFICES ASSUME NEW id \in Requests \X Nat PROVE Put(c, id)' = Put(c, id)
    OBVIOUS
  <2>1. \A p \in Sent' : Column(c, id)[p] \in Nat
    BY <1>6, <1>7 DEF PartsInv, Parts, Column, Sent
  <2>2. Column(c, id)[r] = 0
    BY <1>8 DEF Column
  <2>3. Sum(Column(c, id), Sent') = Sum(Column(c, id), Sent)
    BY <1>7, <2>1, <2>2, SumOfRest
  <2> QED BY <2>3 DEF Put
<1>10. \A l : IsFiniteSet(Ids(l)) /\ Ids(l) \subseteq Requests \X Nat
  BY <1>2, <1>7, IdsAreFinite
<1>11. ASSUME NEW p \in Requests PROVE PaymentInv(c, p)'
  <2>1. CASE p = r
    <3>1. Sum(c[r], Ids(q.loan)) = 0
      <4>1. \A id \in Ids(q.loan) : c[r][id] \in Nat /\ c[r][id] = 0
        BY <1>8, <1>10
      <4>2. Sum(c[r], Ids(q.loan)) = Sum(c[r], {})
        BY <1>10, <4>1, SumOfRest
      <4> QED BY <4>2, SumOfNone
    <3>2. q.kind = "repay" => q.amount \in Nat
      BY LoanAssumption DEF Request
    <3> QED BY <1>4, <1>5, <1>8, <2>1, <3>1, <3>2 DEF PaymentInv
  <2>2. CASE p # r
    BY <1>4, <1>5, <1>6, <2>2 DEF PartsInv, PaymentInv
  <2> QED BY <2>1, <2>2
<1>12. ASSUME NEW p \in Requests PROVE MemoryInv(c, p)'
  <2>1. MemoryInv(c, p)
    BY <1>6 DEF PartsInv
  <2>2. p = r => DOMAIN local[p].rows = {}
    BY <1>3, <2>1 DEF MemoryInv, NoRequest
  <2> QED BY <1>2, <1>4, <1>5, <1>9, <2>1, <2>2 DEF MemoryInv
<1>13. \A l \in Requests : \A id \in Ids(l)' : PaidInv(c, id)'
  <2> SUFFICES ASSUME NEW l \in Requests, NEW id \in Ids(l) PROVE PaidInv(c, id)'
    BY <1>5
  <2>1. PaidInv(c, id) /\ id \in Requests \X Nat
    BY <1>6, <1>10 DEF PartsInv
  <2> QED BY <1>2, <1>9, <2>1 DEF PaidInv, RowOf
<1>14. PartsInv(c)'
  BY <1>6, <1>11, <1>12, <1>13 DEF PartsInv
<1> QED BY <1>7, <1>14 DEF MoneyInv

\* Rows come into the table unpaid, and nobody can have paid on them before.
LEMMA SchedulePaysNothing ==
  ASSUME LoanKnown, MoneyInv, NEW r \in Requests, GenerateRepaymentSchedule(r) PROVE MoneyInv'
<1>1. /\ IInv /\ pc[r] = "schedule" /\ RequestAt(r, "schedule")
      /\ UNCHANGED <<req, local, left>> /\ Goto(r, "disburse")
  BY DEF LoanKnown, GenerateRepaymentSchedule, At, Handlers, IInv, HandlerInv, RequestInv
<1>2. PICK rows : /\ repayment' = [repayment EXCEPT ![r] = rows]
                  /\ \A i \in DOMAIN rows : rows[i].paid = 0
  <2> DEFINE term == loan[req[r].loan].term
             rows == FreshSchedule(term, MonthlyPayment[term], today, MonthDays)
  <2>1. repayment' = [repayment EXCEPT ![r] = rows]
    BY DEF GenerateRepaymentSchedule, FreshSchedule, Instalments
  <2>2. \A i \in DOMAIN rows : rows[i].paid = 0
    BY DEF FreshSchedule
  <2> HIDE DEF rows
  <2> QED BY <2>1, <2>2
<1>3. repayment[r] = <<>> /\ Sent' = Sent /\ IInv'
  BY <1>1, GenerateRepaymentScheduleKeeps DEF RequestAt, Sent
<1>4. /\ repayment'[r] = rows /\ \A a \in Requests \ {r} : repayment'[a] = repayment[a]
      /\ \A p \in Requests : pc'[p] = pc[p] \/ pc'[p] = "disburse"
  BY <1>1, <1>2 DEF IInv, TypeInv, Goto, Handlers
<1>5. PICK c : PartsInv(c)
  BY DEF MoneyInv
<1>6. \A l : Ids(l) \subseteq Ids(l)'
  <2> SUFFICES ASSUME NEW l, NEW id \in Ids(l) PROVE id \in Ids(l)'
    OBVIOUS
  <2>1. PICK a \in Approvals(l) : id \in {a} \X DOMAIN repayment[a]
    BY DEF Ids
  <2>2. a \in Approvals(l)' /\ a # r
    BY <1>1, <1>3, <2>1 DEF Approvals
  <2>3. repayment'[a] = repayment[a]
    BY <1>4, <2>2 DEF Approvals
  <2> QED BY <2>1, <2>2, <2>3 DEF Ids
<1>7. ASSUME NEW l, NEW id \in Ids(l)', id \notin Ids(l)
      PROVE  /\ id \in Requests \X Nat /\ id \in {r} \X DOMAIN rows /\ RowOf(id)'.paid = 0
             /\ \A m \in Requests : id \notin Ids(m)
  <2>1. PICK a \in Approvals(l)' : id \in {a} \X DOMAIN repayment'[a]
    BY <1>7 DEF Ids
  <2>2. a \in Approvals(l) /\ a \in Requests
    BY <1>1, <2>1 DEF Approvals
  <2>3. a = r
    <3>1. ASSUME a # r PROVE id \in Ids(l)
      BY <1>4, <2>1, <2>2, <3>1 DEF Ids
    <3> QED BY <1>7, <3>1
  <2>4. RowOf(id)'.paid = 0
    BY <1>2, <1>4, <2>1, <2>3 DEF RowOf
  <2>5. id \in Requests \X Nat
    <3>1. repayment'[a] \in Seq(Instalment)
      BY <1>3, <2>2 DEF IInv, TypeInv
    <3>2. DOMAIN repayment'[a] \subseteq Nat
      BY <3>1
    <3> QED BY <2>1, <2>2, <3>2
  <2>6. \A m \in Requests : id \notin Ids(m)
    BY <1>1, <1>3, <2>1, <2>3, RowsAreThere DEF IInv
  <2> QED BY <1>4, <2>1, <2>3, <2>4, <2>5, <2>6
<1>8. ASSUME NEW id \in Requests \X Nat PROVE Put(c, id)' = Put(c, id)
  BY <1>3 DEF Put
<1>9. IsFiniteSet(Sent) /\ IsFiniteSet(Sent') /\ c \in Parts
  BY <1>3, <1>5 DEF MoneyInv, PartsInv
<1>10. ASSUME NEW p \in Requests PROVE PaymentInv(c, p)'
  <2>1. PaymentInv(c, p)
    BY <1>5 DEF PartsInv
  <2>2. ASSUME req[p].kind = "repay"
        PROVE  Sum(c[p], Ids(req[p].loan)') = Sum(c[p], Ids(req[p].loan))
    <3>1. PICK l \in Requests : l = req[p].loan
      BY <1>1, <2>2, Asked
    <3>2. IsFiniteSet(Ids(l)') /\ Ids(l)' \subseteq Requests \X Nat
      <4>1. IsFiniteSet(Ids(l)) /\ Ids(l) \subseteq Requests \X Nat
        BY <1>1, <1>9, IdsAreFinite
      <4>2. IsFiniteSet({r} \X DOMAIN rows)
        <5>1. rows \in Seq(Instalment)
          BY <1>3, <1>4 DEF IInv, TypeInv
        <5>2. DOMAIN rows = 1..Len(rows) /\ Len(rows) \in Int
          BY <5>1
        <5>3. IsFiniteSet(DOMAIN rows)
          BY <5>2, FS_Interval
        <5>4. IsFiniteSet({r})
          BY FS_Singleton
        <5> QED BY <5>3, <5>4, FS_Product
      <4>3. IsFiniteSet(Ids(l) \cup ({r} \X DOMAIN rows))
        BY <4>1, <4>2, FS_Union
      <4>4. Ids(l)' \subseteq Ids(l) \cup ({r} \X DOMAIN rows)
        BY <1>7
      <4>5. Ids(l)' \subseteq Requests \X Nat
        BY <1>7, <4>1
      <4> QED BY <4>3, <4>4, <4>5, FS_Subset
    <3>3. \A id \in Ids(l)' : c[p][id] \in Nat
      BY <1>9, <3>2 DEF Parts
    <3>4. \A id \in Ids(l)' \ Ids(l) : c[p][id] = 0
      BY <2>1, <3>1, <3>2 DEF PaymentInv
    <3>5. Ids(l) \in SUBSET Ids(l)'
      BY <1>6
    <3>6. Sum(c[p], Ids(l)') = Sum(c[p], Ids(l))
      BY <3>2, <3>3, <3>4, <3>5, SumOfRest
    <3> QED BY <1>1, <3>1, <3>6
  <2>3. req[p].kind = "repay" => left'[p] + Sum(c[p], Ids(req[p].loan)') = req[p].amount
    BY <1>1, <2>1, <2>2 DEF PaymentInv
  <2>4. Ids(req[p].loan)' = Ids(req[p].loan)' /\ req' = req
    BY <1>1
  <2>5. \A id \in Requests \X Nat : c[p][id] # 0 =>
          req'[p].kind = "repay" /\ id \in Ids(req[p].loan)'
    BY <1>1, <1>6, <2>1 DEF PaymentInv
  <2>6. pc'[p] \in {"readLoan", "readRows"} => pc[p] \in {"readLoan", "readRows"}
    BY <1>4
  <2> QED BY <2>1, <2>3, <2>4, <2>5, <2>6 DEF PaymentInv
<1>11. ASSUME NEW p \in Requests PROVE MemoryInv(c, p)'
  <2>1. MemoryInv(c, p)
    BY <1>5 DEF PartsInv
  <2>2. \A id \in DOMAIN local[p].rows : id \in Ids(req[p].loan)'
    BY <1>1, <1>6, <2>1 DEF MemoryInv
  <2> QED BY <1>1, <1>8, <2>1, <2>2 DEF MemoryInv
<1>12. ASSUME NEW l \in Requests, NEW id \in Ids(l)' PROVE PaidInv(c, id)'
  <2>1. CASE id \in Ids(l)
    <3>1. PaidInv(c, id) /\ id \in Requests \X Nat /\ repayment[id[1]] # <<>>
      BY <1>1, <1>5, <2>1, RowsAreThere DEF PartsInv, IInv
    <3>2. RowOf(id)' = RowOf(id)
      BY <1>3, <1>4, <3>1 DEF RowOf
    <3> QED BY <1>8, <3>1, <3>2 DEF PaidInv
  <2>2. CASE id \notin Ids(l)
    <3>1. id \in Requests \X Nat /\ RowOf(id)'.paid = 0 /\ \A m \in Requests : id \notin Ids(m)
      BY <1>7, <2>2
    <3>2. \A p \in Requests : c[p][id] = 0
      <4> SUFFICES ASSUME NEW p \in Requests, c[p][id] # 0 PROVE FALSE
        OBVIOUS
      <4>1. req[p].kind = "repay" /\ id \in Ids(req[p].loan)
        BY <1>5, <3>1 DEF PartsInv, PaymentInv
      <4>2. req[p].loan \in Requests
        BY <1>1, <4>1, Asked
      <4> QED BY <3>1, <4>1, <4>2
    <3>3. Put(c, id)' = 0
      BY <1>8, <1>9, <3>1, <3>2, NothingElsewhere
    <3> QED BY <3>1, <3>3 DEF PaidInv
  <2> QED BY <2>1, <2>2
<1>13. PartsInv(c)'
  BY <1>9, <1>10, <1>11, <1>12 DEF PartsInv
<1> QED BY <1>9, <1>13 DEF MoneyInv

\* What a payment finds in the table is what was put there, or less.
LEMMA ReadRowsPaysNothing ==
  ASSUME LoanKnown, MoneyInv, NEW r \in Requests, ReadRows(r) PROVE MoneyInv'
<1> DEFINE rows == DueRows(req[r].loan)
<1>1. /\ IInv /\ r \in Handlers /\ pc[r] = "readRows" /\ RequestAt(r, "readRows")
      /\ UNCHANGED <<repayment, req, left>>
  BY DEF LoanKnown, ReadRows, At, Handlers, IInv, HandlerInv, RequestInv, tables
<1>2. req[r].kind = "repay"
  BY <1>1 DEF RequestAt, Repaying
<1>3. PICK l \in Requests : l = req[r].loan
  BY <1>1, <1>2, Asked
<1>4. PICK label \in {"rejected", "pay"} : Goto(r, label)
  BY DEF ReadRows
<1>5. /\ local' = local \/ local' = [local EXCEPT ![r].rows = rows]
      /\ DOMAIN local[r] = {"rows", "score", "loan"}
  BY <1>1 DEF ReadRows, IInv, TypeInv, LocalFields
<1> HIDE DEF rows
<1>6. /\ \A p \in Requests \ {r} : local'[p] = local[p] /\ pc'[p] = pc[p]
      /\ pc'[r] = label /\ (local'[r].rows = local[r].rows \/ local'[r].rows = rows)
  BY <1>1, <1>4, <1>5 DEF IInv, TypeInv, Goto, Handlers
<1>7. PICK c : PartsInv(c)
  BY DEF MoneyInv
<1>8. (\A m : Ids(m)' = Ids(m)) /\ Sent' = Sent /\ IsFiniteSet(Sent')
  BY <1>1 DEF Ids, Approvals, Sent, MoneyInv
<1>9. \A p \in Requests : PaymentInv(c, p)'
  BY <1>1, <1>6, <1>7, <1>8 DEF PartsInv, PaymentInv
<1>10. ASSUME NEW p \in Requests PROVE MemoryInv(c, p)'
  <2>1. MemoryInv(c, p)
    BY <1>7 DEF PartsInv
  <2>2. CASE local'[p].rows = local[p].rows
    BY <1>1, <1>8, <2>1, <2>2 DEF MemoryInv, Put
  <2>3. CASE p = r /\ local'[r].rows = rows
    <3> SUFFICES ASSUME NEW id \in DOMAIN rows
                 PROVE  /\ id \in Requests \X Nat /\ id \in Ids(l)
                        /\ c[r][id] = 0 /\ rows[id].paid <= Put(c, id)
      BY <1>1, <1>2, <1>3, <1>8, <2>3 DEF MemoryInv, Put
    <3>1. id \in Ids(l) /\ rows[id] = RowOf(id)
      BY <1>3 DEF rows, DueRows
    <3>2. id \in Requests \X Nat
      BY <1>1, <3>1, RowsAreThere DEF IInv
    <3>3. PaidInv(c, id) /\ PaymentInv(c, r)
      BY <1>7, <3>1 DEF PartsInv
    <3> QED BY <1>1, <3>1, <3>2, <3>3 DEF PaidInv, PaymentInv
  <2> QED BY <1>6, <2>2, <2>3
<1>11. \A m \in Requests : \A id \in Ids(m)' : PaidInv(c, id)'
  BY <1>1, <1>7, <1>8 DEF PartsInv, PaidInv, Put, RowOf
<1>12. PartsInv(c)'
  BY <1>7, <1>9, <1>10, <1>11 DEF PartsInv
<1> QED BY <1>8, <1>12 DEF MoneyInv

\* The job writes rows and leaves what is paid on them.
LEMMA PenaltyPaysNothing ==
  ASSUME LoanKnown, MoneyInv, NEW c \in Replicas, UpdatePenalty(c) PROVE MoneyInv'
<1>1. /\ IInv /\ TypeInv /\ UNCHANGED <<req, left>> /\ c \in Handlers
      /\ \A r \in Requests : r \in Handlers \ {c}
  BY LoanAssumption DEF LoanKnown, UpdatePenalty, IInv, Handlers
<1>2. PICK id \in DOMAIN local[c].rows : \E row \in Instalment : Penalizing(c, id, row)
  BY <1>1, PenaltyWrites
<1>3. PICK row \in Instalment : Penalizing(c, id, row)
  BY <1>2
<1>4. /\ id \in Requests \X Nat /\ row.paid = RowOf(id).paid
      /\ \A r \in Requests : local'[r] = local[r] /\ pc'[r] = pc[r]
      /\ \A a \in Requests : DOMAIN repayment'[a] = DOMAIN repayment[a]
      /\ repayment'[id[1]][id[2]] = row
      /\ \A a \in Requests : \A i \in DOMAIN repayment[a] :
           <<a, i>> # id => repayment'[a][i] = repayment[a][i]
  BY <1>1, <1>3, OneRowWritten DEF Penalizing
<1>5. PICK k : PartsInv(k)
  BY DEF MoneyInv
<1>6. (\A m : Ids(m)' = Ids(m)) /\ Sent' = Sent /\ IsFiniteSet(Sent')
  BY <1>1, <1>4 DEF Ids, Approvals, Sent, MoneyInv
<1>7. \A p \in Requests : PaymentInv(k, p)'
  BY <1>1, <1>4, <1>5, <1>6 DEF PartsInv, PaymentInv
<1>8. \A p \in Requests : MemoryInv(k, p)'
  BY <1>1, <1>4, <1>5, <1>6 DEF PartsInv, MemoryInv, Put
<1>9. ASSUME NEW m \in Requests, NEW other \in Ids(m) PROVE PaidInv(k, other)'
  <2>1. PaidInv(k, other)
    BY <1>5 DEF PartsInv
  <2>2. other[1] \in Requests /\ other[2] \in DOMAIN repayment[other[1]]
        /\ other = <<other[1], other[2]>>
    BY DEF Ids, Approvals
  <2>3. RowOf(other)'.paid = RowOf(other).paid
    BY <1>4, <2>2 DEF RowOf
  <2> QED BY <1>6, <2>1, <2>3 DEF PaidInv, Put
<1>10. PartsInv(k)'
  BY <1>5, <1>6, <1>7, <1>8, <1>9 DEF PartsInv
<1> QED BY <1>6, <1>10 DEF MoneyInv

\* A part of the payment goes to one row, and is gone from what is left of it.
LEMMA PayPays ==
  ASSUME LoanKnown, MoneyInv, NEW r \in Requests, Pay(r) PROVE MoneyInv'
<1>1. /\ IInv /\ TypeInv /\ UNCHANGED req /\ r \in Handlers /\ \A p \in Requests : p \in Handlers
      /\ pc[r] = "pay" /\ pc[r] \in Running
  BY DEF LoanKnown, Pay, IInv, Handlers, At, Running, Repaying
<1>2. PICK id \in DOMAIN local[r].rows : \E row \in Instalment : Paying(r, id, row)
  BY <1>1, PayWrites
<1>3. PICK row \in Instalment : Paying(r, id, row)
  BY <1>2
<1> DEFINE part == Part(r, local[r].rows[id])
<1>4. /\ id \in Requests \X Nat /\ row.paid = local[r].rows[id].paid + part
      /\ part \in Nat /\ local[r].rows[id].paid \in Nat
      /\ left[r] \in Nat /\ left'[r] \in Nat /\ left'[r] = left[r] - part
      /\ \A p \in Requests \ {r} :
           local'[p] = local[p] /\ pc'[p] = pc[p] /\ left'[p] = left[p]
      /\ pc'[r] \in {"pay", "checkRows"}
      /\ local'[r].rows = Restrict(local[r].rows, DOMAIN local[r].rows \ {id})
  BY <1>1, <1>3 DEF Paying, PaidWith, Rest, Instalment, TypeInv
<1>5. /\ \A a \in Requests : DOMAIN repayment'[a] = DOMAIN repayment[a]
      /\ repayment'[id[1]][id[2]] = row
      /\ \A a \in Requests : \A i \in DOMAIN repayment[a] :
           <<a, i>> # id => repayment'[a][i] = repayment[a][i]
  BY <1>1, <1>3, OneRowWritten DEF Paying
<1> HIDE DEF part
<1>6. PICK c : PartsInv(c)
  BY DEF MoneyInv
<1>7. PICK d \in Parts :
        /\ c \in Parts /\ d[r][id] = part
        /\ \A other \in Requests \X Nat : other # id => d[r][other] = c[r][other]
        /\ \A p \in Requests \ {r} : d[p] = c[p]
  <2> DEFINE d == [c EXCEPT ![r] = [c[r] EXCEPT ![id] = part]]
  <2>1. /\ c \in Parts /\ d \in Parts /\ d[r][id] = part
        /\ \A other \in Requests \X Nat : other # id => d[r][other] = c[r][other]
        /\ \A p \in Requests \ {r} : d[p] = c[p]
    BY <1>4, <1>6 DEF PartsInv, Parts
  <2> HIDE DEF d
  <2> QED BY <2>1
<1>8. (\A m : Ids(m)' = Ids(m)) /\ Sent' = Sent /\ IsFiniteSet(Sent')
  BY <1>1, <1>5 DEF Ids, Approvals, Sent, MoneyInv
<1>9. MemoryInv(c, r) /\ PaymentInv(c, r)
  BY <1>6 DEF PartsInv
<1>10. /\ req[r].kind = "repay" /\ id \in Ids(req[r].loan) /\ c[r][id] = 0 /\ r \in Sent
       /\ local[r].rows[id].paid <= Put(c, id)
  BY <1>9 DEF MemoryInv, Sent, NoRequest
<1>11. \A other \in Requests \X Nat : Put(c, other) \in Nat /\ Put(d, other) \in Nat
  BY <1>7, <1>8, PutIsNatural
<1>12. Put(d, id) = Put(c, id) + part
  <2>1. \A p \in Sent : Column(c, id)[p] \in Nat /\ Column(d, id)[p] \in Nat
    BY <1>4, <1>7 DEF Column, Sent, Parts
  <2>2. \A p \in Sent \ {r} : Column(d, id)[p] = Column(c, id)[p]
    BY <1>7 DEF Column, Sent
  <2>3. Sum(Column(d, id), Sent) + Column(c, id)[r] = Sum(Column(c, id), Sent) + Column(d, id)[r]
    BY <1>8, <1>10, <2>1, <2>2, SumWithOne
  <2>4. Column(c, id)[r] = 0 /\ Column(d, id)[r] = part
    BY <1>7, <1>10 DEF Column
  <2> QED BY <1>4, <1>11, <2>3, <2>4 DEF Put
<1>13. ASSUME NEW other \in Requests \X Nat, other # id PROVE Put(d, other) = Put(c, other)
  <2>1. \A p \in Sent : /\ Column(c, other)[p] \in Nat
                        /\ Column(c, other)[p] = Column(d, other)[p]
    BY <1>7, <1>13 DEF Column, Sent, Parts
  <2> QED BY <1>8, <2>1, SumOfSame DEF Put
<1>14. \A other \in Requests \X Nat : Put(c, other) <= Put(d, other)
  BY <1>4, <1>11, <1>12, <1>13
<1>15. PaymentInv(d, r)'
  <2>1. PICK l \in Requests : l = req[r].loan
    BY <1>1, <1>10, Asked
  <2>2. IsFiniteSet(Ids(l)) /\ Ids(l) \subseteq Requests \X Nat
    BY <1>1, <1>8, IdsAreFinite
  <2>3. Sum(d[r], Ids(l)) = Sum(c[r], Ids(l)) + part
    <3>1. \A other \in Ids(l) : c[r][other] \in Nat /\ d[r][other] \in Nat
      BY <1>7, <2>2 DEF Parts
    <3>2. \A other \in Ids(l) \ {id} : d[r][other] = c[r][other]
      BY <1>7, <2>2
    <3>3. Sum(d[r], Ids(l)) + c[r][id] = Sum(c[r], Ids(l)) + d[r][id]
      <4>1. id \in Ids(l) /\ IsFiniteSet(Ids(l))
        BY <1>10, <2>1, <2>2
      <4> QED BY <3>1, <3>2, <4>1, SumWithOne
    <3>4. Sum(d[r], Ids(l)) \in Nat /\ Sum(c[r], Ids(l)) \in Nat
      BY <2>2, <3>1, SumIsNatural
    <3> QED BY <1>4, <1>7, <1>10, <3>3, <3>4
  <2>4. Sum(c[r], Ids(l)) \in Nat /\ left[r] + Sum(c[r], Ids(l)) = req[r].amount
    <3>1. \A other \in Ids(l) : c[r][other] \in Nat
      BY <1>7, <2>2 DEF Parts
    <3> QED BY <1>9, <1>10, <2>1, <2>2, <3>1, SumIsNatural DEF PaymentInv
  <2>5. left'[r] + Sum(d[r], Ids(l)) = req[r].amount
    BY <1>4, <2>3, <2>4
  <2>6. \A other \in Requests \X Nat : d[r][other] # 0 =>
          req[r].kind = "repay" /\ other \in Ids(l)
    BY <1>7, <1>9, <1>10, <2>1 DEF PaymentInv
  <2> QED BY <1>1, <1>4, <1>8, <2>1, <2>5, <2>6 DEF PaymentInv
<1>16. ASSUME NEW p \in Requests, p # r PROVE PaymentInv(d, p)'
  <2>1. PaymentInv(c, p) /\ d[p] = c[p]
    BY <1>6, <1>7, <1>16 DEF PartsInv
  <2> QED BY <1>1, <1>4, <1>8, <1>16, <2>1 DEF PaymentInv
<1>17. MemoryInv(d, r)'
  <2> SUFFICES ASSUME NEW other \in DOMAIN local'[r].rows
               PROVE  /\ other \in Requests \X Nat /\ req'[r].kind = "repay"
                      /\ other \in Ids(req[r].loan)'
                      /\ d[r][other] = 0 /\ local'[r].rows[other].paid <= Put(d, other)'
    BY DEF MemoryInv
  <2>1. other \in DOMAIN local[r].rows /\ other # id
        /\ local'[r].rows[other] = local[r].rows[other]
    BY <1>4 DEF Restrict
  <2>2. /\ other \in Requests \X Nat /\ c[r][other] = 0 /\ other \in Ids(req[r].loan)
        /\ local[r].rows[other].paid <= Put(c, other)
    BY <1>9, <2>1 DEF MemoryInv
  <2> QED BY <1>1, <1>7, <1>8, <1>10, <1>13, <2>1, <2>2 DEF Put
<1>18. ASSUME NEW p \in Requests, p # r PROVE MemoryInv(d, p)'
  <2>1. MemoryInv(c, p) /\ RowsInv(p)
    BY <1>1, <1>6 DEF PartsInv, IInv, HandlerInv
  <2> SUFFICES ASSUME NEW other \in DOMAIN local[p].rows
               PROVE  /\ other \in Requests \X Nat /\ req'[p].kind = "repay"
                      /\ other \in Ids(req[p].loan)'
                      /\ d[p][other] = 0 /\ local[p].rows[other].paid <= Put(d, other)'
    BY <1>4, <1>18 DEF MemoryInv
  <2>2. /\ other \in Requests \X Nat /\ c[p][other] = 0 /\ other \in Ids(req[p].loan)
        /\ req[p].kind = "repay"
        /\ local[p].rows[other].paid <= Put(c, other) /\ local[p].rows[other].paid \in Nat
    BY <2>1 DEF MemoryInv, RowsInv, Instalment
  <2>3. local[p].rows[other].paid <= Put(d, other)
    BY <1>11, <1>14, <2>2
  <2> QED BY <1>1, <1>7, <1>8, <1>18, <2>2, <2>3 DEF Put
<1>19. ASSUME NEW m \in Requests, NEW other \in Ids(m) PROVE PaidInv(d, other)'
  <2>1. PaidInv(c, other)
    BY <1>6 DEF PartsInv
  <2>2. /\ other[1] \in Requests /\ other[2] \in DOMAIN repayment[other[1]]
        /\ other = <<other[1], other[2]>> /\ other \in Requests \X Nat
        /\ RowOf(other) \in Instalment
    BY <1>1, RowsAreThere
  <2>3. CASE other = id
    <3>1. RowOf(other)'.paid = local[r].rows[id].paid + part
      BY <1>4, <1>5, <2>3 DEF RowOf
    <3>2. RowOf(other)'.paid <= Put(d, id)
      BY <1>4, <1>10, <1>11, <1>12, <3>1
    <3>3. ASSUME Serial PROVE RowOf(other)'.paid = Put(d, id)
      <4>1. local[r].rows[id] = RowOf(id)
        BY <1>1, <3>3 DEF LoanKnown, SerialInv, HandlerLife, Fresh
      <4> QED BY <1>12, <2>1, <2>3, <3>1, <3>3, <4>1 DEF PaidInv
    <3> QED BY <1>8, <2>3, <3>2, <3>3 DEF PaidInv, Put
  <2>4. CASE other # id
    <3>1. RowOf(other)' = RowOf(other)
      BY <1>5, <2>2, <2>4 DEF RowOf
    <3>2. Put(d, other) = Put(c, other)
      BY <1>13, <2>2, <2>4
    <3> QED BY <1>8, <2>1, <3>1, <3>2 DEF PaidInv, Put
  <2> QED BY <2>3, <2>4
<1>20. PartsInv(d)'
  BY <1>7, <1>8, <1>15, <1>16, <1>17, <1>18, <1>19 DEF PartsInv
<1> QED BY <1>8, <1>20 DEF MoneyInv

LEMMA MoneyStart == ASSUME Init PROVE MoneyInv
<1>1. Sent = {}
  BY DEF Init, Sent
<1>2. \A l : Ids(l) = {}
  BY DEF Init, Ids, Approvals, NoRequest
<1> DEFINE c == [r \in Requests |-> [id \in Requests \X Nat |-> 0]]
<1>3. c \in Parts /\ \A r \in Requests : \A id \in Requests \X Nat : c[r][id] = 0
  BY DEF Parts
<1> HIDE DEF c
<1>4. \A r \in Requests : PaymentInv(c, r)
  BY <1>3 DEF PaymentInv, Init, NoRequest
<1>5. \A r \in Requests : MemoryInv(c, r)
  BY DEF MemoryInv, Init, NoLocals, Handlers
<1>6. PartsInv(c)
  BY <1>2, <1>3, <1>4, <1>5 DEF PartsInv
<1> QED BY <1>1, <1>6, FS_EmptySet DEF MoneyInv

LEMMA MoneyStep == LoanKnown /\ MoneyInv /\ [Next]_vars => MoneyInv'
<1> SUFFICES ASSUME LoanKnown, MoneyInv, [Next]_vars PROVE MoneyInv'
  OBVIOUS
<1>1. ASSUME NEW r \in Requests, Submit(r) \/ Step(r) PROVE MoneyInv'
  BY <1>1, SubmitPaysNothing, MovesPayNothing, SchedulePaysNothing, ReadRowsPaysNothing, PayPays
  DEF Step
<1>2. ASSUME NEW c \in Replicas, ProcessDailyPenalties(c) PROVE MoneyInv'
  BY <1>2, PenaltyPaysNothing, OthersPayNothing DEF ProcessDailyPenalties
<1>3. CASE \/ \E h \in Handlers : Crash(h)
           \/ \E u \in Users : CounterExpires(u)
           \/ NextDay \/ UNCHANGED vars
  BY <1>3, OthersPayNothing
<1> QED BY <1>1, <1>2, <1>3 DEF Next

\* What is paid on a row was put there by the payments of its loan, part by part.
THEOREM MoneyConsistent == Spec => [](LoanKnown /\ MoneyInv)
<1>1. CASE Serial
  <2>1. Init => LoanKnown /\ MoneyInv
    BY LoanStart, SerialStart, MoneyStart DEF LoanKnown
  <2>2. (LoanKnown /\ MoneyInv) /\ [Next]_vars => (LoanKnown /\ MoneyInv)'
    BY <1>1, LoanStep, SerialStep, MoneyStep DEF LoanKnown
  <2> QED BY <2>1, <2>2, PTL DEF Spec
<1>2. CASE ~ Serial
  <2>1. Init => LoanKnown /\ MoneyInv
    BY <1>2, LoanStart, MoneyStart DEF LoanKnown
  <2>2. (LoanKnown /\ MoneyInv) /\ [Next]_vars => (LoanKnown /\ MoneyInv)'
    BY <1>2, LoanStep, MoneyStep DEF LoanKnown
  <2> QED BY <2>1, <2>2, PTL DEF Spec
<1> QED BY <1>1, <1>2

LEMMA TotalIsSum == ASSUME NEW v PROVE Total(v) = Sum(v, DOMAIN v)
BY DEF Total, FoldFunction, Sum

\* What payments of loan l put on its rows.
PutOn(c, l) == [r \in Payers(l) |-> Sum(c[r], Ids(l))]

LEMMA PayersPutAll ==
  ASSUME LoanKnown, IsFiniteSet(Sent), NEW c, PartsInv(c), NEW l \in Requests
  PROVE  /\ IsFiniteSet(Payers(l)) /\ \A r \in Payers(l) : PutOn(c, l)[r] \in Nat
         /\ \A id \in Ids(l) : Put(c, id) \in Nat
         /\ Sum([id \in Ids(l) |-> Put(c, id)], Ids(l)) = Sum(PutOn(c, l), Payers(l))
<1>1. IInv /\ IsFiniteSet(Ids(l)) /\ Ids(l) \subseteq Requests \X Nat /\ c \in Parts
  BY IdsAreFinite DEF LoanKnown, PartsInv
<1>2. Payers(l) \in SUBSET Sent /\ Sent \subseteq Requests
  BY DEF Payers, Sent, NoRequest
<1>3. \A id \in Ids(l) : Put(c, id) \in Nat
  BY <1>1, PutIsNatural
<1>4. \A r \in Requests : Sum(c[r], Ids(l)) \in Nat
  <2> SUFFICES ASSUME NEW r \in Requests PROVE Sum(c[r], Ids(l)) \in Nat
    OBVIOUS
  <2>1. \A id \in Ids(l) : c[r][id] \in Nat
    BY <1>1 DEF Parts
  <2> QED BY <1>1, <2>1, SumIsNatural
<1> DEFINE Rows == [r \in Sent |-> Sum(c[r], Ids(l))]
           Narrow(id) == [r \in Sent |-> c[r][id]]
<1>5. \A id \in Ids(l) : Put(c, id) = Sum(Narrow(id), Sent)
  <2> SUFFICES ASSUME NEW id \in Ids(l) PROVE Put(c, id) = Sum(Narrow(id), Sent)
    OBVIOUS
  <2>1. \A r \in Sent : Column(c, id)[r] \in Nat /\ Column(c, id)[r] = Narrow(id)[r]
    BY <1>1, <1>2 DEF Column, Parts
  <2> HIDE DEF Narrow
  <2> QED BY <2>1, SumOfSame DEF Put
<1>6. Sum([id \in Ids(l) |-> Put(c, id)], Ids(l)) = Sum(Rows, Sent)
  <2>1. \A r \in Sent : \A id \in Ids(l) : c[r][id] \in Nat
    BY <1>1, <1>2 DEF Parts
  <2>2. Sum([id \in Ids(l) |-> Sum([r \in Sent |-> c[r][id]], Sent)], Ids(l))
          = Sum([r \in Sent |-> Sum(c[r], Ids(l))], Sent)
    BY <1>1, <2>1, SumBothWays
  <2>3. [id \in Ids(l) |-> Put(c, id)]
          = [id \in Ids(l) |-> Sum([r \in Sent |-> c[r][id]], Sent)]
    BY <1>5
  <2> QED BY <2>2, <2>3
<1>7. Sum(Rows, Sent) = Sum(Rows, Payers(l))
  <2>1. \A r \in Sent \ Payers(l) : Rows[r] = 0
    <3> SUFFICES ASSUME NEW r \in Sent \ Payers(l) PROVE Sum(c[r], Ids(l)) = 0
      OBVIOUS
    <3>1. PaymentInv(c, r) /\ r \in Requests
      BY <1>2 DEF PartsInv
    <3>2. ASSUME NEW id \in Ids(l), c[r][id] # 0 PROVE FALSE
      <4>1. req[r].kind = "repay" /\ id \in Ids(req[r].loan)
        BY <1>1, <3>1, <3>2 DEF PaymentInv
      <4>2. \A m : id \in Ids(m) => m = req[id[1]].loan
        BY DEF Ids, Approvals
      <4>3. req[r].loan = l
        BY <4>1, <4>2
      <4> QED BY <3>1, <4>1, <4>3 DEF Payers
    <3>3. \A id \in Ids(l) : c[r][id] \in Nat /\ c[r][id] = 0
      BY <1>1, <3>1, <3>2 DEF Parts
    <3>4. Sum(c[r], Ids(l)) = Sum(c[r], {})
      BY <1>1, <3>3, SumOfRest
    <3> QED BY <3>4, SumOfNone
  <2>2. \A r \in Sent : Rows[r] \in Nat
    BY <1>2, <1>4
  <2> HIDE DEF Rows
  <2> QED BY <1>2, <2>1, <2>2, SumOfRest
<1>8. Sum(Rows, Payers(l)) = Sum(PutOn(c, l), Payers(l))
  <2>1. \A r \in Payers(l) : Rows[r] \in Nat /\ Rows[r] = PutOn(c, l)[r]
    BY <1>2, <1>4 DEF PutOn
  <2>2. IsFiniteSet(Payers(l))
    BY <1>2, FS_Subset
  <2> HIDE DEF Rows
  <2> QED BY <2>1, <2>2, SumOfSame
<1>9. IsFiniteSet(Payers(l)) /\ \A r \in Payers(l) : PutOn(c, l)[r] \in Nat
  BY <1>2, <1>4, FS_Subset DEF PutOn
<1> QED BY <1>3, <1>6, <1>7, <1>8, <1>9

LEMMA SumOfPart ==
  ASSUME NEW U, IsFiniteSet(U), NEW f, \A x \in U : f[x] \in Nat, NEW V \in SUBSET U
  PROVE  Sum(f, V) <= Sum(f, U)
<1> DEFINE g == [x \in U |-> IF x \in V THEN f[x] ELSE 0]
<1>1. \A x \in U : g[x] \in Nat /\ g[x] <= f[x] /\ (x \notin V => g[x] = 0)
  OBVIOUS
<1>2. \A x \in V : g[x] = f[x]
  OBVIOUS
<1> HIDE DEF g
<1>3. Sum(g, U) = Sum(g, V)
  BY <1>1, SumOfRest
<1>4. IsFiniteSet(V) /\ Sum(f, V) = Sum(g, V)
  <2>1. IsFiniteSet(V)
    BY FS_Subset
  <2>2. \A x \in V : f[x] \in Nat /\ f[x] = g[x]
    BY <1>2
  <2> QED BY <2>1, <2>2, SumOfSame
<1>5. Sum(g, U) <= Sum(f, U)
  BY <1>1, SumGrows
<1> QED BY <1>3, <1>4, <1>5

LEMMA WhatPayersLost ==
  ASSUME LoanKnown, NEW c, PartsInv(c), NEW l \in Requests, NEW r \in Payers(l)
  PROVE  /\ r \in Requests /\ left[r] \in Nat /\ req[r].amount \in Nat
         /\ left[r] + PutOn(c, l)[r] = req[r].amount
<1>1. r \in Requests /\ req[r].kind = "repay" /\ req[r].loan = l
  BY DEF Payers
<1>2. req[r].amount \in Nat /\ left[r] \in Nat
  BY <1>1, AmountIsPositive DEF LoanKnown, IInv, TypeInv
<1>3. PaymentInv(c, r)
  BY <1>1 DEF PartsInv
<1>4. PutOn(c, l)[r] = Sum(c[r], Ids(req[r].loan))
  BY <1>1 DEF PutOn
<1> QED BY <1>1, <1>2, <1>3, <1>4 DEF PaymentInv

LEMMA MoneyIsBacked == LoanKnown /\ MoneyInv => PaidIsBacked
<1> SUFFICES ASSUME LoanKnown, MoneyInv, NEW l \in Requests
             PROVE  PaidOn(l) + Kept(l) <= HandedOver(l)
  BY DEF PaidIsBacked
<1>1. PICK c : PartsInv(c)
  BY DEF MoneyInv
<1>2. IsFiniteSet(Sent) /\ IInv
  BY DEF MoneyInv, LoanKnown
<1> DEFINE paid == [id \in Ids(l) |-> RowOf(id).paid]
           put  == [id \in Ids(l) |-> Put(c, id)]
           kept == [r \in Payers(l) |-> left[r]]
           handed == [r \in Payers(l) |-> req[r].amount]
<1>3. /\ PaidOn(l) = Sum(paid, Ids(l)) /\ Kept(l) = Sum(kept, Payers(l))
      /\ HandedOver(l) = Sum(handed, Payers(l))
  BY TotalIsSum DEF PaidOn, Kept, HandedOver
<1>4. /\ IsFiniteSet(Payers(l)) /\ \A r \in Payers(l) : PutOn(c, l)[r] \in Nat
      /\ \A id \in Ids(l) : Put(c, id) \in Nat
  BY <1>1, <1>2, PayersPutAll
<1>5. Sum(paid, Ids(l)) <= Sum(put, Ids(l)) /\ IsFiniteSet(Ids(l))
  <2>1. IsFiniteSet(Ids(l))
    BY <1>2, IdsAreFinite
  <2>2. \A id \in Ids(l) : paid[id] \in Nat /\ put[id] \in Nat /\ paid[id] <= put[id]
    BY <1>1, <1>2, <1>4, RowsAreThere DEF PartsInv, PaidInv, IInv, Instalment
  <2> HIDE DEF paid, put
  <2> QED BY <2>1, <2>2, SumGrows
<1>6. Sum(handed, Payers(l)) = Sum(kept, Payers(l)) + Sum(PutOn(c, l), Payers(l))
  <2>1. \A r \in Payers(l) : /\ kept[r] \in Nat /\ PutOn(c, l)[r] \in Nat
                             /\ handed[r] = kept[r] + PutOn(c, l)[r]
    BY <1>1, <1>4, WhatPayersLost
  <2> HIDE DEF kept, handed
  <2> QED BY <1>4, <2>1, SumOfBoth
<1>7. Sum(paid, Ids(l)) \in Nat /\ Sum(kept, Payers(l)) \in Nat
  <2>1. \A r \in Payers(l) : kept[r] \in Nat
    BY <1>1, WhatPayersLost
  <2>2. \A id \in Ids(l) : paid[id] \in Nat
    BY <1>2, RowsAreThere DEF IInv, Instalment
  <2> HIDE DEF kept, paid
  <2> QED BY <1>4, <1>5, <2>1, <2>2, SumIsNatural
<1>8. Sum(put, Ids(l)) \in Nat
  <2>1. \A id \in Ids(l) : put[id] \in Nat
    BY <1>4
  <2> HIDE DEF put
  <2> QED BY <1>5, <2>1, SumIsNatural
<1>9. Sum(put, Ids(l)) = Sum(PutOn(c, l), Payers(l))
  BY <1>1, <1>2, PayersPutAll
<1> HIDE DEF paid, put, kept, handed
<1> QED BY <1>3, <1>5, <1>6, <1>7, <1>8, <1>9

\* However repayLoan and the nightly job overwrite each other's rows, and wherever handlers
\* die, the rows of a loan never hold more than its borrower handed over.
THEOREM PaymentsAreBacked == Spec => []PaidIsBacked
BY MoneyConsistent, MoneyIsBacked, PTL

LEMMA ReceiptsAreCounted == Serial /\ LoanKnown /\ MoneyInv => ReceivedIsCounted
<1> SUFFICES ASSUME Serial, LoanKnown, MoneyInv, NEW l \in Requests
             PROVE  PaidOn(l) >=
                      Total([r \in {p \in Payers(l) : Event("loan.repaid", l, p) \in events} |->
                               req[r].amount - left[r]])
  BY DEF ReceivedIsCounted, CountsReceived
<1>1. PICK c : PartsInv(c)
  BY DEF MoneyInv
<1>2. IsFiniteSet(Sent) /\ IInv
  BY DEF MoneyInv, LoanKnown
<1> DEFINE paid == [id \in Ids(l) |-> RowOf(id).paid]
           put  == [id \in Ids(l) |-> Put(c, id)]
           Reported == {p \in Payers(l) : Event("loan.repaid", l, p) \in events}
           received == [r \in Reported |-> req[r].amount - left[r]]
<1>3. PaidOn(l) = Sum(paid, Ids(l)) /\ Total(received) = Sum(received, Reported)
  BY TotalIsSum DEF PaidOn
<1>4. /\ IsFiniteSet(Payers(l)) /\ \A r \in Payers(l) : PutOn(c, l)[r] \in Nat
      /\ Sum(put, Ids(l)) = Sum(PutOn(c, l), Payers(l))
  BY <1>1, <1>2, PayersPutAll
<1>5. paid = put
  BY <1>1 DEF PartsInv, PaidInv
<1>6. Sum(PutOn(c, l), Reported) <= Sum(PutOn(c, l), Payers(l))
  BY <1>4, SumOfPart
<1>7. IsFiniteSet(Reported) /\ Sum(received, Reported) = Sum(PutOn(c, l), Reported)
      /\ Sum(PutOn(c, l), Reported) \in Nat
  <2>1. \A r \in Reported : PutOn(c, l)[r] \in Nat /\ PutOn(c, l)[r] = received[r]
    <3> SUFFICES ASSUME NEW r \in Reported
                 PROVE  PutOn(c, l)[r] \in Nat /\ PutOn(c, l)[r] = req[r].amount - left[r]
      OBVIOUS
    <3>1. r \in Payers(l) /\ PutOn(c, l)[r] \in Nat
      BY <1>4
    <3> QED BY <1>1, <3>1, WhatPayersLost
  <2>2. IsFiniteSet(Reported)
    BY <1>4, FS_Subset
  <2> HIDE DEF Reported, received
  <2> QED BY <2>1, <2>2, SumOfSame, SumIsNatural
<1>8. Sum(PutOn(c, l), Payers(l)) \in Nat
  BY <1>4, SumIsNatural
<1>9. Sum(paid, Ids(l)) >= Sum(received, Reported)
  <2> HIDE DEF paid, put, received, Reported
  <2> QED BY <1>4, <1>5, <1>6, <1>7, <1>8
<1> QED BY <1>3, <1>9

\* What repayments report as received is on the rows of their loan, when handlers do not
\* overlap: then no payment writes over another (repayLoan adds to what it read).
THEOREM ReceivedStays == Serial => (Spec => []ReceivedIsCounted)
<1> SUFFICES ASSUME Serial PROVE Spec => []ReceivedIsCounted
  OBVIOUS
<1>1. LoanKnown /\ MoneyInv => ReceivedIsCounted
  BY ReceiptsAreCounted
<1> QED BY <1>1, MoneyConsistent, PTL

-----------------------------------------------------------------------------
(* Types *)

Stored == {l \in Requests : Exists(l)}

LoanRow ==
  [status: LoanStatus, user: Users, principal: Principals, term: Terms, score: 0..850]

LoanTypes == IsFiniteSet(Stored) /\ \A l \in Requests : loan[l] \in {NoLoan} \cup LoanRow

MemoryTypes == \A h \in Handlers :
  local[h].score \in 0..850 /\ local[h].loan \in Requests \cup {None}

ScoreTypes == \A u \in Users : score[u] \in 0..850 \cup {None}

EventTypes ==
  events \subseteq [event: {"loan.disbursed", "loan.repaid", "loan.defaulted"},
                    loan: Requests, by: Handlers]

TimeTypes == today \in 0..MaxDay /\ lastRun \in [Replicas -> 0..today] /\ faults \in 0..MaxFaults

TypesInv == LoanTypes /\ MemoryTypes /\ ScoreTypes /\ EventTypes /\ TimeTypes

LEMMA ScoreHasType ==
  ASSUME IInv, LoanTypes, NEW u, NEW amount \in Nat, NEW term \in Nat
  PROVE  EvaluateCreditScore(u, amount, term) \in 0..850
<1>1. \A status \in LoanStatus : LoansOf(u, status) \subseteq Stored
  BY DEF LoansOf, Stored, Exists, LoanStatus
<1>2. \A status \in LoanStatus : IsFiniteSet(LoansOf(u, status))
  BY <1>1, FS_Subset DEF LoanTypes
<1>3. \A status \in LoanStatus : Cardinality(LoansOf(u, status)) \in Nat
  BY <1>2, FS_CardinalityType
<1>4. ASSUME NEW l \in Stored PROVE TotalPayable(l) \in Nat
  <2>1. loan[l].term \in Terms /\ l \in Requests
    BY DEF Stored, IInv, TypeInv
  <2>2. MonthlyPayment[loan[l].term] \in Nat /\ loan[l].term \in Nat
    BY <2>1, LoanAssumption
  <2>3. \A i, j \in Nat : i * j \in Nat
    OBVIOUS
  <2> QED BY <2>2, <2>3 DEF TotalPayable
<1>5. PICK owed : owed = [l \in LoansOf(u, "ACTIVE") |-> TotalPayable(l)]
  OBVIOUS
<1>6. PICK active : active = LoansOf(u, "ACTIVE")
  OBVIOUS
<1>7. IsFiniteSet(active) /\ \A l \in active : owed[l] \in Nat
  BY <1>1, <1>2, <1>4, <1>5, <1>6 DEF LoanStatus
<1>8. Sum(owed, active) \in Nat
  BY <1>7, SumIsNatural
<1>9. EvaluateCreditScore(u, amount, term) =
        Score(Cardinality(LoansOf(u, "DEFAULTED")), Cardinality(LoansOf(u, "COMPLETED")),
              Sum(owed, active), amount, term)
  BY <1>5, <1>6 DEF EvaluateCreditScore, Sum
<1>10. Cardinality(LoansOf(u, "DEFAULTED")) \in Nat /\ Cardinality(LoansOf(u, "COMPLETED")) \in Nat
  BY <1>3 DEF LoanStatus
<1>11. PICK bad, good, debt : bad = Cardinality(LoansOf(u, "DEFAULTED"))
         /\ good = Cardinality(LoansOf(u, "COMPLETED")) /\ debt = Sum(owed, active)
  OBVIOUS
<1>12. bad \in Nat /\ good \in Nat /\ debt \in Nat
  BY <1>8, <1>10, <1>11
<1>13. Score(bad, good, debt, amount, term) \in 0..850
  <2>1. bad \in Nat
    BY <1>12
  <2>2. good \in Nat
    BY <1>12
  <2>3. debt \in Nat
    BY <1>12
  <2> QED BY <2>1, <2>2, <2>3, ScoreInRange, Zenon
<1> QED BY <1>9, <1>11, <1>13

\* updateLoanStatus changes one field of a loan that exists.
LEMMA StatusHasType ==
  ASSUME IInv, LoanTypes, NEW l \in Requests, Exists(l), NEW status \in LoanStatus,
         loan' = [loan EXCEPT ![l].status = status]
  PROVE  LoanTypes'
<1>1. loan[l] \in LoanRow
  BY DEF LoanTypes, NoLoan, Exists
<1>2. loan'[l] = [loan[l] EXCEPT !.status = status] /\ \A m \in Requests \ {l} : loan'[m] = loan[m]
  BY DEF IInv, TypeInv
<1>3. loan'[l] \in LoanRow
  BY <1>1, <1>2 DEF LoanRow
<1>4. \A m \in Requests : loan'[m] \in {NoLoan} \cup LoanRow
  BY <1>2, <1>3 DEF LoanTypes
<1>5. Stored' \subseteq Stored
  BY <1>2 DEF Stored, Exists
<1>6. IsFiniteSet(Stored')
  BY <1>5, FS_Subset DEF LoanTypes
<1> QED BY <1>4, <1>6 DEF LoanTypes

LEMMA LoansKeepTypes ==
  ASSUME IInv, LoanTypes, MemoryTypes, [Next]_vars PROVE LoanTypes'
<1>1. CASE UNCHANGED loan
  BY <1>1 DEF LoanTypes, Stored, Exists
<1>2. ASSUME NEW r \in Requests, CreateLoan(r) PROVE LoanTypes'
  <2>1. /\ pc[r] = "create" /\ r \in Handlers
        /\ loan' = [loan EXCEPT ![r] = NewLoan(req[r], local[r].score)]
    BY <1>2 DEF CreateLoan, At, Handlers
  <2>2. req[r].kind = "apply" /\ req[r] \in Request \cup {NoRequest}
    BY <2>1 DEF IInv, TypeInv, HandlerInv, RequestInv, RequestAt, Applying
  <2>3. req[r].user \in Users /\ req[r].principal \in Principals /\ req[r].term \in Terms
    BY <2>2 DEF Request, NoRequest
  <2>4. NewLoan(req[r], local[r].score) \in LoanRow
    BY <2>1, <2>3 DEF NewLoan, LoanRow, LoanStatus, MemoryTypes
  <2>5. loan'[r] \in LoanRow /\ \A m \in Requests \ {r} : loan'[m] = loan[m]
    BY <2>1, <2>4 DEF IInv, TypeInv
  <2>6. \A m \in Requests : loan'[m] \in {NoLoan} \cup LoanRow
    BY <2>5 DEF LoanTypes
  <2>7. Stored' \subseteq Stored \cup {r}
    BY <2>5 DEF Stored, Exists
  <2>8. IsFiniteSet(Stored \cup {r})
    BY FS_AddElement DEF LoanTypes
  <2>9. IsFiniteSet(Stored')
    BY <2>7, <2>8, FS_Subset
  <2> QED BY <2>6, <2>9 DEF LoanTypes
<1>3. ASSUME NEW r \in Requests,
             Approve(r) \/ DisburseLoan(r) \/ RejectLoan(r) \/ CompleteLoan(r)
      PROVE  LoanTypes'
  <2>1. r \in Handlers /\ pc[r] \in {"approve", "disburse", "reject", "complete"}
    BY <1>3 DEF Handlers, Approve, DisburseLoan, RejectLoan, CompleteLoan, UpdateLoanStatus, At
  <2>2. req[r].kind \in {"approve", "reject", "repay"}
    BY <2>1 DEF IInv, HandlerInv, RequestInv, RequestAt, Repaying
  <2>3. PICK l \in Requests : l = req[r].loan /\ Exists(l)
    BY <2>2, Asked
  <2>4. \E status \in LoanStatus : loan' = [loan EXCEPT ![l].status = status]
    BY <1>3, <2>3 DEF Approve, DisburseLoan, RejectLoan, CompleteLoan, UpdateLoanStatus, LoanStatus
  <2> QED BY <2>3, <2>4, StatusHasType
<1>4. ASSUME NEW c \in Replicas, DefaultLoan(c) PROVE LoanTypes'
  <2>1. c \in Handlers /\ pc[c] = "default"
    BY <1>4 DEF Handlers, DefaultLoan, UpdateLoanStatus, At
  <2>2. PICK l \in Requests : l = local[c].loan /\ Exists(l)
    BY <1>4, <2>1, LateIsScheduled DEF IInv, HandlerInv, JobInv
  <2>3. loan' = [loan EXCEPT ![l].status = "DEFAULTED"] /\ "DEFAULTED" \in LoanStatus
    BY <1>4, <2>2 DEF DefaultLoan, UpdateLoanStatus, LoanStatus
  <2> QED BY <2>2, <2>3, StatusHasType
<1>5. ASSUME NEW r \in Requests,
             \/ Submit(r) \/ Incr(r) \/ Expire(r) \/ Evaluate(r) \/ UpsertCreditScore(r)
             \/ ReadLoan(r) \/ GenerateRepaymentSchedule(r) \/ ReadRows(r) \/ Pay(r)
             \/ CheckRows(r) \/ EmitKafkaEvent(r)
      PROVE  UNCHANGED loan
  BY <1>5 DEF Submit, Incr, Expire, Evaluate, UpsertCreditScore, ReadLoan,
              GenerateRepaymentSchedule, ReadRows, Pay, CheckRows, EmitKafkaEvent, tables
<1>6. ASSUME NEW c \in Replicas,
             FindOverdueRepayments(c) \/ UpdatePenalty(c) \/ FindLoan(c) \/ EmitDefault(c)
      PROVE  UNCHANGED loan
  BY <1>6 DEF FindOverdueRepayments, UpdatePenalty, FindLoan, EmitDefault, tables
<1>7. ASSUME NEW h \in Handlers, Crash(h) PROVE UNCHANGED loan
  BY <1>7 DEF Crash, tables
<1>8. ASSUME NEW u \in Users, CounterExpires(u) PROVE UNCHANGED loan
  BY <1>8 DEF CounterExpires, tables
<1>9. CASE NextDay \/ UNCHANGED vars
  BY <1>1, <1>9 DEF NextDay, vars, tables
<1> QED
  BY <1>1, <1>2, <1>3, <1>4, <1>5, <1>6, <1>7, <1>8, <1>9
     DEF Next, Step, ProcessDailyPenalties

LEMMA MemoryKeepsTypes ==
  ASSUME IInv, LoanTypes, MemoryTypes, [Next]_vars PROVE MemoryTypes'
<1>1. NoLocals.score \in 0..850 /\ NoLocals.loan \in Requests \cup {None}
  BY DEF NoLocals
<1>2. \A h \in Handlers : DOMAIN local[h] = {"rows", "score", "loan"}
  BY DEF IInv, TypeInv, LocalFields
<1>3. ASSUME NEW h \in Handlers, NEW l, local' = [local EXCEPT ![h] = l],
             l.score \in 0..850, l.loan \in Requests \cup {None}
      PROVE  MemoryTypes'
  BY <1>3 DEF IInv, TypeInv, MemoryTypes
<1>3a. ASSUME NEW h \in Handlers, \A g \in Handlers \ {h} : local'[g] = local[g],
              local'[h].score \in 0..850, local'[h].loan \in Requests \cup {None}
       PROVE  MemoryTypes'
  BY <1>3a DEF MemoryTypes
<1>4. CASE UNCHANGED local
  BY <1>4 DEF MemoryTypes
<1>5. ASSUME NEW h \in Handlers, NEW label, Finish(h, label) PROVE MemoryTypes'
  BY <1>1, <1>3, <1>5 DEF Finish
<1>6. ASSUME NEW h \in Handlers, NEW rows, local' = [local EXCEPT ![h].rows = rows]
      PROVE  MemoryTypes'
  <2>1. /\ local'[h] = [local[h] EXCEPT !.rows = rows]
        /\ \A g \in Handlers \ {h} : local'[g] = local[g]
    BY <1>6 DEF IInv, TypeInv
  <2>2. local'[h].score = local[h].score /\ local'[h].loan = local[h].loan
    BY <1>2, <2>1
  <2>3. \A g \in Handlers \ {h} : local'[g] = local[g]
    BY <2>1
  <2>4. local'[h].score \in 0..850 /\ local'[h].loan \in Requests \cup {None}
    BY <2>2 DEF MemoryTypes
  <2> QED BY <1>3a, <2>3, <2>4
<1>7. ASSUME NEW r \in Requests, Evaluate(r) PROVE MemoryTypes'
  <2>1. /\ pc[r] = "evaluate" /\ r \in Handlers
        /\ local' = [local EXCEPT ![r].score =
                       EvaluateCreditScore(req[r].user, req[r].principal, req[r].term)]
    BY <1>7 DEF Evaluate, At, Handlers
  <2>2. req[r].kind = "apply" /\ req[r] \in Request \cup {NoRequest}
    BY <2>1 DEF IInv, TypeInv, HandlerInv, RequestInv, RequestAt, Applying
  <2>3. req[r].principal \in Principals /\ req[r].term \in Terms
    BY <2>2 DEF Request, NoRequest
  <2>3a. req[r].principal \in Nat /\ req[r].term \in Nat
    BY <2>3, LoanAssumption
  <2>4. EvaluateCreditScore(req[r].user, req[r].principal, req[r].term) \in 0..850
    BY <2>3a, ScoreHasType
  <2>5. PICK points : points = EvaluateCreditScore(req[r].user, req[r].principal, req[r].term)
    OBVIOUS
  <2>6. local' = [local EXCEPT ![r].score = points] /\ points \in 0..850
    BY <2>1, <2>4, <2>5
  <2>7. /\ local'[r] = [local[r] EXCEPT !.score = points]
        /\ \A g \in Handlers \ {r} : local'[g] = local[g]
    BY <2>1, <2>6 DEF IInv, TypeInv
  <2>8. local'[r].score = points /\ local'[r].loan = local[r].loan
    BY <1>2, <2>1, <2>7
  <2>9. \A g \in Handlers \ {r} : local'[g] = local[g]
    BY <2>7
  <2>10. r \in Handlers
    BY <2>1
  <2>11. local'[r].score \in 0..850
    BY <2>6, <2>8
  <2>12. local'[r].loan \in Requests \cup {None}
    BY <2>8, <2>10 DEF MemoryTypes
  <2> QED BY <1>3a, <2>9, <2>10, <2>11, <2>12
<1>8. ASSUME NEW c \in Replicas, UpdatePenalty(c) PROVE MemoryTypes'
  <2>1. PICK id \in DOMAIN local[c].rows : \E rows :
          local' = [local EXCEPT ![c].rows = rows, ![c].loan = req[id[1]].loan]
    BY <1>8 DEF UpdatePenalty
  <2>2. PICK rows : local' = [local EXCEPT ![c].rows = rows, ![c].loan = req[id[1]].loan]
    BY <2>1
  <2>3. c \in Handlers /\ RowsInv(c)
    BY DEF IInv, HandlerInv, Handlers
  <2>4. id[1] \in Requests /\ repayment[id[1]] # <<>>
    BY <2>3 DEF RowsInv
  <2>5. req[id[1]].kind = "approve"
    BY <2>4 DEF IInv, SafetyInv, CompleteInv
  <2>6. req[id[1]].loan \in Requests
    BY <2>4, <2>5, Asked
  <2>7. PICK l \in Requests : l = req[id[1]].loan
    BY <2>6
  <2>8. /\ local'[c] = [local[c] EXCEPT !.rows = rows, !.loan = l]
        /\ \A g \in Handlers \ {c} : local'[g] = local[g]
    BY <2>2, <2>3, <2>7 DEF IInv, TypeInv
  <2>9. local'[c].score = local[c].score /\ local'[c].loan = l
    BY <1>2, <2>3, <2>8
  <2>10. \A g \in Handlers \ {c} : local'[g] = local[g]
    BY <2>8
  <2> QED BY <2>9, <2>10 DEF MemoryTypes
<1>9. ASSUME NEW r \in Requests,
             \/ Submit(r) \/ Incr(r) \/ Expire(r) \/ CreateLoan(r) \/ ReadLoan(r) \/ Approve(r)
             \/ GenerateRepaymentSchedule(r) \/ DisburseLoan(r) \/ RejectLoan(r)
             \/ CheckRows(r) \/ CompleteLoan(r)
      PROVE  UNCHANGED local
  BY <1>9 DEF Submit, Incr, Expire, CreateLoan, ReadLoan, Approve, GenerateRepaymentSchedule,
              DisburseLoan, RejectLoan, CheckRows, CompleteLoan, UpdateLoanStatus
<1>10. ASSUME NEW r \in Requests, UpsertCreditScore(r) \/ EmitKafkaEvent(r) PROVE MemoryTypes'
  BY <1>5, <1>10 DEF UpsertCreditScore, EmitKafkaEvent, Handlers
<1>11. ASSUME NEW r \in Requests, ReadRows(r) PROVE MemoryTypes'
  BY <1>4, <1>6, <1>11 DEF ReadRows, Handlers
<1>12. ASSUME NEW r \in Requests, Pay(r) PROVE MemoryTypes'
  <2>1. \E rows : local' = [local EXCEPT ![r].rows = rows]
    BY <1>12 DEF Pay
  <2> QED BY <1>6, <2>1 DEF Handlers
<1>13. ASSUME NEW c \in Replicas, FindOverdueRepayments(c) PROVE MemoryTypes'
  <2>1. \E rows : local' = [local EXCEPT ![c].rows = rows]
    BY <1>13 DEF FindOverdueRepayments
  <2> QED BY <1>6, <2>1 DEF Handlers
<1>14. ASSUME NEW c \in Replicas, FindLoan(c) \/ DefaultLoan(c) \/ EmitDefault(c)
       PROVE  UNCHANGED local
  BY <1>14 DEF FindLoan, DefaultLoan, EmitDefault, UpdateLoanStatus
<1>15. ASSUME NEW h \in Handlers, Crash(h) PROVE MemoryTypes'
  BY <1>5, <1>15 DEF Crash
<1>16. (\E u \in Users : CounterExpires(u)) \/ NextDay \/ UNCHANGED vars => UNCHANGED local
  BY DEF CounterExpires, NextDay, vars
<1>17. ASSUME NEW r \in Requests, Submit(r) \/ Step(r) PROVE MemoryTypes'
  BY <1>4, <1>7, <1>9, <1>10, <1>11, <1>12, <1>17 DEF Step
<1>18. ASSUME NEW c \in Replicas, ProcessDailyPenalties(c) PROVE MemoryTypes'
  BY <1>4, <1>8, <1>13, <1>14, <1>18 DEF ProcessDailyPenalties
<1> QED BY <1>4, <1>15, <1>16, <1>17, <1>18 DEF Next

LEMMA ScoresKeepTypes ==
  ASSUME IInv, MemoryTypes, ScoreTypes, [Next]_vars PROVE ScoreTypes'
<1>1. CASE UNCHANGED score
  BY <1>1 DEF ScoreTypes
<1>2. ASSUME NEW r \in Requests, UpsertCreditScore(r) PROVE ScoreTypes'
  <2>1. local[r].score \in 0..850 /\ score' = [score EXCEPT ![req[r].user] = local[r].score]
    BY <1>2 DEF UpsertCreditScore, MemoryTypes, Handlers
  <2> QED BY <2>1 DEF IInv, TypeInv, ScoreTypes
<1>3. ASSUME NEW r \in Requests,
             \/ Submit(r) \/ Incr(r) \/ Expire(r) \/ Evaluate(r) \/ CreateLoan(r) \/ ReadLoan(r)
             \/ Approve(r) \/ GenerateRepaymentSchedule(r) \/ DisburseLoan(r) \/ RejectLoan(r)
             \/ ReadRows(r) \/ Pay(r) \/ CheckRows(r) \/ CompleteLoan(r) \/ EmitKafkaEvent(r)
      PROVE  UNCHANGED score
  BY <1>3 DEF Submit, Incr, Expire, Evaluate, CreateLoan, ReadLoan, Approve,
              GenerateRepaymentSchedule, DisburseLoan, RejectLoan, ReadRows, Pay, CheckRows,
              CompleteLoan, EmitKafkaEvent, UpdateLoanStatus, tables
<1>4. ASSUME NEW c \in Replicas, ProcessDailyPenalties(c) PROVE UNCHANGED score
  BY <1>4 DEF ProcessDailyPenalties, FindOverdueRepayments, UpdatePenalty, FindLoan, DefaultLoan,
              EmitDefault, UpdateLoanStatus, tables
<1>5. ASSUME NEW h \in Handlers, Crash(h) PROVE UNCHANGED score
  BY <1>5 DEF Crash, tables
<1>6. (\E u \in Users : CounterExpires(u)) \/ NextDay \/ UNCHANGED vars => UNCHANGED score
  BY DEF CounterExpires, NextDay, vars, tables
<1>7. ASSUME NEW r \in Requests, Submit(r) \/ Step(r) PROVE ScoreTypes'
  BY <1>1, <1>2, <1>3, <1>7 DEF Step
<1> QED BY <1>1, <1>4, <1>5, <1>6, <1>7 DEF Next

LEMMA EventsKeepTypes ==
  ASSUME IInv, MemoryTypes, EventTypes, [Next]_vars PROVE EventTypes'
<1>1. CASE UNCHANGED events
  BY <1>1 DEF EventTypes
<1>2. ASSUME NEW h \in Handlers, NEW l \in Requests,
             NEW name \in {"loan.disbursed", "loan.repaid", "loan.defaulted"},
             Emit(Event(name, l, h))
      PROVE  EventTypes'
  BY <1>2 DEF Emit, Event, EventTypes
<1>3. ASSUME NEW r \in Requests, EmitKafkaEvent(r) PROVE EventTypes'
  <2>1. r \in Handlers /\ pc[r] = "emit"
    BY <1>3 DEF Handlers, EmitKafkaEvent, At
  <2>2. req[r].kind \in {"approve", "repay"}
    BY <2>1 DEF IInv, HandlerInv, RequestInv, RequestAt
  <2>3. req[r].loan \in Requests
    BY <2>2, Asked
  <2>4. \E name \in {"loan.disbursed", "loan.repaid"} : Emit(Event(name, req[r].loan, r))
    BY <1>3 DEF EmitKafkaEvent
  <2> QED BY <1>2, <2>1, <2>3, <2>4
<1>4. ASSUME NEW c \in Replicas, EmitDefault(c) PROVE EventTypes'
  <2>1. c \in Handlers /\ pc[c] = "emitDefault"
    BY <1>4 DEF Handlers, EmitDefault, At
  <2>2. local[c].loan \in Requests
    BY <2>1 DEF IInv, HandlerInv, JobInv
  <2>3. Emit(Event("loan.defaulted", local[c].loan, c))
    BY <1>4 DEF EmitDefault
  <2> QED BY <1>2, <2>1, <2>2, <2>3
<1>5. ASSUME NEW r \in Requests,
             \/ Submit(r) \/ Incr(r) \/ Expire(r) \/ Evaluate(r) \/ CreateLoan(r) \/ ReadLoan(r)
             \/ Approve(r) \/ GenerateRepaymentSchedule(r) \/ DisburseLoan(r) \/ RejectLoan(r)
             \/ ReadRows(r) \/ Pay(r) \/ CheckRows(r) \/ CompleteLoan(r) \/ UpsertCreditScore(r)
      PROVE  UNCHANGED events
  BY <1>5 DEF Submit, Incr, Expire, Evaluate, CreateLoan, ReadLoan, Approve,
              GenerateRepaymentSchedule, DisburseLoan, RejectLoan, ReadRows, Pay, CheckRows,
              CompleteLoan, UpsertCreditScore, UpdateLoanStatus
<1>6. ASSUME NEW c \in Replicas,
             FindOverdueRepayments(c) \/ UpdatePenalty(c) \/ FindLoan(c) \/ DefaultLoan(c)
      PROVE  UNCHANGED events
  BY <1>6 DEF FindOverdueRepayments, UpdatePenalty, FindLoan, DefaultLoan, UpdateLoanStatus
<1>7. ASSUME NEW h \in Handlers, Crash(h) PROVE UNCHANGED events
  BY <1>7 DEF Crash
<1>8. (\E u \in Users : CounterExpires(u)) \/ NextDay \/ UNCHANGED vars => UNCHANGED events
  BY DEF CounterExpires, NextDay, vars
<1>9. ASSUME NEW r \in Requests, Submit(r) \/ Step(r) PROVE EventTypes'
  BY <1>1, <1>3, <1>5, <1>9 DEF Step
<1>10. ASSUME NEW c \in Replicas, ProcessDailyPenalties(c) PROVE EventTypes'
  BY <1>1, <1>4, <1>6, <1>10 DEF ProcessDailyPenalties
<1> QED BY <1>1, <1>7, <1>8, <1>9, <1>10 DEF Next

LEMMA TimeKeepsTypes ==
  ASSUME TimeTypes, [Next]_vars PROVE TimeTypes'
<1>1. today \in Nat /\ MaxDay \in Nat /\ faults \in Nat /\ MaxFaults \in Nat
  BY LoanAssumption DEF TimeTypes
<1>2. UNCHANGED faults \/ (faults < MaxFaults /\ faults' = faults + 1)
  BY DEF Next, Submit, Step, Incr, Expire, Evaluate, CreateLoan, UpsertCreditScore, ReadLoan,
         Approve, GenerateRepaymentSchedule, DisburseLoan, RejectLoan, ReadRows, Pay, CheckRows,
         CompleteLoan, EmitKafkaEvent, UpdateLoanStatus, ProcessDailyPenalties,
         FindOverdueRepayments, UpdatePenalty, FindLoan, DefaultLoan, EmitDefault, Emit, Crash,
         CounterExpires, NextDay, vars
<1>3. \/ UNCHANGED <<today, lastRun>>
      \/ today < MaxDay /\ today' = today + 1 /\ UNCHANGED lastRun
      \/ UNCHANGED today /\ \E c \in Replicas : lastRun' = [lastRun EXCEPT ![c] = today]
  BY DEF Next, Submit, Step, Incr, Expire, Evaluate, CreateLoan, UpsertCreditScore, ReadLoan,
         Approve, GenerateRepaymentSchedule, DisburseLoan, RejectLoan, ReadRows, Pay, CheckRows,
         CompleteLoan, EmitKafkaEvent, UpdateLoanStatus, ProcessDailyPenalties,
         FindOverdueRepayments, UpdatePenalty, FindLoan, DefaultLoan, EmitDefault, Crash,
         CounterExpires, NextDay, vars
<1>4. faults' \in 0..MaxFaults
  BY <1>1, <1>2 DEF TimeTypes
<1>5. today' \in 0..MaxDay
  BY <1>1, <1>3 DEF TimeTypes
<1>6. lastRun' \in [Replicas -> 0..today']
  BY <1>1, <1>3 DEF TimeTypes
<1> QED BY <1>4, <1>5, <1>6 DEF TimeTypes

LEMMA SeededHasType ==
  ASSUME NEW l \in Seeded PROVE SeededLoan(l) \in LoanRow
<1>1. PICK principal : principal = CHOOSE p \in Principals : TRUE
  OBVIOUS
<1>2. PICK term : term = CHOOSE t \in Terms : TRUE
  OBVIOUS
<1>3. principal \in Principals /\ term \in Terms
  <2>1. principal \in Principals
    BY <1>1, LoanAssumption
  <2>2. term \in Terms
    BY <1>2, LoanAssumption
  <2> QED BY <2>1, <2>2
<1>4. Score(0, 0, 0, principal, term) \in 0..850
  <2>1. PICK none : none = 0
    OBVIOUS
  <2>2. principal \in Nat /\ term \in Nat /\ none \in Nat
    BY <1>3, <2>1, LoanAssumption
  <2>3. Score(none, none, none, principal, term) \in 0..850
    BY <2>2, ScoreInRange
  <2> QED BY <2>1, <2>3
<1>5. PICK points : points = Score(0, 0, 0, principal, term)
  OBVIOUS
<1>6. SeededLoan(l) = [status |-> "PENDING", user |-> Owner[l], principal |-> principal,
                       term |-> term, score |-> points]
  BY <1>1, <1>2, <1>5 DEF SeededLoan
<1>7. Owner[l] \in Users /\ points \in 0..850
  BY <1>4, <1>5, LoanAssumption
<1> QED BY <1>3, <1>6, <1>7 DEF LoanRow, LoanStatus

LEMMA TypesAtStart == Init => TypesInv
<1> SUFFICES ASSUME Init PROVE TypesInv
  OBVIOUS
<1>1. \A l \in Requests : loan[l] = IF l \in Seeded THEN SeededLoan(l) ELSE NoLoan
  BY DEF Init
<1>2. Stored \subseteq Seeded
  BY <1>1 DEF Stored, Exists, NoLoan
<1>3. IsFiniteSet(Stored)
  BY <1>2, FS_Subset, LoanAssumption
<1>4. LoanTypes
  BY <1>1, <1>3, SeededHasType DEF LoanTypes
<1>5. MemoryTypes
  BY DEF Init, MemoryTypes, NoLocals
<1>6. ASSUME NEW u \in Users PROVE score[u] \in 0..850 \cup {None}
  <2>1. CASE \E l \in Seeded : Owner[l] = u
    <3>1. PICK l \in Seeded : score[u] = SeededLoan(l).score
      BY <2>1 DEF Init
    <3> QED BY <3>1, SeededHasType DEF LoanRow
  <2>2. CASE ~ \E l \in Seeded : Owner[l] = u
    BY <2>2 DEF Init
  <2> QED BY <2>1, <2>2
<1>7. EventTypes /\ TimeTypes
  BY LoanAssumption DEF Init, EventTypes, TimeTypes
<1> QED BY <1>4, <1>5, <1>6, <1>7 DEF TypesInv, ScoreTypes

\* What a handler remembers of repayments is of their type, and in the table.
LEMMA RowsHaveType ==
  ASSUME IInv, NEW h \in Handlers, NEW id \in DOMAIN local[h].rows
  PROVE  id \in Requests \X (Nat \ {0}) /\ local[h].rows[id] \in Row
<1>1. RowsInv(h) /\ repayment \in [Requests -> Seq(Instalment)]
  BY DEF IInv, HandlerInv, TypeInv
<1>2. /\ id \in Requests \X Nat /\ id[2] \in DOMAIN repayment[id[1]]
      /\ local[h].rows[id] \in Instalment
  BY <1>1 DEF RowsInv
<1>3. repayment[id[1]] \in Seq(Instalment)
  BY <1>1, <1>2
<1>4. id[2] \in Nat \ {0}
  BY <1>2, <1>3
<1> QED BY <1>2, <1>4 DEF Instalment, Row

LEMMA TypesOfAll == IInv /\ RateInv /\ TypesInv => TypeOK
<1> SUFFICES ASSUME IInv, RateInv, TypesInv PROVE TypeOK
  OBVIOUS
<1>1. loan \in [Requests -> {NoLoan} \cup LoanRow]
  BY DEF IInv, TypeInv, TypesInv, LoanTypes
<1>2. repayment \in [Requests -> Seq(Row)]
  <2>1. Instalment \subseteq Row
    BY DEF Instalment, Row
  <2>2. Seq(Instalment) \subseteq Seq(Row)
    BY <2>1
  <2> QED BY <2>2 DEF IInv, TypeInv
<1>3. score \in [Users -> 0..850 \cup {None}]
  BY DEF IInv, TypeInv, TypesInv, ScoreTypes
<1>4. \A h \in Handlers : /\ DOMAIN local[h].rows \subseteq Requests \X (Nat \ {0})
                          /\ \A id \in DOMAIN local[h].rows : local[h].rows[id] \in Row
  BY RowsHaveType
<1>5. \A h \in Handlers : local[h].score \in 0..850 /\ local[h].loan \in Requests \cup {None}
  BY DEF TypesInv, MemoryTypes
<1>6. /\ rate \in [Users -> [count: Nat, lifetime: BOOLEAN]] /\ windows \in [Users -> Nat]
      /\ pc \in [Handlers -> Running \cup Final \cup {"idle"}]
      /\ req \in [Requests -> Request \cup {NoRequest}] /\ left \in [Requests -> Nat]
  BY DEF IInv, TypeInv, RateInv
<1>7. /\ events \subseteq [event: {"loan.disbursed", "loan.repaid", "loan.defaulted"},
                           loan: Requests, by: Handlers]
      /\ today \in 0..MaxDay /\ lastRun \in [Replicas -> 0..today] /\ faults \in 0..MaxFaults
  BY DEF TypesInv, EventTypes, TimeTypes
<1> QED BY <1>1, <1>2, <1>3, <1>4, <1>5, <1>6, <1>7 DEF TypeOK, LoanRow

\* Whatever races, loans and scores are what the database's columns allow:
\* no score leaves 0 to 850 (evaluateCreditScore clamps what it adds up from
\* the loans of the moment), and no handler points at a row that is not there.
THEOREM LoansTyped == Spec => []TypeOK
<1>1. Init => IInv /\ RateInv /\ TypesInv
  BY LoanStart, RateStart, TypesAtStart
<1>2. (IInv /\ RateInv /\ TypesInv) /\ [Next]_vars => (IInv /\ RateInv /\ TypesInv)'
  <2> SUFFICES ASSUME IInv, RateInv, TypesInv, [Next]_vars PROVE (IInv /\ RateInv /\ TypesInv)'
    OBVIOUS
  <2>1. TypesInv'
    BY LoansKeepTypes, MemoryKeepsTypes, ScoresKeepTypes, EventsKeepTypes, TimeKeepsTypes
       DEF TypesInv
  <2> QED BY <2>1, LoanStep, RateStep
<1> QED BY <1>1, <1>2, TypesOfAll, PTL DEF Spec

=============================================================================
