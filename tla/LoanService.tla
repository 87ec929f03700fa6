---------------------------- MODULE LoanService ----------------------------
(***************************************************************************)
(* The loan microservice: requests and the nightly penalty job, handled    *)
(* concurrently by any number of replicas over one PostgreSQL database,    *)
(* one Redis and one Kafka broker.  No handler opens a transaction: each   *)
(* statement commits by itself, and any handler may run between two of     *)
(* them.  A loan has the identifier of the request that applied for it,    *)
(* its repayments that of the request that approved it.                    *)
(***************************************************************************)
EXTENDS CreditScore, Sequences, FiniteSets, Folds, Functions

CONSTANTS
  Users,
  Requests,          \* request identifiers, and loan identifiers
  Replicas,          \* processes that run the nightly job
  Kinds,             \* the operations called in this instance
  Seeded,            \* applications answered before the model starts
  Owner,             \* Owner[l]: the user who applied for the seeded loan l
  Principals,        \* loan amounts asked for
  Terms,             \* loan terms asked for, in months
  MonthlyPayment,    \* MonthlyPayment[term]: what calculateMonthlyPayment returns
  Payments,          \* amounts a borrower pays
  MonthDays,         \* days between two due dates
  GracePeriodDays,
  DefaultDays,       \* days overdue after which a repayment defaults
  RateLimitMax,      \* applications a user may make in a window
  Serial,            \* TRUE: no two handlers overlap
  MaxDay,            \* bound on the days that pass
  MaxFaults,         \* bound on crashes
  None

AllKinds == {"apply", "approve", "reject", "repay"}

ASSUME LoanAssumption ==
  /\ Requests \cap Replicas = {}
  /\ Kinds \subseteq AllKinds
  /\ Seeded \subseteq Requests /\ IsFiniteSet(Seeded)
  /\ Owner \in [Seeded -> Users]
  /\ Principals \subseteq Nat \ {0} /\ Principals # {}
  /\ Terms \subseteq Nat \ {0} /\ Terms # {}
  /\ MonthlyPayment \in [Terms -> Nat \ {0}]
  /\ Payments \subseteq Nat \ {0}
  /\ MonthDays \in Nat \ {0} /\ GracePeriodDays \in Nat /\ DefaultDays \in Nat
  /\ RateLimitMax \in Nat \ {0} /\ Serial \in BOOLEAN /\ MaxDay \in Nat /\ MaxFaults \in Nat
  /\ None \notin Users \cup Requests \cup Replicas \cup Int

VARIABLES
  loan,       \* table Loan
  repayment,  \* table Repayment: the rows each approval created, by due date
  score,      \* table CreditScore
  rate,       \* Redis loan:rate:<user>: the counter, and whether it has a lifetime
  windows,    \* history: how often each user's counter ran out
  events,     \* messages on loan-events
  today,      \* days since the model started
  pc,         \* where each handler is
  req,        \* what each request asks for
  local,      \* what each handler remembers
  left,       \* what is left of each payment
  lastRun,    \* the day for which each replica last ran the nightly job
  faults      \* crashes so far

tables == <<loan, repayment, score>>
redis  == <<rate, windows>>
vars   == <<loan, repayment, score, rate, windows, events, today,
            pc, req, local, left, lastRun, faults>>

Handlers == Requests \cup Replicas

-----------------------------------------------------------------------------
(* Rows, requests and states *)

LoanStatus == {"PENDING", "APPROVED", "ACTIVE", "REJECTED", "COMPLETED", "DEFAULTED"}

NoLoan == [status |-> "absent", user |-> None, principal |-> 0, term |-> 0, score |-> 0]

Exists(l) == loan[l].status # "absent"

Row == [due: Nat, amount: Nat, paid: Nat, penalty: Nat,
        status: {"PENDING", "PAID", "LATE", "DEFAULTED"}]

\* A row of table Repayment is identified by its approval and its place there.
Approvals(l) == {a \in Requests : req[a].kind = "approve" /\ req[a].loan = l}
Ids(l)       == UNION {{a} \X DOMAIN repayment[a] : a \in Approvals(l)}
RowOf(id)    == repayment[id[1]][id[2]]

Unpaid(row) == row.status \in {"PENDING", "LATE"}

\* The unpaid rows of loan l as they are now.
DueRows(l) == [id \in {i \in Ids(l) : Unpaid(RowOf(i))} |-> RowOf(id)]

Request ==
  [kind: {"apply"}, user: Users, principal: Principals, term: Terms]
  \cup [kind: {"approve", "reject"}, loan: Requests]
  \cup [kind: {"repay"}, loan: Requests, user: Users, amount: Payments]

NoRequest == [kind |-> "none"]

\* rows: the repayments a handler has read and not yet dealt with.
NoLocals == [rows |-> <<>>, score |-> 0, loan |-> None]

Applying  == {"incr", "expire", "evaluate", "create", "upsertScore"}
Deciding  == {"readLoan", "approve", "schedule", "disburse", "reject"}
Repaying  == {"readRows", "pay", "checkRows", "complete"}
Nightly   == {"penalty", "findLoan", "default", "emitDefault"}
Running   == Applying \cup Deciding \cup Repaying \cup Nightly \cup {"emit"}
Final     == {"ok", "rejected", "tooMany", "lost"}

Quiet == \A h \in Handlers : pc[h] \notin Running

\* What a user without a history applied for and was scored, earlier.
SeededLoan(l) ==
  LET principal == CHOOSE p \in Principals : TRUE
      term      == CHOOSE t \in Terms : TRUE
  IN [status |-> "PENDING", user |-> Owner[l], principal |-> principal, term |-> term,
      score |-> Score(0, 0, 0, principal, term)]

Init ==
  /\ loan = [l \in Requests |-> IF l \in Seeded THEN SeededLoan(l) ELSE NoLoan]
  /\ repayment = [r \in Requests |-> <<>>]
  /\ score   = [u \in Users |-> IF \E l \in Seeded : Owner[l] = u
                                THEN SeededLoan(CHOOSE l \in Seeded : Owner[l] = u).score
                                ELSE None]
  /\ rate    = [u \in Users |-> [count |-> 0, lifetime |-> FALSE]]
  /\ windows = [u \in Users |-> 0]
  /\ events  = {}
  /\ today   = 0
  /\ pc      = [h \in Handlers |-> IF h \in Seeded THEN "ok" ELSE "idle"]
  /\ req     = [r \in Requests |-> NoRequest]
  /\ local   = [h \in Handlers |-> NoLocals]
  /\ left    = [r \in Requests |-> 0]
  /\ lastRun = [c \in Replicas |-> 0]
  /\ faults  = 0

-----------------------------------------------------------------------------
(* Control *)

At(h, label)   == pc[h] = label
Goto(h, label) == pc' = [pc EXCEPT ![h] = label]

Finish(h, outcome) ==
  /\ Goto(h, outcome)
  /\ local' = [local EXCEPT ![h] = NoLocals]

\* updateLoanStatus: handler h sets the status of loan l, whatever it was, and goes on.
UpdateLoanStatus(h, from, l, status, to) ==
  /\ At(h, from)
  /\ loan' = [loan EXCEPT ![l].status = status]
  /\ Goto(h, to)
  /\ UNCHANGED <<repayment, score, redis, events, today, req, local, left, lastRun, faults>>

\* A client sends request r about a loan it knows of.
Submit(r) ==
  /\ At(r, "idle")
  /\ Serial => Quiet
  /\ \E q \in Request :
       /\ q.kind \in Kinds
       /\ q.kind # "apply" => Exists(q.loan)
       /\ req' = [req EXCEPT ![r] = q]
       /\ left' = [left EXCEPT ![r] = IF q.kind = "repay" THEN q.amount ELSE 0]
       /\ Goto(r, IF q.kind = "apply" THEN "incr" ELSE "readLoan")
  /\ UNCHANGED <<tables, redis, events, today, local, lastRun, faults>>

-----------------------------------------------------------------------------
(* applyForLoan *)

\* Faulty variant: one application too many passes.
AllowedLenient(current) == current <= RateLimitMax + 1

Allowed(current) == current <= RateLimitMax

Incr(r) ==
  LET u == req[r].user
      current == rate[u].count + 1
  IN
  /\ At(r, "incr")
  /\ rate' = [rate EXCEPT ![u].count = current]
  /\ Goto(r, IF current = 1 THEN "expire"
             ELSE IF Allowed(current) THEN "evaluate" ELSE "tooMany")
  /\ UNCHANGED <<tables, windows, events, today, req, local, left, lastRun, faults>>

\* Faulty variant: the counter gets no lifetime.
ExpireForgotten(r) ==
  /\ At(r, "expire")
  /\ Goto(r, "evaluate")
  /\ UNCHANGED <<tables, redis, events, today, req, local, left, lastRun, faults>>

\* The counter gets its lifetime in a call of its own.
Expire(r) ==
  /\ At(r, "expire")
  /\ rate' = [rate EXCEPT ![req[r].user].lifetime = TRUE]
  /\ Goto(r, "evaluate")
  /\ UNCHANGED <<tables, windows, events, today, req, local, left, lastRun, faults>>

LoansOf(u, status) == {l \in Requests : loan[l].user = u /\ loan[l].status = status}

TotalPayable(l) == MonthlyPayment[loan[l].term] * loan[l].term

EvaluateCreditScore(u, amount, term) ==
  LET debt == FoldFunctionOnSet(+, 0, [l \in LoansOf(u, "ACTIVE") |-> TotalPayable(l)],
                                LoansOf(u, "ACTIVE"))
  IN Score(Cardinality(LoansOf(u, "DEFAULTED")), Cardinality(LoansOf(u, "COMPLETED")),
           debt, amount, term)

Evaluate(r) ==
  LET q == req[r] IN
  /\ At(r, "evaluate")
  /\ local' = [local EXCEPT ![r].score = EvaluateCreditScore(q.user, q.principal, q.term)]
  /\ Goto(r, "create")
  /\ UNCHANGED <<tables, redis, events, today, req, left, lastRun, faults>>

\* Faulty variant: the score does not get into the application.
UnscoredLoan(q, points) ==
  [status |-> "PENDING", user |-> q.user, principal |-> q.principal, term |-> q.term, score |-> 0]

NewLoan(q, points) ==
  [status |-> "PENDING", user |-> q.user, principal |-> q.principal, term |-> q.term,
   score |-> points]

CreateLoan(r) ==
  /\ At(r, "create")
  /\ loan' = [loan EXCEPT ![r] = NewLoan(req[r], local[r].score)]
  /\ Goto(r, "upsertScore")
  /\ UNCHANGED <<repayment, score, redis, events, today, req, local, left, lastRun, faults>>

UpsertCreditScore(r) ==
  /\ At(r, "upsertScore")
  /\ score' = [score EXCEPT ![req[r].user] = local[r].score]
  /\ Finish(r, "ok")
  /\ UNCHANGED <<loan, repayment, redis, events, today, req, left, lastRun, faults>>

-----------------------------------------------------------------------------
(* approveLoan and rejectLoan *)

\* Faulty variant: any loan can be decided on.
AnyDecidable(l) == Exists(l)

Decidable(l) == loan[l].status = "PENDING"

Repayable(l, u) == loan[l].user = u /\ loan[l].status = "ACTIVE"

ReadLoan(r) ==
  LET q == req[r] IN
  /\ At(r, "readLoan")
  /\ Goto(r, CASE q.kind \in {"approve", "reject"} /\ Decidable(q.loan) -> q.kind
               [] q.kind = "repay" /\ Repayable(q.loan, q.user) -> "readRows"
               [] OTHER -> "rejected")
  /\ UNCHANGED <<tables, redis, events, today, req, local, left, lastRun, faults>>

\* Faulty variant: the money goes out before the schedule is written.
ApproveUnscheduled(r) == UpdateLoanStatus(r, "approve", req[r].loan, "APPROVED", "disburse")

Approve(r) == UpdateLoanStatus(r, "approve", req[r].loan, "APPROVED", "schedule")

\* Faulty variant: off by one.
OneTooFew(term) == 1..(term - 1)

Instalments(term) == 1..term

GenerateRepaymentSchedule(r) ==
  LET term == loan[req[r].loan].term IN
  /\ At(r, "schedule")
  /\ repayment' = [repayment EXCEPT ![r] =
       [i \in Instalments(term) |->
          [due |-> today + i * MonthDays, amount |-> MonthlyPayment[term],
           paid |-> 0, penalty |-> 0, status |-> "PENDING"]]]
  /\ Goto(r, "disburse")
  /\ UNCHANGED <<loan, score, redis, events, today, req, local, left, lastRun, faults>>

DisburseLoan(r) == UpdateLoanStatus(r, "disburse", req[r].loan, "ACTIVE", "emit")

RejectLoan(r) == UpdateLoanStatus(r, "reject", req[r].loan, "REJECTED", "ok")

-----------------------------------------------------------------------------
(* repayLoan *)

ReadRows(r) ==
  LET rows == DueRows(req[r].loan) IN
  /\ At(r, "readRows")
  /\ IF rows = <<>> THEN Goto(r, "rejected") /\ UNCHANGED local
     ELSE Goto(r, "pay") /\ local' = [local EXCEPT ![r].rows = rows]
  /\ UNCHANGED <<tables, redis, events, today, req, left, lastRun, faults>>

\* Faulty variant: every repayment is taken as paid in full.
PartWhole(r, row) == row.amount + row.penalty

\* What goes to one repayment: the code asks for the whole amount again, whatever
\* has been paid on it before.
Part(r, row) == AtMost(left[r], row.amount + row.penalty)

\* Faulty variant: the payment is not used up.
RestUndiminished(r, row) == left[r]

Rest(r, row) == left[r] - Part(r, row)

\* Faulty variant: earlier payments on the row are overwritten.
PaidAnew(r, row) == Part(r, row)

PaidWith(r, row) == row.paid + Part(r, row)

\* Faulty variant: the penalty is forgotten.
CoversAmount(row, paid) == paid >= row.amount

Covers(row, paid) == paid >= row.amount + row.penalty

\* The next due repayment, with what it had been paid when the handler read it.
Pay(r) ==
  LET rows == local[r].rows IN
  /\ At(r, "pay")
  /\ \E id \in DOMAIN rows :
       LET row  == rows[id]
           paid == PaidWith(r, row)
           rest == Rest(r, row)
           more == DOMAIN rows \ {id}
       IN
       /\ \A other \in DOMAIN rows : row.due <= rows[other].due
       /\ repayment' = [repayment EXCEPT ![id[1]][id[2]] =
            [RowOf(id) EXCEPT !.paid = paid, !.status = IF Covers(row, paid) THEN "PAID" ELSE @]]
       /\ left' = [left EXCEPT ![r] = rest]
       /\ local' = [local EXCEPT ![r].rows = Restrict(rows, more)]
       /\ Goto(r, IF rest > 0 /\ more # {} THEN "pay" ELSE "checkRows")
  /\ UNCHANGED <<loan, score, redis, events, today, req, lastRun, faults>>

CheckRows(r) ==
  /\ At(r, "checkRows")
  /\ Goto(r, IF \A id \in Ids(req[r].loan) : RowOf(id).status = "PAID" THEN "complete"
                                                                      ELSE "emit")
  /\ UNCHANGED <<tables, redis, events, today, req, local, left, lastRun, faults>>

CompleteLoan(r) == UpdateLoanStatus(r, "complete", req[r].loan, "COMPLETED", "emit")

Event(name, l, h) == [event |-> name, loan |-> l, by |-> h]

\* Kafka takes the message, or refuses it and the handler goes on.
Emit(message) ==
  \/ events' = events \cup {message} /\ UNCHANGED faults
  \/ faults < MaxFaults /\ faults' = faults + 1 /\ UNCHANGED events

EmitKafkaEvent(r) ==
  /\ At(r, "emit")
  /\ Emit(Event(IF req[r].kind = "approve" THEN "loan.disbursed" ELSE "loan.repaid",
                req[r].loan, r))
  /\ Finish(r, "ok")
  /\ UNCHANGED <<tables, redis, today, req, left, lastRun>>

-----------------------------------------------------------------------------
(* processDailyPenalties *)

\* A row is overdue from the midnight after its due date.
DaysOverdue(row) == today - row.due - 1

Overdue(row) == Unpaid(row) /\ DaysOverdue(row) >= GracePeriodDays

\* Half a percent a day; exact when the amount is a multiple of 200.
PenaltyAmount(row) == (row.amount * 5 * DaysOverdue(row)) \div 1000

\* Faulty variant: off by one.
DefaultsEarly(row) == DaysOverdue(row) >= DefaultDays

Defaults(row) == DaysOverdue(row) > DefaultDays

\* Midnight: the job reads the overdue repayments of all loans.
FindOverdueRepayments(c) ==
  LET ids == {id \in UNION {Ids(l) : l \in Requests} : Overdue(RowOf(id))} IN
  /\ At(c, "idle")
  /\ lastRun[c] < today
  /\ Serial => Quiet
  /\ lastRun' = [lastRun EXCEPT ![c] = today]
  /\ local' = [local EXCEPT ![c].rows = [id \in ids |-> RowOf(id)]]
  /\ Goto(c, IF ids = {} THEN "idle" ELSE "penalty")
  /\ UNCHANGED <<tables, redis, events, today, req, left, faults>>

NextRow(rows) == IF rows = <<>> THEN "idle" ELSE "penalty"

\* Faulty variant: a repayment defaults and its loan is not looked at.
AfterPenaltyOnly(row, rest) == NextRow(rest)

AfterPenalty(row, rest) == IF Defaults(row) THEN "findLoan" ELSE NextRow(rest)

UpdatePenalty(c) ==
  LET rows == local[c].rows IN
  /\ At(c, "penalty")
  /\ \E id \in DOMAIN rows :
       LET row == rows[id]
           rest == Restrict(rows, DOMAIN rows \ {id})
       IN
       /\ repayment' = [repayment EXCEPT ![id[1]][id[2]] =
            [@ EXCEPT !.penalty = PenaltyAmount(row),
                      !.status = IF Defaults(row) THEN "DEFAULTED" ELSE "LATE"]]
       /\ local' = [local EXCEPT ![c].rows = rest, ![c].loan = req[id[1]].loan]
       /\ Goto(c, AfterPenalty(row, rest))
  /\ UNCHANGED <<loan, score, redis, events, today, req, left, lastRun, faults>>

FindLoan(c) ==
  /\ At(c, "findLoan")
  /\ Goto(c, IF loan[local[c].loan].status # "DEFAULTED" THEN "default"
             ELSE NextRow(local[c].rows))
  /\ UNCHANGED <<tables, redis, events, today, req, local, left, lastRun, faults>>

DefaultLoan(c) == UpdateLoanStatus(c, "default", local[c].loan, "DEFAULTED", "emitDefault")

EmitDefault(c) ==
  /\ At(c, "emitDefault")
  /\ Emit(Event("loan.defaulted", local[c].loan, c))
  /\ Goto(c, NextRow(local[c].rows))
  /\ UNCHANGED <<tables, redis, today, req, local, left, lastRun>>

-----------------------------------------------------------------------------
(* Faults and time *)

\* The replica dies, or a statement throws: the handler ends where it is.
Crash(h) ==
  /\ pc[h] \in Running
  /\ faults < MaxFaults
  /\ faults' = faults + 1
  /\ Finish(h, IF h \in Replicas THEN "idle" ELSE "lost")
  /\ UNCHANGED <<tables, redis, events, today, req, left, lastRun>>

\* An hour passes since the counter got its lifetime.
CounterExpires(u) ==
  /\ rate[u].lifetime
  /\ rate' = [rate EXCEPT ![u] = [count |-> 0, lifetime |-> FALSE]]
  /\ windows' = [windows EXCEPT ![u] = @ + 1]
  /\ UNCHANGED <<tables, events, today, pc, req, local, left, lastRun, faults>>

\* No handler runs for a whole day.
NextDay ==
  /\ today < MaxDay
  /\ Quiet
  /\ today' = today + 1
  /\ UNCHANGED <<tables, redis, events, pc, req, local, left, lastRun, faults>>

-----------------------------------------------------------------------------
(* The specification *)

Step(r) ==
  \/ Incr(r) \/ Expire(r) \/ Evaluate(r) \/ CreateLoan(r) \/ UpsertCreditScore(r)
  \/ ReadLoan(r) \/ Approve(r) \/ GenerateRepaymentSchedule(r) \/ DisburseLoan(r)
  \/ RejectLoan(r) \/ ReadRows(r) \/ Pay(r) \/ CheckRows(r) \/ CompleteLoan(r)
  \/ EmitKafkaEvent(r)

ProcessDailyPenalties(c) ==
  FindOverdueRepayments(c) \/ UpdatePenalty(c) \/ FindLoan(c) \/ DefaultLoan(c) \/ EmitDefault(c)

Next ==
  \/ \E r \in Requests : Submit(r) \/ Step(r)
  \/ \E c \in Replicas : ProcessDailyPenalties(c)
  \/ \E h \in Handlers : Crash(h)
  \/ \E u \in Users : CounterExpires(u)
  \/ NextDay

Spec == Init /\ [][Next]_vars

\* Replicas keep running, the scheduler starts the job every midnight, and Redis
\* keeps time; nobody has to send a request, and no crash has to happen.
Fairness ==
  /\ \A r \in Requests : WF_vars(Step(r))
  /\ \A c \in Replicas : WF_vars(ProcessDailyPenalties(c))
  /\ \A u \in Users : WF_vars(CounterExpires(u))

FairSpec == Spec /\ Fairness

=============================================================================
