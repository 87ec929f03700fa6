-------------------------- MODULE LoanProperties ---------------------------
(***************************************************************************)
(* What the loan service keeps true, and what it does not.                 *)
(***************************************************************************)
EXTENDS LoanService

TypeOK ==
  /\ loan \in [Requests -> {NoLoan} \cup
       [status: LoanStatus, user: Users, principal: Principals, term: Terms, score: 0..850]]
  /\ repayment \in [Requests -> Seq(Row)]
  /\ score \in [Users -> 0..850 \cup {None}]
  /\ rate \in [Users -> [count: Nat, lifetime: BOOLEAN]]
  /\ windows \in [Users -> Nat]
  /\ events \subseteq [event: {"loan.disbursed", "loan.repaid", "loan.defaulted"},
                       loan: Requests, by: Handlers]
  /\ today \in 0..MaxDay
  /\ pc \in [Handlers -> Running \cup Final \cup {"idle"}]
  /\ req \in [Requests -> Request \cup {NoRequest}]
  /\ \A h \in Handlers :
       /\ DOMAIN local[h].rows \subseteq Requests \X (Nat \ {0})
       /\ \A id \in DOMAIN local[h].rows : local[h].rows[id] \in Row
       /\ local[h].score \in 0..850
       /\ local[h].loan \in Requests \cup {None}
  /\ left \in [Requests -> Nat]
  /\ lastRun \in [Replicas -> 0..today]
  /\ faults \in 0..MaxFaults

-----------------------------------------------------------------------------
(* Safety, under any interleaving *)

Complete(a) == Len(repayment[a]) = loan[req[a].loan].term

\* Money is never out without a schedule to pay it back: whoever approves,
\* rejects, repays or crashes in between, a loan that is disbursed or closed has
\* a repayment for every month of its term.
ScheduleBeforeMoney ==
  \A l \in Requests : loan[l].status \in {"ACTIVE", "COMPLETED", "DEFAULTED"} =>
    \E a \in Approvals(l) : Complete(a)

Total(values) == FoldFunction(+, 0, values)

PaidOn(l) == Total([id \in Ids(l) |-> RowOf(id).paid])

Payers(l) == {r \in Requests : req[r].kind = "repay" /\ req[r].loan = l}

HandedOver(l) == Total([r \in Payers(l) |-> req[r].amount])

Kept(l) == Total([r \in Payers(l) |-> left[r]])

\* The repayments of a loan never count money twice: whatever two payments and
\* the nightly job overwrite of each other, the amounts paid on its rows stay
\* within what its borrower handed over.
PaidIsBacked ==
  \A l \in Requests : PaidOn(l) + Kept(l) <= HandedOver(l)

\* No loan defaults, and no default is announced, unless one of its repayments
\* is overdue by more than DefaultDays, however stale the list of the job is.
DefaultedForCause ==
  \A l \in Requests :
    \/ loan[l].status = "DEFAULTED"
    \/ \E m \in events : m.event = "loan.defaulted" /\ m.loan = l
    => \E id \in Ids(l) : DaysOverdue(RowOf(id)) > DefaultDays

\* An announced disbursement has its schedule in the table; an announced
\* repayment has left the payer's hands at least in part.
EventsAreBacked ==
  \A m \in events :
    /\ m.event = "loan.disbursed" => Complete(m.by)
    /\ m.event = "loan.repaid"    => left[m.by] < req[m.by].amount

Admitted(u) ==
  {r \in Requests : req[r].kind = "apply" /\ req[r].user = u /\
     (Exists(r) \/ pc[r] \in {"expire", "evaluate", "create"})}

\* In one lifetime of the counter a user gets at most RateLimitMax applications
\* through, also when several arrive at once, and when the handler that should
\* give the counter its lifetime is slow or dies.
AtMostPerWindow ==
  \A u \in Users : Cardinality(Admitted(u)) <= RateLimitMax * (windows[u] + 1)

\* A user's credit score is the score of an application that is on record.
ScoreIsOnRecord ==
  \A u \in Users : score[u] # None =>
    \E l \in Requests : loan[l].user = u /\ loan[l].score = score[u]

-----------------------------------------------------------------------------
(* Safety when requests and the job do not overlap (Serial) *)

Lifecycle ==
  {<<"absent", "PENDING">>, <<"PENDING", "APPROVED">>, <<"PENDING", "REJECTED">>,
   <<"APPROVED", "ACTIVE">>, <<"ACTIVE", "COMPLETED">>, <<"ACTIVE", "DEFAULTED">>}

LegalStep(l) ==
  loan'[l].status # loan[l].status =>
    \/ <<loan[l].status, loan'[l].status>> \in Lifecycle
    \/ faults > 0 /\ loan[l].status = "APPROVED" /\ loan'[l].status = "DEFAULTED"

\* A loan goes through its life in order. A crash between the schedule and the
\* disbursement adds one way: an APPROVED loan, never paid out, may default.
LegalLifecycle == [][\A l \in Requests : LegalStep(l)]_vars

Settles(l) ==
  /\ \A id \in Ids(l) : RowOf(id).status = "PAID" =>
       RowOf(id).paid >= RowOf(id).amount + RowOf(id).penalty
  /\ loan[l].status = "COMPLETED" => \A id \in Ids(l) : RowOf(id).status = "PAID"

\* A repayment is settled only when what was paid covers the amount and the
\* penalties, and a loan is completed only when all its repayments are settled.
SettledInFull == \A l \in Requests : Settles(l)

-----------------------------------------------------------------------------
(* Liveness *)

Defaulted(l) == {id \in Ids(l) : RowOf(id).status = "DEFAULTED"}

\* A default reaches the loan: each crash of the job between the two writes may
\* lose one, as no later night looks at that repayment again, and the next
\* repayment to default makes up for it. A loan that a late payment declares
\* COMPLETED over the default stays so (see DefaultStays).
DefaultReachesLoan ==
  \A l \in Requests :
    (Cardinality(Defaulted(l)) > faults)
      ~> \/ loan[l].status \in {"DEFAULTED", "COMPLETED"}
         \/ Cardinality(Defaulted(l)) <= faults

\* A user who is locked out is let in again, unless a handler died between INCR and
\* EXPIRE: then the counter has no lifetime. No other fault is an excuse.
LockoutEnds ==
  \A u \in Users : (rate[u].count > RateLimitMax)
                     ~> (rate[u].count = 0 \/ (~ rate[u].lifetime /\ faults > 0))

-----------------------------------------------------------------------------
(* What the repository says and the code does not do *)

\* "should throw when loan is not pending": a loan is approved once, so it has
\* one schedule. Two approvals that both read PENDING write two.
OneSchedule ==
  \A l \in Requests : Cardinality({a \in Approvals(l) : repayment[a] # <<>>}) <= 1

CountsReceived(l) ==
  PaidOn(l) >= Total([r \in {p \in Payers(l) : Event("loan.repaid", l, p) \in events} |->
                        req[r].amount - left[r]])

\* "Repayment of ... received for loan": what a repayment reports as received is
\* on the rows of the loan. Two payments that read the same rows lose one of them.
ReceivedIsCounted == \A l \in Requests : CountsReceived(l)

\* "Loan ... marked as DEFAULTED": what is announced as a default is one. A payment
\* that found every repayment PAID before the job wrote its own completes the loan.
DefaultStays ==
  \A l \in Requests :
    (\E m \in events : m.event = "loan.defaulted" /\ m.loan = l) => loan[l].status = "DEFAULTED"

=============================================================================
