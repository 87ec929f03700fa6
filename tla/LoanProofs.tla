---------------------------- MODULE LoanProofs -----------------------------
(***************************************************************************)
(* For any number of users, requests and replicas, and with any number of  *)
(* crashes: no loan is out without a schedule, none defaults without a     *)
(* cause, what is announced happened, scores are on record, and the rate   *)
(* limit holds. At the end, what the score says of every application.      *)
(***************************************************************************)
EXTENDS LoanProperties, TLAPS, FiniteSetTheorems

\* What a loan's handlers rely on, once it is true of the loan.
Scheduled(l) == \E a \in Approvals(l) : repayment[a] # <<>>

Late(l) == \E id \in Ids(l) : DaysOverdue(RowOf(id)) > DefaultDays

OnRecord(u, points) == \E l \in Requests :
  Exists(l) /\ loan[l].user = u /\ loan[l].score = points

-----------------------------------------------------------------------------
(* The inductive invariant *)

LoanFields  == {"status", "user", "principal", "term", "score"}
LocalFields == {"rows", "score", "loan"}

Instalment == [due: Nat, amount: Nat \ {0}, paid: Nat, penalty: Nat,
               status: {"PENDING", "PAID", "LATE", "DEFAULTED"}]

\* Scores are left untyped: nothing below depends on their range.
TypeInv ==
  /\ loan = [l \in Requests |-> loan[l]]
  /\ \A l \in Requests :
       /\ DOMAIN loan[l] = LoanFields
       /\ Exists(l) => loan[l].term \in Terms
  /\ repayment \in [Requests -> Seq(Instalment)]
  /\ score = [u \in Users |-> score[u]]
  /\ today \in Nat
  /\ pc \in [Handlers -> Running \cup Final \cup {"idle"}]
  /\ req \in [Requests -> Request \cup {NoRequest}]
  /\ local = [h \in Handlers |-> local[h]]
  /\ \A h \in Handlers : DOMAIN local[h] = LocalFields
  /\ left \in [Requests -> Nat]

\* A row a handler remembers is in the table, due on the day it remembers.
RowsInv(h) == \A id \in DOMAIN local[h].rows :
  /\ id \in Requests \X Nat /\ repayment[id[1]] # <<>> /\ id[2] \in DOMAIN repayment[id[1]]
  /\ local[h].rows[id] \in Instalment /\ local[h].rows[id].due = RowOf(id).due
  /\ h \in Requests \/ Overdue(local[h].rows[id])

\* What must hold of a request that is at a place, given what it asks for and has done.
RequestAt(r, at) ==
  /\ at \notin Nightly
  /\ at = "idle" => req[r] = NoRequest
  /\ at \in Applying => req[r].kind = "apply"
  /\ at = "readLoan" => req[r].kind \in {"approve", "reject", "repay"}
  /\ at = "reject" => req[r].kind = "reject"
  /\ at \in {"approve", "schedule", "disburse"} => req[r].kind = "approve"
  /\ at \in Repaying => req[r].kind = "repay"
  /\ at = "emit" => req[r].kind \in {"approve", "repay"}
  /\ req[r].kind \in {"approve", "reject", "repay"} => Exists(req[r].loan)
  /\ at \in {"idle", "incr", "expire", "evaluate", "create"} => ~ Exists(r)
  /\ at = "upsertScore" => OnRecord(req[r].user, local[r].score)
  /\ at \in {"idle", "readLoan", "approve", "schedule"} => repayment[r] = <<>>
  /\ at = "disburse" \/ (at = "emit" /\ req[r].kind = "approve") => repayment[r] # <<>>
  /\ at \in Repaying => Scheduled(req[r].loan)
  /\ req[r].kind = "repay" => left[r] <= req[r].amount
  /\ at \in {"readLoan", "readRows", "pay"} /\ req[r].kind = "repay" => left[r] > 0
  /\ at \in {"checkRows", "complete", "emit"} /\ req[r].kind = "repay" => left[r] < req[r].amount

RequestInv(r) == RequestAt(r, pc[r])

\* A job that is done with a row for good has a cause.
JobInv(c) ==
  /\ pc[c] \in Nightly \cup {"idle"}
  /\ pc[c] \in {"findLoan", "default", "emitDefault"} =>
       local[c].loan \in Requests /\ Late(local[c].loan)

HandlerInv(h) ==
  RowsInv(h) /\ (h \in Requests => RequestInv(h)) /\ (h \in Replicas => JobInv(h))

MessageInv(m) ==
  /\ m.event = "loan.defaulted" => m.loan \in Requests /\ Late(m.loan)
  /\ m.event \in {"loan.disbursed", "loan.repaid"} => m.by \in Requests /\ pc[m.by] # "idle"
  /\ m.event = "loan.disbursed" => repayment[m.by] # <<>>
  /\ m.event = "loan.repaid" => req[m.by].kind = "repay" /\ left[m.by] < req[m.by].amount

CompleteInv == \A a \in Requests : repayment[a] # <<>> => req[a].kind = "approve" /\ Complete(a)

LoanInv == \A l \in Requests :
  /\ loan[l].status \in {"ACTIVE", "COMPLETED", "DEFAULTED"} => Scheduled(l)
  /\ loan[l].status = "DEFAULTED" => Late(l)

ScoreInv == \A u \in Users : score[u] # None => OnRecord(u, score[u])

EventInv == \A m \in events : MessageInv(m)

SafetyInv == CompleteInv /\ LoanInv /\ ScoreInv /\ EventInv

IInv == TypeInv /\ (\A h \in Handlers : HandlerInv(h)) /\ SafetyInv

-----------------------------------------------------------------------------
(* What no step takes back *)

\* The identity of loans, requests and repayments, and the days gone by.
Grows ==
  /\ \A l \in Requests : Exists(l) =>
       /\ Exists(l)' /\ loan'[l].user = loan[l].user
       /\ loan'[l].term = loan[l].term /\ loan'[l].score = loan[l].score
  /\ \A r \in Requests : pc[r] # "idle" =>
       pc'[r] # "idle" /\ req'[r] = req[r] /\ left'[r] <= left[r]
  /\ \A a \in Requests : repayment[a] # <<>> =>
       /\ repayment'[a] # <<>> /\ Len(repayment'[a]) = Len(repayment[a])
       /\ \A i \in DOMAIN repayment[a] : repayment'[a][i].due = repayment[a][i].due
  /\ today <= today'

LEMMA AmountIsPositive ==
  ASSUME TypeInv, NEW r \in Requests, req[r].kind = "repay" PROVE req[r].amount \in Nat \ {0}
<1>1. req[r] \in [kind: {"repay"}, loan: Requests, user: Users, amount: Payments]
  <2>1. req[r] \in Request \cup {NoRequest}
    BY DEF TypeInv
  <2> QED BY <2>1 DEF Request, NoRequest
<1>2. Payments \subseteq Nat \ {0}
  BY LoanAssumption
<1> QED BY <1>1, <1>2

LEMMA SequencesKeepDomain ==
  ASSUME TypeInv, TypeInv', NEW a \in Requests, Len(repayment'[a]) = Len(repayment[a])
  PROVE  DOMAIN repayment'[a] = DOMAIN repayment[a]
BY DEF TypeInv

\* A loan with a schedule keeps it, and a late one stays late.
LEMMA GrowthKeeps ==
  ASSUME TypeInv, TypeInv', Grows, \A r \in Requests : pc[r] = "idle" => req[r] = NoRequest,
         NEW l \in Requests
  PROVE  /\ Scheduled(l) => Scheduled(l)'
         /\ Late(l) => Late(l)'
<1>1. ASSUME NEW a \in Approvals(l) PROVE a \in Approvals(l)'
  BY DEF Approvals, Grows, NoRequest
<1>2. Scheduled(l) => Scheduled(l)'
  BY <1>1 DEF Scheduled, Grows, Approvals
<1>3. ASSUME NEW id \in Ids(l), DaysOverdue(RowOf(id)) > DefaultDays
      PROVE  id \in Ids(l)' /\ (DaysOverdue(RowOf(id)) > DefaultDays)'
  <2>1. PICK a \in Approvals(l) : id \in {a} \X DOMAIN repayment[a]
    BY DEF Ids
  <2>2. /\ a \in Requests /\ repayment[a] \in Seq(Instalment)
        /\ id[1] = a /\ id[2] \in DOMAIN repayment[a]
    BY <2>1 DEF Approvals, TypeInv
  <2>3. repayment[a] # <<>>
    BY <2>2
  <2>4. DOMAIN repayment'[a] = DOMAIN repayment[a] /\ RowOf(id)'.due = RowOf(id).due
    BY <2>2, <2>3, SequencesKeepDomain DEF Grows, RowOf
  <2>5. id \in Ids(l)'
    <3> DEFINE Rows == {a} \X DOMAIN repayment'[a]
    <3>1. id \in Rows
      BY <2>1, <2>4
    <3>2. a \in Approvals(l)'
      BY <1>1
    <3> DEFINE All == {{b} \X DOMAIN repayment'[b] : b \in Approvals(l)'}
    <3>3. Rows \in All
      BY <3>2
    <3>4. Ids(l)' = UNION All
      BY DEF Ids
    <3> HIDE DEF Rows, All
    <3> QED BY <3>1, <3>3, <3>4
  <2>6. RowOf(id).due \in Nat
    <3>1. repayment[a][id[2]] \in Instalment
      BY <2>2
    <3> QED BY <3>1, <2>2 DEF RowOf, Instalment
  <2>7. today \in Nat /\ today' \in Nat /\ today <= today' /\ DefaultDays \in Nat
    BY LoanAssumption DEF Grows, TypeInv
  <2> QED BY <2>4, <2>5, <2>6, <2>7, <1>3 DEF DaysOverdue
<1>4. Late(l) => Late(l)'
  BY <1>3 DEF Late
<1> QED BY <1>2, <1>4

LEMMA RecordsStay ==
  ASSUME Grows, NEW u, NEW points, OnRecord(u, points) PROVE OnRecord(u, points)'
BY DEF OnRecord, Grows

LEMMA OverdueStays ==
  ASSUME TypeInv, TypeInv', Grows, NEW row \in Instalment, Overdue(row)
  PROVE  Unpaid(row) /\ today' - row.due - 1 >= GracePeriodDays
BY LoanAssumption DEF Overdue, DaysOverdue, Grows, TypeInv, Instalment

\* What nobody of M touches: the handlers outside M keep what they know.
Apart(M) ==
  /\ \A g \in Handlers \ M : pc'[g] = pc[g] /\ local'[g] = local[g]
  /\ \A r \in Requests \ M :
       /\ req'[r] = req[r] /\ left'[r] = left[r]
       /\ Exists(r)' => Exists(r)
       /\ repayment[r] = <<>> => repayment'[r] = <<>>

\* What holds of a request in one place also holds after a step that brings it there
\* and leaves its request alone.
LEMMA RequestMoves ==
  ASSUME IInv, TypeInv', Grows, NEW r \in Requests, RequestAt(r, pc'[r]),
         req'[r] = req[r], left'[r] = left[r], Exists(r)' => Exists(r),
         (repayment'[r] = <<>>) <=> (repayment[r] = <<>>),
         pc'[r] = "upsertScore" => local'[r].score = local[r].score
  PROVE  RequestInv(r)'
<1> USE DEF IInv
<1>1. \A l \in Requests : Scheduled(l) => Scheduled(l)'
  BY GrowthKeeps DEF HandlerInv, RequestInv, RequestAt, Handlers
<1>2. req[r].kind \in {"approve", "reject", "repay"} => req[r].loan \in Requests
  BY DEF TypeInv, Request, NoRequest
<1>3. req[r].kind \in {"approve", "reject", "repay"} => Exists(req[r].loan)'
  BY <1>2 DEF Grows, RequestAt
<1>4. pc'[r] = "upsertScore" => OnRecord(req[r].user, local[r].score)'
  BY RecordsStay DEF RequestAt
<1>5. pc'[r] \in Repaying => Scheduled(req[r].loan)'
  BY <1>1, <1>2 DEF RequestAt, Repaying
<1> QED BY <1>3, <1>4, <1>5 DEF RequestInv, RequestAt

LEMMA OthersKeep ==
  ASSUME IInv, TypeInv', Grows, NEW M \in SUBSET Handlers, Apart(M), NEW g \in Handlers \ M
  PROVE  HandlerInv(g)'
<1> USE DEF IInv
<1>1. HandlerInv(g) /\ pc'[g] = pc[g] /\ local'[g] = local[g]
  BY DEF Apart
<1>2. \A l \in Requests : (Scheduled(l) => Scheduled(l)') /\ (Late(l) => Late(l)')
  BY GrowthKeeps DEF HandlerInv, RequestInv, RequestAt, Handlers
<1>3. RowsInv(g)'
  <2> SUFFICES ASSUME NEW id \in DOMAIN local[g].rows
               PROVE  /\ id \in Requests \X Nat /\ repayment'[id[1]] # <<>>
                      /\ id[2] \in DOMAIN repayment'[id[1]]
                      /\ local[g].rows[id] \in Instalment /\ local[g].rows[id].due = RowOf(id)'.due
                      /\ g \in Requests \/ Overdue(local[g].rows[id])'
    BY <1>1 DEF RowsInv
  <2>1. /\ id \in Requests \X Nat /\ repayment[id[1]] # <<>> /\ id[2] \in DOMAIN repayment[id[1]]
        /\ local[g].rows[id] \in Instalment /\ local[g].rows[id].due = RowOf(id).due
        /\ g \in Requests \/ Overdue(local[g].rows[id])
    BY <1>1 DEF HandlerInv, RowsInv
  <2>2. DOMAIN repayment'[id[1]] = DOMAIN repayment[id[1]]
    BY <2>1, SequencesKeepDomain DEF Grows
  <2>3. Overdue(local[g].rows[id]) => Overdue(local[g].rows[id])'
    BY <2>1, <1>1, OverdueStays DEF Overdue, Unpaid, DaysOverdue
  <2> QED BY <2>1, <2>2, <2>3 DEF Grows, RowOf
<1>4. ASSUME g \in Requests PROVE RequestInv(g)'
  BY <1>1, <1>4, RequestMoves DEF Apart, Grows, HandlerInv, RequestInv
<1>5. ASSUME g \in Replicas PROVE JobInv(g)'
  BY <1>1, <1>2, <1>5 DEF HandlerInv, JobInv
<1> QED BY <1>3, <1>4, <1>5 DEF HandlerInv

\* The handlers of M have to answer for what they change themselves.
LEMMA StepKeeps ==
  ASSUME IInv, TypeInv', Grows, NEW M \in SUBSET Handlers, Apart(M),
         \A h \in M : HandlerInv(h)',
         \A a \in Requests : repayment[a] = <<>> /\ repayment'[a] # <<>> =>
           req'[a].kind = "approve" /\ Complete(a)',
         \A l \in Requests : loan'[l].status # loan[l].status =>
           /\ loan'[l].status \in {"ACTIVE", "COMPLETED", "DEFAULTED"} => Scheduled(l)
           /\ loan'[l].status = "DEFAULTED" => Late(l),
         \A u \in Users : score'[u] # score[u] => OnRecord(u, score[u])',
         \A m \in events' : m \in events \/ MessageInv(m)'
  PROVE  IInv'
<1> USE DEF IInv, SafetyInv
<1>1. \A h \in Handlers : HandlerInv(h)'
  BY OthersKeep
<1>2. \A l \in Requests : (Scheduled(l) => Scheduled(l)') /\ (Late(l) => Late(l)')
  BY GrowthKeeps DEF HandlerInv, RequestInv, RequestAt, Handlers
<1>3. CompleteInv'
  <2> SUFFICES ASSUME NEW a \in Requests, repayment[a] # <<>>
               PROVE  req'[a].kind = "approve" /\ Complete(a)'
    BY DEF CompleteInv
  <2>1. req[a].kind = "approve" /\ Complete(a) /\ RequestInv(a)
    BY DEF CompleteInv, HandlerInv, Handlers
  <2>2. pc[a] # "idle" /\ req[a].loan \in Requests /\ Exists(req[a].loan)
    BY <2>1 DEF RequestInv, RequestAt, TypeInv, Request, NoRequest
  <2> QED BY <2>1, <2>2 DEF Grows, Complete
<1>4. LoanInv'
  BY <1>2 DEF LoanInv
<1>5. ScoreInv'
  BY RecordsStay DEF ScoreInv
<1>6. EventInv'
  <2> SUFFICES ASSUME NEW m \in events PROVE MessageInv(m)'
    BY DEF EventInv
  <2>1. MessageInv(m)
    BY DEF EventInv
  <2>2. ASSUME m.event = "loan.repaid"
        PROVE  req'[m.by].kind = "repay" /\ left'[m.by] < req'[m.by].amount
    <3>1. m.by \in Requests /\ pc[m.by] # "idle" /\ req[m.by].kind = "repay"
          /\ left[m.by] < req[m.by].amount
      BY <2>1, <2>2 DEF MessageInv
    <3>2. req[m.by].amount \in Nat /\ left[m.by] \in Nat /\ left'[m.by] \in Nat
      BY <3>1, AmountIsPositive DEF TypeInv
    <3> QED BY <3>1, <3>2 DEF Grows
  <2> QED BY <2>1, <2>2, <1>2 DEF MessageInv, Grows
<1> QED BY <1>1, <1>3, <1>4, <1>5, <1>6

-----------------------------------------------------------------------------
(* The initial states *)

LEMMA LoanStart == Init => IInv
<1> SUFFICES ASSUME Init PROVE IInv
  OBVIOUS
<1> USE DEF Init
<1>1. \A l \in Requests : ~ Exists(l) \/ (l \in Seeded /\ loan[l] = SeededLoan(l))
  BY DEF Exists, NoLoan
<1>2. \A l \in Requests : l \in Seeded => loan[l] = SeededLoan(l)
  OBVIOUS
<1>3. \A l \in Seeded : DOMAIN SeededLoan(l) = LoanFields /\ SeededLoan(l).term \in Terms
                      /\ SeededLoan(l).status = "PENDING" /\ SeededLoan(l).user = Owner[l]
  BY LoanAssumption DEF SeededLoan, LoanFields
<1>4. \A l \in Requests : DOMAIN loan[l] = LoanFields /\ loan[l].status \in {"PENDING", "absent"}
  BY <1>3 DEF NoLoan, LoanFields
<1>5. TypeInv
  <2>1. \A l \in Requests : Exists(l) => loan[l].term \in Terms
    BY <1>1, <1>3
  <2>2. pc \in [Handlers -> Running \cup Final \cup {"idle"}]
    BY DEF Final
  <2> QED BY <1>4, <2>1, <2>2 DEF TypeInv, NoLocals, LocalFields
<1>6. ASSUME NEW h \in Handlers PROVE HandlerInv(h)
  <2>1. RowsInv(h)
    BY DEF RowsInv, NoLocals
  <2>2. ASSUME h \in Requests PROVE RequestInv(h)
    BY <2>2, <1>1 DEF RequestInv, RequestAt, NoRequest, Nightly, Applying, Repaying
  <2>3. ASSUME h \in Replicas PROVE JobInv(h)
    BY <2>3, LoanAssumption DEF JobInv, Nightly
  <2> QED BY <2>1, <2>2, <2>3 DEF HandlerInv
<1>7. ScoreInv
  <2> SUFFICES ASSUME NEW u \in Users, score[u] # None PROVE OnRecord(u, score[u])
    BY DEF ScoreInv
  <2> DEFINE l == CHOOSE l \in Seeded : Owner[l] = u
  <2>1. l \in Seeded /\ Owner[l] = u /\ score[u] = SeededLoan(l).score
    OBVIOUS
  <2>2. l \in Requests /\ loan[l] = SeededLoan(l)
    BY <2>1, <1>2, LoanAssumption
  <2> QED BY <2>1, <2>2, <1>3 DEF OnRecord, Exists
<1>8. CompleteInv /\ EventInv
  BY DEF CompleteInv, EventInv
<1>9. LoanInv
  BY <1>4 DEF LoanInv
<1> QED BY <1>5, <1>6, <1>7, <1>8, <1>9 DEF IInv, SafetyInv

-----------------------------------------------------------------------------
(* Steps that change no table: a handler moves, and may emit a message *)

LEMMA MoveKeeps ==
  ASSUME IInv, NEW h \in Handlers, NEW label \in Running \cup Final \cup {"idle"}, NEW memory,
         Goto(h, label), h \in Requests => pc[h] # "idle" /\ label # "idle",
         local' = [local EXCEPT ![h] = memory], DOMAIN memory = LocalFields,
         UNCHANGED <<tables, today, req, left>>,
         h \in Requests => RequestAt(h, label) /\ label # "upsertScore",
         h \in Replicas => JobInv(h)', RowsInv(h)',
         \A m \in events' : m \in events \/ MessageInv(m)'
  PROVE  IInv'
<1> USE DEF Goto, tables
<1>1. TypeInv'
  BY DEF IInv, TypeInv, Exists
<1>2. pc'[h] = label /\ \A g \in Handlers \ {h} : pc'[g] = pc[g] /\ local'[g] = local[g]
  BY DEF IInv, TypeInv
<1>3. Grows
  <2>1. \A r \in Requests : pc[r] # "idle" => pc'[r] # "idle"
    BY <1>2 DEF Handlers
  <2>2. today <= today'
    BY DEF IInv, TypeInv
  <2>3. \A r \in Requests : left'[r] <= left[r]
    BY DEF IInv, TypeInv
  <2> QED BY <2>1, <2>2, <2>3 DEF Grows, Exists
<1>4. Apart({h})
  BY <1>2 DEF Apart, Exists, Handlers
<1>5. h \in Requests => RequestInv(h)'
  BY <1>1, <1>2, <1>3, RequestMoves DEF Exists
<1>6. HandlerInv(h)'
  BY <1>5 DEF HandlerInv
<1> QED BY <1>1, <1>3, <1>4, <1>6, StepKeeps

LEMMA RowsForgotten ==
  ASSUME NEW h, local'[h].rows = <<>> PROVE RowsInv(h)'
BY DEF RowsInv

LEMMA RowsRemain ==
  ASSUME NEW h, RowsInv(h), UNCHANGED <<repayment, today>>, local'[h].rows = local[h].rows
  PROVE  RowsInv(h)'
BY DEF RowsInv, RowOf, Overdue, Unpaid, DaysOverdue

\* A handler goes on with what it remembers.
LEMMA StayKeeps ==
  ASSUME IInv, NEW h \in Handlers, NEW label \in Running \cup Final \cup {"idle"},
         Goto(h, label), h \in Requests => pc[h] # "idle" /\ label # "idle",
         UNCHANGED <<tables, today, req, left, local, events>>,
         h \in Requests => RequestAt(h, label) /\ label # "upsertScore",
         h \in Replicas => JobInv(h)'
  PROVE  IInv'
<1>1. local' = [local EXCEPT ![h] = local[h]] /\ DOMAIN local[h] = LocalFields
  BY DEF IInv, TypeInv
<1>2. RowsInv(h)'
  BY RowsRemain DEF IInv, HandlerInv, tables
<1>3. \A m \in events' : m \in events
  OBVIOUS
<1> QED BY <1>1, <1>2, <1>3, MoveKeeps

LEMMA RowsAreThere ==
  ASSUME TypeInv, NEW l, NEW id \in Ids(l)
  PROVE  /\ id \in Requests \X Nat /\ repayment[id[1]] # <<>>
         /\ id[2] \in DOMAIN repayment[id[1]] /\ RowOf(id) \in Instalment
<1>1. PICK a \in Approvals(l) : id \in {a} \X DOMAIN repayment[a]
  BY DEF Ids
<1>2. a \in Requests /\ repayment[a] \in Seq(Instalment) /\ id[2] \in DOMAIN repayment[a]
  BY <1>1 DEF Approvals, TypeInv
<1> QED BY <1>1, <1>2 DEF RowOf

LEMMA IncrKeeps ==
  ASSUME IInv, NEW r \in Requests, Incr(r) PROVE IInv'
<1>1. pc[r] = "incr" /\ RequestAt(r, "incr")
  BY DEF IInv, HandlerInv, RequestInv, Incr, At, Handlers
<1>2. PICK label \in {"expire", "evaluate", "tooMany"} : Goto(r, label)
  BY DEF Incr
<1>3. RequestAt(r, label)
  BY <1>1 DEF RequestAt, Applying, Repaying, Nightly
<1>4. r \in Handlers /\ r \notin Replicas
  BY LoanAssumption DEF Handlers
<1>5. UNCHANGED <<tables, today, req, left, local, events>>
  BY DEF Incr
<1>6. label \in Running \cup Final
  BY DEF Running, Final, Applying
<1> QED BY <1>1, <1>2, <1>3, <1>4, <1>5, <1>6, StayKeeps

LEMMA ExpireKeeps ==
  ASSUME IInv, NEW r \in Requests, Expire(r) PROVE IInv'
<1>1. pc[r] = "expire" /\ RequestAt(r, "expire")
  BY DEF IInv, HandlerInv, RequestInv, Expire, At, Handlers
<1>2. RequestAt(r, "evaluate")
  BY <1>1 DEF RequestAt, Applying, Repaying, Nightly
<1>3. r \in Handlers /\ r \notin Replicas
  BY LoanAssumption DEF Handlers
<1>4. UNCHANGED <<tables, today, req, left, local, events>> /\ Goto(r, "evaluate")
  BY DEF Expire
<1>5. "evaluate" \in Running \cup Final
  BY DEF Running, Applying
<1> QED BY <1>1, <1>2, <1>3, <1>4, <1>5, StayKeeps

LEMMA EvaluateKeeps ==
  ASSUME IInv, NEW r \in Requests, Evaluate(r) PROVE IInv'
<1> DEFINE points == EvaluateCreditScore(req[r].user, req[r].principal, req[r].term)
           memory == [local[r] EXCEPT !.score = points]
<1>1. pc[r] = "evaluate" /\ RequestAt(r, "evaluate")
  BY DEF IInv, HandlerInv, RequestInv, Evaluate, At, Handlers
<1>2. RequestAt(r, "create")
  BY <1>1 DEF RequestAt, Applying, Repaying, Nightly
<1>3. r \in Handlers /\ r \notin Replicas
  BY LoanAssumption DEF Handlers
<1>4. UNCHANGED <<tables, today, req, left, events>> /\ Goto(r, "create")
  BY DEF Evaluate
<1>5. local' = [local EXCEPT ![r].score = points]
  BY DEF Evaluate
<1> HIDE DEF points
<1>6. local' = [local EXCEPT ![r] = memory] /\ DOMAIN memory = LocalFields
  BY <1>3, <1>5 DEF IInv, TypeInv
<1>7. local'[r].rows = local[r].rows
  <2>1. local'[r] = memory
    BY <1>3, <1>6 DEF IInv, TypeInv
  <2>2. DOMAIN local[r] = {"rows", "score", "loan"}
    BY <1>3 DEF IInv, TypeInv, LocalFields
  <2> QED BY <2>1, <2>2
<1>8. RowsInv(r)'
  BY <1>3, <1>4, <1>7, RowsRemain DEF IInv, HandlerInv, tables
<1>9. "create" \in Running \cup Final
  BY DEF Running, Applying
<1> HIDE DEF memory
<1> QED BY <1>1, <1>2, <1>3, <1>4, <1>6, <1>8, <1>9, MoveKeeps

LEMMA ReadLoanKeeps ==
  ASSUME IInv, NEW r \in Requests, ReadLoan(r) PROVE IInv'
<1>1. pc[r] = "readLoan" /\ RequestAt(r, "readLoan")
  BY DEF IInv, HandlerInv, RequestInv, ReadLoan, At, Handlers
<1>2. PICK label \in {"approve", "reject", "readRows", "rejected"} :
        /\ Goto(r, label)
        /\ label \in {"approve", "reject"} => req[r].kind = label
        /\ label = "readRows" => req[r].kind = "repay" /\ loan[req[r].loan].status = "ACTIVE"
  BY DEF ReadLoan, Repayable
<1>3. label = "readRows" => Scheduled(req[r].loan)
  <2>1. req[r].kind = "repay" => req[r].loan \in Requests
    BY DEF IInv, TypeInv, Request, NoRequest
  <2> QED BY <1>2, <2>1 DEF IInv, SafetyInv, LoanInv
<1>4. RequestAt(r, label)
  BY <1>1, <1>2, <1>3 DEF RequestAt, Applying, Repaying, Nightly
<1>5. r \in Handlers /\ r \notin Replicas
  BY LoanAssumption DEF Handlers
<1>6. UNCHANGED <<tables, today, req, left, local, events>>
  BY DEF ReadLoan
<1>7. label \in Running \cup Final
  BY DEF Running, Final, Deciding, Repaying
<1> QED BY <1>1, <1>2, <1>4, <1>5, <1>6, <1>7, StayKeeps

LEMMA CheckRowsKeeps ==
  ASSUME IInv, NEW r \in Requests, CheckRows(r) PROVE IInv'
<1>1. pc[r] = "checkRows" /\ RequestAt(r, "checkRows")
  BY DEF IInv, HandlerInv, RequestInv, CheckRows, At, Handlers
<1>2. PICK label \in {"complete", "emit"} : Goto(r, label)
  BY DEF CheckRows
<1>3. RequestAt(r, label)
  BY <1>1, <1>2 DEF RequestAt, Applying, Repaying, Nightly
<1>4. r \in Handlers /\ r \notin Replicas
  BY LoanAssumption DEF Handlers
<1>5. UNCHANGED <<tables, today, req, left, local, events>>
  BY DEF CheckRows
<1>6. label \in Running \cup Final
  BY DEF Running, Repaying
<1> QED BY <1>1, <1>2, <1>3, <1>4, <1>5, <1>6, StayKeeps

LEMMA ReadRowsKeeps ==
  ASSUME IInv, NEW r \in Requests, ReadRows(r) PROVE IInv'
<1> DEFINE rows == DueRows(req[r].loan)
           memory == [local[r] EXCEPT !.rows = rows]
<1>1. pc[r] = "readRows" /\ RequestAt(r, "readRows")
  BY DEF IInv, HandlerInv, RequestInv, ReadRows, At, Handlers
<1>2. RequestAt(r, "rejected") /\ RequestAt(r, "pay")
  BY <1>1 DEF RequestAt, Applying, Repaying, Nightly
<1>3. r \in Handlers /\ r \notin Replicas
  BY LoanAssumption DEF Handlers
<1>4. UNCHANGED <<tables, today, req, left, events>>
  BY DEF ReadRows
<1>5. "rejected" \in Running \cup Final /\ "pay" \in Running \cup Final
  BY DEF Running, Final, Repaying
<1>6. CASE Goto(r, "rejected") /\ UNCHANGED local
  BY <1>1, <1>2, <1>3, <1>4, <1>5, <1>6, StayKeeps
<1>7. CASE Goto(r, "pay") /\ local' = [local EXCEPT ![r].rows = rows]
  <2>1. DOMAIN local[r] = {"rows", "score", "loan"}
    BY <1>3 DEF IInv, TypeInv, LocalFields
  <2> HIDE DEF rows
  <2>2. local' = [local EXCEPT ![r] = memory] /\ DOMAIN memory = LocalFields
    BY <1>3, <1>7 DEF IInv, TypeInv
  <2>3. local'[r].rows = rows
    <3>1. local'[r] = memory
      BY <1>3, <2>2 DEF IInv, TypeInv
    <3> QED BY <2>1, <3>1
  <2>4. \A id \in DOMAIN rows : rows[id] = RowOf(id) /\ id \in Ids(req[r].loan)
    BY DEF rows, DueRows
  <2>5. ASSUME NEW id \in Ids(req[r].loan)
        PROVE  /\ id \in Requests \X Nat /\ repayment[id[1]] # <<>>
               /\ id[2] \in DOMAIN repayment[id[1]] /\ RowOf(id) \in Instalment
    BY RowsAreThere DEF IInv
  <2>6. RowsInv(r)'
    BY <2>3, <2>4, <2>5, <1>4 DEF RowsInv, RowOf, tables
  <2> HIDE DEF memory
  <2> QED BY <1>1, <1>2, <1>3, <1>4, <1>5, <1>7, <2>2, <2>6, MoveKeeps
<1> QED BY <1>6, <1>7 DEF ReadRows

LEMMA EmitKafkaEventKeeps ==
  ASSUME IInv, NEW r \in Requests, EmitKafkaEvent(r) PROVE IInv'
<1> DEFINE m == Event(IF req[r].kind = "approve" THEN "loan.disbursed" ELSE "loan.repaid",
                      req[r].loan, r)
<1>1. pc[r] = "emit" /\ RequestAt(r, "emit")
  BY DEF IInv, HandlerInv, RequestInv, EmitKafkaEvent, At, Handlers
<1>2. RequestAt(r, "ok")
  BY <1>1 DEF RequestAt, Applying, Repaying, Nightly
<1>3. r \in Handlers /\ r \notin Replicas
  BY LoanAssumption DEF Handlers
<1>4. UNCHANGED <<tables, today, req, left>> /\ Goto(r, "ok")
      /\ local' = [local EXCEPT ![r] = NoLocals]
  BY DEF EmitKafkaEvent, Finish
<1>5. "ok" \in Running \cup Final
  BY DEF Final
<1>6. DOMAIN NoLocals = LocalFields
  BY DEF NoLocals, LocalFields
<1>7. local'[r].rows = <<>> /\ pc'[r] = "ok"
  BY <1>3, <1>4 DEF NoLocals, IInv, TypeInv, Goto
<1>8. MessageInv(m)'
  BY <1>1, <1>4, <1>7 DEF MessageInv, Event, RequestAt, tables
<1>9. \A n \in events' : n \in events \/ MessageInv(n)'
  BY <1>8 DEF EmitKafkaEvent, Emit
<1> QED BY <1>1, <1>2, <1>3, <1>4, <1>5, <1>6, <1>7, <1>9, MoveKeeps, RowsForgotten

LEMMA FindOverdueRepaymentsKeeps ==
  ASSUME IInv, NEW c \in Replicas, FindOverdueRepayments(c) PROVE IInv'
<1> DEFINE ids == {id \in UNION {Ids(l) : l \in Requests} : Overdue(RowOf(id))}
           rows == [id \in ids |-> RowOf(id)]
           memory == [local[c] EXCEPT !.rows = rows]
<1>1. c \in Handlers /\ c \notin Requests /\ DOMAIN local[c] = {"rows", "score", "loan"}
  BY LoanAssumption DEF Handlers, IInv, TypeInv, LocalFields
<1>2. PICK label \in {"idle", "penalty"} : Goto(c, label)
  BY DEF FindOverdueRepayments
<1>3. UNCHANGED <<tables, today, req, left, events>> /\ local' = [local EXCEPT ![c].rows = rows]
  BY DEF FindOverdueRepayments
<1>4. \A id \in DOMAIN rows : /\ rows[id] = RowOf(id) /\ Overdue(RowOf(id))
                              /\ \E l \in Requests : id \in Ids(l)
  OBVIOUS
<1> HIDE DEF rows
<1>5. local' = [local EXCEPT ![c] = memory] /\ DOMAIN memory = LocalFields
  BY <1>1, <1>3 DEF IInv, TypeInv
<1>6. local'[c].rows = rows /\ pc'[c] = label
  <2>1. local'[c] = memory /\ pc'[c] = label
    BY <1>1, <1>2, <1>5 DEF IInv, TypeInv, Goto
  <2> QED BY <1>1, <2>1
<1>7. RowsInv(c)'
  <2>1. ASSUME NEW l \in Requests, NEW id \in Ids(l)
        PROVE  /\ id \in Requests \X Nat /\ repayment[id[1]] # <<>>
               /\ id[2] \in DOMAIN repayment[id[1]] /\ RowOf(id) \in Instalment
    BY RowsAreThere DEF IInv
  <2>2. UNCHANGED <<repayment, today>>
    BY <1>3 DEF tables
  <2> QED BY <1>4, <1>6, <2>1, <2>2 DEF RowsInv, RowOf, Overdue, Unpaid, DaysOverdue
<1>8. JobInv(c)'
  BY <1>6 DEF JobInv, Nightly
<1>9. label \in Running \cup Final \cup {"idle"}
  BY DEF Running, Nightly
<1> HIDE DEF memory
<1> QED BY <1>1, <1>2, <1>3, <1>5, <1>7, <1>8, <1>9, MoveKeeps

LEMMA FindLoanKeeps ==
  ASSUME IInv, NEW c \in Replicas, FindLoan(c) PROVE IInv'
<1>1. c \in Handlers /\ c \notin Requests
  BY LoanAssumption DEF Handlers
<1>2. JobInv(c) /\ pc[c] = "findLoan"
  BY <1>1 DEF IInv, HandlerInv, FindLoan, At
<1>3. PICK label \in {"default", "idle", "penalty"} : Goto(c, label)
  BY DEF FindLoan, NextRow
<1>4. UNCHANGED <<tables, today, req, left, local, events>>
  BY DEF FindLoan
<1>5. JobInv(c)'
  <2>1. pc'[c] = label
    BY <1>1, <1>3 DEF IInv, TypeInv, Goto
  <2>2. Late(local[c].loan)' <=> Late(local[c].loan)
    BY <1>4 DEF Late, Ids, Approvals, RowOf, DaysOverdue, tables
  <2> QED BY <1>2, <1>4, <2>1, <2>2 DEF JobInv, Nightly
<1>6. label \in Running \cup Final \cup {"idle"}
  BY DEF Running, Nightly
<1> QED BY <1>1, <1>3, <1>4, <1>5, <1>6, StayKeeps

LEMMA EmitDefaultKeeps ==
  ASSUME IInv, NEW c \in Replicas, EmitDefault(c) PROVE IInv'
<1> DEFINE m == Event("loan.defaulted", local[c].loan, c)
<1>1. c \in Handlers /\ c \notin Requests
  BY LoanAssumption DEF Handlers
<1>2. JobInv(c) /\ pc[c] = "emitDefault"
  BY <1>1 DEF IInv, HandlerInv, EmitDefault, At
<1>3. PICK label \in {"idle", "penalty"} : Goto(c, label)
  BY DEF EmitDefault, NextRow
<1>4. UNCHANGED <<tables, today, req, left, local>>
  BY DEF EmitDefault
<1>5. Late(local[c].loan)' <=> Late(local[c].loan)
  BY <1>4 DEF Late, Ids, Approvals, RowOf, DaysOverdue, tables
<1>6. JobInv(c)'
  <2>1. pc'[c] = label
    BY <1>1, <1>3 DEF IInv, TypeInv, Goto
  <2> QED BY <2>1 DEF JobInv, Nightly
<1>7. label \in Running \cup Final \cup {"idle"}
  BY DEF Running, Nightly
<1>8. MessageInv(m)'
  BY <1>2, <1>4, <1>5 DEF MessageInv, Event, JobInv
<1>9. \A n \in events' : n \in events \/ MessageInv(n)'
  BY <1>8 DEF EmitDefault, Emit
<1>10. RowsInv(c)'
  BY <1>1, <1>4, RowsRemain DEF IInv, HandlerInv, tables
<1>11. local' = [local EXCEPT ![c] = local[c]] /\ DOMAIN local[c] = LocalFields
  BY <1>1, <1>4 DEF IInv, TypeInv
<1> HIDE DEF m
<1> QED BY <1>1, <1>3, <1>4, <1>6, <1>7, <1>9, <1>10, <1>11, MoveKeeps

LEMMA CrashKeeps ==
  ASSUME IInv, NEW h \in Handlers, Crash(h) PROVE IInv'
<1> DEFINE label == IF h \in Replicas THEN "idle" ELSE "lost"
<1>1. UNCHANGED <<tables, today, req, left, events>> /\ Goto(h, label)
      /\ local' = [local EXCEPT ![h] = NoLocals] /\ pc[h] \in Running
  BY DEF Crash, Finish
<1>2. pc[h] # "idle"
  BY <1>1 DEF Running, Applying, Deciding, Repaying, Nightly
<1>3. h \in Requests => label = "lost" /\ RequestAt(h, "lost")
  <2> SUFFICES ASSUME h \in Requests PROVE label = "lost" /\ RequestAt(h, "lost")
    OBVIOUS
  <2>1. RequestAt(h, pc[h])
    BY DEF IInv, HandlerInv, RequestInv
  <2> QED BY <2>1, LoanAssumption DEF RequestAt, Applying, Repaying, Nightly
<1>4. DOMAIN NoLocals = LocalFields
  BY DEF NoLocals, LocalFields
<1>5. local'[h].rows = <<>> /\ pc'[h] = label
  BY <1>1 DEF NoLocals, IInv, TypeInv, Goto
<1>6. h \in Replicas => JobInv(h)'
  BY <1>5 DEF JobInv
<1>7. label \in Running \cup Final \cup {"idle"}
  BY DEF Final
<1> HIDE DEF label
<1> QED BY <1>1, <1>2, <1>3, <1>4, <1>5, <1>6, <1>7, MoveKeeps, RowsForgotten

-----------------------------------------------------------------------------
(* Time *)

LEMMA TimeKeeps ==
  ASSUME IInv, UNCHANGED <<tables, events, pc, req, local, left>>, today' \in Nat, today <= today'
  PROVE  IInv'
<1>1. TypeInv'
  BY DEF IInv, TypeInv, Exists, tables
<1>2. \A r \in Requests : left'[r] <= left[r]
  BY DEF IInv, TypeInv
<1>3. Grows
  BY <1>2 DEF Grows, Exists, tables
<1>4. Apart({})
  BY DEF Apart, Exists, tables
<1> QED BY <1>1, <1>3, <1>4, StepKeeps DEF tables

-----------------------------------------------------------------------------
(* A request begins *)

LEMMA SubmitKeeps ==
  ASSUME IInv, NEW r \in Requests, Submit(r) PROVE IInv'
<1>1. PICK q \in Request :
        /\ q.kind # "apply" => Exists(q.loan)
        /\ req' = [req EXCEPT ![r] = q]
        /\ left' = [left EXCEPT ![r] = IF q.kind = "repay" THEN q.amount ELSE 0]
        /\ Goto(r, IF q.kind = "apply" THEN "incr" ELSE "readLoan")
  BY DEF Submit
<1>2. /\ r \in Handlers /\ r \notin Replicas /\ UNCHANGED <<tables, events, today, local>>
      /\ pc[r] = "idle" /\ RequestAt(r, "idle")
  BY LoanAssumption DEF Submit, At, Handlers, IInv, HandlerInv, RequestInv
<1>3. /\ q.kind \in {"apply", "approve", "reject", "repay"}
      /\ q.kind = "repay" => q.amount \in Nat \ {0}
  BY LoanAssumption DEF Request
<1>4. /\ req'[r] = q /\ \A p \in Requests \ {r} : req'[p] = req[p] /\ left'[p] = left[p]
      /\ left'[r] = IF q.kind = "repay" THEN q.amount ELSE 0
      /\ pc'[r] = IF q.kind = "apply" THEN "incr" ELSE "readLoan"
      /\ \A g \in Handlers \ {r} : pc'[g] = pc[g]
  BY <1>1, <1>2 DEF IInv, TypeInv, Goto
<1>5. TypeInv'
  <2>1. req' \in [Requests -> Request \cup {NoRequest}]
    BY <1>1 DEF IInv, TypeInv
  <2>2. left' \in [Requests -> Nat]
    BY <1>1, <1>3 DEF IInv, TypeInv
  <2>3. pc' \in [Handlers -> Running \cup Final \cup {"idle"}]
    BY <1>1 DEF IInv, TypeInv, Goto, Running, Applying, Deciding
  <2> QED BY <1>2, <2>1, <2>2, <2>3 DEF IInv, TypeInv, Exists, tables
<1>6. Grows
  <2>1. \A p \in Requests : pc[p] # "idle" =>
          pc'[p] # "idle" /\ req'[p] = req[p] /\ left'[p] <= left[p]
    BY <1>2, <1>4 DEF IInv, TypeInv, Handlers
  <2>2. today <= today'
    BY <1>2 DEF IInv, TypeInv
  <2> QED BY <1>2, <2>1, <2>2 DEF Grows, Exists, tables
<1>7. Apart({r})
  BY <1>2, <1>4 DEF Apart, Exists, tables
<1>8. RequestInv(r)'
  <2>1. ~ Exists(r)' /\ repayment'[r] = <<>> /\ (q.kind # "apply" => Exists(q.loan)')
    BY <1>1, <1>2 DEF RequestAt, Exists, tables
  <2>2. q.kind = "repay" => left'[r] <= q.amount /\ left'[r] > 0
    BY <1>3, <1>4
  <2>3. CASE q.kind = "apply"
    BY <1>4, <2>1, <2>3 DEF RequestInv, RequestAt, Applying, Repaying, Nightly
  <2>4. CASE q.kind # "apply"
    BY <1>3, <1>4, <2>1, <2>2, <2>4 DEF RequestInv, RequestAt, Applying, Repaying, Nightly
  <2> QED BY <2>3, <2>4
<1>9. HandlerInv(r)'
  BY <1>2, <1>8, RowsRemain DEF HandlerInv, IInv, tables
<1> QED BY <1>2, <1>5, <1>6, <1>7, <1>9, StepKeeps DEF tables

-----------------------------------------------------------------------------
(* Statements that write one table *)

\* A handler that sets a loan's status has a schedule when the loan is paid out or
\* closed, and a late repayment when it defaults.
LEMMA StatusKeeps ==
  ASSUME IInv, NEW h \in Handlers, NEW l \in Requests, Exists(l), NEW from, NEW status, NEW to,
         UpdateLoanStatus(h, from, l, status, to), status # "absent",
         to \in Running \cup Final, from # "idle", to # "upsertScore",
         h \in Requests => RequestAt(h, to), h \in Replicas => to \in Nightly /\ Late(l),
         h \in Replicas => local[h].loan = l,
         status \in {"ACTIVE", "COMPLETED", "DEFAULTED"} => Scheduled(l),
         status = "DEFAULTED" => Late(l)
  PROVE  IInv'
<1> DEFINE Same(m) == /\ loan'[m].user = loan[m].user /\ loan'[m].term = loan[m].term
                      /\ loan'[m].score = loan[m].score
<1>1. UNCHANGED <<repayment, score, events, today, req, local, left>> /\ pc[h] = from
      /\ Goto(h, to) /\ loan' = [loan EXCEPT ![l].status = status]
  BY DEF UpdateLoanStatus, At
<1>2. \A m \in Requests : DOMAIN loan[m] = {"status", "user", "principal", "term", "score"}
  BY DEF IInv, TypeInv, LoanFields
<1>3. /\ \A m \in Requests : Same(m) /\ DOMAIN loan'[m] = DOMAIN loan[m]
      /\ \A m \in Requests : loan'[m].status = IF m = l THEN status ELSE loan[m].status
      /\ loan' = [m \in Requests |-> loan'[m]]
  BY <1>1, <1>2 DEF IInv, TypeInv
<1>4. pc'[h] = to /\ \A g \in Handlers \ {h} : pc'[g] = pc[g]
  BY <1>1 DEF IInv, TypeInv, Goto
<1>5. \A m \in Requests : Exists(m)' <=> Exists(m)
  BY <1>3 DEF Exists
<1>6. TypeInv'
  <2>1. pc' \in [Handlers -> Running \cup Final \cup {"idle"}]
    BY <1>1 DEF IInv, TypeInv, Goto
  <2> QED BY <1>1, <1>3, <1>5, <2>1 DEF IInv, TypeInv
<1>7. Grows
  <2>1. \A r \in Requests : pc[r] # "idle" => pc'[r] # "idle"
    BY <1>1, <1>4 DEF Handlers, Running, Final, Applying, Deciding, Repaying, Nightly
  <2>2. today <= today' /\ \A r \in Requests : left'[r] <= left[r]
    BY <1>1 DEF IInv, TypeInv
  <2> QED BY <1>1, <1>3, <1>5, <2>1, <2>2 DEF Grows
<1>8. Apart({h})
  BY <1>1, <1>4, <1>5 DEF Apart
<1>9. HandlerInv(h)'
  <2>1. RowsInv(h)'
    BY <1>1, RowsRemain DEF IInv, HandlerInv
  <2>2. h \in Requests => RequestInv(h)'
    BY <1>1, <1>4, <1>5, <1>6, <1>7, RequestMoves
  <2>3. Late(l)' <=> Late(l)
    BY <1>1 DEF Late, Ids, Approvals, RowOf, DaysOverdue
  <2>4. h \in Replicas => JobInv(h)'
    BY <1>1, <1>4, <2>3 DEF JobInv
  <2> QED BY <2>1, <2>2, <2>4 DEF HandlerInv
<1> HIDE DEF Same
<1> QED BY <1>1, <1>3, <1>6, <1>7, <1>8, <1>9, StepKeeps

LEMMA Asked ==
  ASSUME IInv, NEW r \in Requests, req[r].kind \in {"approve", "reject", "repay"}
  PROVE  req[r].loan \in Requests /\ Exists(req[r].loan)
<1>1. req[r] \in Request \cup {NoRequest}
  BY DEF IInv, TypeInv
<1>2. req[r].loan \in Requests
  BY <1>1 DEF Request, NoRequest
<1> QED BY <1>2 DEF IInv, HandlerInv, RequestInv, RequestAt, Handlers

LEMMA DecideKeeps ==
  ASSUME IInv, NEW r \in Requests, Approve(r) \/ DisburseLoan(r) \/ RejectLoan(r) \/ CompleteLoan(r)
  PROVE  IInv'
<1> DEFINE l == req[r].loan
<1>1. r \in Handlers /\ r \notin Replicas /\ RequestAt(r, pc[r])
  BY LoanAssumption DEF Handlers, IInv, HandlerInv, RequestInv
<1>2. CASE Approve(r)
  <2>1. pc[r] = "approve" /\ UpdateLoanStatus(r, "approve", l, "APPROVED", "schedule")
    BY <1>2 DEF Approve, UpdateLoanStatus, At
  <2>2. l \in Requests /\ Exists(l)
    BY <1>1, <2>1, Asked DEF RequestAt
  <2>3. RequestAt(r, "schedule") /\ "schedule" \in Running
    BY <1>1, <2>1 DEF RequestAt, Running, Applying, Deciding, Repaying, Nightly
  <2> HIDE DEF l
  <2> QED BY <1>1, <2>1, <2>2, <2>3, StatusKeeps
<1>3. CASE DisburseLoan(r)
  <2>1. pc[r] = "disburse" /\ UpdateLoanStatus(r, "disburse", l, "ACTIVE", "emit")
    BY <1>3 DEF DisburseLoan, UpdateLoanStatus, At
  <2>2. l \in Requests /\ Exists(l)
    BY <1>1, <2>1, Asked DEF RequestAt
  <2>3. RequestAt(r, "emit") /\ "emit" \in Running
    BY <1>1, <2>1 DEF RequestAt, Running, Applying, Deciding, Repaying, Nightly
  <2>4. Scheduled(l)
    BY <1>1, <2>1 DEF RequestAt, Scheduled, Approvals
  <2> HIDE DEF l
  <2> QED BY <1>1, <2>1, <2>2, <2>3, <2>4, StatusKeeps
<1>4. CASE RejectLoan(r)
  <2>1. pc[r] = "reject" /\ UpdateLoanStatus(r, "reject", l, "REJECTED", "ok")
    BY <1>4 DEF RejectLoan, UpdateLoanStatus, At
  <2>2. l \in Requests /\ Exists(l)
    BY <1>1, <2>1, Asked DEF RequestAt
  <2>3. RequestAt(r, "ok") /\ "ok" \in Final
    BY <1>1, <2>1 DEF RequestAt, Final, Applying, Deciding, Repaying, Nightly
  <2> HIDE DEF l
  <2> QED BY <1>1, <2>1, <2>2, <2>3, StatusKeeps
<1>5. CASE CompleteLoan(r)
  <2>1. pc[r] = "complete" /\ UpdateLoanStatus(r, "complete", l, "COMPLETED", "emit")
    BY <1>5 DEF CompleteLoan, UpdateLoanStatus, At
  <2>2. l \in Requests /\ Exists(l) /\ Scheduled(l)
    BY <1>1, <2>1, Asked DEF RequestAt, Repaying
  <2>3. RequestAt(r, "emit") /\ "emit" \in Running
    BY <1>1, <2>1 DEF RequestAt, Running, Applying, Deciding, Repaying, Nightly
  <2> HIDE DEF l
  <2> QED BY <1>1, <2>1, <2>2, <2>3, StatusKeeps
<1> QED BY <1>2, <1>3, <1>4, <1>5

LEMMA LateIsScheduled ==
  ASSUME IInv, NEW l \in Requests, Late(l) PROVE Scheduled(l) /\ Exists(l)
<1>1. PICK a \in Approvals(l) : \E i : i \in DOMAIN repayment[a]
  BY DEF Late, Ids
<1>2. repayment[a] # <<>> /\ req[a].kind = "approve" /\ req[a].loan = l /\ a \in Requests
  BY <1>1 DEF Approvals
<1> QED BY <1>1, <1>2, Asked DEF Scheduled

LEMMA DefaultLoanKeeps ==
  ASSUME IInv, NEW c \in Replicas, DefaultLoan(c) PROVE IInv'
<1> DEFINE l == local[c].loan
<1>1. c \in Handlers /\ c \notin Requests
  BY LoanAssumption DEF Handlers
<1>2. pc[c] = "default" /\ UpdateLoanStatus(c, "default", l, "DEFAULTED", "emitDefault")
  BY DEF DefaultLoan, UpdateLoanStatus, At
<1>3. l \in Requests /\ Late(l)
  BY <1>1, <1>2 DEF IInv, HandlerInv, JobInv
<1>4. Scheduled(l) /\ Exists(l)
  BY <1>3, LateIsScheduled
<1>5. "emitDefault" \in Running /\ "emitDefault" \in Nightly
  BY DEF Running, Nightly
<1>6. local[c].loan = l
  OBVIOUS
<1> HIDE DEF l
<1> QED BY <1>1, <1>2, <1>3, <1>4, <1>5, <1>6, StatusKeeps

LEMMA CreateLoanKeeps ==
  ASSUME IInv, NEW r \in Requests, CreateLoan(r) PROVE IInv'
<1> DEFINE new == NewLoan(req[r], local[r].score)
<1>1. /\ r \in Handlers /\ r \notin Replicas /\ pc[r] = "create" /\ RequestAt(r, "create")
      /\ UNCHANGED <<repayment, score, events, today, req, local, left>>
      /\ Goto(r, "upsertScore") /\ loan' = [loan EXCEPT ![r] = new]
  BY LoanAssumption DEF CreateLoan, At, Handlers, IInv, HandlerInv, RequestInv
<1>2. req[r].kind = "apply" /\ ~ Exists(r)
  BY <1>1 DEF RequestAt, Applying
<1>3. req[r].term \in Terms
  <2>1. req[r] \in Request \cup {NoRequest}
    BY DEF IInv, TypeInv
  <2> QED BY <1>2, <2>1 DEF Request, NoRequest
<1>4. /\ DOMAIN new = LoanFields /\ new.status = "PENDING" /\ new.term = req[r].term
      /\ new.user = req[r].user /\ new.score = local[r].score
  BY DEF NewLoan, LoanFields
<1> HIDE DEF new
<1>5. /\ loan'[r] = new /\ \A l \in Requests \ {r} : loan'[l] = loan[l]
      /\ loan' = [l \in Requests |-> loan'[l]]
      /\ pc'[r] = "upsertScore" /\ \A g \in Handlers \ {r} : pc'[g] = pc[g]
  BY <1>1 DEF IInv, TypeInv, Goto
<1>6. TypeInv'
  <2>1. pc' \in [Handlers -> Running \cup Final \cup {"idle"}]
    BY <1>1 DEF IInv, TypeInv, Goto, Running, Applying
  <2> QED BY <1>1, <1>3, <1>4, <1>5, <2>1 DEF IInv, TypeInv, Exists
<1>7. Grows
  <2>1. \A p \in Requests : pc[p] # "idle" => pc'[p] # "idle"
    BY <1>5 DEF Handlers
  <2>2. today <= today' /\ \A p \in Requests : left'[p] <= left[p]
    BY <1>1 DEF IInv, TypeInv
  <2>3. \A l \in Requests : Exists(l) => Exists(l)' /\ loan'[l] = loan[l]
    BY <1>2, <1>5 DEF Exists
  <2> QED BY <1>1, <2>1, <2>2, <2>3 DEF Grows
<1>8. Apart({r})
  BY <1>1, <1>5 DEF Apart, Exists
<1>9. OnRecord(req[r].user, local[r].score)'
  BY <1>1, <1>4, <1>5 DEF OnRecord, Exists
<1>10. RequestInv(r)'
  <2>1. req'[r].kind = "apply"
    BY <1>1, <1>2
  <2> QED BY <1>5, <1>9, <2>1 DEF RequestInv, RequestAt, Applying, Repaying, Nightly
<1>11. HandlerInv(r)'
  BY <1>1, <1>10, RowsRemain DEF HandlerInv, IInv
<1>12. \A l \in Requests : loan'[l].status # loan[l].status => loan'[l].status = "PENDING"
  BY <1>4, <1>5
<1> QED BY <1>1, <1>6, <1>7, <1>8, <1>11, <1>12, StepKeeps

LEMMA UpsertCreditScoreKeeps ==
  ASSUME IInv, NEW r \in Requests, UpsertCreditScore(r) PROVE IInv'
<1> DEFINE u == req[r].user
<1>1. /\ r \in Handlers /\ r \notin Replicas /\ RequestAt(r, "upsertScore") /\ pc[r] # "idle"
      /\ UNCHANGED <<loan, repayment, events, today, req, left>>
      /\ Goto(r, "ok") /\ local' = [local EXCEPT ![r] = NoLocals]
      /\ score' = [score EXCEPT ![u] = local[r].score]
  BY LoanAssumption
  DEF UpsertCreditScore, Finish, At, Handlers, IInv, HandlerInv, RequestInv
<1>2. /\ pc'[r] = "ok" /\ local'[r] = NoLocals
      /\ \A g \in Handlers \ {r} : pc'[g] = pc[g] /\ local'[g] = local[g]
  BY <1>1 DEF IInv, TypeInv, Goto
<1>3. TypeInv'
  <2>1. pc' \in [Handlers -> Running \cup Final \cup {"idle"}]
    BY <1>1 DEF IInv, TypeInv, Goto, Final
  <2>2. DOMAIN NoLocals = LocalFields
    BY DEF NoLocals, LocalFields
  <2>3. score' = [v \in Users |-> score'[v]]
    BY <1>1 DEF IInv, TypeInv
  <2>4. /\ local' = [h \in Handlers |-> local'[h]]
        /\ \A h \in Handlers : DOMAIN local'[h] = LocalFields
    BY <1>1, <2>2 DEF IInv, TypeInv
  <2> QED BY <1>1, <2>1, <2>3, <2>4 DEF IInv, TypeInv, Exists
<1>4. Grows
  <2>1. \A p \in Requests : pc[p] # "idle" => pc'[p] # "idle"
    BY <1>2 DEF Handlers
  <2>2. today <= today' /\ \A p \in Requests : left'[p] <= left[p]
    BY <1>1 DEF IInv, TypeInv
  <2> QED BY <1>1, <2>1, <2>2 DEF Grows, Exists
<1>5. Apart({r})
  BY <1>1, <1>2 DEF Apart, Exists
<1>6. RequestInv(r)'
  <2>1. RequestAt(r, "ok")
    BY <1>1 DEF RequestAt, Applying, Repaying, Nightly
  <2> QED BY <1>1, <1>2, <1>3, <1>4, <2>1, RequestMoves DEF Exists
<1>7. HandlerInv(r)'
  BY <1>1, <1>2, <1>6, RowsForgotten DEF HandlerInv, NoLocals
<1>8. ASSUME NEW v \in Users, score'[v] # score[v] PROVE OnRecord(v, score[v])'
  <2>1. v = u /\ score'[v] = local[r].score
    BY <1>1, <1>8 DEF IInv, TypeInv
  <2>2. OnRecord(u, local[r].score)
    BY <1>1 DEF RequestAt
  <2> QED BY <1>1, <2>1, <2>2 DEF OnRecord, Exists
<1> QED BY <1>1, <1>3, <1>4, <1>5, <1>7, <1>8, StepKeeps

FreshSchedule(term, amount, day, step) ==
  [i \in 1..term |-> [due |-> day + i * step, amount |-> amount,
                      paid |-> 0, penalty |-> 0, status |-> "PENDING"]]

LEMMA ScheduleOfTerm ==
  ASSUME NEW term \in Nat, NEW amount \in Nat \ {0}, NEW day \in Nat, NEW step \in Nat
  PROVE  /\ FreshSchedule(term, amount, day, step) \in Seq(Instalment)
         /\ Len(FreshSchedule(term, amount, day, step)) = term
<1>1. \A i \in 1..term : day + i * step \in Nat
  OBVIOUS
<1>2. \A i \in 1..term : [due |-> day + i * step, amount |-> amount, paid |-> 0, penalty |-> 0,
                          status |-> "PENDING"] \in Instalment
  BY <1>1 DEF Instalment
<1> QED BY <1>2 DEF FreshSchedule

LEMMA GenerateRepaymentScheduleKeeps ==
  ASSUME IInv, NEW r \in Requests, GenerateRepaymentSchedule(r) PROVE IInv'
<1> DEFINE term == loan[req[r].loan].term
           rows == FreshSchedule(term, MonthlyPayment[term], today, MonthDays)
<1>1. /\ r \in Handlers /\ r \notin Replicas /\ RequestAt(r, "schedule")
      /\ UNCHANGED <<loan, score, events, today, req, local, left>>
      /\ pc[r] = "schedule" /\ Goto(r, "disburse") /\ repayment' = [repayment EXCEPT ![r] = rows]
  BY LoanAssumption
  DEF GenerateRepaymentSchedule, FreshSchedule, Instalments, At, Handlers, IInv, HandlerInv,
      RequestInv
<1>2. req[r].kind = "approve" /\ req[r].loan \in Requests /\ Exists(req[r].loan)
      /\ repayment[r] = <<>>
  BY <1>1, Asked DEF RequestAt
<1>3. term \in Terms
  BY <1>2 DEF IInv, TypeInv
<1>4. /\ term \in Nat \ {0} /\ MonthlyPayment[term] \in Nat \ {0} /\ today \in Nat
      /\ MonthDays \in Nat
  BY <1>3, LoanAssumption DEF IInv, TypeInv
<1>5. rows \in Seq(Instalment) /\ Len(rows) = term /\ rows # <<>>
  <2>1. rows \in Seq(Instalment) /\ Len(rows) = term
    <3> HIDE DEF term
    <3> QED BY <1>4, ScheduleOfTerm
  <2> QED BY <1>4, <2>1
<1> HIDE DEF rows
<1>6. /\ repayment'[r] = rows /\ \A a \in Requests \ {r} : repayment'[a] = repayment[a]
      /\ pc'[r] = "disburse" /\ \A g \in Handlers \ {r} : pc'[g] = pc[g]
  BY <1>1 DEF IInv, TypeInv, Goto
<1>7. TypeInv'
  <2>1. pc' \in [Handlers -> Running \cup Final \cup {"idle"}]
    BY <1>1 DEF IInv, TypeInv, Goto, Running, Deciding
  <2>2. repayment' \in [Requests -> Seq(Instalment)]
    BY <1>1, <1>5 DEF IInv, TypeInv
  <2> QED BY <1>1, <2>1, <2>2 DEF IInv, TypeInv, Exists
<1>8. Grows
  <2>1. \A p \in Requests : pc[p] # "idle" => pc'[p] # "idle"
    BY <1>6 DEF Handlers
  <2>2. today <= today' /\ \A p \in Requests : left'[p] <= left[p]
    BY <1>1 DEF IInv, TypeInv
  <2> QED BY <1>1, <1>2, <1>6, <2>1, <2>2 DEF Grows, Exists
<1>9. Apart({r})
  BY <1>1, <1>6 DEF Apart, Exists
<1>10. RequestInv(r)'
  <2>1. req'[r].kind = "approve" /\ Exists(req[r].loan)' /\ repayment'[r] # <<>>
    BY <1>1, <1>2, <1>5, <1>6 DEF Exists
  <2> QED BY <1>6, <2>1 DEF RequestInv, RequestAt, Applying, Repaying, Nightly
<1>11. RowsInv(r)'
  <2> SUFFICES ASSUME NEW id \in DOMAIN local[r].rows
               PROVE  /\ id \in Requests \X Nat /\ repayment'[id[1]] # <<>>
                      /\ id[2] \in DOMAIN repayment'[id[1]]
                      /\ local[r].rows[id] \in Instalment
                      /\ local[r].rows[id].due = RowOf(id)'.due
    BY <1>1 DEF RowsInv
  <2>1. /\ id \in Requests \X Nat /\ repayment[id[1]] # <<>> /\ id[2] \in DOMAIN repayment[id[1]]
        /\ local[r].rows[id] \in Instalment /\ local[r].rows[id].due = RowOf(id).due
    BY <1>1 DEF RowsInv, IInv, HandlerInv
  <2> QED BY <1>2, <1>6, <2>1 DEF RowOf
<1>12. HandlerInv(r)'
  BY <1>1, <1>10, <1>11 DEF HandlerInv
<1>13. ASSUME NEW a \in Requests, repayment[a] = <<>>, repayment'[a] # <<>>
       PROVE  req'[a].kind = "approve" /\ Complete(a)'
  <2>1. a = r
    BY <1>6, <1>13
  <2> QED BY <1>1, <1>2, <1>5, <1>6, <2>1 DEF Complete
<1> QED BY <1>1, <1>7, <1>8, <1>9, <1>12, <1>13, StepKeeps

-----------------------------------------------------------------------------
(* Statements that write one repayment *)

LEMMA SequenceWithRow ==
  ASSUME NEW rows \in Seq(Instalment), NEW i \in DOMAIN rows, NEW row \in Instalment
  PROVE  /\ [rows EXCEPT ![i] = row] \in Seq(Instalment)
         /\ Len([rows EXCEPT ![i] = row]) = Len(rows)
         /\ \A j \in DOMAIN rows : [rows EXCEPT ![i] = row][j] = IF j = i THEN row ELSE rows[j]
OBVIOUS

\* A repayment is written in place, and its due date stays.
LEMMA TableWithRow ==
  ASSUME TypeInv, NEW a \in Requests, NEW i \in DOMAIN repayment[a], NEW row \in Instalment,
         row.due = repayment[a][i].due, repayment' = [repayment EXCEPT ![a][i] = row]
  PROVE  /\ repayment' \in [Requests -> Seq(Instalment)]
         /\ \A b \in Requests :
              /\ Len(repayment'[b]) = Len(repayment[b])
              /\ DOMAIN repayment'[b] = DOMAIN repayment[b]
              /\ (repayment'[b] = <<>>) <=> (repayment[b] = <<>>)
              /\ \A j \in DOMAIN repayment[b] : repayment'[b][j].due = repayment[b][j].due
<1>1. repayment \in [Requests -> Seq(Instalment)]
  BY DEF TypeInv
<1>2. repayment'[a] = [repayment[a] EXCEPT ![i] = row]
      /\ \A b \in Requests \ {a} : repayment'[b] = repayment[b]
  BY <1>1
<1>3. /\ repayment'[a] \in Seq(Instalment) /\ Len(repayment'[a]) = Len(repayment[a])
      /\ \A j \in DOMAIN repayment[a] : repayment'[a][j].due = repayment[a][j].due
  BY <1>1, <1>2, SequenceWithRow
<1>4. DOMAIN repayment'[a] = DOMAIN repayment[a]
      /\ ((repayment'[a] = <<>>) <=> (repayment[a] = <<>>))
  BY <1>1, <1>3
<1>5. repayment' \in [Requests -> Seq(Instalment)]
  BY <1>1, <1>2, <1>3
<1> QED BY <1>2, <1>3, <1>4, <1>5

\* A handler writes the repayment id, forgets it, and goes on with the others.
LEMMA RowWritten ==
  ASSUME IInv, NEW h \in Handlers, pc[h] # "idle", NEW label \in Running \cup {"idle"},
         h \in Requests => label # "idle", Goto(h, label),
         NEW id \in DOMAIN local[h].rows, NEW row \in Instalment, row.due = RowOf(id).due,
         repayment' = [repayment EXCEPT ![id[1]][id[2]] = row],
         NEW more \in SUBSET DOMAIN local[h].rows, NEW memory, DOMAIN memory = LocalFields,
         memory.rows = Restrict(local[h].rows, more), local' = [local EXCEPT ![h] = memory],
         left' \in [Requests -> Nat], \A r \in Requests \ {h} : left'[r] = left[r],
         h \in Requests => left'[h] <= left[h], UNCHANGED <<loan, score, events, today, req>>
  PROVE  /\ TypeInv' /\ Grows /\ Apart({h}) /\ RowsInv(h)'
         /\ pc'[h] = label /\ local'[h] = memory
         /\ \A a \in Requests : (repayment'[a] = <<>>) <=> (repayment[a] = <<>>)
<1>1. RowsInv(h) /\ TypeInv
  BY DEF IInv, HandlerInv
<1>2. id[1] \in Requests /\ id[2] \in DOMAIN repayment[id[1]]
  BY <1>1 DEF RowsInv
<1>3. /\ repayment' \in [Requests -> Seq(Instalment)]
      /\ \A b \in Requests :
           /\ Len(repayment'[b]) = Len(repayment[b])
           /\ DOMAIN repayment'[b] = DOMAIN repayment[b]
           /\ (repayment'[b] = <<>>) <=> (repayment[b] = <<>>)
           /\ \A j \in DOMAIN repayment[b] : repayment'[b][j].due = repayment[b][j].due
  BY <1>1, <1>2, TableWithRow DEF RowOf
<1>4. /\ pc'[h] = label /\ local'[h] = memory
      /\ \A g \in Handlers \ {h} : pc'[g] = pc[g] /\ local'[g] = local[g]
  BY <1>1 DEF TypeInv, Goto
<1>5. TypeInv'
  <2>1. pc' \in [Handlers -> Running \cup Final \cup {"idle"}]
    BY <1>1 DEF TypeInv, Goto
  <2>2. /\ local' = [g \in Handlers |-> local'[g]]
        /\ \A g \in Handlers : DOMAIN local'[g] = LocalFields
    BY <1>1 DEF TypeInv
  <2> QED BY <1>1, <1>3, <2>1, <2>2 DEF TypeInv, Exists
<1>6. Grows
  <2>1. \A r \in Requests : pc[r] # "idle" => pc'[r] # "idle"
    BY <1>4 DEF Handlers
  <2>2. today <= today'
    BY <1>1 DEF TypeInv
  <2>3. ASSUME NEW r \in Requests PROVE left'[r] <= left[r]
    <3>1. left[r] \in Nat
      BY <1>1 DEF TypeInv
    <3> QED BY <3>1
  <2> QED BY <1>3, <2>1, <2>2, <2>3 DEF Grows, Exists
<1>7. Apart({h})
  BY <1>3, <1>4 DEF Apart, Exists
<1>8. RowsInv(h)'
  <2> DEFINE StillOverdue(held) ==
        held.status \in {"PENDING", "LATE"} /\ today' - held.due - 1 >= GracePeriodDays
  <2>1. /\ DOMAIN local'[h].rows = more
        /\ \A other \in more : local'[h].rows[other] = local[h].rows[other]
    BY <1>4 DEF Restrict
  <2>2. ASSUME NEW other \in more
        PROVE  /\ other \in Requests \X Nat /\ repayment'[other[1]] # <<>>
               /\ other[2] \in DOMAIN repayment'[other[1]]
               /\ local[h].rows[other] \in Instalment
               /\ local[h].rows[other].due = RowOf(other)'.due
               /\ h \in Requests \/ StillOverdue(local[h].rows[other])
    <3>1. /\ other \in Requests \X Nat /\ repayment[other[1]] # <<>>
          /\ other[2] \in DOMAIN repayment[other[1]] /\ local[h].rows[other] \in Instalment
          /\ local[h].rows[other].due = RowOf(other).due
          /\ h \in Requests \/ Overdue(local[h].rows[other])
      BY <1>1 DEF RowsInv
    <3>2. h \in Requests \/ StillOverdue(local[h].rows[other])
      BY <3>1 DEF Overdue, Unpaid, DaysOverdue
    <3> QED BY <1>3, <3>1, <3>2 DEF RowOf
  <2> QED BY <2>1, <2>2 DEF RowsInv, Overdue, Unpaid, DaysOverdue
<1> QED BY <1>3, <1>4, <1>5, <1>6, <1>7, <1>8

LEMMA PaidRow ==
  ASSUME NEW row \in Instalment, NEW paid \in Nat,
         NEW status \in {"PENDING", "PAID", "LATE", "DEFAULTED"}
  PROVE  /\ [row EXCEPT !.paid = paid, !.status = status] \in Instalment
         /\ [row EXCEPT !.paid = paid, !.status = status].due = row.due
BY DEF Instalment

LEMMA PenalizedRow ==
  ASSUME NEW row \in Instalment, NEW amount \in Nat, NEW status \in {"LATE", "DEFAULTED"}
  PROVE  /\ [row EXCEPT !.penalty = amount, !.status = status] \in Instalment
         /\ [row EXCEPT !.penalty = amount, !.status = status].due = row.due
BY DEF Instalment

\* Every repayment takes something of a payment.
LEMMA PartIsPositive ==
  ASSUME NEW row \in Instalment, NEW r, left[r] \in Nat \ {0}
  PROVE  Part(r, row) \in Nat \ {0} /\ Rest(r, row) \in Nat /\ Rest(r, row) < left[r]
BY DEF Part, Rest, AtMost, Instalment

LEMMA PayKeeps ==
  ASSUME IInv, NEW r \in Requests, Pay(r) PROVE IInv'
<1> DEFINE rows == local[r].rows
<1>1. /\ r \in Handlers /\ r \notin Replicas /\ pc[r] = "pay" /\ RequestAt(r, "pay") /\ RowsInv(r)
      /\ UNCHANGED <<loan, score, events, today, req>>
  BY LoanAssumption DEF Pay, At, Handlers, IInv, HandlerInv, RequestInv
<1>2. req[r].kind = "repay" /\ left[r] \in Nat \ {0} /\ left[r] <= req[r].amount
      /\ req[r].amount \in Nat
  BY <1>1, AmountIsPositive DEF RequestAt, Repaying, IInv, TypeInv
<1>3. PICK id \in DOMAIN rows :
        /\ repayment' = [repayment EXCEPT ![id[1]][id[2]] =
             [RowOf(id) EXCEPT !.paid = PaidWith(r, rows[id]),
                       !.status = IF Covers(rows[id], PaidWith(r, rows[id])) THEN "PAID" ELSE @]]
        /\ left' = [left EXCEPT ![r] = Rest(r, rows[id])]
        /\ local' = [local EXCEPT ![r].rows = Restrict(rows, DOMAIN rows \ {id})]
        /\ Goto(r, IF Rest(r, rows[id]) > 0 /\ DOMAIN rows \ {id} # {} THEN "pay" ELSE "checkRows")
  BY DEF Pay
<1>4. /\ id \in Requests \X Nat /\ id[2] \in DOMAIN repayment[id[1]] /\ rows[id] \in Instalment
      /\ RowOf(id) \in Instalment
  BY <1>1 DEF RowsInv, IInv, TypeInv, RowOf
<1>5. Rest(r, rows[id]) \in Nat /\ Rest(r, rows[id]) < left[r] /\ Part(r, rows[id]) \in Nat
  BY <1>2, <1>4, PartIsPositive
<1> DEFINE paid == PaidWith(r, rows[id])
           done == Covers(rows[id], paid)
           status == IF done THEN "PAID" ELSE RowOf(id).status
           row == [RowOf(id) EXCEPT !.paid = paid, !.status = status]
           more == DOMAIN rows \ {id}
           memory == [local[r] EXCEPT !.rows = Restrict(rows, more)]
           label == IF Rest(r, rows[id]) > 0 /\ more # {} THEN "pay" ELSE "checkRows"
<1>6. row \in Instalment /\ row.due = RowOf(id).due
  <2>1. paid \in Nat
    BY <1>4, <1>5 DEF PaidWith, Instalment
  <2>2. status \in {"PENDING", "PAID", "LATE", "DEFAULTED"}
    BY <1>4 DEF Instalment
  <2> HIDE DEF paid, status
  <2> QED BY <1>4, <2>1, <2>2, PaidRow
<1>7. repayment' = [repayment EXCEPT ![id[1]][id[2]] = row]
  <2> HIDE DEF paid, done
  <2>1. repayment' = [repayment EXCEPT ![id[1]][id[2]] =
          [RowOf(id) EXCEPT !.paid = paid, !.status = IF done THEN "PAID" ELSE RowOf(id).status]]
    <3>1. repayment' = [repayment EXCEPT ![id[1]][id[2]] =
          [RowOf(id) EXCEPT !.paid = paid, !.status = IF done THEN "PAID" ELSE @]]
      BY <1>3 DEF paid, done
    <3> QED BY <1>4, <3>1 DEF Instalment
  <2> QED BY <2>1
<1>8. DOMAIN local[r] = {"rows", "score", "loan"} /\ r \in DOMAIN local
  BY <1>1 DEF IInv, TypeInv, LocalFields
<1>9. /\ local' = [local EXCEPT ![r] = memory] /\ DOMAIN memory = LocalFields
      /\ memory.rows = Restrict(rows, more)
  BY <1>3, <1>8 DEF LocalFields
<1>10. /\ left' \in [Requests -> Nat] /\ left'[r] = Rest(r, rows[id]) /\ left'[r] <= left[r]
       /\ \A p \in Requests \ {r} : left'[p] = left[p]
  BY <1>2, <1>3, <1>5 DEF IInv, TypeInv
<1>11. label \in Running /\ label # "idle" /\ label \in {"pay", "checkRows"} /\ Goto(r, label)
       /\ (label = "pay" => Rest(r, rows[id]) > 0)
  BY <1>3 DEF Running, Repaying
<1>12. pc[r] # "idle" /\ more \in SUBSET DOMAIN rows
  BY <1>1
<1> HIDE DEF row, memory, label, more
<1>13. /\ TypeInv' /\ Grows /\ Apart({r}) /\ RowsInv(r)'
       /\ pc'[r] = label /\ local'[r] = memory
       /\ \A a \in Requests : (repayment'[a] = <<>>) <=> (repayment[a] = <<>>)
  BY <1>1, <1>6, <1>7, <1>9, <1>10, <1>11, <1>12, RowWritten
<1>14. RequestInv(r)'
  <2>1. Scheduled(req[r].loan)' /\ Exists(req[r].loan)'
    <3>1. req[r].loan \in Requests /\ Exists(req[r].loan)
      BY <1>2, Asked
    <3>2. Scheduled(req[r].loan)
      BY <1>1 DEF RequestAt, Repaying
    <3>3. \A p \in Requests : pc[p] = "idle" => req[p] = NoRequest
      BY DEF IInv, HandlerInv, RequestInv, RequestAt, Handlers
    <3>4. TypeInv
      BY DEF IInv
    <3> QED BY <1>1, <1>13, <3>1, <3>2, <3>3, <3>4, GrowthKeeps DEF Exists
  <2>2. req'[r] = req[r] /\ left'[r] < req[r].amount /\ left'[r] <= req[r].amount
        /\ (label = "pay" => left'[r] > 0)
    BY <1>1, <1>2, <1>5, <1>10, <1>11
  <2> QED BY <1>2, <1>11, <1>13, <2>1, <2>2
      DEF RequestInv, RequestAt, Applying, Repaying, Nightly
<1>15. HandlerInv(r)'
  BY <1>1, <1>13, <1>14 DEF HandlerInv
<1> QED BY <1>1, <1>13, <1>15, StepKeeps

LEMMA PenaltyIsNatural ==
  ASSUME NEW row \in Instalment, today \in Nat, Overdue(row) PROVE PenaltyAmount(row) \in Nat
<1>1. row.amount \in Nat /\ DaysOverdue(row) \in Nat
  BY LoanAssumption DEF Overdue, DaysOverdue, Instalment
<1>2. row.amount * 5 * DaysOverdue(row) \in Nat
  <2> DEFINE days == DaysOverdue(row)
             amount == row.amount
  <2>1. \A a \in Nat, b \in Nat : a * 5 * b \in Nat
    OBVIOUS
  <2> HIDE DEF days, amount
  <2> QED BY <1>1, <2>1 DEF days, amount
<1>3. \A n \in Nat : n \div 1000 \in Nat
  OBVIOUS
<1> QED BY <1>2, <1>3 DEF PenaltyAmount

LEMMA UpdatePenaltyKeeps ==
  ASSUME IInv, NEW c \in Replicas, UpdatePenalty(c) PROVE IInv'
<1> DEFINE rows == local[c].rows
<1>1. /\ c \in Handlers /\ c \notin Requests /\ pc[c] = "penalty" /\ RowsInv(c)
      /\ UNCHANGED <<loan, score, events, today, req, left>>
  BY LoanAssumption DEF UpdatePenalty, At, Handlers, IInv, HandlerInv
<1>2. PICK id \in DOMAIN rows :
        /\ repayment' = [repayment EXCEPT ![id[1]][id[2]] =
             [@ EXCEPT !.penalty = PenaltyAmount(rows[id]),
                       !.status = IF Defaults(rows[id]) THEN "DEFAULTED" ELSE "LATE"]]
        /\ local' = [local EXCEPT ![c].rows = Restrict(rows, DOMAIN rows \ {id}),
                                  ![c].loan = req[id[1]].loan]
        /\ Goto(c, AfterPenalty(rows[id], Restrict(rows, DOMAIN rows \ {id})))
  BY DEF UpdatePenalty
<1>3. /\ id \in Requests \X Nat /\ id[2] \in DOMAIN repayment[id[1]] /\ rows[id] \in Instalment
      /\ repayment[id[1]] # <<>> /\ RowOf(id) \in Instalment /\ rows[id].due = RowOf(id).due
      /\ Overdue(rows[id]) /\ today \in Nat
  BY <1>1 DEF RowsInv, IInv, TypeInv, RowOf
<1>a. PICK l \in {req[id[1]].loan} : TRUE
  OBVIOUS
<1> DEFINE amount == PenaltyAmount(rows[id])
           status == IF Defaults(rows[id]) THEN "DEFAULTED" ELSE "LATE"
           row == [RowOf(id) EXCEPT !.penalty = amount, !.status = status]
           more == DOMAIN rows \ {id}
           memory == [local[c] EXCEPT !.rows = Restrict(rows, more), !.loan = l]
           label == AfterPenalty(rows[id], Restrict(rows, more))
<1>4. row \in Instalment /\ row.due = RowOf(id).due
  <2>1. amount \in Nat /\ status \in {"LATE", "DEFAULTED"}
    BY <1>3, PenaltyIsNatural
  <2> HIDE DEF amount, status
  <2> QED BY <1>3, <2>1, PenalizedRow
<1>5. repayment' = [repayment EXCEPT ![id[1]][id[2]] = row]
  <2>1. repayment[id[1]][id[2]] = RowOf(id)
    BY DEF RowOf
  <2> HIDE DEF amount, status
  <2>2. repayment' = [repayment EXCEPT ![id[1]][id[2]] =
             [@ EXCEPT !.penalty = amount, !.status = status]]
    BY <1>2 DEF amount, status
  <2> QED BY <2>1, <2>2
<1>6. DOMAIN local[c] = {"rows", "score", "loan"} /\ c \in DOMAIN local
  BY <1>1 DEF IInv, TypeInv, LocalFields
<1>7. /\ local' = [local EXCEPT ![c] = memory] /\ DOMAIN memory = LocalFields
      /\ memory.rows = Restrict(rows, more) /\ memory.loan = l
  BY <1>a, <1>2, <1>6 DEF LocalFields
<1>8. /\ Goto(c, label) /\ label \in {"findLoan", "idle", "penalty"}
      /\ (label = "findLoan" => Defaults(rows[id]))
  BY <1>2 DEF AfterPenalty, NextRow
<1>9. /\ pc[c] # "idle" /\ more \in SUBSET DOMAIN rows /\ label \in Running \cup {"idle"}
      /\ left' \in [Requests -> Nat] /\ \A r \in Requests \ {c} : left'[r] = left[r]
  BY <1>1, <1>8 DEF Running, Nightly, IInv, TypeInv
<1> HIDE DEF row, memory, label, more, amount, status
<1>10. /\ TypeInv' /\ Grows /\ Apart({c}) /\ RowsInv(c)'
       /\ pc'[c] = label /\ local'[c] = memory
       /\ \A a \in Requests : (repayment'[a] = <<>>) <=> (repayment[a] = <<>>)
  BY <1>1, <1>4, <1>5, <1>7, <1>8, <1>9, RowWritten
<1>11. ASSUME label = "findLoan" PROVE l \in Requests /\ Late(l)'
  <2>1. id[1] \in Requests /\ req[id[1]].kind = "approve"
    BY <1>3 DEF IInv, SafetyInv, CompleteInv
  <2>2. l \in Requests
    BY <1>a, <2>1, Asked
  <2>3. id[1] \in Approvals(l)
    BY <1>a, <2>1 DEF Approvals
  <2>4. id \in {id[1]} \X DOMAIN repayment[id[1]]
    BY <1>3
  <2>5. id \in Ids(l)
    BY <2>3, <2>4 DEF Ids
  <2>6. DaysOverdue(RowOf(id)) > DefaultDays
    BY <1>3, <1>8, <1>11 DEF Defaults, DaysOverdue
  <2>7. Late(l)
    BY <2>5, <2>6 DEF Late
  <2>8. TypeInv /\ \A p \in Requests : pc[p] = "idle" => req[p] = NoRequest
    BY DEF IInv, HandlerInv, RequestInv, RequestAt, Handlers
  <2> QED BY <1>10, <2>2, <2>7, <2>8, GrowthKeeps
<1>12. JobInv(c)'
  BY <1>7, <1>8, <1>10, <1>11 DEF JobInv, Nightly
<1>13. HandlerInv(c)'
  BY <1>1, <1>10, <1>12 DEF HandlerInv
<1> QED BY <1>1, <1>10, <1>13, StepKeeps

-----------------------------------------------------------------------------
(* Theorems *)

LEMMA LoanStep == IInv /\ [Next]_vars => IInv'
<1> SUFFICES ASSUME IInv, [Next]_vars PROVE IInv'
  OBVIOUS
<1>1. ASSUME NEW r \in Requests, Submit(r) \/ Step(r) PROVE IInv'
  BY <1>1, SubmitKeeps, IncrKeeps, ExpireKeeps, EvaluateKeeps, CreateLoanKeeps,
     UpsertCreditScoreKeeps, ReadLoanKeeps, DecideKeeps, GenerateRepaymentScheduleKeeps,
     ReadRowsKeeps, PayKeeps, CheckRowsKeeps, EmitKafkaEventKeeps DEF Step
<1>2. ASSUME NEW c \in Replicas, ProcessDailyPenalties(c) PROVE IInv'
  BY <1>2, FindOverdueRepaymentsKeeps, UpdatePenaltyKeeps, FindLoanKeeps, DefaultLoanKeeps,
     EmitDefaultKeeps DEF ProcessDailyPenalties
<1>3. ASSUME NEW h \in Handlers, Crash(h) PROVE IInv'
  BY <1>3, CrashKeeps
<1>4. today \in Nat
  BY DEF IInv, TypeInv
<1>5. ASSUME NEW u \in Users, CounterExpires(u) PROVE IInv'
  <2>1. UNCHANGED <<tables, events, today, pc, req, local, left>>
    BY <1>5 DEF CounterExpires
  <2> QED BY <1>4, <2>1, TimeKeeps
<1>6. ASSUME NextDay PROVE IInv'
  <2>1. UNCHANGED <<tables, events, pc, req, local, left>> /\ today' = today + 1
    BY <1>6 DEF NextDay
  <2>2. today' \in Nat /\ today <= today'
    BY <1>4, <2>1
  <2> QED BY <2>1, <2>2, TimeKeeps
<1>7. ASSUME UNCHANGED vars PROVE IInv'
  <2>1. UNCHANGED <<tables, events, today, pc, req, local, left>>
    BY <1>7 DEF vars, tables
  <2> QED BY <1>4, <2>1, TimeKeeps
<1> QED BY <1>1, <1>2, <1>3, <1>5, <1>6, <1>7 DEF Next

\* What every handler of the loan service relies on holds always, for any number of
\* users, requests and replicas, in any interleaving and after any crashes.
THEOREM LoanConsistent == Spec => []IInv
<1>1. Init => IInv
  BY LoanStart
<1>2. IInv /\ [Next]_vars => IInv'
  BY LoanStep
<1> QED BY <1>1, <1>2, PTL DEF Spec

LEMMA InvGivesSchedule == IInv => ScheduleBeforeMoney
<1> SUFFICES ASSUME IInv, NEW l \in Requests,
                    loan[l].status \in {"ACTIVE", "COMPLETED", "DEFAULTED"}
             PROVE  \E a \in Approvals(l) : Complete(a)
  BY DEF ScheduleBeforeMoney
<1>1. PICK a \in Approvals(l) : repayment[a] # <<>>
  BY DEF IInv, SafetyInv, LoanInv, Scheduled
<1>2. Complete(a)
  BY <1>1 DEF IInv, SafetyInv, CompleteInv, Approvals
<1> QED BY <1>2

\* A loan that is paid out or closed has a repayment for every month of its term
\* (approveLoan writes the schedule before it disburses), whoever races or crashes.
THEOREM MoneyFollowsSchedule == Spec => []ScheduleBeforeMoney
BY LoanConsistent, InvGivesSchedule, PTL

LEMMA InvGivesCause == IInv => DefaultedForCause
BY DEF IInv, SafetyInv, LoanInv, EventInv, MessageInv, DefaultedForCause, Late

\* A loan defaults, or is announced to have, only over a repayment that is overdue by
\* more than DefaultDays, although processDailyPenalties works on a list it read before.
THEOREM DefaultsHaveCause == Spec => []DefaultedForCause
BY LoanConsistent, InvGivesCause, PTL

LEMMA InvGivesEvents == IInv => EventsAreBacked
<1> SUFFICES ASSUME IInv, NEW m \in events
             PROVE  /\ m.event = "loan.disbursed" => Complete(m.by)
                    /\ m.event = "loan.repaid"    => left[m.by] < req[m.by].amount
  BY DEF EventsAreBacked
<1>1. MessageInv(m)
  BY DEF IInv, SafetyInv, EventInv
<1> QED BY <1>1 DEF IInv, SafetyInv, CompleteInv, MessageInv

\* An announced disbursement has its schedule, and an announced repayment took
\* something of the payment, whether or not its loan could be completed.
THEOREM EventsHaveBacking == Spec => []EventsAreBacked
BY LoanConsistent, InvGivesEvents, PTL

LEMMA InvGivesScore == IInv => ScoreIsOnRecord
BY DEF IInv, SafetyInv, ScoreInv, OnRecord, ScoreIsOnRecord

\* The score kept for a user is that of one of the user's applications, although the
\* two are written one after the other and applications may overlap.
THEOREM ScoresAreOnRecord == Spec => []ScoreIsOnRecord
BY LoanConsistent, InvGivesScore, PTL

-----------------------------------------------------------------------------
(* How many applications get through *)

Gate == {"expire", "evaluate", "create"}

\* What the counter of user u has let through, in this lifetime and the ones before.
Budget(u) == RateLimitMax * windows[u] + AtMost(rate[u].count, RateLimitMax)

RateInv ==
  /\ rate \in [Users -> [count: Nat, lifetime: BOOLEAN]]
  /\ windows \in [Users -> Nat]
  /\ \A u \in Users : IsFiniteSet(Admitted(u)) /\ Cardinality(Admitted(u)) <= Budget(u)

LEMMA FewerAreFewer ==
  ASSUME NEW S, IsFiniteSet(S), NEW n \in Nat, Cardinality(S) <= n, NEW T, T \subseteq S
  PROVE  IsFiniteSet(T) /\ Cardinality(T) <= n
<1>1. IsFiniteSet(T) /\ Cardinality(T) <= Cardinality(S)
  BY FS_Subset
<1>2. Cardinality(T) \in Nat /\ Cardinality(S) \in Nat
  BY <1>1, FS_CardinalityType
<1> QED BY <1>1, <1>2

LEMMA BudgetIsNatural == ASSUME RateInv, NEW u \in Users PROVE Budget(u) \in Nat
<1>1. \A i, j \in Nat : i * j \in Nat
  OBVIOUS
<1>2. windows[u] \in Nat /\ rate[u].count \in Nat /\ RateLimitMax \in Nat
  BY LoanAssumption DEF RateInv
<1>3. AtMost(rate[u].count, RateLimitMax) \in Nat
  BY <1>2 DEF AtMost
<1>4. RateLimitMax * windows[u] \in Nat
  BY <1>1, <1>2
<1> QED BY <1>3, <1>4 DEF Budget

\* Steps that leave the counters and let nobody through.
LEMMA NobodyGetsIn ==
  ASSUME RateInv, UNCHANGED windows, rate' \in [Users -> [count: Nat, lifetime: BOOLEAN]],
         \A u \in Users : rate'[u].count = rate[u].count, UNCHANGED req,
         \A r \in Requests : (Exists(r) \/ pc[r] \in Gate)' => Exists(r) \/ pc[r] \in Gate
  PROVE  RateInv'
<1> SUFFICES ASSUME NEW u \in Users
             PROVE  IsFiniteSet(Admitted(u)') /\ Cardinality(Admitted(u)') <= Budget(u)'
  BY DEF RateInv
<1>1. Admitted(u)' \subseteq Admitted(u)
  BY DEF Admitted, Gate
<1>2. Budget(u)' = Budget(u)
  BY DEF Budget
<1>3. IsFiniteSet(Admitted(u)') /\ Cardinality(Admitted(u)') <= Budget(u)
  BY <1>1, BudgetIsNatural, FewerAreFewer DEF RateInv
<1> QED BY <1>2, <1>3

\* A handler moves, and does not get in.
LEMMA MoverGetsIn ==
  ASSUME IInv, RateInv, NEW h \in Handlers, NEW label, Goto(h, label), UNCHANGED <<redis, req>>,
         label \in Gate => pc[h] \in Gate \/ h \in Replicas,
         \A l \in Requests : Exists(l)' => Exists(l) \/ pc[l] \in Gate
  PROVE  RateInv'
<1>1. \A r \in Requests : pc'[r] \in Gate => pc[r] \in Gate
  BY LoanAssumption DEF IInv, TypeInv, Goto, Handlers
<1>2. rate' \in [Users -> [count: Nat, lifetime: BOOLEAN]] /\ UNCHANGED <<rate, windows>>
  BY DEF RateInv, redis
<1> QED BY <1>1, <1>2, NobodyGetsIn

LEMMA StatusAdmits ==
  ASSUME IInv, RateInv, NEW h \in Handlers, NEW l \in Requests, Exists(l), NEW from, NEW status,
         NEW to, UpdateLoanStatus(h, from, l, status, to), to \notin Gate
  PROVE  RateInv'
<1>1. Goto(h, to) /\ UNCHANGED <<redis, req>> /\ loan' = [loan EXCEPT ![l].status = status]
  BY DEF UpdateLoanStatus
<1>2. \A m \in Requests : Exists(m)' => Exists(m)
  BY <1>1 DEF Exists, IInv, TypeInv
<1> QED BY <1>1, <1>2, MoverGetsIn

LEMMA DecisionAdmits ==
  ASSUME IInv, RateInv, NEW r \in Requests,
         Approve(r) \/ DisburseLoan(r) \/ RejectLoan(r) \/ CompleteLoan(r)
  PROVE  RateInv'
<1>1. r \in Handlers /\ RequestInv(r)
  BY DEF Handlers, IInv, HandlerInv
<1>2. pc[r] \in {"approve", "disburse", "reject", "complete"}
  BY DEF Approve, DisburseLoan, RejectLoan, CompleteLoan, UpdateLoanStatus, At
<1>3. req[r].kind \in {"approve", "reject", "repay"}
  BY <1>1, <1>2 DEF RequestInv, RequestAt, Repaying
<1>4. PICK l \in Requests : l = req[r].loan /\ Exists(l)
  BY <1>3, Asked
<1>5. \E from, status : \E to \in {"schedule", "emit", "ok"} :
        UpdateLoanStatus(r, from, l, status, to)
  BY <1>4 DEF Approve, DisburseLoan, RejectLoan, CompleteLoan
<1> QED BY <1>1, <1>4, <1>5, StatusAdmits DEF Gate

LEMMA ReadLoanGoesOn ==
  ASSUME NEW r \in Requests, ReadLoan(r)
  PROVE  \E label \in {"approve", "reject", "readRows", "rejected"} : Goto(r, label)
<1>1. CASE req[r].kind \in {"approve", "reject"} /\ Decidable(req[r].loan)
  BY <1>1 DEF ReadLoan
<1>2. CASE /\ ~ (req[r].kind \in {"approve", "reject"} /\ Decidable(req[r].loan))
           /\ req[r].kind = "repay" /\ Repayable(req[r].loan, req[r].user)
  BY <1>2 DEF ReadLoan
<1>3. CASE /\ ~ (req[r].kind \in {"approve", "reject"} /\ Decidable(req[r].loan))
           /\ ~ (req[r].kind = "repay" /\ Repayable(req[r].loan, req[r].user))
  BY <1>3 DEF ReadLoan
<1> QED BY <1>1, <1>2, <1>3

LEMMA StepAdmits ==
  ASSUME IInv, RateInv, NEW r \in Requests,
         \/ Evaluate(r) \/ CreateLoan(r) \/ UpsertCreditScore(r) \/ ReadLoan(r)
         \/ GenerateRepaymentSchedule(r) \/ ReadRows(r) \/ Pay(r) \/ CheckRows(r)
         \/ EmitKafkaEvent(r)
  PROVE  RateInv'
<1>1. r \in Handlers
  BY DEF Handlers
<1>2. UNCHANGED <<redis, req>>
  BY DEF Evaluate, CreateLoan, UpsertCreditScore, ReadLoan, GenerateRepaymentSchedule, ReadRows,
         Pay, CheckRows, EmitKafkaEvent
<1>3. \E label : Goto(r, label) /\ (label \in Gate => pc[r] \in Gate)
  <2>1. CASE Evaluate(r)
    BY <2>1 DEF Evaluate, At, Gate
  <2>2. CASE CreateLoan(r)
    BY <2>2 DEF CreateLoan, Gate
  <2>3. CASE UpsertCreditScore(r) \/ GenerateRepaymentSchedule(r)
    BY <2>3 DEF UpsertCreditScore, GenerateRepaymentSchedule, Finish, Gate
  <2>4. CASE ReadLoan(r)
    <3>1. PICK label \in {"approve", "reject", "readRows", "rejected"} : Goto(r, label)
      BY <2>4, ReadLoanGoesOn
    <3> QED BY <3>1 DEF Gate
  <2>5. CASE ReadRows(r)
    <3>1. PICK label \in {"rejected", "pay"} : Goto(r, label)
      BY <2>5 DEF ReadRows
    <3> QED BY <3>1 DEF Gate
  <2>6. CASE Pay(r)
    <3>1. PICK label \in {"pay", "checkRows"} : Goto(r, label)
      BY <2>6 DEF Pay
    <3> QED BY <3>1 DEF Gate
  <2>7. CASE CheckRows(r)
    <3>1. PICK label \in {"complete", "emit"} : Goto(r, label)
      BY <2>7 DEF CheckRows
    <3> QED BY <3>1 DEF Gate
  <2>8. CASE EmitKafkaEvent(r)
    BY <2>8 DEF EmitKafkaEvent, Finish, Gate
  <2> QED BY <2>1, <2>2, <2>3, <2>4, <2>5, <2>6, <2>7, <2>8
<1>4. ASSUME NEW l \in Requests, Exists(l)' PROVE Exists(l) \/ pc[l] \in Gate
  <2>1. CASE loan' = loan
    BY <1>4, <2>1 DEF Exists
  <2>2. CASE CreateLoan(r)
    <3>1. pc[r] = "create" /\ (l # r => loan'[l] = loan[l])
      BY <2>2 DEF CreateLoan, At, IInv, TypeInv
    <3> QED BY <1>4, <3>1 DEF Exists, Gate
  <2>3. CreateLoan(r) \/ loan' = loan
    BY DEF Evaluate, UpsertCreditScore, ReadLoan, GenerateRepaymentSchedule, ReadRows, Pay,
           CheckRows, EmitKafkaEvent, tables
  <2> QED BY <2>1, <2>2, <2>3
<1> QED BY <1>1, <1>2, <1>3, <1>4, MoverGetsIn

LEMMA ExpireAdmits ==
  ASSUME IInv, RateInv, NEW r \in Requests, Expire(r) PROVE RateInv'
<1>1. /\ UNCHANGED <<loan, windows, req>> /\ pc[r] = "expire" /\ Goto(r, "evaluate")
      /\ rate' = [rate EXCEPT ![req[r].user].lifetime = TRUE]
  BY DEF Expire, At, tables
<1>2. \A u \in Users : DOMAIN rate[u] = {"count", "lifetime"}
  BY DEF RateInv
<1>3. /\ rate' \in [Users -> [count: Nat, lifetime: BOOLEAN]]
      /\ \A u \in Users : rate'[u].count = rate[u].count
  BY <1>1, <1>2 DEF RateInv
<1>4. \A p \in Requests : (Exists(p) \/ pc[p] \in Gate)' => Exists(p) \/ pc[p] \in Gate
  BY <1>1 DEF IInv, TypeInv, Goto, Handlers, Exists, Gate
<1> QED BY <1>1, <1>3, <1>4, NobodyGetsIn

\* The only step that lets somebody in: one, when the counter says so.
LEMMA IncrAdmits ==
  ASSUME IInv, RateInv, NEW r \in Requests, Incr(r) PROVE RateInv'
<1>1. PICK v : v = req[r].user
  OBVIOUS
<1>2. PICK n : n = rate[v].count + 1
  OBVIOUS
<1>3. /\ UNCHANGED <<loan, windows, req>> /\ pc[r] = "incr"
      /\ rate' = [rate EXCEPT ![v].count = n]
      /\ Goto(r, IF n = 1 THEN "expire" ELSE IF Allowed(n) THEN "evaluate" ELSE "tooMany")
  BY <1>1, <1>2 DEF Incr, At, tables
<1>4. v \in Users /\ req[r].kind = "apply" /\ ~ Exists(r)
  <2>1. RequestAt(r, "incr")
    BY <1>3 DEF IInv, HandlerInv, RequestInv, Handlers
  <2>2. req[r].kind = "apply" /\ ~ Exists(r)
    BY <2>1 DEF RequestAt, Applying
  <2>3. req[r] \in Request \cup {NoRequest}
    BY DEF IInv, TypeInv
  <2> QED BY <1>1, <2>2, <2>3 DEF Request, NoRequest
<1>5. rate[v].count \in Nat /\ n \in Nat /\ RateLimitMax \in Nat \ {0} /\ v \in DOMAIN rate
      /\ \A u \in Users : DOMAIN rate[u] = {"count", "lifetime"}
  BY <1>2, <1>4, LoanAssumption DEF RateInv
<1>6. /\ rate' \in [Users -> [count: Nat, lifetime: BOOLEAN]] /\ windows' \in [Users -> Nat]
      /\ rate'[v].count = n /\ \A u \in Users \ {v} : rate'[u] = rate[u]
  BY <1>3, <1>4, <1>5 DEF RateInv
<1>7. /\ \A p \in Requests \ {r} : pc'[p] = pc[p]
      /\ pc'[r] \in Gate => n <= RateLimitMax
  BY <1>3, <1>5 DEF IInv, TypeInv, Goto, Handlers, Gate, Allowed
<1>8. ASSUME NEW u \in Users
      PROVE  IsFiniteSet(Admitted(u)') /\ Cardinality(Admitted(u)') <= Budget(u)'
  <2>1. IsFiniteSet(Admitted(u)) /\ Cardinality(Admitted(u)) <= Budget(u) /\ Budget(u) \in Nat
    BY BudgetIsNatural DEF RateInv
  <2>2. CASE u # v \/ pc'[r] \notin Gate
    <3>1. Admitted(u)' \subseteq Admitted(u)
      BY <1>1, <1>3, <1>4, <1>7, <2>2 DEF Admitted, Gate, Exists
    <3>2. Budget(u) <= Budget(u)' /\ Budget(u)' \in Nat
      <4>1. CASE u # v
        <5>1. Budget(u)' = Budget(u)
          BY <1>3, <1>6, <4>1 DEF Budget
        <5> QED BY <2>1, <5>1
      <4>2. CASE u = v
        <5>1. AtMost(rate[v].count, RateLimitMax) <= AtMost(n, RateLimitMax)
              /\ AtMost(rate[v].count, RateLimitMax) \in Nat /\ AtMost(n, RateLimitMax) \in Nat
          BY <1>2, <1>5 DEF AtMost
        <5>2. RateLimitMax * windows[v] \in Nat
          <6>1. windows[v] \in Nat
            BY <1>4 DEF RateInv
          <6>2. \A i, j \in Nat : i * j \in Nat
            OBVIOUS
          <6> QED BY <1>5, <6>1, <6>2
        <5>3. /\ Budget(v) = RateLimitMax * windows[v] + AtMost(rate[v].count, RateLimitMax)
              /\ Budget(v)' = RateLimitMax * windows[v] + AtMost(n, RateLimitMax)
          BY <1>3, <1>6 DEF Budget
        <5>4. \A i, j, k \in Nat : j <= k => i + j <= i + k /\ i + k \in Nat
          OBVIOUS
        <5> QED BY <4>2, <5>1, <5>2, <5>3, <5>4
      <4> QED BY <4>1, <4>2
    <3>3. Cardinality(Admitted(u)) <= Budget(u)'
      <4>1. Cardinality(Admitted(u)) \in Nat
        BY <2>1, FS_CardinalityType
      <4> QED BY <2>1, <3>2, <4>1
    <3> QED BY <2>1, <3>1, <3>2, <3>3, FewerAreFewer
  <2>3. CASE u = v /\ pc'[r] \in Gate
    <3>1. Admitted(v)' \subseteq Admitted(v) \cup {r}
      BY <1>3, <1>7 DEF Admitted, Gate, Exists
    <3>2. n <= RateLimitMax
      BY <1>7, <2>3
    <3>3. Budget(v)' = Budget(v) + 1
      <4>1. /\ Budget(v) = RateLimitMax * windows[v] + rate[v].count
            /\ Budget(v)' = RateLimitMax * windows[v] + n
        BY <1>2, <1>3, <1>5, <1>6, <3>2 DEF Budget, AtMost
      <4>2. RateLimitMax * windows[v] \in Nat
        <5>1. windows[v] \in Nat
          BY <1>4 DEF RateInv
        <5>2. \A i, j \in Nat : i * j \in Nat
          OBVIOUS
        <5> QED BY <1>5, <5>1, <5>2
      <4>3. \A i, j \in Nat : i + (j + 1) = (i + j) + 1
        OBVIOUS
      <4> QED BY <1>2, <1>5, <4>1, <4>2, <4>3
    <3>4. /\ IsFiniteSet(Admitted(v) \cup {r})
          /\ Cardinality(Admitted(v) \cup {r}) <= Cardinality(Admitted(v)) + 1
          /\ Cardinality(Admitted(v)) \in Nat
      <4>1. IsFiniteSet(Admitted(v))
        BY <2>1, <2>3
      <4>2. Cardinality(Admitted(v)) \in Nat
        BY <4>1, FS_CardinalityType
      <4>3. /\ IsFiniteSet(Admitted(v) \cup {r})
            /\ \/ Cardinality(Admitted(v) \cup {r}) = Cardinality(Admitted(v))
               \/ Cardinality(Admitted(v) \cup {r}) = Cardinality(Admitted(v)) + 1
        BY <4>1, FS_AddElement
      <4> QED BY <4>2, <4>3
    <3>5. Cardinality(Admitted(v) \cup {r}) \in Nat
      BY <3>4, FS_CardinalityType
    <3>6. Cardinality(Admitted(v) \cup {r}) <= Budget(v)' /\ Budget(v)' \in Nat
      BY <2>1, <2>3, <3>3, <3>4, <3>5
    <3> QED BY <2>3, <3>1, <3>4, <3>6, FewerAreFewer
  <2> QED BY <2>2, <2>3
<1> QED BY <1>6, <1>8 DEF RateInv

\* A counter that runs out gives all of its successor at once.
LEMMA ExpiryAdmits ==
  ASSUME IInv, RateInv, NEW v \in Users, CounterExpires(v) PROVE RateInv'
<1>1. /\ UNCHANGED <<loan, pc, req>>
      /\ rate' = [rate EXCEPT ![v] = [count |-> 0, lifetime |-> FALSE]]
      /\ windows' = [windows EXCEPT ![v] = @ + 1]
  BY DEF CounterExpires, tables
<1>2. /\ rate' \in [Users -> [count: Nat, lifetime: BOOLEAN]] /\ windows' \in [Users -> Nat]
      /\ rate'[v].count = 0 /\ windows'[v] = windows[v] + 1
      /\ \A u \in Users \ {v} : rate'[u] = rate[u] /\ windows'[u] = windows[u]
  BY <1>1 DEF RateInv
<1>3. ASSUME NEW u \in Users
      PROVE  IsFiniteSet(Admitted(u)') /\ Cardinality(Admitted(u)') <= Budget(u)'
  <2>1. IsFiniteSet(Admitted(u)) /\ Cardinality(Admitted(u)) <= Budget(u) /\ Budget(u) \in Nat
    BY BudgetIsNatural DEF RateInv
  <2>2. Admitted(u)' = Admitted(u)
    BY <1>1 DEF Admitted, Exists
  <2>3. Cardinality(Admitted(u)) \in Nat
    BY <2>1, FS_CardinalityType
  <2>4. Budget(u) <= Budget(u)' /\ Budget(u)' \in Int
    <3>1. CASE u # v
      <4>1. Budget(u)' = Budget(u)
        BY <1>2, <3>1 DEF Budget
      <4> QED BY <2>1, <4>1
    <3>2. CASE u = v
      <4>1. windows[v] \in Nat /\ rate[v].count \in Nat /\ RateLimitMax \in Nat
        BY LoanAssumption DEF RateInv
      <4>2. AtMost(rate[v].count, RateLimitMax) <= RateLimitMax
            /\ AtMost(rate[v].count, RateLimitMax) \in Nat /\ AtMost(0, RateLimitMax) = 0
        BY <4>1 DEF AtMost
      <4>3. \A i, j \in Nat : i * (j + 1) = i * j + i /\ i * j \in Nat
        OBVIOUS
      <4>4. /\ RateLimitMax * (windows[v] + 1) = RateLimitMax * windows[v] + RateLimitMax
            /\ RateLimitMax * windows[v] \in Nat
        BY <4>1, <4>3
      <4>5. /\ Budget(v) = RateLimitMax * windows[v] + AtMost(rate[v].count, RateLimitMax)
            /\ Budget(v)' = RateLimitMax * (windows[v] + 1) + AtMost(0, RateLimitMax)
        BY <1>2 DEF Budget
      <4>6. \A i, j, k \in Nat : j <= k => i + j <= (i + k) + 0 /\ (i + k) + 0 \in Int
        OBVIOUS
      <4> QED BY <3>2, <4>1, <4>2, <4>4, <4>5, <4>6
    <3> QED BY <3>1, <3>2
  <2> QED BY <2>1, <2>2, <2>3, <2>4
<1> QED BY <1>2, <1>3 DEF RateInv

\* A request that is sent is not in yet.
LEMMA SubmitAdmits ==
  ASSUME IInv, RateInv, NEW r \in Requests, Submit(r) PROVE RateInv'
<1>1. /\ UNCHANGED <<loan, rate, windows>> /\ pc[r] = "idle"
      /\ \E q \in Request : req' = [req EXCEPT ![r] = q]
      /\ \E label \in {"incr", "readLoan"} : Goto(r, label)
  BY DEF Submit, At, tables, redis
<1>2. ~ Exists(r)
  BY <1>1 DEF IInv, HandlerInv, RequestInv, RequestAt, Handlers
<1>3. /\ pc'[r] \notin Gate
      /\ \A p \in Requests \ {r} : pc'[p] = pc[p] /\ req'[p] = req[p]
  BY <1>1 DEF IInv, TypeInv, Goto, Handlers, Gate
<1>4. ASSUME NEW u \in Users
      PROVE  IsFiniteSet(Admitted(u)') /\ Cardinality(Admitted(u)') <= Budget(u)'
  <2>1. Admitted(u)' \subseteq Admitted(u)
    BY <1>1, <1>2, <1>3 DEF Admitted, Gate, Exists
  <2>2. Budget(u)' = Budget(u)
    BY <1>1 DEF Budget
  <2>3. IsFiniteSet(Admitted(u)') /\ Cardinality(Admitted(u)') <= Budget(u)
    BY <2>1, BudgetIsNatural, FewerAreFewer DEF RateInv
  <2> QED BY <2>2, <2>3
<1> QED BY <1>1, <1>4 DEF RateInv

LEMMA JobAdmits ==
  ASSUME IInv, RateInv, NEW c \in Replicas, ProcessDailyPenalties(c) PROVE RateInv'
<1>1. c \in Handlers /\ c \notin Requests
  BY LoanAssumption DEF Handlers
<1>2. CASE DefaultLoan(c)
  <2>1. /\ pc[c] = "default"
        /\ UpdateLoanStatus(c, "default", local[c].loan, "DEFAULTED", "emitDefault")
    BY <1>2 DEF DefaultLoan, UpdateLoanStatus, At
  <2>2. PICK l \in Requests : l = local[c].loan /\ Exists(l)
    BY <1>1, <2>1, LateIsScheduled DEF IInv, HandlerInv, JobInv
  <2> QED BY <1>1, <2>1, <2>2, StatusAdmits DEF Gate
<1>3. CASE FindOverdueRepayments(c) \/ UpdatePenalty(c) \/ FindLoan(c) \/ EmitDefault(c)
  <2>1. UNCHANGED <<loan, redis, req>> /\ \E label : Goto(c, label)
    BY <1>3 DEF FindOverdueRepayments, UpdatePenalty, FindLoan, EmitDefault, tables
  <2> QED BY <1>1, <2>1, MoverGetsIn DEF Exists
<1> QED BY <1>2, <1>3 DEF ProcessDailyPenalties

LEMMA RateStep == IInv /\ RateInv /\ [Next]_vars => RateInv'
<1> SUFFICES ASSUME IInv, RateInv, [Next]_vars PROVE RateInv'
  OBVIOUS
<1>1. ASSUME NEW r \in Requests, Submit(r) \/ Step(r) PROVE RateInv'
  BY <1>1, SubmitAdmits, IncrAdmits, ExpireAdmits, DecisionAdmits, StepAdmits DEF Step
<1>2. ASSUME NEW c \in Replicas, ProcessDailyPenalties(c) PROVE RateInv'
  BY <1>2, JobAdmits
<1>3. ASSUME NEW h \in Handlers, Crash(h) PROVE RateInv'
  <2>1. /\ UNCHANGED <<loan, redis, req>>
        /\ \E label \in {"idle", "lost"} : Goto(h, label)
    BY <1>3 DEF Crash, Finish, tables
  <2> QED BY <2>1, MoverGetsIn DEF Exists, Gate
<1>4. ASSUME NEW u \in Users, CounterExpires(u) PROVE RateInv'
  BY <1>4, ExpiryAdmits
<1>5. ASSUME UNCHANGED <<loan, rate, windows, req, pc>> PROVE RateInv'
  BY <1>5, NobodyGetsIn DEF RateInv, Exists
<1> QED BY <1>1, <1>2, <1>3, <1>4, <1>5 DEF Next, NextDay, vars, tables, redis

LEMMA RateStart == Init => RateInv
<1> SUFFICES ASSUME Init PROVE RateInv
  OBVIOUS
<1>1. \A u \in Users : Admitted(u) = {}
  BY DEF Init, Admitted, NoRequest
<1>2. rate \in [Users -> [count: Nat, lifetime: BOOLEAN]] /\ windows \in [Users -> Nat]
  BY DEF Init
<1>3. ASSUME NEW u \in Users PROVE Budget(u) = 0
  <2>1. windows[u] = 0 /\ rate[u].count = 0 /\ RateLimitMax \in Nat
    BY LoanAssumption DEF Init
  <2>2. RateLimitMax * 0 = 0 /\ AtMost(0, RateLimitMax) = 0
    BY <2>1 DEF AtMost
  <2> QED BY <2>1, <2>2 DEF Budget
<1>4. IsFiniteSet({}) /\ Cardinality({}) = 0
  BY FS_EmptySet
<1>5. ASSUME NEW u \in Users
      PROVE  IsFiniteSet(Admitted(u)) /\ Cardinality(Admitted(u)) <= Budget(u)
  <2>1. IsFiniteSet(Admitted(u)) /\ Cardinality(Admitted(u)) = 0
    BY <1>1, <1>4
  <2> QED BY <1>3, <2>1
<1> QED BY <1>2, <1>5 DEF RateInv

LEMMA RateIsLimited == RateInv => AtMostPerWindow
<1> SUFFICES ASSUME RateInv, NEW u \in Users
             PROVE  Cardinality(Admitted(u)) <= RateLimitMax * (windows[u] + 1)
  BY DEF AtMostPerWindow
<1>1. windows[u] \in Nat /\ rate[u].count \in Nat /\ RateLimitMax \in Nat
  BY LoanAssumption DEF RateInv
<1>2. AtMost(rate[u].count, RateLimitMax) <= RateLimitMax
      /\ AtMost(rate[u].count, RateLimitMax) \in Nat
  BY <1>1 DEF AtMost
<1>3. \A i, j \in Nat : i * (j + 1) = i * j + i /\ i * j \in Nat
  OBVIOUS
<1>4. RateLimitMax * (windows[u] + 1) = RateLimitMax * windows[u] + RateLimitMax
      /\ RateLimitMax * windows[u] \in Nat
  BY <1>1, <1>3
<1>5. Cardinality(Admitted(u)) \in Nat /\ Cardinality(Admitted(u)) <= Budget(u)
  BY FS_CardinalityType DEF RateInv
<1>6. Budget(u) = RateLimitMax * windows[u] + AtMost(rate[u].count, RateLimitMax)
  BY DEF Budget
<1>7. \A i, j, k, n \in Nat : n <= i + j /\ j <= k => n <= i + k
  OBVIOUS
<1> QED BY <1>1, <1>2, <1>4, <1>5, <1>6, <1>7

\* In a lifetime of the counter a user gets RateLimitMax applications through at most
\* (checkRateLimit counts before it compares), however many arrive at once, and whichever
\* handler dies before the counter has its lifetime.
THEOREM RateLimitHolds == Spec => []AtMostPerWindow
<1>1. Init => IInv /\ RateInv
  BY LoanStart, RateStart
<1>2. (IInv /\ RateInv) /\ [Next]_vars => (IInv /\ RateInv)'
  BY LoanStep, RateStep
<1>3. IInv /\ RateInv => AtMostPerWindow
  BY RateIsLimited
<1> QED BY <1>1, <1>2, <1>3, PTL DEF Spec

-----------------------------------------------------------------------------
(* What the credit score says of every application *)

\* The score before it is cut to the range 0..850.
RawScore(defaulted, completed, debt, amount, term) ==
  300 - 100 * defaulted + AtMost(30 * completed, 150)
      - DebtMalus(debt, amount) + AmountBonus(amount) - TermMalus(term)

Clamp(n) == AtLeast(0, AtMost(850, n))

\* The parts of the score, and with them the raw score, are integers.
LEMMA RawIsInt ==
  ASSUME NEW defaulted \in Nat, NEW completed \in Nat, NEW debt \in Nat, NEW amount \in Nat,
         NEW term \in Nat
  PROVE  /\ RawScore(defaulted, completed, debt, amount, term) \in Int
         /\ DebtMalus(debt, amount) \in Int
         /\ AmountBonus(amount) \in Int
         /\ TermMalus(term) \in Int
         /\ AtMost(30 * completed, 150) \in Int
<1>1. DebtMalus(debt, amount) \in Int /\ AmountBonus(amount) \in Int /\ TermMalus(term) \in Int
  BY DEF DebtMalus, AmountBonus, TermMalus
<1>2. AtMost(30 * completed, 150) \in Int
  BY DEF AtMost
<1> QED BY <1>1, <1>2 DEF RawScore

\* Clamping keeps the order and ends in the range.
LEMMA ClampMonotone ==
  ASSUME NEW m \in Int, NEW n \in Int
  PROVE  Clamp(m) \in 0..850 /\ (m <= n => Clamp(m) <= Clamp(n))
BY DEF Clamp, AtMost, AtLeast

\* Every score is a whole number from 0 to 850 (evaluateCreditScore clamps it).
THEOREM ScoreInRange ==
  ASSUME NEW defaulted \in Nat, NEW completed \in Nat, NEW debt \in Nat, NEW amount \in Nat,
         NEW term \in Nat
  PROVE  Score(defaulted, completed, debt, amount, term) \in 0..850
<1> DEFINE raw == RawScore(defaulted, completed, debt, amount, term)
<1>1. Score(defaulted, completed, debt, amount, term) = Clamp(raw)
  BY DEF Score, Clamp, RawScore
<1>2. raw \in Int
  BY RawIsInt
<1> HIDE DEF raw
<1> QED BY <1>1, <1>2, ClampMonotone

\* A default never raises the score, and a loan paid off never lowers it.
THEOREM HistoryCounts ==
  ASSUME NEW d1 \in Nat, NEW d2 \in Nat, d1 >= d2,
         NEW c1 \in Nat, NEW c2 \in Nat, c1 <= c2,
         NEW debt \in Nat, NEW amount \in Nat, NEW term \in Nat
  PROVE  Score(d1, c1, debt, amount, term) <= Score(d2, c2, debt, amount, term)
<1> DEFINE m == RawScore(d1, c1, debt, amount, term)
           n == RawScore(d2, c2, debt, amount, term)
<1>1. /\ Score(d1, c1, debt, amount, term) = Clamp(m)
      /\ Score(d2, c2, debt, amount, term) = Clamp(n)
  BY DEF Score, Clamp, RawScore
<1>2. AtMost(30 * c1, 150) <= AtMost(30 * c2, 150)
  BY DEF AtMost
<1>3. /\ DebtMalus(debt, amount) \in Int /\ AmountBonus(amount) \in Int
      /\ TermMalus(term) \in Int /\ AtMost(30 * c1, 150) \in Int /\ m \in Int
  BY RawIsInt
<1>4. AtMost(30 * c2, 150) \in Int /\ n \in Int
  BY RawIsInt
<1>5. m <= n
  BY <1>2, <1>3, <1>4 DEF RawScore
<1> HIDE DEF m, n
<1> QED BY <1>1, <1>3, <1>4, <1>5, ClampMonotone

\* The factor named debt-to-income ratio works the wrong way round: the larger
\* the debt a user already has, the smaller the malus, and the higher the score.
THEOREM DebtRaisesScore ==
  ASSUME NEW defaulted \in Nat, NEW completed \in Nat, NEW d1 \in Nat, NEW d2 \in Nat, d1 <= d2,
         NEW amount \in Nat, NEW term \in Nat
  PROVE  Score(defaulted, completed, d1, amount, term)
           <= Score(defaulted, completed, d2, amount, term)
<1> DEFINE m == RawScore(defaulted, completed, d1, amount, term)
           n == RawScore(defaulted, completed, d2, amount, term)
<1>1. /\ Score(defaulted, completed, d1, amount, term) = Clamp(m)
      /\ Score(defaulted, completed, d2, amount, term) = Clamp(n)
  BY DEF Score, Clamp, RawScore
<1>2. DebtMalus(d1, amount) >= DebtMalus(d2, amount)
  BY DEF DebtMalus
<1>3. /\ DebtMalus(d1, amount) \in Int /\ AmountBonus(amount) \in Int
      /\ TermMalus(term) \in Int /\ AtMost(30 * completed, 150) \in Int /\ m \in Int
  BY RawIsInt
<1>4. DebtMalus(d2, amount) \in Int /\ n \in Int
  BY RawIsInt
<1>5. m <= n
  BY <1>2, <1>3, <1>4 DEF RawScore
<1> HIDE DEF m, n
<1> QED BY <1>1, <1>3, <1>4, <1>5, ClampMonotone

=============================================================================
