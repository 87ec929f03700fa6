----------------------------- MODULE LoanOrder -----------------------------
(***************************************************************************)
(* What the handlers promise about a loan as long as no two of them are    *)
(* busy with it at once.  Handlers busy with other loans do not matter.    *)
(***************************************************************************)
EXTENDS LoanProperties

VARIABLE contested  \* history: loans that two handlers were busy with at once

\* The job is busy with the loans of the rows it has listed and not yet dealt with.
BusyWith(h) ==
  IF h \in Replicas
  THEN {req[id[1]].loan : id \in DOMAIN local[h].rows}
       \cup IF pc[h] \in {"findLoan", "default", "emitDefault"} THEN {local[h].loan} ELSE {}
  ELSE IF req[h].kind = "apply" THEN {h} ELSE {req[h].loan}

Busy == {h \in Handlers : pc[h] \in Running}

Contested == {l \in Requests : \E g, h \in Busy : g # h /\ l \in BusyWith(g) \cap BusyWith(h)}

OrderInit == Init /\ contested = {}
OrderNext == Next /\ contested' = contested \cup Contested'
OrderSpec == OrderInit /\ [][OrderNext]_<<vars, contested>>

-----------------------------------------------------------------------------

\* approveLoan, rejectLoan, repayLoan and processDailyPenalties each check the status
\* they change: without a contest the loan goes through its life in order.
LegalInOrder == [][\A l \in Requests \ contested' : LegalStep(l)]_vars

\* repayLoan and checkAndCompleteLoan settle a repayment, and complete a loan, only
\* when it is paid with its penalties; a payment or the job in between may spoil that.
SettledInOrder == \A l \in Requests \ contested : Settles(l)

\* What repayLoan reports as received stays on the rows of a loan without a contest.
ReceivedInOrder == \A l \in Requests \ contested : CountsReceived(l)

=============================================================================
