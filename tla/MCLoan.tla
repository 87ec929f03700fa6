------------------------------- MODULE MCLoan ------------------------------
(***************************************************************************)
(* Values for the model checker.                                           *)
(***************************************************************************)
EXTENDS LoanProperties, TLC

CONSTANTS u1

MCOwner == [l \in Seeded |-> u1]

\* Half a percent of 200 is a whole number.
MCMonthlyPayment == [t \in Terms |-> 200]

\* The requests not yet sent are interchangeable.
Symmetry == Permutations(Requests \ Seeded)

=============================================================================
