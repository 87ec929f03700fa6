---------------------------- MODULE MCLoanOrder ----------------------------
(***************************************************************************)
(* Values for the model checker: those of MCLoan.                          *)
(***************************************************************************)
EXTENDS MCLoan, LoanOrder

=============================================================================
