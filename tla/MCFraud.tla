------------------------------ MODULE MCFraud ------------------------------
(***************************************************************************)
(* Values for the model checker: one replica of the fraud service, the     *)
(* per-user velocity rule alone, and transactions of one user.             *)
(***************************************************************************)
EXTENDS FraudService

MCFraudGroups == {FraudHandlers}

MCFraudRequests ==
  {[user |-> "user", ip |-> "ip", device |-> FraudNone, location |-> FraudNone, large |-> FALSE]}

MCFraudDefaults == <<"velocity_per_user">>

=============================================================================
