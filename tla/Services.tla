------------------------------ MODULE Services -----------------------------
(***************************************************************************)
(* The services that share nothing with one another and the wallet page.   *)
(* One behaviour is about one of them, chosen at the start: the others do  *)
(* not move.  Nothing is lost by that, as no variable belongs to two of    *)
(* them, no message of one is read by another (the topics published and    *)
(* those subscribed to have no name in common), and every property below   *)
(* is about one.                                                           *)
(***************************************************************************)
EXTENDS KycService, InvestmentService, FraudService, NotificationService, WalletClient

\* The service that moves.  In effect a constant: a VARIABLE so that one run
\* covers every value.
VARIABLE service

AllServices == {"kyc", "investment", "fraud", "notification", "client"}

vars == <<service, kycVars, invVars, fraudVars, notifVars, clientVars>>

\* What a service that does not move starts with makes no difference.
Init ==
  /\ service \in AllServices
  /\ KycInit /\ InvInit /\ FraudInit /\ NotifInit /\ ClientInit
  /\ service # "fraud" => fraudPc = FraudStart(CHOOSE g \in FraudGroups : TRUE)
  /\ service # "notification" => notifQueue = CHOOSE queue \in NotifQueues : TRUE

KycStep ==
  /\ service = "kyc" /\ KycNext
  /\ UNCHANGED <<service, invVars, fraudVars, notifVars, clientVars>>

InvestmentStep ==
  /\ service = "investment" /\ InvNext
  /\ UNCHANGED <<service, kycVars, fraudVars, notifVars, clientVars>>

FraudStep ==
  /\ service = "fraud" /\ FraudNext
  /\ UNCHANGED <<service, kycVars, invVars, notifVars, clientVars>>

NotificationStep ==
  /\ service = "notification" /\ NotifNext
  /\ UNCHANGED <<service, kycVars, invVars, fraudVars, clientVars>>

ClientStep ==
  /\ service = "client" /\ ClientNext
  /\ UNCHANGED <<service, kycVars, invVars, fraudVars, notifVars>>

Next == KycStep \/ InvestmentStep \/ FraudStep \/ NotificationStep \/ ClientStep

Spec == Init /\ [][Next]_vars

\* kafkajs keeps calling the handler of a consumer that is up, and a handler
\* keeps running.  Nothing else has to happen.
Fairness == \A c \in NotifConsumers :
  WF_vars(/\ service = "notification" /\ NotifStep(c)
          /\ UNCHANGED <<service, kycVars, invVars, fraudVars, clientVars>>)

FairSpec == Spec /\ Fairness

TypeOK ==
  /\ service \in AllServices
  /\ KycTypeOK /\ InvTypeOK /\ FraudTypeOK /\ NotifTypeOK /\ ClientTypeOK

\* Every partition is read to its end, whatever is in it: a message that is
\* empty, cannot be parsed, fails, or is over a limit blocks none behind it
\* (handleMessage catches every error, and never throws to kafkajs).
EveryMessageHandled ==
  service = "notification" => \A c \in NotifConsumers : <>[] ~ NotifHas(c)

=============================================================================
