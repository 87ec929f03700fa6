----------------------------- MODULE Documents -----------------------------
(***************************************************************************)
(* The two services that store documents through Mongoose, next to each    *)
(* other: each is a process of its own and moves by itself.                *)
(***************************************************************************)
EXTENDS KycService, InvestmentService

Init == KycInit /\ InvInit

Next ==
  \/ KycNext /\ UNCHANGED invVars
  \/ InvNext /\ UNCHANGED kycVars

Spec == Init /\ [][Next]_<<kycVars, invVars>>

-----------------------------------------------------------------------------

\* "should create a new KYC submission" (kyc.service.spec.ts:62) or "should successfully
\* buy an investment" (investment.service.spec.ts:113).  Each is claimed of its service;
\* a behaviour that violates the disjunction refutes both claims at once.
DocumentsAreTaken == SubmissionIsRecorded \/ PurchaseIsAccepted

=============================================================================
