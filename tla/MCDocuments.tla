---------------------------- MODULE MCDocuments ----------------------------
(***************************************************************************)
(* Values for the model checker: the schemas of both collections as they   *)
(* stand.                                                                  *)
(***************************************************************************)
EXTENDS Documents

\* @Prop({ required: true }) idDocFront
MCKycRequiredProps == {"idDocFront"}

MCInvProducts == {[open |-> TRUE, min |-> 2, max |-> 5]}

=============================================================================
