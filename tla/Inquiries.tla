------------------------------- MODULE Inquiries -------------------------------
(***************************************************************************)
(* The whole service: inquiries beside the updating requests of Cbsa.       *)
(***************************************************************************)
EXTENDS Inqcust, Inqacc, Inqacccu

serviceVars == <<vars, inquiryVars>>

ServiceInit == Init /\ InquiryInit

\* A statement of inquiry i, or an early return.
InquiryStep(i) ==
  /\ InqcustStep(i) \/ InqaccStep(i) \/ InqacccuStep(i)
  /\ UNCHANGED vars

InquirySerializationFailure(i) ==
  /\ \/ InqcustSerializationFailure(i)
     \/ InqaccSerializationFailure(i)
     \/ InqacccuSerializationFailure(i)
  /\ UNCHANGED vars

\* Inquiries change no table, whatever becomes of them.
InquiryFault(i) ==
  /\ \/ ReadError(i, InqcustCodes)
     \/ ReadError(i, InqaccCodes)
     \/ ReadError(i, InqacccuCodes)
     \/ AbandonInquiry(i)
  /\ UNCHANGED <<tables, cmd, pc, attempts, tx, reply>>

Update == (\E r \in Requests : Progress(r) \/ Trouble(r)) /\ UNCHANGED inquiryVars

ServiceIdle ==
  /\ Finished
  /\ \A i \in Inquirers : at[i] \in {"done", "lost"}
  /\ UNCHANGED serviceVars

ServiceNext ==
  \/ Update
  \/ \E i \in Inquirers : InquiryStep(i)
  \/ \E i \in Inquirers : InquirySerializationFailure(i)
  \/ \E i \in Inquirers : InquiryFault(i)
  \/ ServiceIdle

ServiceSpec == ServiceInit /\ [][ServiceNext]_serviceVars

\* An inquiry waits for nothing but its connection and the database's answer.
InquiryFairness == \A i \in Inquirers : WF_serviceVars(InquiryStep(i))

FairServiceSpec == ServiceSpec /\ InquiryFairness
=============================================================================
