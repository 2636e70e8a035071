--------------------------- MODULE InquiryProperties ---------------------------
(***************************************************************************)
(* What a client may conclude from the answer of an inquiry.                *)
(***************************************************************************)
EXTENDS Inquiries

InquiryLabels ==
  [INQCUST |-> DOMAIN InqcustCodes, INQACC |-> DOMAIN InqaccCodes,
   INQACCCU |-> DOMAIN InqacccuCodes \cup {"inqacccu_reserved"}]

IsRows(rows) == IsCustomerTable(rows) \/ IsAccountTable(rows)

InquiryReplies ==
  {None, Success, Invalid, XRTY, Fail("1"), Fail("R")}
    \cup {Abend(code) : code \in {"CVR1", "HRAC", "HNCS", "HACU"}}

\* An inquiry is at a statement of its own program, draws numbers that have
\* been given out, and the rows it keeps are rows of the tables.
InquiryTypeOK ==
  /\ query \in [Inquirers -> Queries]
  /\ DOMAIN at = Inquirers
  /\ \A i \in Inquirers :
       at[i] \in InquiryLabels[query[i].prog] \cup {"idle", "done", "lost"}
  /\ tries \in [Inquirers -> 0 .. MaxAttempts - 1]
  /\ DOMAIN own = Inquirers
  /\ \A i \in Inquirers :
       /\ DOMAIN own[i] = DOMAIN NoOwn
       /\ IsCustomerTable(own[i].view.customer)
       /\ IsAccountTable(own[i].view.account)
       /\ IsAccountTable(own[i].rows)
       /\ own[i].highest \in 0 .. control.customer_last
       /\ own[i].draws \in 0 .. RandomRetryLimit - 1
  /\ DOMAIN result = Inquirers
  /\ \A i \in Inquirers :
       result[i].reply \in InquiryReplies /\ IsRows(result[i].rows)

Promise ==
  INSTANCE Answers WITH
    phase <- [i \in Inquirers |-> IF at[i] \in {"idle", "done", "lost"} THEN at[i] ELSE "open"],
    seen <- [i \in Inquirers |->
               IF at[i] \in {"inqacccu_list", "inqacccu_found", "inqacccu_missing"}
                 THEN {own[i].view} ELSE {}]

\* Every answer is true of the tables at one moment after the inquiry arrived,
\* although a request may be removing the very customer: INQACCCU never lists
\* accounts of a customer it found and the accounts of one that was removed
\* meanwhile, and "R" is only said if a number that was given out is free.
AnswersAreTrue == Promise!Spec

\* Every inquiry is answered or dropped, however often 40001 comes up and
\* however many numbers it draws.
EveryInquiryEnds == \A i \in Inquirers : <>(at[i] \in {"done", "lost"})

\* docs/translation-rules.md, section 8: a program-specific abend code such as
\* CVR1 is for genuinely unrecoverable errors only.
AbendIsUnrecoverable ==
  [][\A i \in Inquirers :
       result'[i] # result[i] /\ result'[i].reply = Abend("CVR1")
         => faults' = faults + 1]_serviceVars
=============================================================================
