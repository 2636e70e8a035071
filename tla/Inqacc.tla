--------------------------------- MODULE Inqacc --------------------------------
(***************************************************************************)
(* INQACC: one account by number, or the last one (99_999_999). One SELECT, *)
(* run by db::with_retry.                                                   *)
(***************************************************************************)
EXTENDS Inquiry

InqaccCodes == [inqacc_exact |-> "HRAC", inqacc_last |-> "HNCS"]

InqaccFirst(n) == IF n = MaxAccountNumber THEN "inqacc_last" ELSE "inqacc_exact"

InqaccTake(i) ==
  Take(i, "INQACC", MaxAccountNumber, InqaccFirst(query[i].number))

InqaccExact(i) ==
  /\ at[i] = "inqacc_exact"
  /\ TellRow(i, account, query[i].number)

InqaccLast(i) ==
  /\ at[i] = "inqacc_last"
  /\ TellLast(i, account)

InqaccSerializationFailure(i) ==
  /\ at[i] \in DOMAIN InqaccCodes
  /\ RunAgain(i, at[i])

InqaccStep(i) == InqaccTake(i) \/ InqaccExact(i) \/ InqaccLast(i)
=============================================================================
