-------------------------------- MODULE Inqacccu -------------------------------
(***************************************************************************)
(* INQACCCU: the accounts of a customer, at most one page. Two SELECTs in   *)
(* one transaction, so in one snapshot, run by db::with_retry.              *)
(***************************************************************************)
EXTENDS Inquiry

InqacccuCodes ==
  [inqacccu_begin |-> "HACU", inqacccu_exists |-> "HACU", inqacccu_list |-> "HACU",
   inqacccu_found |-> "HACU", inqacccu_missing |-> "HACU"]

\* The numbers of INQCUST's random and last modes are nobody's.
InqacccuFirst(n) ==
  IF n \in {0, MaxCustomerNumber} THEN "inqacccu_reserved" ELSE "inqacccu_begin"

InqacccuTake(i) ==
  Take(i, "INQACCCU", MaxCustomerNumber, InqacccuFirst(query[i].number))

InqacccuReserved(i) == at[i] = "inqacccu_reserved" /\ Tell(i, NotFound)

InqacccuBegin(i) ==
  /\ at[i] = "inqacccu_begin"
  /\ GoOn(i, "inqacccu_exists", NoOwn)

\* SELECT EXISTS: the first statement fixes the snapshot.
InqacccuExists(i) ==
  /\ at[i] = "inqacccu_exists"
  /\ GoOn(i, IF query[i].number \in DOMAIN customer THEN "inqacccu_list"
                                                    ELSE "inqacccu_missing",
          [own[i] EXCEPT !.view = Moment])

\* SELECT ... WHERE customer_number = c ORDER BY account_number LIMIT 20
PageIn(table, c) ==
  LET owned == {a \in DOMAIN table : table[a].customer = c}
      page == {a \in owned : Cardinality({b \in owned : b < a}) < PageSize}
  IN  [a \in page |-> table[a]]

\* Mutant of CanRefresh: the two statements are not in one transaction.
CanAlwaysRefresh(i) == TRUE

\* CockroachDB may move the snapshot of an open transaction to the present if
\* what it has read so far has not changed.
CanRefresh(i) ==
  LET c == query[i].number IN
  /\ c \in DOMAIN customer
  /\ customer[c] = own[i].view.customer[c]

InqacccuList(i) ==
  /\ at[i] = "inqacccu_list"
  /\ \E moment \in {own[i].view, Moment} :
       /\ moment = own[i].view \/ CanRefresh(i)
       /\ GoOn(i, "inqacccu_found",
               [own[i] EXCEPT !.view = moment,
                              !.rows = PageIn(moment.account, query[i].number)])

\* COMMIT; only then is there a reply.
InqacccuFound(i) ==
  /\ at[i] = "inqacccu_found"
  /\ Tell(i, Told(Success, own[i].rows))

InqacccuMissing(i) == at[i] = "inqacccu_missing" /\ Tell(i, NotFound)

InqacccuSerializationFailure(i) ==
  /\ at[i] \in DOMAIN InqacccuCodes \ {"inqacccu_begin"}
  /\ RunAgain(i, "inqacccu_begin")

InqacccuStep(i) ==
  \/ InqacccuTake(i)
  \/ InqacccuReserved(i)
  \/ InqacccuBegin(i)
  \/ InqacccuExists(i)
  \/ InqacccuList(i)
  \/ InqacccuFound(i)
  \/ InqacccuMissing(i)
=============================================================================
