-------------------------------- MODULE Inqcust --------------------------------
(***************************************************************************)
(* INQCUST: one customer by number, a random one (number 0) or the last one *)
(* (9_999_999_999). Every SELECT is a statement of its own, outside any     *)
(* transaction and outside db::with_retry.                                  *)
(***************************************************************************)
EXTENDS Inquiry

InqcustCodes ==
  [inqcust_exact |-> "CVR1", inqcust_last |-> "CVR1",
   inqcust_highest |-> "CVR1", inqcust_draw |-> "CVR1"]

InqcustFirst(n) ==
  CASE n = 0 -> "inqcust_highest"
    [] n = MaxCustomerNumber -> "inqcust_last"
    [] OTHER -> "inqcust_exact"

InqcustTake(i) ==
  Take(i, "INQCUST", MaxCustomerNumber, InqcustFirst(query[i].number))

InqcustExact(i) ==
  /\ at[i] = "inqcust_exact"
  /\ TellRow(i, customer, query[i].number)

InqcustLast(i) ==
  /\ at[i] = "inqcust_last"
  /\ TellLast(i, customer)

\* The random mode first asks for the highest number in use.
InqcustHighest(i) ==
  /\ at[i] = "inqcust_highest"
  /\ \/ customer = EmptyTable /\ Tell(i, NotFound)
     \/ \E n \in DOMAIN customer :
          /\ IsLast(customer, n)
          /\ GoOn(i, "inqcust_draw", [NoOwn EXCEPT !.highest = n])

\* Mutants of Draw: one draw too many; draws are not counted.
DrawOnceMore(i, n) ==
  IF n \in DOMAIN customer
    THEN Tell(i, Told(Success, RowOf(customer, n)))
  ELSE IF own[i].draws < RandomRetryLimit
    THEN GoOn(i, "inqcust_draw", [own[i] EXCEPT !.draws = @ + 1])
  ELSE Tell(i, Told(Fail("R"), EmptyTable))

DrawUncounted(i, n) ==
  IF n \in DOMAIN customer
    THEN Tell(i, Told(Success, RowOf(customer, n)))
    ELSE GoOn(i, "inqcust_draw", own[i])

\* It then tries numbers up to that one until it meets a customer, at most
\* RandomRetryLimit times.
Draw(i, n) ==
  IF n \in DOMAIN customer
    THEN Tell(i, Told(Success, RowOf(customer, n)))
  ELSE IF own[i].draws + 1 < RandomRetryLimit
    THEN GoOn(i, "inqcust_draw", [own[i] EXCEPT !.draws = @ + 1])
  ELSE Tell(i, Told(Fail("R"), EmptyTable))

InqcustDraw(i) ==
  /\ at[i] = "inqcust_draw"
  /\ \E n \in 1 .. own[i].highest : Draw(i, n)

\* 40001 is an error like any other here.
InqcustSerializationFailure(i) ==
  /\ at[i] \in DOMAIN InqcustCodes
  /\ Tell(i, Told(Abend(InqcustCodes[at[i]]), EmptyTable))

InqcustStep(i) ==
  \/ InqcustTake(i)
  \/ InqcustExact(i)
  \/ InqcustLast(i)
  \/ InqcustHighest(i)
  \/ InqcustDraw(i)
=============================================================================
