-------------------------------- MODULE Crecust -------------------------------
(***************************************************************************)
(* CRECUST: create a customer. service/crecust.rs validates the name and   *)
(* the date of birth and asks five credit agencies for a score (here: the  *)
(* check succeeds or not); repository/crecust.rs takes the next customer   *)
(* number from the control row and inserts the customer.                   *)
(***************************************************************************)
EXTENDS Transactions

\* birth: what the date of birth checks say of the request's date.
CrecustCommands ==
  [prog : {"CRECUST"}, name : Texts, address : Texts,
   birth : {"valid", "O", "Y", "Z"}]

CrecustErrors ==
  [crecust_reserve |-> {Fail("3")}, crecust_insert |-> {Fail("1")},
   crecust_proctran |-> {HWPT}]

CrecustRejection(c) ==
  IF c.name \in EmptyTexts THEN Invalid
  ELSE IF c.name \in UntitledTexts THEN Fail("T")
  ELSE IF c.birth # "valid" THEN Fail(c.birth)
  ELSE None

CrecustReceive(r) ==
  /\ cmd[r].prog = "CRECUST"
  /\ Receive(r, CrecustRejection(cmd[r]), "crecust_credit")

\* At least one agency answered within the reply window, or none did.
CrecustCredit(r) ==
  /\ pc[r] = "crecust_credit"
  /\ \/ Statement(r, "begin", NoTx)
     \/ Refuse(r, Fail("G"))

CrecustBegin(r) == cmd[r].prog = "CRECUST" /\ Begin(r, "crecust_reserve")

CrecustReserve(r) ==
  /\ pc[r] = "crecust_reserve"
  /\ ReserveNumber(r, "crecust_insert",
       [control EXCEPT !.customer_count = @ + 1, !.customer_last = @ + 1])

CrecustInsert(r) ==
  /\ pc[r] = "crecust_insert"
  /\ LET n == tx[r].control.customer_last
         row == [name |-> cmd[r].name, address |-> cmd[r].address]
     IN /\ Free(r, CustomerKey(n))
        /\ IF n > MaxCustomerNumber THEN Refuse(r, Fail("4"))
           ELSE IF n \in DOMAIN customer THEN Refuse(r, Fail("1"))
           ELSE Statement(r, "crecust_proctran",
                  [tx[r] EXCEPT !.held = @ \cup {CustomerKey(n)},
                                !.customer = Overlay(@, n, row)])

CrecustProctran(r) ==
  /\ pc[r] = "crecust_proctran"
  /\ InsertProctran(r, "commit", "OCC", 0)

CrecustStep(r) ==
  \/ CrecustReceive(r)
  \/ CrecustCredit(r)
  \/ CrecustBegin(r)
  \/ CrecustReserve(r)
  \/ CrecustInsert(r)
  \/ CrecustProctran(r)
=============================================================================
