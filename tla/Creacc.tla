-------------------------------- MODULE Creacc --------------------------------
(***************************************************************************)
(* CREACC: open an account. service/creacc.rs first asks INQCUST whether   *)
(* the customer exists and INQACCCU how many accounts it has, each on a    *)
(* connection of its own; repository/creacc.rs then takes the next account *)
(* number from the control row and inserts the account in a transaction    *)
(* that knows nothing of those answers.                                    *)
(***************************************************************************)
EXTENDS Transactions

SupportedTypes == {"ISA", "MORTGAGE", "SAVING", "CURRENT", "LOAN"}

CreaccCommands ==
  [prog : {"CREACC"}, customer : Nat, type : AccountTypes, overdraft : Overdrafts,
   available : Int, actual : Int]

CreaccErrors ==
  [creacc_inqcust |-> {Abend("CVR1")}, creacc_inqacccu |-> {Abend("HACU")},
   creacc_reserve |-> {Abend("HNCS")}, creacc_insert |-> {Fail("7")},
   creacc_proctran |-> {HWPT}]

\* Customer numbers 0 and 9_999_999_999 select INQCUST's random and last modes.
ReservedCustomers == {0, MaxCustomerNumber}

CreaccRejection(c) ==
  IF c.customer \notin 0 .. MaxCustomerNumber \/ ~Representable(c) THEN Invalid
  ELSE IF c.type \notin SupportedTypes THEN Fail("A")
  ELSE IF c.customer \in ReservedCustomers THEN Fail("1")
  ELSE None

CreaccReceive(r) ==
  /\ cmd[r].prog = "CREACC"
  /\ Receive(r, CreaccRejection(cmd[r]), "creacc_inqcust")

CreaccInqcust(r) ==
  /\ pc[r] = "creacc_inqcust"
  /\ IF cmd[r].customer \in DOMAIN customer
       THEN Statement(r, "creacc_inqacccu", NoTx)
       ELSE Refuse(r, Fail("1"))

AtCapacity(c) == Cardinality(DOMAIN FirstPage(c)) > MaxAccountsPerCustomer

CreaccInqacccu(r) ==
  /\ pc[r] = "creacc_inqacccu"
  /\ IF cmd[r].customer \notin DOMAIN customer THEN Refuse(r, Fail("1"))
     ELSE IF AtCapacity(cmd[r].customer) THEN Refuse(r, Fail("8"))
     ELSE Statement(r, "begin", NoTx)

\* What CREACC answers when contention ends one of its inquiries. INQCUST runs
\* outside with_retry, so that its first 40001 is an error like any other.
\* INQACCCU has a with_retry of its own; what CREACC sees of it is that it is
\* exhausted, and a 40001 that is retried leaves CREACC where it was.
CreaccContention == [creacc_inqcust |-> Abend("CVR1"), creacc_inqacccu |-> XRTY]

\* 40001 in an inquiry. It is not CREACC's own transaction that fails, so
\* nothing is run again.
CreaccSerializationFailure(r) ==
  /\ pc[r] \in DOMAIN CreaccContention
  /\ Refuse(r, CreaccContention[pc[r]])

CreaccBegin(r) == cmd[r].prog = "CREACC" /\ Begin(r, "creacc_reserve")

CreaccReserve(r) ==
  /\ pc[r] = "creacc_reserve"
  /\ ReserveNumber(r, "creacc_insert",
       [control EXCEPT !.account_count = @ + 1, !.account_last = @ + 1])

NewAccount(c) ==
  [customer |-> c.customer, type |-> c.type, overdraft |-> c.overdraft,
   available |-> c.available, actual |-> c.actual]

\* Mutant of Exhausted: off by one.
NearlyExhausted(a) == a > MaxAccountNumber + 1

\* The account number does not fit its column.
Exhausted(a) == a > MaxAccountNumber

\* The number must still fit, and the insert meet the primary key and the
\* foreign key to customer.
CreaccInsert(r) ==
  /\ pc[r] = "creacc_insert"
  /\ LET a == tx[r].control.account_last
         c == cmd[r]
     IN /\ Free(r, AccountKey(a))
        /\ IF Exhausted(a) THEN Refuse(r, Abend("HNCS"))
           ELSE IF a \in DOMAIN account \/ c.customer \notin DOMAIN customer
             THEN Refuse(r, Fail("7"))
           ELSE Statement(r, "creacc_proctran",
                  [tx[r] EXCEPT !.held = @ \cup {AccountKey(a)},
                                !.account = Overlay(@, a, NewAccount(c))])

\* The audit record of a new account has amount zero, whatever it opens with.
CreaccProctran(r) ==
  /\ pc[r] = "creacc_proctran"
  /\ InsertProctran(r, "commit", "OCA", 0)

CreaccStep(r) ==
  \/ CreaccReceive(r)
  \/ CreaccInqcust(r)
  \/ CreaccInqacccu(r)
  \/ CreaccBegin(r)
  \/ CreaccReserve(r)
  \/ CreaccInsert(r)
  \/ CreaccProctran(r)
=============================================================================
