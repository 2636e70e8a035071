-------------------------------- MODULE Dbcrfun -------------------------------
(***************************************************************************)
(* DBCRFUN: post a credit (amount >= 0) or a debit (amount < 0) to an      *)
(* account, at a counter or through the payment facility (type 496).       *)
(* service/dbcrfun.rs validates, repository/dbcrfun.rs runs the            *)
(* transaction.                                                            *)
(***************************************************************************)
EXTENDS Transactions

DbcrfunCommands ==
  [prog : {"DBCRFUN"}, account : Nat, amount : Int, payment : BOOLEAN]

DbcrfunErrors ==
  [dbcr_lock |-> {Abend("HRAC")}, dbcr_update |-> {Abend("HUAC")},
   dbcr_proctran |-> {HWPT}]

DbcrfunRejection(c) ==
  IF c.account \in 0 .. MaxAccountNumber /\ c.amount \in Money
    THEN None ELSE Invalid

DbcrfunReceive(r) ==
  /\ cmd[r].prog = "DBCRFUN"
  /\ Receive(r, DbcrfunRejection(cmd[r]), "begin")

DbcrfunBegin(r) == cmd[r].prog = "DBCRFUN" /\ Begin(r, "dbcr_lock")

DbcrfunLock(r) ==
  /\ pc[r] = "dbcr_lock"
  /\ LockAccount(r, "dbcr_update", cmd[r].account, Fail("1"))

RestrictedTypes == {"MORTGAGE", "LOAN"}

\* Only a payment debit is checked against the available balance; a counter
\* withdrawal is not, and neither looks at the overdraft.
Unfunded(c, row) == c.payment /\ c.amount < 0 /\ row.available < 0

DbcrfunUpdate(r) ==
  /\ pc[r] = "dbcr_update"
  /\ LET c == cmd[r]
         row == tx[r].account[c.account]
         posted == Moved(row, c.amount)
     IN IF c.payment /\ row.type \in RestrictedTypes
          THEN Refuse(r, Fail("4"))
        ELSE IF Unfunded(c, posted)
          THEN Refuse(r, Fail("3"))
        ELSE IF Representable(posted)
          THEN Statement(r, "dbcr_proctran",
                 [tx[r] EXCEPT !.account = Overlay(@, c.account, posted)])
        ELSE Refuse(r, Abend("HUAC"))

DbcrfunTranType(c) ==
  IF c.amount < 0 THEN IF c.payment THEN "PDR" ELSE "DEB"
                  ELSE IF c.payment THEN "PCR" ELSE "CRE"

DbcrfunProctran(r) ==
  /\ pc[r] = "dbcr_proctran"
  /\ InsertProctran(r, "commit", DbcrfunTranType(cmd[r]), cmd[r].amount)

DbcrfunStep(r) ==
  \/ DbcrfunReceive(r)
  \/ DbcrfunBegin(r)
  \/ DbcrfunLock(r)
  \/ DbcrfunUpdate(r)
  \/ DbcrfunProctran(r)
=============================================================================
