-------------------------------- MODULE Xfrfun --------------------------------
(***************************************************************************)
(* XFRFUN: move an amount from one account to another.                     *)
(* service/xfrfun.rs validates; repository/xfrfun.rs runs the transaction. *)
(***************************************************************************)
EXTENDS Transactions

XfrfunCommands == [prog : {"XFRFUN"}, from : Nat, to : Nat, amount : Int]

\* Replies to a database error other than 40001, by statement.
XfrfunErrors ==
  [xfr_from |-> {Abend("FROM")}, xfr_to |-> {Abend("TO  ")},
   xfr_debit |-> {Abend("FROM")}, xfr_credit |-> {Abend("TO  ")},
   xfr_proctran |-> {HWPT}]

XfrfunRejection(c) ==
  IF {c.from, c.to} \subseteq 0 .. MaxAccountNumber /\ c.amount \in Money
    THEN IF c.amount <= 0 THEN Fail("4")
         ELSE IF c.from = c.to THEN Abend("SAME")
         ELSE None
    ELSE Invalid

XfrfunReceive(r) ==
  /\ cmd[r].prog = "XFRFUN"
  /\ Receive(r, XfrfunRejection(cmd[r]), "begin")

\* Mutant of FirstRole: the account the money comes from is locked first.
FromFirst(c) == "xfr_from"

\* COBOL order: the lower account number is locked first.
FirstRole(c) == IF c.from < c.to THEN "xfr_from" ELSE "xfr_to"

XfrfunBegin(r) == cmd[r].prog = "XFRFUN" /\ Begin(r, FirstRole(cmd[r]))

\* After the first of the two locks comes the other one, then the update.
AfterLock(c, role) ==
  IF role # FirstRole(c) THEN "xfr_debit"
  ELSE IF role = "xfr_from" THEN "xfr_to" ELSE "xfr_from"

XfrfunLockFrom(r) ==
  /\ pc[r] = "xfr_from"
  /\ LockAccount(r, AfterLock(cmd[r], "xfr_from"), cmd[r].from, Fail("1"))

XfrfunLockTo(r) ==
  /\ pc[r] = "xfr_to"
  /\ LockAccount(r, AfterLock(cmd[r], "xfr_to"), cmd[r].to, Fail("2"))

\* Mutant of Insufficient: either balance is enough.
ShortOfBoth(row) == row.available < 0 /\ row.actual < -row.overdraft

Insufficient(row) == row.available < 0 \/ row.actual < -row.overdraft

XfrfunDebit(r) ==
  /\ pc[r] = "xfr_debit"
  /\ LET from == cmd[r].from
         debited == Moved(tx[r].account[from], -cmd[r].amount)
     IN IF Insufficient(debited)
          THEN Refuse(r, Fail("3"))
        ELSE IF Representable(debited)
          THEN Statement(r, "xfr_credit",
                 [tx[r] EXCEPT !.account = Overlay(@, from, debited)])
        ELSE Refuse(r, Abend("FROM"))

XfrfunCredit(r) ==
  /\ pc[r] = "xfr_credit"
  /\ LET to == cmd[r].to
         credited == Moved(tx[r].account[to], cmd[r].amount)
     IN IF Representable(credited)
          THEN Statement(r, "xfr_proctran",
                 [tx[r] EXCEPT !.account = Overlay(@, to, credited)])
          ELSE Refuse(r, Abend("TO  "))

XfrfunProctran(r) ==
  /\ pc[r] = "xfr_proctran"
  /\ InsertProctran(r, "commit", "TFR", cmd[r].amount)

XfrfunStep(r) ==
  \/ XfrfunReceive(r)
  \/ XfrfunBegin(r)
  \/ XfrfunLockFrom(r)
  \/ XfrfunLockTo(r)
  \/ XfrfunDebit(r)
  \/ XfrfunCredit(r)
  \/ XfrfunProctran(r)
=============================================================================
