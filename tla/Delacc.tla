-------------------------------- MODULE Delacc --------------------------------
(***************************************************************************)
(* DELACC: delete one account and record its closing balance in the audit  *)
(* trail. control.account_count is not decremented.                        *)
(***************************************************************************)
EXTENDS Transactions

DelaccCommands == [prog : {"DELACC"}, account : Nat]

DelaccErrors ==
  [delacc_lock |-> {Abend("HRAC")}, delacc_delete |-> {Fail("3")},
   delacc_proctran |-> {HWPT}]

DelaccRejection(c) ==
  IF c.account \in 0 .. MaxAccountNumber THEN None ELSE Invalid

DelaccReceive(r) ==
  /\ cmd[r].prog = "DELACC"
  /\ Receive(r, DelaccRejection(cmd[r]), "begin")

DelaccBegin(r) == cmd[r].prog = "DELACC" /\ Begin(r, "delacc_lock")

DelaccLock(r) ==
  /\ pc[r] = "delacc_lock"
  /\ LockAccount(r, "delacc_delete", cmd[r].account, Fail("1"))

\* The row that was read stays in a local variable for the audit record.
DelaccDelete(r) ==
  /\ pc[r] = "delacc_delete"
  /\ Statement(r, "delacc_proctran",
       [tx[r] EXCEPT !.list = tx[r].account,
                     !.account = Without(@, cmd[r].account)])

DelaccProctran(r) ==
  /\ pc[r] = "delacc_proctran"
  /\ InsertProctran(r, "commit", "ODA", tx[r].list[cmd[r].account].actual)

DelaccStep(r) ==
  \/ DelaccReceive(r)
  \/ DelaccBegin(r)
  \/ DelaccLock(r)
  \/ DelaccDelete(r)
  \/ DelaccProctran(r)
=============================================================================
