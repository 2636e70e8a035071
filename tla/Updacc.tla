-------------------------------- MODULE Updacc --------------------------------
(***************************************************************************)
(* UPDACC: change the type, interest rate and overdraft limit of an        *)
(* account. Its balances are read under the lock and not written.          *)
(***************************************************************************)
EXTENDS Transactions

UpdaccCommands ==
  [prog : {"UPDACC"}, account : Nat, type : AccountTypes \cup {""}, overdraft : Overdrafts]

UpdaccErrors ==
  [updacc_lock |-> {Abend("HRAC")}, updacc_update |-> {Abend("HUAC")},
   updacc_proctran |-> {HWPT}]

\* "" stands for a type that is blank or starts with a space.
UpdaccRejection(c) ==
  IF c.account \in 0 .. MaxAccountNumber
    THEN IF c.type = "" THEN Fail("2") ELSE None
    ELSE Invalid

UpdaccReceive(r) ==
  /\ cmd[r].prog = "UPDACC"
  /\ Receive(r, UpdaccRejection(cmd[r]), "begin")

UpdaccBegin(r) == cmd[r].prog = "UPDACC" /\ Begin(r, "updacc_lock")

UpdaccLock(r) ==
  /\ pc[r] = "updacc_lock"
  /\ LockAccount(r, "updacc_update", cmd[r].account, Fail("1"))

UpdaccUpdate(r) ==
  /\ pc[r] = "updacc_update"
  /\ LET c == cmd[r]
         updated == [tx[r].account[c.account] EXCEPT !.type = c.type,
                                                     !.overdraft = c.overdraft]
     IN Statement(r, "updacc_proctran",
          [tx[r] EXCEPT !.account = Overlay(@, c.account, updated)])

UpdaccProctran(r) ==
  /\ pc[r] = "updacc_proctran"
  /\ InsertProctran(r, "commit", "OUA", 0)

UpdaccStep(r) ==
  \/ UpdaccReceive(r)
  \/ UpdaccBegin(r)
  \/ UpdaccLock(r)
  \/ UpdaccUpdate(r)
  \/ UpdaccProctran(r)
=============================================================================
