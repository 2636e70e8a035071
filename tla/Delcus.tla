-------------------------------- MODULE Delcus --------------------------------
(***************************************************************************)
(* DELCUS: delete a customer and every account of theirs. The customer row *)
(* is locked; the accounts are listed by a query that locks nothing, then  *)
(* deleted one by one, each with an audit record of the balance that was   *)
(* listed.                                                                 *)
(***************************************************************************)
EXTENDS Transactions

DelcusCommands == [prog : {"DELCUS"}, customer : Nat]

DelcusErrors ==
  [delcus_lock |-> {Abend("WPV6")}, delcus_list |-> {Abend("WPV6")},
   delcus_delete |-> {Abend("WPV7")}, delcus_audit |-> {HWPT},
   delcus_proctran |-> {HWPT}]

DelcusRejection(c) ==
  IF c.customer \in 1 .. MaxCustomerNumber THEN None ELSE Invalid

DelcusReceive(r) ==
  /\ cmd[r].prog = "DELCUS"
  /\ Receive(r, DelcusRejection(cmd[r]), "begin")

DelcusBegin(r) == cmd[r].prog = "DELCUS" /\ Begin(r, "delcus_lock")

DelcusLock(r) ==
  /\ pc[r] = "delcus_lock"
  /\ LockCustomer(r, "delcus_list", cmd[r].customer, Fail("1"))

DelcusList(r) ==
  /\ pc[r] = "delcus_list"
  /\ LET page == FirstPage(cmd[r].customer) IN
     Statement(r, "delcus_delete",
       [tx[r] EXCEPT !.list = page, !.queue = DOMAIN page])

\* Mutant of IsNext: the accounts are taken from the highest number down.
IsHighest(a, queue) == a \in queue /\ \A b \in queue : a >= b

\* The loop goes through the listed accounts by ascending number.
IsNext(a, queue) == a \in queue /\ \A b \in queue : a <= b

\* DELETE FROM account. When the row is gone by now (0 rows) the loop goes on
\* with the next account and writes no audit record.
DelcusDeleteAccount(r) ==
  /\ pc[r] = "delcus_delete"
  /\ \E a \in tx[r].queue :
       /\ IsNext(a, tx[r].queue)
       /\ Free(r, AccountKey(a))
       /\ IF a \in DOMAIN account
            THEN Statement(r, "delcus_audit",
                   [tx[r] EXCEPT !.held = @ \cup {AccountKey(a)}])
            ELSE Statement(r, "delcus_delete", [tx[r] EXCEPT !.queue = @ \ {a}])

DelcusAuditAccount(r) ==
  /\ pc[r] = "delcus_audit"
  /\ \E a \in tx[r].queue :
       /\ IsNext(a, tx[r].queue)
       /\ Statement(r, "delcus_delete",
            [tx[r] EXCEPT !.queue = @ \ {a},
                          !.proctran = Append(@, Audit(r, "ODA", tx[r].list[a].actual))])

\* DELETE FROM customer. The foreign key of table account refuses it while the
\* customer has an account this transaction has not deleted. It looks at the
\* same snapshot as the listing; if the listing is stale by now, the statement
\* ends with 40001.
DelcusDeleteCustomer(r) ==
  /\ pc[r] = "delcus_delete"
  /\ tx[r].queue = {}
  /\ IF FirstPage(cmd[r].customer) # tx[r].list
       THEN RetryOrGiveUp(r)
     ELSE IF AccountsOf(cmd[r].customer) \subseteq KeysOf(2, tx[r].held)
       THEN Statement(r, "delcus_proctran",
              [tx[r] EXCEPT !.customer = Without(@, cmd[r].customer)])
     ELSE Refuse(r, Abend("WPV7"))

DelcusProctran(r) ==
  /\ pc[r] = "delcus_proctran"
  /\ InsertProctran(r, "commit", "ODC", 0)

DelcusStep(r) ==
  \/ DelcusReceive(r)
  \/ DelcusBegin(r)
  \/ DelcusLock(r)
  \/ DelcusList(r)
  \/ DelcusDeleteAccount(r)
  \/ DelcusAuditAccount(r)
  \/ DelcusDeleteCustomer(r)
  \/ DelcusProctran(r)
=============================================================================
