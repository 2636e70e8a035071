----------------------------- MODULE CbsaKnowledge -----------------------------
(***************************************************************************)
(* Why the service implements the bank: what a transaction has computed at *)
(* each statement of its program, in terms of the tables as they are now.  *)
(* The rows it holds are still what they were when it locked them, so what *)
(* COMMIT installs is what the bank would do in one step at that moment.   *)
(* The theorems of CbsaBankProofs rest on this invariant.                  *)
(***************************************************************************)
EXTENDS CbsaInvariant

\* The transaction has the row as the table has it.
HasAccount(t, a) == a \in DOMAIN account /\ t.account[a] = account[a]

XfrfunKnows(c, p, t) ==
  /\ p = "xfr_from" /\ ~(c.from < c.to) => HasAccount(t, c.to)
  /\ p = "xfr_to" /\ c.from < c.to => HasAccount(t, c.from)
  /\ p = "xfr_debit" => HasAccount(t, c.from)
  /\ p \in {"xfr_debit", "xfr_credit"} => HasAccount(t, c.to)
  /\ p \in {"xfr_credit", "xfr_proctran", "commit"} =>
       /\ c.from \in DOMAIN account
       /\ t.account[c.from] = Moved(account[c.from], -c.amount)
       /\ ~Insufficient(t.account[c.from])
  /\ p \in {"xfr_proctran", "commit"} =>
       /\ c.to \in DOMAIN account
       /\ t.account[c.to] = Moved(account[c.to], c.amount)
       /\ Representable(t.account[c.to])

DbcrfunKnows(c, p, t) ==
  /\ p = "dbcr_update" => HasAccount(t, c.account)
  /\ p \in {"dbcr_proctran", "commit"} =>
       /\ c.account \in DOMAIN account
       /\ t.account[c.account] = Moved(account[c.account], c.amount)
       /\ Representable(t.account[c.account])
       /\ ~(c.payment /\ account[c.account].type \in RestrictedTypes)
       /\ ~Unfunded(c, t.account[c.account])

UpdaccKnows(c, p, t) ==
  /\ p = "updacc_update" => HasAccount(t, c.account)
  /\ p \in {"updacc_proctran", "commit"} =>
       /\ c.account \in DOMAIN account
       /\ t.account[c.account] = [account[c.account] EXCEPT !.type = c.type,
                                                            !.overdraft = c.overdraft]

DelaccKnows(c, p, t) ==
  /\ p = "delacc_delete" => HasAccount(t, c.account)
  /\ p \in {"delacc_proctran", "commit"} => c.account \in DOMAIN account
  /\ p = "delacc_proctran" => t.list[c.account] = account[c.account]

UpdcustKnows(c, p, t) ==
  /\ p = "updcust_update" => /\ c.customer \in DOMAIN customer
                             /\ t.customer[c.customer] = customer[c.customer]
  /\ p \in {"updcust_proctran", "commit"} =>
       /\ c.customer \in DOMAIN customer
       /\ t.customer[c.customer] = ResolvedFields(customer[c.customer], c)
       /\ ~({c.name, c.address} \subseteq BlankishTexts)

CreaccKnows(c, p, t) ==
  /\ p \in {"creacc_insert", "creacc_proctran", "commit"} =>
       t.control = [control EXCEPT !.account_count = @ + 1, !.account_last = @ + 1]
  /\ p \in {"creacc_proctran", "commit"} =>
       /\ ~Exhausted(t.control.account_last)
       /\ t.account[t.control.account_last] = NewAccount(c)

CrecustKnows(c, p, t) ==
  /\ p \in {"crecust_insert", "crecust_proctran", "commit"} =>
       t.control = [control EXCEPT !.customer_count = @ + 1, !.customer_last = @ + 1]
  /\ p \in {"crecust_proctran", "commit"} =>
       /\ ~(t.control.customer_last > MaxCustomerNumber)
       /\ t.customer[t.control.customer_last] = [name |-> c.name, address |-> c.address]

\* The accounts DELCUS has deleted and audited.
AuditedAccounts(t) == KeysOf(2, t.held) \ t.queue

\* The n-th of the first audit rows closes the n-th account of S.
AuditsInOrder(r, rows, list, S) ==
  /\ Cardinality(S) <= Len(rows)
  /\ \A n \in 1 .. Cardinality(S) :
       \E a \in S : /\ Cardinality({b \in S : b < a}) = n - 1
                    /\ rows[n] = Audit(r, "ODA", list[a].actual)

\* A listed account that was passed over is gone for good: its number has been
\* issued, so no later account can have it.
DelcusKnows(r, c, p, t) ==
  /\ p \in {"delcus_list", "delcus_delete", "delcus_audit", "delcus_proctran", "commit"} =>
       c.customer \in DOMAIN customer
  /\ p = "delcus_list" => t.proctran = <<>>
  /\ p \in {"delcus_delete", "delcus_audit", "delcus_proctran", "commit"} =>
       /\ DOMAIN t.list \subseteq 1 .. control.account_last
       /\ KeysOf(2, t.held) \subseteq DOMAIN t.list
       /\ \A a \in DOMAIN t.list :
            a \in t.queue \/ a \in KeysOf(2, t.held) \/ a \notin DOMAIN account
       /\ AuditsInOrder(r, t.proctran, t.list, AuditedAccounts(t))
       /\ Len(t.proctran) = Cardinality(AuditedAccounts(t)) + IF p = "commit" THEN 1 ELSE 0
  /\ p = "delcus_audit" =>
       \E a \in t.queue : IsNext(a, t.queue) /\ a \in KeysOf(2, t.held)
  /\ p \in {"delcus_proctran", "commit"} => t.queue = {} /\ DOMAIN t.customer = {}
  /\ p = "commit" => t.proctran[Len(t.proctran)] = Audit(r, "ODC", 0)

MainAmount(c) ==
  IF c.prog \in {"XFRFUN", "DBCRFUN"} THEN c.amount
  ELSE IF c.prog = "DELACC" THEN account[c.account].actual
  ELSE 0

\* Every other program writes one audit row, with its last statement.
AuditedLast(r, c, p, t) ==
  c.prog # "DELCUS" =>
    t.proctran = IF p = "commit" THEN <<Audit(r, MainType(c), MainAmount(c))>> ELSE <<>>

\* Request r with command c, at label p, has computed t from the tables.
Knows(r, c, p, t) ==
  /\ AuditedLast(r, c, p, t)
  /\ c.prog = "XFRFUN" => XfrfunKnows(c, p, t)
  /\ c.prog = "DBCRFUN" => DbcrfunKnows(c, p, t)
  /\ c.prog = "UPDACC" => UpdaccKnows(c, p, t)
  /\ c.prog = "DELACC" => DelaccKnows(c, p, t)
  /\ c.prog = "UPDCUST" => UpdcustKnows(c, p, t)
  /\ c.prog = "DELCUS" => DelcusKnows(r, c, p, t)
  /\ c.prog = "CREACC" => CreaccKnows(c, p, t)
  /\ c.prog = "CRECUST" => CrecustKnows(c, p, t)

EachKnows == \A r \in Requests : Knows(r, cmd[r], pc[r], tx[r])

\* Every number in use has been issued by the control row.
NumbersWereIssued ==
  /\ DOMAIN customer \subseteq 1 .. control.customer_last
  /\ DOMAIN account \subseteq 1 .. control.account_last

\* Nobody has a reply before the request ends.
RepliesComeLast == \A r \in Requests : pc[r] # "done" => reply[r] = None

BankInvariant ==
  SharedInvariant /\ EachKnows /\ NumbersWereIssued /\ RepliesComeLast
=============================================================================
