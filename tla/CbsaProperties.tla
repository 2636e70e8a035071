---------------------------- MODULE CbsaProperties -----------------------------
(***************************************************************************)
(* What must be true of the service when its requests interleave, fail and *)
(* are retried.                                                            *)
(***************************************************************************)
EXTENDS Cbsa

LabelsOf ==
  [XFRFUN |-> DOMAIN XfrfunErrors, DBCRFUN |-> DOMAIN DbcrfunErrors,
   UPDACC |-> DOMAIN UpdaccErrors, DELACC |-> DOMAIN DelaccErrors,
   UPDCUST |-> DOMAIN UpdcustErrors, DELCUS |-> DOMAIN DelcusErrors,
   CREACC |-> DOMAIN CreaccErrors,
   CRECUST |-> DOMAIN CrecustErrors \cup {"crecust_credit"}]

SharedLabels == {"idle", "begin", "commit", "done", "lost"}

IsTransaction(t) ==
  /\ DOMAIN t = DOMAIN NoTx
  /\ t.held \subseteq LockKeys
  /\ IsCustomerTable(t.customer) /\ DOMAIN t.customer \subseteq 1 .. MaxCustomerNumber
  /\ IsAccountTable(t.account) /\ DOMAIN t.account \subseteq 1 .. MaxAccountNumber
  /\ t.control \in Control
  /\ t.proctran \in Seq(AuditRow)
  /\ IsAccountTable(t.list)
  /\ t.queue \subseteq Nat

\* The tables, and the rows every transaction is about to install, are rows the
\* schema allows: every balance fits NUMERIC(12,2) and every number its key
\* range; a request is at a statement of its own program.
TypeOK ==
  /\ IsCustomerTable(customer) /\ DOMAIN customer \subseteq 1 .. MaxCustomerNumber
  /\ IsAccountTable(account) /\ DOMAIN account \subseteq 1 .. MaxAccountNumber
  /\ control \in Control
  /\ proctran \in Seq(AuditRow)
  /\ cmd \in [Requests -> Commands]
  /\ DOMAIN pc = Requests
  /\ \A r \in Requests : pc[r] \in LabelsOf[cmd[r].prog] \cup SharedLabels
  /\ attempts \in [Requests -> 0 .. MaxAttempts]
  /\ DOMAIN tx = Requests
  /\ \A r \in Requests : IsTransaction(tx[r])
  /\ reply \in [Requests -> Replies]
  /\ faults \in 0 .. MaxFaults

-----------------------------------------------------------------------------
(* Locks.                                                                  *)

\* Control row, then customers, then accounts, each by ascending number.
RowBefore(h, k) == h[1] < k[1] \/ (h[1] = k[1] /\ h[2] < k[2])

\* A request locks rows in one global order, whatever its program: XFRFUN sorts
\* its two accounts (the COBOL deadlock avoidance), DELCUS goes from the
\* customer to the accounts by number, CREACC and CRECUST start with the control
\* row. No two requests can then wait for each other's locks in a circle.
LockOrder ==
  [][\A r \in Requests :
       \A k \in tx'[r].held \ tx[r].held :
         \A h \in tx[r].held : RowBefore(h, k)]_vars

\* No row belongs to two transactions, so no update is lost: what a transaction
\* computes from a row it locked is installed over that same row.
RowsHaveOneWriter ==
  \A q, r \in Requests :
    q # r => tx[q].held \cap tx[r].held = {}

-----------------------------------------------------------------------------
(* Tables against each other.                                              *)

\* No account without its customer, although CREACC checks the customer long
\* before it inserts and DELCUS lists the accounts without locking them.
ReferentialIntegrity ==
  \A a \in DOMAIN account : account[a].customer \in DOMAIN customer

\* CREACC refuses a customer who has more than MAX_ACCOUNTS_PER_CUSTOMER
\* accounts, because that customer "already has the maximum number of accounts".
\* So nobody should come to have more than the number it refuses at.
CapacityRespected ==
  \A c \in DOMAIN customer :
    Cardinality(AccountsOf(c)) <= MaxAccountsPerCustomer + 1

\* The positions of the audit rows a step adds, and of those of some types.
Appended == Len(proctran) + 1 .. Len(proctran')
AppendedRows(types) == {i \in Appended : proctran'[i].type \in types}

Surviving == DOMAIN account \cap DOMAIN account'
Closed == DOMAIN account \ DOMAIN account'

\* What the added audit row at position i says of account a: a transfer takes
\* its amount from one account and gives it to the other, a posting adds it.
Booked(i, a) ==
  LET row == proctran'[i]
      c == cmd[row.ref]
  IN  IF row.type = "TFR"
        THEN IF a = c.from THEN -row.amount ELSE IF a = c.to THEN row.amount ELSE 0
      ELSE IF row.type \in {"DEB", "PDR", "CRE", "PCR"} /\ a = c.account
        THEN row.amount
      ELSE 0

MovesAsAudited ==
  \A a \in Surviving :
    LET moved == account'[a].actual - account[a].actual
        entries == {i \in Appended : Booked(i, a) # 0}
    IN  /\ account'[a].available - account[a].available = moved
        /\ entries = {} => moved = 0
        /\ \A i \in entries : entries = {i} /\ moved = Booked(i, a)

\* Money is neither made nor lost: in every step both balances of an account
\* that stays move together, by exactly what the one audit row of that step
\* about the account says, and not at all when there is none.
MoneyIsAudited == [][MovesAsAudited]_vars

ClosesAsAudited ==
  /\ Cardinality(AppendedRows({"ODA"})) = Cardinality(Closed)
  /\ \A a \in Closed :
       LET i == Len(proctran) + 1 + Cardinality({b \in Closed : b < a})
       IN  i \in AppendedRows({"ODA"}) /\ proctran'[i].amount = account[a].actual

\* An account is closed with the balance it has at that moment, not the one
\* that was read when its row, or the list of the customer's accounts, was
\* fetched. The ODA rows of a step are those of the accounts it closes, by
\* ascending number, and nothing else.
ClosingBalanceIsAudited == [][ClosesAsAudited]_vars

IssuesInTurn ==
  /\ DOMAIN account' \ DOMAIN account
       = control.account_last + 1 .. control'.account_last
  /\ DOMAIN customer' \ DOMAIN customer
       = control.customer_last + 1 .. control'.customer_last
  /\ Cardinality(AppendedRows({"OCA"}))
       = control'.account_last - control.account_last
  /\ Cardinality(AppendedRows({"OCC"}))
       = control'.customer_last - control.customer_last

\* New customers and accounts get the next number of the control row, one
\* number each, with one OCC or OCA row each, and no number twice: not when
\* attempts fail after reserving one, and not after the row was deleted.
NumbersAreIssuedOnce == [][IssuesInTurn]_vars

DebitsAreFunded ==
  \A i \in Appended :
    LET row == proctran'[i]
        c == cmd[row.ref]
    IN  /\ row.type = "TFR" =>
             /\ account'[c.from].available >= 0
             /\ account'[c.from].actual >= -account'[c.from].overdraft
        /\ row.type = "PDR" => account'[c.account].available >= 0

\* A transfer or a payment debit never leaves the account it takes from without
\* funds, against the balance and the overdraft limit in force when it commits.
NoUnfundedDebit == [][DebitsAreFunded]_vars

-----------------------------------------------------------------------------
(* Replies.                                                                *)

MainType(c) ==
  CASE c.prog = "XFRFUN" -> "TFR"
    [] c.prog = "DBCRFUN" -> DbcrfunTranType(c)
    [] c.prog = "UPDACC" -> "OUA"
    [] c.prog = "DELACC" -> "ODA"
    [] c.prog = "UPDCUST" -> "OUC"
    [] c.prog = "DELCUS" -> "ODC"
    [] c.prog = "CREACC" -> "OCA"
    [] c.prog = "CRECUST" -> "OCC"

\* The positions of the audit rows of request r.
EntriesOf(r) == {i \in DOMAIN proctran : proctran[i].ref = r}

AppliedTimes(r) ==
  Cardinality({i \in EntriesOf(r) : proctran[i].type = MainType(cmd[r])})

\* What the client is told is what happened: success means applied exactly
\* once, however many attempts it took; any other reply, and no reply yet,
\* means not at all. Only UNEX and silence after a broken COMMIT leave it open,
\* and even then the command was not applied twice.
ReplyIsTruthful ==
  \A r \in Requests :
    IF reply[r] = Success THEN AppliedTimes(r) = 1
    ELSE IF reply[r] = UNEX \/ pc[r] = "lost" THEN AppliedTimes(r) <= 1
    ELSE EntriesOf(r) = {}

\* Every request ends, answered or dropped: no wait for a lock goes in circles,
\* even if CockroachDB broke none, and with_retry gives up in the end.
EveryRequestEnds ==
  \A r \in Requests : <>(pc[r] \in {"done", "lost"})

-----------------------------------------------------------------------------
(* The service is a bank that handles one request at a time.               *)

AtomicBank ==
  INSTANCE Bank WITH
    phase <- [r \in Requests |-> IF pc[r] \in {"done", "lost"} THEN pc[r] ELSE "open"]

\* Every request takes effect in one step of the abstract bank, on the tables
\* of that moment, and every refusal is justified by the tables of a moment
\* between the arrival of the request and the reply.
ImplementsAtomicBank == AtomicBank!Spec
=============================================================================
