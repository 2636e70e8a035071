---------------------------- MODULE CbsaAuditProofs ----------------------------
(***************************************************************************)
(* The audit trail is true: what a step does to the tables is what the rows *)
(* it adds to proctran say, and what a client is told is what those rows    *)
(* show. The theorems follow from the refinement: the tables change only    *)
(* when the command of a request takes effect as a whole.                   *)
(***************************************************************************)
EXTENDS CbsaBankProofs

-----------------------------------------------------------------------------
(* The rows a COMMIT adds.                                                 *)

\* The tables change at COMMIT and never else.
LEMMA OnlyCommitsChangeTables ==
  ASSUME BankInvariant, [Next]_vars
  PROVE  UNCHANGED tables \/ \E r \in Requests : Installs(r)
<1>1. ASSUME NEW r \in Requests, Progress(r) \/ Trouble(r)
      PROVE  UNCHANGED tables \/ Installs(r)
  BY <1>1, StepBanks DEF Banks, Moves, AnswersTruly, Answer, Drops, Commits
<1>2. UNCHANGED vars => UNCHANGED tables
  BY DEF vars, tables
<1>3. QED
  BY <1>1, <1>2 DEF Next, Idle

\* The rows come after those that are there.
LEMMA RowsAppended ==
  ASSUME BankInvariant, NEW r \in Requests, Installs(r)
  PROVE  /\ proctran \in Seq(AuditRow) /\ tx[r].proctran \in Seq(AuditRow)
         /\ Len(proctran') = Len(proctran) + Len(tx[r].proctran)
         /\ DOMAIN proctran' = 1 .. Len(proctran')
         /\ \A i \in 1 .. Len(proctran) : proctran'[i] = proctran[i]
         /\ \A i \in 1 .. Len(tx[r].proctran) :
              proctran'[Len(proctran) + i] = tx[r].proctran[i]
<1> DEFINE rows == tx[r].proctran
<1>1. rows \in Seq(AuditRow) /\ proctran \in Seq(AuditRow) /\ proctran' = proctran \o rows
  BY AtCommit, Facts DEF IsTransaction, Installs, Install
<1> HIDE DEF rows
<1>2. /\ proctran \o rows \in Seq(AuditRow)
      /\ Len(proctran \o rows) = Len(proctran) + Len(rows)
      /\ \A i \in 1 .. Len(proctran) + Len(rows) :
           (proctran \o rows)[i] = IF i <= Len(proctran) THEN proctran[i]
                                                         ELSE rows[i - Len(proctran)]
  BY <1>1, ConcatProperties, Zenon
<1>3. Len(proctran) \in Nat /\ Len(rows) \in Nat
  BY <1>1
<1>4. proctran' \in Seq(AuditRow)
  BY <1>1, <1>2, Zenon
<1>5. DOMAIN proctran' = 1 .. Len(proctran')
  BY <1>4
<1>6. Len(proctran') = Len(proctran) + Len(rows)
  BY <1>1, <1>2, Zenon
<1>7. \A i \in 1 .. Len(proctran) + Len(rows) :
        proctran'[i] = IF i <= Len(proctran) THEN proctran[i] ELSE rows[i - Len(proctran)]
  BY <1>1, <1>2, Zenon
<1>8. \A i \in 1 .. Len(proctran) : proctran'[i] = proctran[i]
  BY <1>3, <1>7
<1>9. ASSUME NEW i \in 1 .. Len(rows)
      PROVE  proctran'[Len(proctran) + i] = rows[i]
  <2>1. Len(proctran) + i \in 1 .. Len(proctran) + Len(rows) /\ ~(Len(proctran) + i <= Len(proctran))
    BY <1>3
  <2>2. (Len(proctran) + i) - Len(proctran) = i
    BY <1>3
  <2>3. QED
    BY <1>7, <2>1, <2>2
<1>10. QED
  BY <1>1, <1>5, <1>6, <1>8, <1>9 DEF rows

\* Only DELCUS adds more than one row.
LEMMA RowsOfOtherPrograms ==
  ASSUME BankInvariant, NEW r \in Requests, Installs(r), cmd[r].prog # "DELCUS"
  PROVE  /\ Len(proctran') = Len(proctran) + 1
         /\ proctran'[Len(proctran')] = Audit(r, MainType(cmd[r]), MainAmount(cmd[r]))
<1>1. tx[r].proctran = <<Audit(r, MainType(cmd[r]), MainAmount(cmd[r]))>>
  BY AtCommit DEF AtomicBank!Entry, AtomicBank!Audit, Audit
<1>2. Len(tx[r].proctran) = 1 /\ tx[r].proctran[1] = Audit(r, MainType(cmd[r]), MainAmount(cmd[r]))
  BY <1>1
<1>3. /\ Len(proctran') = Len(proctran) + Len(tx[r].proctran) /\ Len(proctran) \in Nat
      /\ \A i \in 1 .. Len(tx[r].proctran) :
           proctran'[Len(proctran) + i] = tx[r].proctran[i]
  BY RowsAppended
<1>4. 1 \in 1 .. Len(tx[r].proctran)
  BY <1>2
<1>5. QED
  BY <1>2, <1>3, <1>4

\* Those of DELCUS: one for each account, by ascending number, and the last.
LEMMA RowsOfDelcus ==
  ASSUME BankInvariant, NEW r \in Requests, Installs(r), cmd[r].prog = "DELCUS"
  PROVE  LET S == AccountsOf(cmd[r].customer)
         IN  /\ IsFiniteSet(S) /\ S \subseteq Int /\ Cardinality(S) \in Nat
             /\ Len(proctran') = Len(proctran) + Cardinality(S) + 1
             /\ proctran'[Len(proctran')] = Audit(r, "ODC", 0)
             /\ \A i \in 1 .. Cardinality(S) :
                  \E a \in S : /\ Cardinality({b \in S : b < a}) = i - 1
                               /\ proctran'[Len(proctran) + i]
                                    = Audit(r, "ODA", account[a].actual)
<1> DEFINE c == cmd[r]
           t == tx[r]
           n == c.customer
           S == AccountsOf(n)
<1>1. /\ LocalInvariant /\ DelcusHolds(c, "commit", t) /\ DelcusKnows(r, c, "commit", t)
      /\ IsTransaction(t) /\ control \in Control
      /\ FirstPage(n) = t.list /\ S \subseteq KeysOf(2, t.held)
  BY AtCommit DEF Placed, Knows, ReadsStillValid
<1>2. /\ DOMAIN t.list \subseteq 1 .. control.account_last
      /\ KeysOf(2, t.held) \subseteq DOMAIN t.list
      /\ AuditsInOrder(r, t.proctran, t.list, AuditedAccounts(t))
      /\ Len(t.proctran) = Cardinality(AuditedAccounts(t)) + 1
      /\ t.queue = {}
      /\ t.proctran[Len(t.proctran)] = Audit(r, "ODC", 0)
  BY <1>1 DEF DelcusKnows
<1>3. DOMAIN t.list \subseteq S /\ \A a \in DOMAIN t.list : t.list[a] = account[a]
  BY <1>1 DEF FirstPage
<1>4. AuditedAccounts(t) = S /\ DOMAIN t.list = S
  BY <1>1, <1>2, <1>3 DEF AuditedAccounts
<1>5. IsFiniteSet(S) /\ S \subseteq Int
  BY <1>1, <1>2, <1>4, AuditedAreFinite
<1>6. Cardinality(S) \in Nat
  BY <1>5, FS_CardinalityType
<1>7. /\ Len(proctran') = Len(proctran) + Len(t.proctran) /\ Len(proctran) \in Nat
      /\ \A i \in 1 .. Len(t.proctran) : proctran'[Len(proctran) + i] = t.proctran[i]
  BY RowsAppended
<1>8. Len(t.proctran) = Cardinality(S) + 1
  BY <1>2, <1>4
<1>9. proctran'[Len(proctran')] = Audit(r, "ODC", 0)
  BY <1>2, <1>6, <1>7, <1>8
<1>10. ASSUME NEW i \in 1 .. Cardinality(S)
       PROVE  \E a \in S : /\ Cardinality({b \in S : b < a}) = i - 1
                           /\ proctran'[Len(proctran) + i] = Audit(r, "ODA", account[a].actual)
  <2>1. AuditsInOrder(r, t.proctran, t.list, S)
    BY <1>2, <1>4
  <2>2. PICK a \in S : /\ Cardinality({b \in S : b < a}) = i - 1
                       /\ t.proctran[i] = Audit(r, "ODA", t.list[a].actual)
    BY <2>1 DEF AuditsInOrder
  <2>3. proctran'[Len(proctran) + i] = t.proctran[i]
    <3>1. i \in 1 .. Len(t.proctran)
      BY <1>6, <1>8
    <3>2. QED
      BY <1>7, <3>1
  <2>4. t.list[a] = account[a]
    BY <1>3, <1>4
  <2>5. QED
    BY <2>2, <2>3, <2>4
<1>11. Len(proctran') = Len(proctran) + Cardinality(S) + 1
  BY <1>6, <1>7, <1>8
<1>12. QED
  BY <1>5, <1>6, <1>9, <1>10, <1>11, Zenon

\* What every added row says of its request; only the last has its main type.
LEMMA RowsTellTheirRequest ==
  ASSUME BankInvariant, NEW r \in Requests, Installs(r)
  PROVE  /\ Len(proctran) \in Nat /\ Len(proctran') \in Nat
         /\ Len(proctran) < Len(proctran')
         /\ Len(proctran') \in Appended
         /\ proctran'[Len(proctran')] = Audit(r, MainType(cmd[r]), MainAmount(cmd[r]))
         /\ \A i \in Appended : i # Len(proctran') =>
              /\ cmd[r].prog = "DELCUS"
              /\ \E amount : proctran'[i] = Audit(r, "ODA", amount)
<1>1. Len(proctran) \in Nat
  BY RowsAppended
<1>2. CASE cmd[r].prog # "DELCUS"
  <2>1. Len(proctran') = Len(proctran) + 1
    BY <1>2, RowsOfOtherPrograms
  <2>2. \A i \in Appended : i = Len(proctran')
    BY <1>1, <2>1 DEF Appended
  <2>3. QED
    BY <1>1, <1>2, <2>1, <2>2, RowsOfOtherPrograms DEF Appended
<1>3. CASE cmd[r].prog = "DELCUS"
  <2> DEFINE size == Cardinality(AccountsOf(cmd[r].customer))
  <2>1. /\ size \in Nat /\ Len(proctran') = Len(proctran) + size + 1
        /\ proctran'[Len(proctran')] = Audit(r, "ODC", 0)
        /\ \A i \in 1 .. size : \E amount :
             proctran'[Len(proctran) + i] = Audit(r, "ODA", amount)
    BY <1>3, RowsOfDelcus
  <2> HIDE DEF size
  <2>2. ASSUME NEW i \in Appended, i # Len(proctran')
        PROVE  \E amount : proctran'[i] = Audit(r, "ODA", amount)
    <3>1. i - Len(proctran) \in 1 .. size /\ Len(proctran) + (i - Len(proctran)) = i
      BY <1>1, <2>1, <2>2 DEF Appended
    <3>2. QED
      BY <2>1, <3>1
  <2>3. MainType(cmd[r]) = "ODC" /\ MainAmount(cmd[r]) = 0
    BY <1>3 DEF MainType, MainAmount
  <2>4. QED
    BY <1>1, <1>3, <2>1, <2>2, <2>3 DEF Appended
<1>4. QED
  BY <1>2, <1>3

\* The main audit row tells the programs apart.
LEMMA MainTypes ==
  ASSUME NEW c \in Commands
  PROVE  /\ MainType(c) = "TFR" <=> c.prog = "XFRFUN"
         /\ MainType(c) \in {"DEB", "PDR", "CRE", "PCR"} <=> c.prog = "DBCRFUN"
         /\ MainType(c) = "PDR" => c.prog = "DBCRFUN" /\ c.payment /\ c.amount < 0
         /\ MainType(c) = "ODA" <=> c.prog = "DELACC"
         /\ MainType(c) = "OCA" <=> c.prog = "CREACC"
         /\ MainType(c) = "OCC" <=> c.prog = "CRECUST"
         /\ MainType(c) = "ODC" <=> c.prog = "DELCUS"
<1>1. c.prog \in {"XFRFUN", "DBCRFUN", "UPDACC", "DELACC", "UPDCUST", "DELCUS",
                  "CREACC", "CRECUST"}
  BY CommandFields DEF LabelsOf
<1>2. c.prog = "DBCRFUN" => DbcrfunTranType(c) \in {"DEB", "PDR", "CRE", "PCR"}
  BY DEF DbcrfunTranType
<1>3. DbcrfunTranType(c) = "PDR" => c.payment /\ c.amount < 0
  BY DEF DbcrfunTranType
<1>4. QED
  BY <1>1, <1>2, <1>3 DEF MainType

\* A row of a main type is the last one of its step.
LEMMA MainRowIsLast ==
  ASSUME BankInvariant, NEW r \in Requests, Installs(r), NEW i \in Appended,
         proctran'[i].type # "ODA"
  PROVE  /\ i = Len(proctran') /\ proctran'[i].ref = r
         /\ proctran'[i].type = MainType(cmd[r])
         /\ proctran'[i].amount = MainAmount(cmd[r])
<1>1. \A type, amount : LET row == Audit(r, type, amount)
                       IN  row.ref = r /\ row.type = type /\ row.amount = amount
  BY DEF Audit
<1>2. i = Len(proctran')
  BY <1>1, RowsTellTheirRequest
<1>3. proctran'[Len(proctran')] = Audit(r, MainType(cmd[r]), MainAmount(cmd[r]))
  BY RowsTellTheirRequest
<1>4. QED
  BY <1>1, <1>2, <1>3

\* Nothing is added by a step that leaves the tables alone.
LEMMA NothingAppended ==
  ASSUME BankInvariant, UNCHANGED tables
  PROVE  Appended = {}
<1>1. proctran \in Seq(AuditRow) /\ proctran' = proctran
  BY DEF tables, BankInvariant, SharedInvariant, LocalInvariant, TypeOK
<1>2. Len(proctran') = Len(proctran) /\ Len(proctran) \in Nat
  BY <1>1
<1>3. QED
  BY <1>2 DEF Appended

-----------------------------------------------------------------------------
(* Debits.                                                                 *)

LEMMA CommitFundsDebits ==
  ASSUME BankInvariant, NEW r \in Requests, Installs(r)
  PROVE  DebitsAreFunded
<1> DEFINE c == cmd[r]
<1>1. c \in Commands /\ IsAccountTable(account)
  BY AtCommit
<1>2. SUFFICES ASSUME NEW i \in Appended, proctran'[i].type \in {"TFR", "PDR"}
               PROVE  LET row == proctran'[i]
                          d == cmd[row.ref]
                      IN  /\ row.type = "TFR" =>
                               /\ account'[d.from].available >= 0
                               /\ account'[d.from].actual >= -account'[d.from].overdraft
                          /\ row.type = "PDR" => account'[d.account].available >= 0
  BY DEF DebitsAreFunded
<1>3. proctran'[i].ref = r /\ proctran'[i].type = MainType(c)
  BY <1>2, MainRowIsLast
<1>4. CASE proctran'[i].type = "TFR"
  <2>1. c.prog = "XFRFUN"
    BY <1>1, <1>3, <1>4, MainTypes
  <2>2. AtomicBank!Transfer(r, c)
    BY <2>1, TransferTakesEffect
  <2>3. /\ account'[c.from].available >= 0
        /\ account'[c.from].actual >= -account[c.from].overdraft
        /\ c.from \in DOMAIN account /\ c.from # c.to
        /\ account' = [account EXCEPT ![c.from] = AtomicBank!Moved(@, -c.amount),
                                      ![c.to] = AtomicBank!Moved(@, c.amount)]
    BY <2>2 DEF AtomicBank!Transfer
  <2>4. account'[c.from] = AtomicBank!Moved(account[c.from], -c.amount)
    BY <1>1, <2>3 DEF IsAccountTable
  <2>5. account[c.from] \in AccountRow
    BY <1>1, <2>3 DEF IsAccountTable
  <2>6. account'[c.from].overdraft = account[c.from].overdraft
    BY <2>4, <2>5 DEF AtomicBank!Moved, AccountRow
  <2>7. QED
    BY <1>3, <1>4, <2>3, <2>6
<1>5. CASE proctran'[i].type = "PDR"
  <2>1. c.prog = "DBCRFUN" /\ c.payment /\ c.amount < 0
    BY <1>1, <1>3, <1>5, MainTypes
  <2>2. account'[c.account].available >= 0
    BY <2>1, PostTakesEffect DEF AtomicBank!Post
  <2>3. QED
    BY <1>3, <1>5, <2>2
<1>6. QED
  BY <1>2, <1>4, <1>5

\* No debit goes unfunded, for any number of transfers, payments and lowered
\* overdraft limits in any order.
THEOREM DebitsFunded == Spec => NoUnfundedDebit
<1>1. BankInvariant /\ [Next]_vars => [DebitsAreFunded]_vars
  <2> SUFFICES ASSUME BankInvariant, [Next]_vars
               PROVE  DebitsAreFunded
    OBVIOUS
  <2>1. CASE UNCHANGED tables
    BY <2>1, NothingAppended DEF DebitsAreFunded
  <2>2. QED
    BY <2>1, OnlyCommitsChangeTables, CommitFundsDebits
<1>2. QED
  BY <1>1, ComputationsStayCurrent, PTL DEF Spec, NoUnfundedDebit

-----------------------------------------------------------------------------
(* Numbers.                                                                *)

\* The rows of a type: one of the main type, none of another.
LEMMA CountRows ==
  ASSUME BankInvariant, NEW r \in Requests, Installs(r), NEW type, type # "ODA"
  PROVE  Cardinality(AppendedRows({type})) = IF MainType(cmd[r]) = type THEN 1 ELSE 0
<1>1. CASE MainType(cmd[r]) = type
  <2>1. AppendedRows({type}) = {Len(proctran')}
    <3>1. /\ Len(proctran') \in Appended
          /\ proctran'[Len(proctran')] = Audit(r, MainType(cmd[r]), MainAmount(cmd[r]))
      BY RowsTellTheirRequest
    <3>2. proctran'[Len(proctran')].type = type
      BY <1>1, <3>1 DEF Audit
    <3>3. \A i \in Appended : proctran'[i].type = type => i = Len(proctran')
      BY MainRowIsLast
    <3>4. QED
      BY <3>1, <3>2, <3>3 DEF AppendedRows
  <2>2. QED
    BY <1>1, <2>1, FS_Singleton
<1>2. CASE MainType(cmd[r]) # type
  <2>1. AppendedRows({type}) = {}
    BY <1>2, MainRowIsLast DEF AppendedRows
  <2>2. QED
    BY <1>2, <2>1, FS_EmptySet
<1>3. QED
  BY <1>1, <1>2

LEMMA CommitIssuesInTurn ==
  ASSUME BankInvariant, NEW r \in Requests, Installs(r)
  PROVE  IssuesInTurn
<1> DEFINE c == cmd[r]
<1>1. c \in Commands /\ control \in Control
  BY AtCommit
<1>2. /\ control'.account_last - control.account_last = IF c.prog = "CREACC" THEN 1 ELSE 0
      /\ control'.customer_last - control.customer_last = IF c.prog = "CRECUST" THEN 1 ELSE 0
  <2>1. CASE c.prog = "CREACC"
    <3>1. control' = [control EXCEPT !.account_count = @ + 1, !.account_last = @ + 1]
      BY <2>1, OpenAccountTakesEffect DEF AtomicBank!OpenAccount
    <3>2. QED
      BY <1>1, <2>1, <3>1 DEF Control
  <2>2. CASE c.prog = "CRECUST"
    <3>1. control' = [control EXCEPT !.customer_count = @ + 1, !.customer_last = @ + 1]
      BY <2>2, AddCustomerTakesEffect DEF AtomicBank!AddCustomer
    <3>2. QED
      BY <1>1, <2>2, <3>1 DEF Control
  <2>3. CASE c.prog \notin {"CREACC", "CRECUST"}
    <3>1. AtomicBank!Effect(r, c)
      BY CommitTakesEffect
    <3>2. control' = control
      BY <2>3, <3>1 DEF AtomicBank!Effect, AtomicBank!Transfer, AtomicBank!Post,
         AtomicBank!UpdateAccount, AtomicBank!CloseAccount, AtomicBank!UpdateCustomer,
         AtomicBank!RemoveCustomer, AtomicBank!OpenAccount, AtomicBank!AddCustomer
    <3>3. QED
      BY <1>1, <2>3, <3>2 DEF Control
  <2>4. QED
    BY <2>1, <2>2, <2>3
<1>3. /\ Cardinality(AppendedRows({"OCA"})) = IF c.prog = "CREACC" THEN 1 ELSE 0
      /\ Cardinality(AppendedRows({"OCC"})) = IF c.prog = "CRECUST" THEN 1 ELSE 0
  BY <1>1, CountRows, MainTypes
<1>4. QED
  BY <1>2, <1>3, CommitIssuesNumbers DEF IssuesInTurn

\* Every number is issued once, whatever was rolled back or deleted in between.
THEOREM NumbersIssuedOnce == Spec => NumbersAreIssuedOnce
<1>1. BankInvariant /\ [Next]_vars => [IssuesInTurn]_vars
  <2> SUFFICES ASSUME BankInvariant, [Next]_vars
               PROVE  IssuesInTurn
    OBVIOUS
  <2>1. CASE UNCHANGED tables
    <3>1. /\ account' = account /\ customer' = customer /\ control' = control
          /\ control \in Control
      BY <2>1 DEF tables, BankInvariant, SharedInvariant, LocalInvariant, TypeOK
    <3>2. control.account_last \in Nat /\ control.customer_last \in Nat
      BY <3>1 DEF Control
    <3>3. \A types : AppendedRows(types) = {}
      BY <2>1, NothingAppended DEF AppendedRows
    <3>4. Cardinality({}) = 0
      BY FS_EmptySet
    <3>5. /\ control'.account_last = control.account_last
          /\ control'.customer_last = control.customer_last
          /\ control.account_last + 1 .. control.account_last = {}
          /\ control.customer_last + 1 .. control.customer_last = {}
      BY <3>1, <3>2
    <3>6. /\ Cardinality(AppendedRows({"OCA"})) = 0
          /\ Cardinality(AppendedRows({"OCC"})) = 0
      BY <3>3, <3>4
    <3>7. QED
      BY <3>1, <3>2, <3>5, <3>6 DEF IssuesInTurn
  <2>2. QED
    BY <2>1, OnlyCommitsChangeTables, CommitIssuesInTurn
<1>2. QED
  BY <1>1, ComputationsStayCurrent, PTL DEF Spec, NumbersAreIssuedOnce

-----------------------------------------------------------------------------
(* Replies.                                                                *)

\* No refusal looks like a success.
LEMMA RefusalsAreNoSuccess ==
  ASSUME NEW r, cmd[r] \in Commands, NEW rep, Justified(r, rep)
  PROVE  rep # Success
<1>1. /\ \A code : Fail(code) # Success /\ Abend(code) # Success
      /\ Invalid # Success
  BY DEF Fail, Abend, Invalid, Success
<1>2. /\ \A code : AtomicBank!Fail(code) = Fail(code) /\ AtomicBank!Abend(code) = Abend(code)
      /\ AtomicBank!Invalid = Invalid
  BY SameReplies DEF Invalid, AtomicBank!Invalid
<1>3. cmd[r].prog \in {"XFRFUN", "DBCRFUN", "UPDACC", "DELACC", "UPDCUST", "DELCUS",
                       "CREACC", "CRECUST"}
  BY CommandFields DEF LabelsOf
<1>4. CASE AtomicBank!Refused(cmd[r], rep)
  <2>1. (\E code : rep = Fail(code) \/ rep = Abend(code)) \/ rep = Invalid
    BY <1>2, <1>3, <1>4 DEF AtomicBank!Refused, AtomicBank!TransferRefused,
       AtomicBank!PostRefused, AtomicBank!UpdateAccountRefused,
       AtomicBank!CloseAccountRefused, AtomicBank!UpdateCustomerRefused,
       AtomicBank!RemoveCustomerRefused, AtomicBank!OpenAccountRefused,
       AtomicBank!AddCustomerRefused
  <2>2. QED
    BY <1>1, <2>1
<1>5. CASE AtomicBank!BlamesDatabase(cmd[r], rep)
  <2>1. Success \notin AtomicBank!Breakdowns[cmd[r].prog]
    <3> DEFINE B == AtomicBank!Breakdowns
    <3>1. /\ B["XFRFUN"] = {Abend("FROM"), Abend("TO  ")}
          /\ B["DBCRFUN"] = {Abend("HRAC"), Abend("HUAC")}
          /\ B["UPDACC"] = {Abend("HRAC"), Abend("HUAC")}
          /\ B["DELACC"] = {Abend("HRAC"), Fail("3")}
          /\ B["UPDCUST"] = {Fail("2"), Fail("3")}
          /\ B["DELCUS"] = {Abend("WPV6"), Abend("WPV7")}
          /\ B["CREACC"] = {Abend("CVR1"), Abend("HACU"), Abend("HNCS"), Fail("7")}
          /\ B["CRECUST"] = {Fail("3"), Fail("1")}
      BY <1>2 DEF AtomicBank!Breakdowns
    <3> HIDE DEF B
    <3>2. /\ \A x, y : Success \notin {Fail(x), Fail(y)}
          /\ \A x, y : Success \notin {Abend(x), Abend(y)}
          /\ \A x, y : Success \notin {Abend(x), Fail(y)}
          /\ \A x, y, z, w : Success \notin {Abend(x), Abend(y), Abend(z), Fail(w)}
      BY <1>1
    <3>3. /\ Success \notin B["XFRFUN"] /\ Success \notin B["DBCRFUN"]
          /\ Success \notin B["UPDACC"] /\ Success \notin B["DELACC"]
          /\ Success \notin B["UPDCUST"] /\ Success \notin B["DELCUS"]
          /\ Success \notin B["CREACC"] /\ Success \notin B["CRECUST"]
      BY <3>1, <3>2, Zenon
    <3>4. Success \notin B[cmd[r].prog]
      BY <1>3, <3>3
    <3>5. QED
      BY <3>4, Zenon DEF B
  <2>2. QED
    BY <1>1, <1>2, <1>5, <2>1 DEF AtomicBank!BlamesDatabase, AtomicBank!Contended, AtomicBank!XRTY,
       AtomicBank!HWPT, AtomicBank!UNEX
<1>6. QED
  BY <1>4, <1>5 DEF Justified

\* What the reply of one request says of the audit trail.
Truthful(q) ==
  IF reply[q] = Success THEN AppliedTimes(q) = 1
  ELSE IF reply[q] = UNEX \/ pc[q] = "lost" THEN AppliedTimes(q) <= 1
  ELSE EntriesOf(q) = {}

\* A request that is open has no audit row yet.
LEMMA OpenHasNoEntries ==
  ASSUME BankInvariant, ReplyIsTruthful, NEW r \in Requests, pc[r] \notin Ended
  PROVE  EntriesOf(r) = {}
<1>1. reply[r] = None /\ pc[r] # "lost"
  BY DEF BankInvariant, RepliesComeLast, Ended
<1>2. None # Success /\ None # UNEX
  BY DEF None, Success, UNEX, Abend
<1>3. QED
  BY <1>1, <1>2 DEF ReplyIsTruthful

\* No entries, nothing applied.
LEMMA NoEntriesNotApplied ==
  ASSUME NEW r, EntriesOf(r)' = {}
  PROVE  AppliedTimes(r)' = 0
<1>1. {i \in EntriesOf(r)' : proctran'[i].type = MainType(cmd'[r])} = {}
  OBVIOUS
<1>2. QED
  BY <1>1, FS_EmptySet DEF AppliedTimes

\* Requests that neither get a reply nor an audit row.
LEMMA OthersStayTruthful ==
  ASSUME ReplyIsTruthful, NEW q \in Requests, reply'[q] = reply[q], pc'[q] = pc[q],
         cmd'[q] = cmd[q], EntriesOf(q)' = EntriesOf(q),
         \A i \in EntriesOf(q) : proctran'[i] = proctran[i]
  PROVE  Truthful(q)'
<1>1. {i \in EntriesOf(q)' : proctran'[i].type = MainType(cmd'[q])}
        = {i \in EntriesOf(q) : proctran[i].type = MainType(cmd[q])}
  OBVIOUS
<1>2. AppliedTimes(q)' = AppliedTimes(q)
  BY <1>1, Zenon DEF AppliedTimes
<1>3. QED
  BY <1>2 DEF ReplyIsTruthful, Truthful

\* A COMMIT adds the rows of its own request only, one of them of the main type.
LEMMA CommitEntries ==
  ASSUME BankInvariant, ReplyIsTruthful, NEW r \in Requests, Installs(r)
  PROVE  /\ AppliedTimes(r)' = 1
         /\ \A q \in Requests \ {r} : /\ EntriesOf(q)' = EntriesOf(q)
                                      /\ \A i \in EntriesOf(q) : proctran'[i] = proctran[i]
<1>1. /\ DOMAIN proctran = 1 .. Len(proctran) /\ DOMAIN proctran' = 1 .. Len(proctran')
      /\ \A i \in 1 .. Len(proctran) : proctran'[i] = proctran[i]
  BY RowsAppended
<1>2. /\ Len(proctran) \in Nat /\ Len(proctran') \in Nat /\ Len(proctran) < Len(proctran')
      /\ Len(proctran') \in Appended
      /\ proctran'[Len(proctran')] = Audit(r, MainType(cmd[r]), MainAmount(cmd[r]))
      /\ \A i \in Appended : i # Len(proctran') =>
           /\ cmd[r].prog = "DELCUS"
           /\ \E amount : proctran'[i] = Audit(r, "ODA", amount)
  BY RowsTellTheirRequest
<1>3. DOMAIN proctran' = DOMAIN proctran \cup Appended /\ DOMAIN proctran \cap Appended = {}
  <2>1. \A n, m \in Nat : n < m => /\ 1 .. m = (1 .. n) \cup (n + 1 .. m)
                                   /\ (1 .. n) \cap (n + 1 .. m) = {}
    OBVIOUS
  <2>2. QED
    BY <1>1, <1>2, <2>1 DEF Appended
<1>4. \A type, amount : Audit(r, type, amount).ref = r /\ Audit(r, type, amount).type = type
  BY DEF Audit
<1>5. \A i \in Appended : proctran'[i].ref = r
  BY <1>2, <1>4
<1>6. ASSUME NEW q \in Requests \ {r}
      PROVE  /\ EntriesOf(q)' = EntriesOf(q)
             /\ \A i \in EntriesOf(q) : proctran'[i] = proctran[i]
  <2>1. \A i \in DOMAIN proctran' : proctran'[i].ref = q
                                     <=> i \in DOMAIN proctran /\ proctran[i].ref = q
    BY <1>1, <1>3, <1>5
  <2>2. QED
    BY <1>1, <1>3, <2>1 DEF EntriesOf
<1>7. AppliedTimes(r)' = 1
  <2>1. pc[r] \notin Ended /\ cmd' = cmd /\ cmd[r] \in Commands
    BY AtCommit DEF Installs, Ended
  <2>2. \A i \in DOMAIN proctran : proctran[i].ref # r
    BY <2>1, OpenHasNoEntries DEF EntriesOf
  <2>3. \A i \in DOMAIN proctran' : proctran'[i].ref = r /\ proctran'[i].type = MainType(cmd[r])
                                     <=> i = Len(proctran')
    <3>1. \A i \in DOMAIN proctran : proctran'[i].ref # r
      BY <1>1, <2>2
    <3>2. cmd[r].prog = "DELCUS" => MainType(cmd[r]) # "ODA"
      BY <2>1, MainTypes
    <3>3. \A i \in Appended : proctran'[i].type = MainType(cmd[r]) <=> i = Len(proctran')
      BY <1>2, <1>4, <3>2
    <3>4. QED
      BY <1>2, <1>3, <1>5, <3>1, <3>3
  <2>4. {i \in EntriesOf(r)' : proctran'[i].type = MainType(cmd'[r])} = {Len(proctran')}
    BY <1>2, <1>3, <2>1, <2>3 DEF EntriesOf
  <2>5. Cardinality({Len(proctran')}) = 1
    BY FS_Singleton
  <2>6. QED
    BY <2>4, <2>5, Zenon DEF AppliedTimes
<1>8. QED
  BY <1>6, <1>7

\* Whatever request r does, its reply and the others' stay true.
LEMMA StepStaysTruthful ==
  ASSUME BankInvariant, ReplyIsTruthful, NEW r \in Requests, Progress(r) \/ Trouble(r)
  PROVE  ReplyIsTruthful'
<1>1. /\ DOMAIN pc = Requests /\ DOMAIN reply = Requests /\ cmd[r] \in Commands
      /\ LocalInvariant
  BY DEF BankInvariant, SharedInvariant, LocalInvariant, TypeOK
<1>2. SUFFICES ASSUME NEW q \in Requests
               PROVE  Truthful(q)'
  BY DEF ReplyIsTruthful, Truthful
<1>3. ASSUME UNCHANGED <<tables, cmd>>
      PROVE  /\ EntriesOf(q)' = EntriesOf(q) /\ cmd'[q] = cmd[q]
             /\ \A i \in EntriesOf(q) : proctran'[i] = proctran[i]
  BY <1>3 DEF tables, EntriesOf
<1>4. CASE Moves(r)
  <2>1. PICK p, t : MovesTo(r, p, t)
    BY <1>4 DEF Moves
  <2>2. UNCHANGED <<tables, cmd>> /\ reply' = reply /\ pc[r] \notin Ended
    BY <1>4 DEF Moves
  <2>3. CASE q # r
    BY <1>3, <2>1, <2>2, <2>3, OthersStayTruthful DEF MovesTo
  <2>4. CASE q = r
    <3>1. EntriesOf(r)' = {} /\ reply'[r] = None /\ pc'[r] # "lost"
      BY <1>3, <2>1, <2>2, <2>4, OpenHasNoEntries DEF MovesTo, BankInvariant,
         RepliesComeLast, Ended
    <3>2. None # Success /\ None # UNEX
      BY DEF None, Success, UNEX, Abend
    <3>3. QED
      BY <2>4, <3>1, <3>2 DEF Truthful
  <2>5. QED
    BY <2>3, <2>4
<1>5. CASE AnswersTruly(r)
  <2>1. PICK rep \in Replies : Answer(r, rep) /\ Justified(r, rep)
    BY <1>5 DEF AnswersTruly
  <2>2. UNCHANGED <<tables, cmd>> /\ pc[r] \notin Ended
        /\ pc' = [pc EXCEPT ![r] = "done"] /\ reply' = [reply EXCEPT ![r] = rep]
    BY <1>5, <2>1 DEF AnswersTruly, Answer
  <2>3. CASE q # r
    BY <1>1, <1>3, <2>2, <2>3, OthersStayTruthful
  <2>4. CASE q = r
    <3>1. EntriesOf(r)' = {} /\ reply'[r] = rep /\ rep # Success
      BY <1>1, <1>3, <2>1, <2>2, <2>4, OpenHasNoEntries, RefusalsAreNoSuccess
    <3>2. AppliedTimes(r)' = 0
      BY <3>1, NoEntriesNotApplied
    <3>3. QED
      BY <2>4, <3>1, <3>2 DEF Truthful
  <2>5. QED
    BY <2>3, <2>4
<1>6. CASE Drops(r)
  <2>1. UNCHANGED <<tables, cmd>> /\ reply' = reply /\ pc[r] \notin Ended
        /\ pc' = [pc EXCEPT ![r] = "lost"]
    BY <1>6 DEF Drops
  <2>2. CASE q # r
    BY <1>1, <1>3, <2>1, <2>2, OthersStayTruthful
  <2>3. CASE q = r
    <3>1. EntriesOf(r)' = {} /\ reply'[r] = None /\ pc'[r] = "lost"
      BY <1>1, <1>3, <2>1, <2>3, OpenHasNoEntries DEF BankInvariant, RepliesComeLast, Ended
    <3>2. AppliedTimes(r)' = 0 /\ None # Success
      BY <3>1, NoEntriesNotApplied DEF None, Success
    <3>3. QED
      BY <2>3, <3>1, <3>2 DEF Truthful
  <2>4. QED
    BY <2>2, <2>3
<1>7. CASE Commits(r)
  <2>1. Installs(r) /\ cmd' = cmd
    BY <1>7 DEF Commits, Installs
  <2>2. CASE q # r
    <3>1. pc'[q] = pc[q] /\ reply'[q] = reply[q]
      BY <1>1, <1>7, <2>2 DEF Commits
    <3>2. QED
      BY <2>1, <2>2, <3>1, CommitEntries, OthersStayTruthful
  <2>3. CASE q = r
    <3>1. AppliedTimes(r)' = 1
      BY <2>1, CommitEntries
    <3>2. reply'[r] \in {Success, UNEX} \/ pc'[r] = "lost"
      BY <1>1, <1>7 DEF Commits
    <3>3. QED
      BY <2>3, <3>1, <3>2 DEF Truthful
  <2>4. QED
    BY <2>2, <2>3
<1>8. QED
  BY <1>4, <1>5, <1>6, <1>7, StepBanks DEF Banks

\* Success means applied exactly once, any other reply not at all; only UNEX and
\* silence leave it open, and even then nothing was applied twice.
THEOREM RepliesAreTruthful == Spec => []ReplyIsTruthful
<1>1. Init => ReplyIsTruthful
  <2> SUFFICES ASSUME Init
               PROVE  ReplyIsTruthful
    OBVIOUS
  <2>1. \A r \in Requests : EntriesOf(r) = {} /\ reply[r] = None /\ pc[r] = "idle"
    BY DEF Init, EntriesOf
  <2>2. None # Success /\ None # UNEX
    BY DEF None, Success, UNEX, Abend
  <2>3. QED
    BY <2>1, <2>2 DEF ReplyIsTruthful
<1>2. BankInvariant /\ ReplyIsTruthful /\ [Next]_vars => ReplyIsTruthful'
  <2> SUFFICES ASSUME BankInvariant, ReplyIsTruthful, [Next]_vars
               PROVE  ReplyIsTruthful'
    OBVIOUS
  <2>1. CASE UNCHANGED vars
    <3>1. \A q \in Requests : /\ EntriesOf(q)' = EntriesOf(q) /\ cmd'[q] = cmd[q]
                              /\ \A i \in EntriesOf(q) : proctran'[i] = proctran[i]
                              /\ reply'[q] = reply[q] /\ pc'[q] = pc[q]
      BY <2>1 DEF vars, EntriesOf
    <3>2. QED
      BY <3>1, OthersStayTruthful DEF ReplyIsTruthful, Truthful
  <2>2. QED
    BY <2>1, StepStaysTruthful DEF Next, Idle
<1>3. QED
  BY <1>1, <1>2, ComputationsStayCurrent, PTL DEF Spec

-----------------------------------------------------------------------------
(* Money.                                                                  *)

\* What command c, when it takes effect, moves on account a.
Due(c, a) ==
  IF c.prog = "XFRFUN"
    THEN IF a = c.from THEN -c.amount ELSE IF a = c.to THEN c.amount ELSE 0
  ELSE IF c.prog = "DBCRFUN" /\ a = c.account THEN c.amount ELSE 0

\* The main row books just that, and no other row books anything.
LEMMA BookedIsDue ==
  ASSUME BankInvariant, NEW r \in Requests, Installs(r), NEW i \in Appended, NEW a
  PROVE  Booked(i, a) = IF i = Len(proctran') THEN Due(cmd[r], a) ELSE 0
<1> DEFINE c == cmd[r]
           row == proctran'[i]
<1>1. CASE row.type = "ODA"
  <2>1. Booked(i, a) = 0
    BY <1>1 DEF Booked
  <2>2. i = Len(proctran') => Due(c, a) = 0
    <3>1. SUFFICES ASSUME i = Len(proctran')
                   PROVE  Due(c, a) = 0
      OBVIOUS
    <3>2. row = Audit(r, MainType(c), MainAmount(c))
      BY <3>1, RowsTellTheirRequest
    <3>3. MainType(c) = "ODA"
      BY <1>1, <3>2 DEF Audit
    <3>4. c.prog = "DELACC"
      BY <3>3, AtCommit, MainTypes
    <3>5. QED
      BY <3>4 DEF Due
  <2>3. QED
    BY <2>1, <2>2
<1>2. CASE row.type # "ODA"
  <2>1. /\ i = Len(proctran') /\ row.ref = r
        /\ row.type = MainType(c) /\ row.amount = MainAmount(c)
    BY <1>2, MainRowIsLast
  <2>2. /\ row.type = "TFR" <=> c.prog = "XFRFUN"
        /\ row.type \in {"DEB", "PDR", "CRE", "PCR"} <=> c.prog = "DBCRFUN"
    BY <2>1, AtCommit, MainTypes
  <2>3. c.prog \in {"XFRFUN", "DBCRFUN"} => MainAmount(c) = c.amount
    BY DEF MainAmount
  <2>4. CASE c.prog = "XFRFUN"
    BY <2>1, <2>2, <2>3, <2>4 DEF Booked, Due
  <2>5. CASE c.prog = "DBCRFUN"
    BY <2>1, <2>2, <2>3, <2>5 DEF Booked, Due
  <2>6. CASE c.prog \notin {"XFRFUN", "DBCRFUN"}
    BY <2>1, <2>2, <2>6 DEF Booked, Due
  <2>7. QED
    BY <2>4, <2>5, <2>6
<1>3. QED
  BY <1>1, <1>2

\* Both balances of an account that stays move by what is due.
LEMMA CommitMovesWhatIsDue ==
  ASSUME BankInvariant, NEW r \in Requests, Installs(r), NEW a \in Surviving
  PROVE  /\ account'[a].available - account[a].available = Due(cmd[r], a)
         /\ account'[a].actual - account[a].actual = Due(cmd[r], a)
         /\ Due(cmd[r], a) \in Int
<1> DEFINE c == cmd[r]
<1>1. /\ c \in Commands /\ IsAccountTable(account) /\ control \in Control
      /\ LocalInvariant
  BY AtCommit
<1>2. account[a] \in AccountRow /\ a \in DOMAIN account /\ a \in DOMAIN account'
  BY <1>1 DEF IsAccountTable, Surviving
<1>3. account[a].available \in Int /\ account[a].actual \in Int
  BY <1>2, BoundsAssumption DEF AccountRow, Money
<1>4. \A amount \in Int :
        /\ AtomicBank!Moved(account[a], amount).available = account[a].available + amount
        /\ AtomicBank!Moved(account[a], amount).actual = account[a].actual + amount
  BY <1>2 DEF AtomicBank!Moved, AccountRow
<1>5. CASE c.prog = "XFRFUN"
  <2>1. /\ c.from # c.to /\ {c.from, c.to} \subseteq DOMAIN account
        /\ account' = [account EXCEPT ![c.from] = AtomicBank!Moved(@, -c.amount),
                                      ![c.to] = AtomicBank!Moved(@, c.amount)]
    BY <1>5, TransferTakesEffect DEF AtomicBank!Transfer
  <2>2. c.amount \in Int /\ -c.amount \in Int
    BY <1>1, <1>5, CommandFields DEF XfrfunCommands
  <2>3. account'[a] = IF a = c.from THEN AtomicBank!Moved(account[a], -c.amount)
                      ELSE IF a = c.to THEN AtomicBank!Moved(account[a], c.amount)
                      ELSE account[a]
    BY <1>2, <2>1
  <2>4. QED
    BY <1>3, <1>4, <1>5, <2>2, <2>3 DEF Due
<1>6. CASE c.prog = "DBCRFUN"
  <2>1. account' = [account EXCEPT ![c.account] = AtomicBank!Moved(@, c.amount)]
    BY <1>6, PostTakesEffect DEF AtomicBank!Post
  <2>2. c.amount \in Int
    BY <1>1, <1>6, CommandFields DEF DbcrfunCommands
  <2>3. account'[a] = IF a = c.account THEN AtomicBank!Moved(account[a], c.amount)
                                       ELSE account[a]
    BY <1>2, <2>1
  <2>4. QED
    BY <1>3, <1>4, <1>6, <2>2, <2>3 DEF Due
<1>7. CASE c.prog = "UPDACC"
  <2>1. account' = [account EXCEPT ![c.account].type = c.type,
                                   ![c.account].overdraft = c.overdraft]
    BY <1>7, UpdateAccountTakesEffect DEF AtomicBank!UpdateAccount
  <2>2. /\ account'[a].available = account[a].available
        /\ account'[a].actual = account[a].actual
    BY <1>2, <2>1 DEF AccountRow
  <2>3. QED
    BY <1>3, <1>7, <2>2 DEF Due
<1>8. CASE c.prog \in {"DELACC", "UPDCUST", "DELCUS", "CREACC", "CRECUST"}
  <2>1. account'[a] = account[a]
    <3>1. CASE c.prog = "DELACC"
      BY <1>2, <3>1, CloseAccountTakesEffect DEF AtomicBank!CloseAccount, AtomicBank!Without
    <3>2. CASE c.prog = "UPDCUST"
      BY <3>2, UpdateCustomerTakesEffect DEF AtomicBank!UpdateCustomer
    <3>3. CASE c.prog = "DELCUS"
      BY <1>2, <3>3, RemoveCustomerTakesEffect DEF AtomicBank!RemoveCustomer
    <3>4. CASE c.prog = "CREACC"
      <4>1. account' = AtomicBank!Overlay(account, control'.account_last,
              [customer |-> c.customer, type |-> c.type, overdraft |-> c.overdraft,
               available |-> c.available, actual |-> c.actual])
            /\ control' = [control EXCEPT !.account_count = @ + 1, !.account_last = @ + 1]
        BY <3>4, OpenAccountTakesEffect DEF AtomicBank!OpenAccount
      <4>2. control'.account_last = control.account_last + 1
        BY <1>1, <4>1 DEF Control
      <4>3. DOMAIN account' \ DOMAIN account
              = control.account_last + 1 .. control'.account_last
        BY CommitIssuesNumbers
      <4>4. control'.account_last \notin DOMAIN account
        BY <1>1, <4>2, <4>3 DEF Control
      <4>5. QED
        BY <1>2, <4>1, <4>4 DEF AtomicBank!Overlay
    <3>5. CASE c.prog = "CRECUST"
      BY <3>5, AddCustomerTakesEffect DEF AtomicBank!AddCustomer
    <3>6. QED
      BY <1>8, <3>1, <3>2, <3>3, <3>4, <3>5
  <2>2. QED
    BY <1>3, <1>8, <2>1 DEF Due
<1>9. QED
  BY <1>1, <1>5, <1>6, <1>7, <1>8, CommandFields DEF LabelsOf

LEMMA CommitMovesAsAudited ==
  ASSUME BankInvariant, NEW r \in Requests, Installs(r)
  PROVE  MovesAsAudited
<1> SUFFICES ASSUME NEW a \in Surviving
             PROVE  LET moved == account'[a].actual - account[a].actual
                        entries == {i \in Appended : Booked(i, a) # 0}
                    IN  /\ account'[a].available - account[a].available = moved
                        /\ entries = {} => moved = 0
                        /\ \A i \in entries : entries = {i} /\ moved = Booked(i, a)
  BY DEF MovesAsAudited
<1> DEFINE moved == account'[a].actual - account[a].actual
           due == Due(cmd[r], a)
           last == Len(proctran')
           entries == {i \in Appended : Booked(i, a) # 0}
<1>1. account'[a].available - account[a].available = due /\ moved = due /\ due \in Int
  BY CommitMovesWhatIsDue
<1>2. \A i \in Appended : Booked(i, a) = IF i = last THEN due ELSE 0
  BY BookedIsDue
<1>3. last \in Appended
  BY RowsTellTheirRequest
<1> HIDE DEF moved, due, last
<1>4. entries = IF due = 0 THEN {} ELSE {last}
  BY <1>2, <1>3
<1>5. QED
  BY <1>1, <1>2, <1>3, <1>4 DEF moved

\* Money is neither made nor lost, for any accounts and amounts, however the
\* transfers, postings, closings and retries interleave.
THEOREM MoneyAudited == Spec => MoneyIsAudited
<1>1. BankInvariant /\ [Next]_vars => [MovesAsAudited]_vars
  <2> SUFFICES ASSUME BankInvariant, [Next]_vars
               PROVE  MovesAsAudited
    OBVIOUS
  <2>1. CASE UNCHANGED tables
    <3>1. Appended = {} /\ account' = account /\ IsAccountTable(account)
      BY <2>1, NothingAppended
      DEF tables, BankInvariant, SharedInvariant, LocalInvariant, TypeOK
    <3>2. \A a \in DOMAIN account :
            account[a].available - account[a].available = 0
            /\ account[a].actual - account[a].actual = 0
      BY <3>1, BoundsAssumption DEF IsAccountTable, AccountRow, Money
    <3>3. QED
      BY <3>1, <3>2 DEF MovesAsAudited, Surviving
  <2>2. QED
    BY <2>1, OnlyCommitsChangeTables, CommitMovesAsAudited
<1>2. QED
  BY <1>1, ComputationsStayCurrent, PTL DEF Spec, MoneyIsAudited

-----------------------------------------------------------------------------
(* Closings.                                                               *)

\* DELACC closes its account and adds its row.
LEMMA DelaccClosesAsAudited ==
  ASSUME BankInvariant, NEW r \in Requests, Installs(r), cmd[r].prog = "DELACC"
  PROVE  ClosesAsAudited
<1> DEFINE c == cmd[r]
           a == c.account
           last == Len(proctran) + 1
<1>1. /\ a \in DOMAIN account /\ DOMAIN account' = DOMAIN account \ {a}
      /\ MainAmount(c) = account[a].actual /\ MainType(c) = "ODA"
  <2>1. a \in DOMAIN account /\ account' = AtomicBank!Without(account, a)
    BY CloseAccountTakesEffect DEF AtomicBank!CloseAccount
  <2>2. DOMAIN account' = DOMAIN account \ {a}
    BY <2>1 DEF AtomicBank!Without
  <2>3. QED
    BY <2>1, <2>2 DEF MainAmount, MainType
<1>2. Closed = {a}
  BY <1>1 DEF Closed
<1>3. /\ Len(proctran') = last /\ Len(proctran) \in Nat
      /\ proctran'[last] = Audit(r, "ODA", account[a].actual)
  BY <1>1, RowsOfOtherPrograms, RowsAppended
<1>4. AppendedRows({"ODA"}) = {last}
  <2>1. Appended = {last}
    BY <1>3 DEF Appended
  <2>2. proctran'[last].type = "ODA"
    BY <1>3 DEF Audit
  <2>3. QED
    BY <2>1, <2>2 DEF AppendedRows
<1>5. Cardinality({a}) = 1 /\ Cardinality({last}) = 1 /\ Cardinality({}) = 0
  BY FS_Singleton, FS_EmptySet
<1>6. {b \in {a} : b < a} = {}
  <2>1. a \in Int
    BY <1>1, AtCommit DEF IsAccountTable
  <2>2. QED
    BY <2>1
<1>7. proctran'[last].amount = account[a].actual
  BY <1>3 DEF Audit
<1>8. last + 0 = last
  BY <1>3
<1> HIDE DEF last, a
<1>9. \A x \in Closed :
        LET i == last + Cardinality({b \in Closed : b < x})
        IN  i \in AppendedRows({"ODA"}) /\ proctran'[i].amount = account[x].actual
  BY <1>2, <1>4, <1>5, <1>6, <1>7, <1>8
<1>10. QED
  BY <1>2, <1>4, <1>5, <1>9 DEF ClosesAsAudited, last

\* DELCUS closes the customer's accounts and adds their rows in that order.
LEMMA DelcusClosesAsAudited ==
  ASSUME BankInvariant, NEW r \in Requests, Installs(r), cmd[r].prog = "DELCUS"
  PROVE  ClosesAsAudited
<1> DEFINE S == AccountsOf(cmd[r].customer)
           size == Cardinality(S)
           base == Len(proctran)
           Rank(a) == Cardinality({b \in S : b < a})
<1>1. /\ IsFiniteSet(S) /\ S \subseteq Int /\ size \in Nat
      /\ Len(proctran') = base + size + 1 /\ base \in Nat
      /\ proctran'[Len(proctran')] = Audit(r, "ODC", 0)
      /\ \A i \in 1 .. size :
           \E a \in S : /\ Rank(a) = i - 1
                        /\ proctran'[base + i] = Audit(r, "ODA", account[a].actual)
  <2>1. base \in Nat
    BY RowsAppended
  <2>2. QED
    BY <2>1, RowsOfDelcus, Zenon
<1>2. Closed = S
  <2>1. account' = [a \in DOMAIN account \ AtomicBank!AccountsOf(cmd[r].customer) |-> account[a]]
    BY RemoveCustomerTakesEffect DEF AtomicBank!RemoveCustomer
  <2>2. AtomicBank!AccountsOf(cmd[r].customer) = S /\ S \subseteq DOMAIN account
    BY DEF AtomicBank!AccountsOf, AccountsOf
  <2>3. QED
    BY <2>1, <2>2 DEF Closed
<1>3. ASSUME NEW a \in S
      PROVE  Rank(a) \in Nat /\ Rank(a) < size
  <2> DEFINE below == {b \in S : b < a}
  <2>1. below \subseteq S /\ a \notin below
    BY <1>1
  <2>2. IsFiniteSet(below) /\ Cardinality(below) <= size
        /\ (Cardinality(below) = size => below = S)
    BY <1>1, <2>1, FS_Subset
  <2>3. Cardinality(below) \in Nat
    BY <2>2, FS_CardinalityType
  <2>4. Cardinality(below) # size
    BY <2>1, <2>2
  <2>5. QED
    BY <1>1, <2>2, <2>3, <2>4
<1>4. ASSUME NEW a \in S
      PROVE  proctran'[base + 1 + Rank(a)] = Audit(r, "ODA", account[a].actual)
  <2>1. Rank(a) + 1 \in 1 .. size /\ (Rank(a) + 1) - 1 = Rank(a)
    <3>1. Rank(a) \in Nat /\ Rank(a) < size /\ size \in Nat
      BY <1>1, <1>3
    <3>2. \A m, k \in Nat : m < k => m + 1 \in 1 .. k /\ (m + 1) - 1 = m
      OBVIOUS
    <3> HIDE DEF Rank, size
    <3>3. QED
      BY <3>1, <3>2
  <2>2. PICK b \in S :
          /\ Rank(b) = (Rank(a) + 1) - 1
          /\ proctran'[base + (Rank(a) + 1)] = Audit(r, "ODA", account[b].actual)
    BY <1>1, <2>1
  <2>3. a = b
    BY <1>1, <2>1, <2>2, SameRank
  <2>4. base + 1 + Rank(a) = base + (Rank(a) + 1)
    <3>1. Rank(a) \in Nat /\ base \in Nat
      BY <1>1, <1>3
    <3> HIDE DEF Rank, base
    <3>2. QED
      BY <3>1
  <2>5. QED
    BY <2>2, <2>3, <2>4
<1>5. AppendedRows({"ODA"}) = base + 1 .. base + size
  <2>1. ASSUME NEW i \in base + 1 .. base + size
        PROVE  i \in Appended /\ proctran'[i].type = "ODA"
    <3>1. i - base \in 1 .. size /\ base + (i - base) = i /\ i \in Appended
      BY <1>1 DEF Appended
    <3>2. \E a \in S : proctran'[i] = Audit(r, "ODA", account[a].actual)
      BY <1>1, <3>1
    <3>3. QED
      BY <3>1, <3>2 DEF Audit
  <2>2. ASSUME NEW i \in Appended, proctran'[i].type = "ODA"
        PROVE  i \in base + 1 .. base + size
    <3>1. i # Len(proctran')
      BY <1>1, <2>2 DEF Audit
    <3>2. QED
      BY <1>1, <3>1 DEF Appended
  <2>3. QED
    BY <2>1, <2>2 DEF AppendedRows
<1>6. Cardinality(base + 1 .. base + size) = size
  <2>1. base + 1 \in Int /\ base + size \in Int
    BY <1>1
  <2>2. Cardinality(base + 1 .. base + size)
          = IF base + 1 > base + size THEN 0 ELSE (base + size) - (base + 1) + 1
    BY <2>1, FS_Interval
  <2>3. QED
    BY <1>1, <2>2
<1>7. ASSUME NEW a \in S
      PROVE  /\ base + 1 + Rank(a) \in AppendedRows({"ODA"})
             /\ proctran'[base + 1 + Rank(a)].amount = account[a].actual
  <2>1. base + 1 + Rank(a) \in base + 1 .. base + size
    BY <1>1, <1>3
  <2>2. proctran'[base + 1 + Rank(a)] = Audit(r, "ODA", account[a].actual)
    BY <1>4
  <2>3. proctran'[base + 1 + Rank(a)].amount = account[a].actual
    BY <2>2 DEF Audit
  <2>4. QED
    BY <1>5, <2>1, <2>3
<1> HIDE DEF S
<1>8. QED
  BY <1>2, <1>5, <1>6, <1>7 DEF ClosesAsAudited

\* The other commands close nothing and add no ODA row.
LEMMA OthersCloseNothing ==
  ASSUME BankInvariant, NEW r \in Requests, Installs(r),
         cmd[r].prog \notin {"DELACC", "DELCUS"}
  PROVE  ClosesAsAudited
<1> DEFINE c == cmd[r]
<1>1. AtomicBank!Effect(r, c)
  BY CommitTakesEffect
<1>2. DOMAIN account \subseteq DOMAIN account'
  BY <1>1 DEF AtomicBank!Effect, AtomicBank!Transfer, AtomicBank!Post,
     AtomicBank!UpdateAccount, AtomicBank!CloseAccount, AtomicBank!UpdateCustomer,
     AtomicBank!RemoveCustomer, AtomicBank!OpenAccount, AtomicBank!AddCustomer,
     AtomicBank!Overlay
<1>3. Closed = {}
  BY <1>2 DEF Closed
<1>4. \A i \in Appended : proctran'[i].type # "ODA"
  <2>1. \A i \in Appended : i = Len(proctran')
    BY RowsTellTheirRequest
  <2>2. proctran'[Len(proctran')].type = MainType(c)
    <3>1. proctran'[Len(proctran')] = Audit(r, MainType(c), MainAmount(c))
      BY RowsTellTheirRequest
    <3>2. QED
      BY <3>1 DEF Audit
  <2>3. MainType(c) # "ODA"
    BY AtCommit, MainTypes
  <2>4. QED
    BY <2>1, <2>2, <2>3
<1>5. AppendedRows({"ODA"}) = {}
  BY <1>4 DEF AppendedRows
<1>6. QED
  BY <1>3, <1>5 DEF ClosesAsAudited

\* Every account is closed with the balance it has at that moment, for any
\* number of accounts, although DELCUS lists them before it locks them.
THEOREM ClosingBalancesAudited == Spec => ClosingBalanceIsAudited
<1>1. BankInvariant /\ [Next]_vars => [ClosesAsAudited]_vars
  <2> SUFFICES ASSUME BankInvariant, [Next]_vars
               PROVE  ClosesAsAudited
    OBVIOUS
  <2>1. CASE UNCHANGED tables
    <3>1. Appended = {} /\ account' = account
      BY <2>1, NothingAppended DEF tables
    <3>2. AppendedRows({"ODA"}) = {} /\ Closed = {}
      BY <3>1 DEF AppendedRows, Closed
    <3>3. QED
      BY <3>2 DEF ClosesAsAudited
  <2>2. QED
    BY <2>1, OnlyCommitsChangeTables, DelaccClosesAsAudited, DelcusClosesAsAudited,
       OthersCloseNothing
<1>2. QED
  BY <1>1, ComputationsStayCurrent, PTL DEF Spec, ClosingBalanceIsAudited
=============================================================================
