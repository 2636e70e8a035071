--------------------------- MODULE CbsaSharingProofs ---------------------------
(***************************************************************************)
(* Theorems about requests that share rows: the order in which they lock   *)
(* them, that a row has one writer, and what that gives the tables.        *)
(***************************************************************************)
EXTENDS CbsaProofs

-----------------------------------------------------------------------------
(* The building blocks of the actions.                                     *)

\* A request that ends, or starts over, gives up what it held.
LEMMA ForgettingIsOrderly ==
  ASSUME LocalInvariant, NEW r \in Requests,
         tx' = [tx EXCEPT ![r] = NoTx],
         UNCHANGED <<customer, account, cmd>>
  PROVE  Orderly(r)
<1>1. tx'[r] = NoTx /\ \A q \in Requests \ {r} : tx'[q] = tx[q]
  BY DEF LocalInvariant, TypeOK
<1>2. NoTx.held = {} /\ DOMAIN NoTx.account = {}
  BY EmptyTableTyped DEF NoTx
<1>3. QED
  BY <1>1, <1>2 DEF Orderly, LocksInTurn, KeepsOwners

\* So does a refusal.
LEMMA RefuseIsOrderly ==
  ASSUME LocalInvariant, NEW r \in Requests, NEW rep, Refuse(r, rep)
  PROVE  Orderly(r)
BY ForgettingIsOrderly DEF Refuse, Answer, tables

\* And with_retry, whether it tries again or gives up.
LEMMA RetryIsOrderly ==
  ASSUME LocalInvariant, NEW r \in Requests, RetryOrGiveUp(r)
  PROVE  Orderly(r)
<1>1. CASE Statement(r, "begin", NoTx)
  BY <1>1, ForgettingIsOrderly DEF Statement, tables
<1>2. QED
  BY <1>1, RefuseIsOrderly DEF RetryOrGiveUp

\* A statement is orderly if what it adds to the transaction is.
LEMMA StatementIsOrderly ==
  ASSUME LocalInvariant, NEW r \in Requests, NEW next, NEW t,
         Statement(r, next, t),
         \A k \in t.held \ tx[r].held :
           Free(r, k) /\ \A h \in tx[r].held : RowBefore(h, k),
         KeepsOwners(cmd[r], t)
  PROVE  Orderly(r)
<1>1. tx'[r] = t /\ \A q \in Requests \ {r} : tx'[q] = tx[q]
  BY DEF LocalInvariant, TypeOK, Statement
<1>2. UNCHANGED <<customer, account, cmd>>
  BY DEF Statement, tables
<1>3. QED
  BY <1>1, <1>2 DEF Orderly, LocksInTurn

\* Opening a transaction locks nothing.
LEMMA BeginIsOrderly ==
  ASSUME LocalInvariant, NEW r \in Requests, NEW first, Begin(r, first),
         KeepsOwners(cmd[r], tx[r])
  PROVE  Orderly(r)
BY DEF Begin, Orderly, LocksInTurn, tables

\* Neither does taking the request.
LEMMA ReceiveIsOrderly ==
  ASSUME LocalInvariant, NEW r \in Requests, NEW rejection, NEW next,
         Receive(r, rejection, next)
  PROVE  Orderly(r)
<1>1. CASE Statement(r, next, NoTx)
  BY <1>1, ForgettingIsOrderly DEF Statement, tables
<1>2. QED
  BY <1>1, RefuseIsOrderly DEF Receive

\* SELECT ... FOR UPDATE of an account that comes after the rows held so far.
LEMMA LockAccountIsOrderly ==
  ASSUME LocalInvariant, NEW r \in Requests, NEW next, NEW a \in Nat, NEW missing,
         LockAccount(r, next, a, missing),
         \A h \in tx[r].held : RowBefore(h, AccountKey(a)),
         KeepsOwners(cmd[r], tx[r]), cmd[r].prog # "CREACC"
  PROVE  Orderly(r)
<1>1. CASE a \notin DOMAIN account
  BY <1>1, RefuseIsOrderly DEF LockAccount
<1>2. CASE a \in DOMAIN account
  <2> DEFINE own == Overlay(tx[r].account, a, account[a])
             t == [tx[r] EXCEPT !.held = @ \cup {AccountKey(a)}, !.account = own]
  <2>1. Statement(r, next, t) /\ Free(r, AccountKey(a))
    BY <1>2 DEF LockAccount
  <2>2. t.held = tx[r].held \cup {AccountKey(a)} /\ t.account = own
    BY Facts DEF IsTransaction, NoTx
  <2>3. \A b \in DOMAIN own :
          b \in DOMAIN account /\ own[b].customer = account[b].customer
    BY <1>2 DEF Overlay, KeepsOwners
  <2>4. KeepsOwners(cmd[r], t)
    BY <2>2, <2>3 DEF KeepsOwners
  <2>5. QED
    BY <2>1, <2>2, <2>4, StatementIsOrderly
<1>3. QED
  BY <1>1, <1>2

\* SELECT ... FOR UPDATE of a customer, the first row of its transaction.
LEMMA LockCustomerIsOrderly ==
  ASSUME LocalInvariant, NEW r \in Requests, NEW next, NEW c \in Nat, NEW missing,
         LockCustomer(r, next, c, missing), tx[r] = NoTx
  PROVE  Orderly(r)
<1>1. CASE c \notin DOMAIN customer
  BY <1>1, RefuseIsOrderly DEF LockCustomer
<1>2. CASE c \in DOMAIN customer
  <2> DEFINE t == [tx[r] EXCEPT !.held = @ \cup {CustomerKey(c)},
                                !.customer = Overlay(@, c, customer[c])]
  <2>1. Statement(r, next, t) /\ Free(r, CustomerKey(c))
    BY <1>2 DEF LockCustomer
  <2>2. t.held = tx[r].held \cup {CustomerKey(c)} /\ t.account = tx[r].account
    BY Facts DEF IsTransaction, NoTx
  <2>3. tx[r].held = {} /\ DOMAIN tx[r].account = {}
    BY EmptyTableTyped DEF NoTx
  <2>4. KeepsOwners(cmd[r], t)
    BY <2>2, <2>3 DEF KeepsOwners
  <2>5. QED
    BY <2>1, <2>2, <2>3, <2>4, StatementIsOrderly
<1>3. QED
  BY <1>1, <1>2

\* UPDATE control, the first row of its transaction.
LEMMA ReserveIsOrderly ==
  ASSUME LocalInvariant, NEW r \in Requests, NEW next, NEW bumped,
         ReserveNumber(r, next, bumped), tx[r] = NoTx
  PROVE  Orderly(r)
<1> DEFINE t == [tx[r] EXCEPT !.held = @ \cup {ControlKey}, !.control = bumped]
<1>1. Statement(r, next, t) /\ Free(r, ControlKey)
  BY DEF ReserveNumber
<1>2. t.held = tx[r].held \cup {ControlKey} /\ t.account = tx[r].account
  BY Facts DEF IsTransaction, NoTx
<1>3. tx[r].held = {} /\ DOMAIN tx[r].account = {}
  BY EmptyTableTyped DEF NoTx
<1>4. KeepsOwners(cmd[r], t)
  BY <1>2, <1>3 DEF KeepsOwners
<1>5. QED
  BY <1>1, <1>2, <1>3, <1>4, StatementIsOrderly

\* INSERT INTO proctran locks no row another transaction can want.
LEMMA InsertProctranIsOrderly ==
  ASSUME LocalInvariant, NEW r \in Requests, NEW next, NEW type, NEW amount,
         InsertProctran(r, next, type, amount), KeepsOwners(cmd[r], tx[r])
  PROVE  Orderly(r)
<1> DEFINE t == [tx[r] EXCEPT !.proctran = Append(@, Audit(r, type, amount))]
<1>1. Statement(r, next, t)
  BY DEF InsertProctran
<1>2. t.held = tx[r].held /\ t.account = tx[r].account
  BY Facts DEF IsTransaction, NoTx
<1>3. KeepsOwners(cmd[r], t)
  BY <1>2 DEF KeepsOwners
<1>4. QED
  BY <1>1, <1>2, <1>3, StatementIsOrderly

\* UPDATE account leaves the owner of the account alone.
LEMMA WriteAccountIsOrderly ==
  ASSUME LocalInvariant, NEW r \in Requests, NEW next, NEW a \in DOMAIN tx[r].account,
         NEW row, row.customer = tx[r].account[a].customer,
         Statement(r, next, [tx[r] EXCEPT !.account = Overlay(@, a, row)]),
         KeepsOwners(cmd[r], tx[r])
  PROVE  Orderly(r)
<1> DEFINE own == Overlay(tx[r].account, a, row)
           t == [tx[r] EXCEPT !.account = own]
<1>1. t.held = tx[r].held /\ t.account = own
  BY Facts DEF IsTransaction, NoTx
<1>2. DOMAIN own = DOMAIN tx[r].account
      /\ \A b \in DOMAIN own : own[b].customer = tx[r].account[b].customer
  BY DEF Overlay
<1>3. KeepsOwners(cmd[r], t)
  BY <1>1, <1>2 DEF KeepsOwners
<1>4. QED
  BY <1>1, <1>3, StatementIsOrderly

-----------------------------------------------------------------------------
(* One lemma per program: its steps before COMMIT are orderly.              *)

\* XFRFUN: the lower account number first.
LEMMA XfrfunIsOrderly ==
  ASSUME LocalInvariant, NEW r \in Requests, KeepsOwners(cmd[r], tx[r]), XfrfunStep(r)
  PROVE  Orderly(r)
<1> DEFINE c == cmd[r]
           t == tx[r]
<1>1. c \in Commands /\ IsTransaction(t) /\ pc[r] \in LabelsOf[c.prog] \cup SharedLabels
      /\ Placed(c, pc[r], attempts[r], t)
  BY Facts
<1>2. pc[r] \in LabelsOf["XFRFUN"] =>
        c.prog = "XFRFUN" /\ Accepted(c) /\ XfrfunHolds(c, pc[r], t)
  BY <1>1, ProgramOfLabel, Labels DEF Placed
<1>3. c.prog = "XFRFUN" =>
        c.from \in Nat /\ c.to \in Nat /\ (Accepted(c) => c.from # c.to)
  BY <1>1, CommandFields DEF XfrfunCommands, Accepted, XfrfunRejection, None, Abend,
     Fail, Invalid
<1>4. CASE XfrfunReceive(r)
  BY <1>4, ReceiveIsOrderly DEF XfrfunReceive
<1>5. CASE XfrfunBegin(r)
  BY <1>5, BeginIsOrderly DEF XfrfunBegin
<1>6. CASE XfrfunLockFrom(r)
  <2>1. c.prog = "XFRFUN" /\ c.from \in Nat /\ c.to \in Nat
        /\ (c.from < c.to \/ c.to < c.from) /\ XfrfunHolds(c, "xfr_from", t)
    BY <1>2, <1>3, <1>6, Labels DEF XfrfunLockFrom
  <2>2. \A h \in t.held : RowBefore(h, AccountKey(c.from))
    BY <2>1 DEF XfrfunHolds, NoTx, HoldsAccounts, RowBefore, AccountKey
  <2>3. QED
    BY <1>6, <2>1, <2>2, LockAccountIsOrderly DEF XfrfunLockFrom
<1>7. CASE XfrfunLockTo(r)
  <2>1. c.prog = "XFRFUN" /\ c.from \in Nat /\ c.to \in Nat
        /\ (c.from < c.to \/ c.to < c.from) /\ XfrfunHolds(c, "xfr_to", t)
    BY <1>2, <1>3, <1>7, Labels DEF XfrfunLockTo
  <2>2. \A h \in t.held : RowBefore(h, AccountKey(c.to))
    BY <2>1 DEF XfrfunHolds, NoTx, HoldsAccounts, RowBefore, AccountKey
  <2>3. QED
    BY <1>7, <2>1, <2>2, LockAccountIsOrderly DEF XfrfunLockTo
<1>8. CASE XfrfunDebit(r)
  <2> DEFINE row == Moved(t.account[c.from], -c.amount)
  <2>1. /\ c.prog = "XFRFUN" /\ DOMAIN t.account = {c.from, c.to}
        /\ IsAccountTable(t.account)
    BY <1>1, <1>2, <1>8, Labels DEF XfrfunDebit, XfrfunHolds, HoldsAccounts,
       IsTransaction
  <2>2. row.customer = t.account[c.from].customer
    BY <2>1 DEF Moved, IsAccountTable, AccountRow
  <2>3. \/ \E rep : Refuse(r, rep)
        \/ Statement(r, "xfr_credit", [tx[r] EXCEPT !.account = Overlay(@, c.from, row)])
    BY <1>8, Zenon DEF XfrfunDebit
  <2>4. QED
    BY <2>1, <2>2, <2>3, RefuseIsOrderly, WriteAccountIsOrderly
<1>9. CASE XfrfunCredit(r)
  <2> DEFINE row == Moved(t.account[c.to], c.amount)
  <2>1. /\ c.prog = "XFRFUN" /\ DOMAIN t.account = {c.from, c.to}
        /\ IsAccountTable(t.account)
    BY <1>1, <1>2, <1>9, Labels DEF XfrfunCredit, XfrfunHolds, HoldsAccounts,
       IsTransaction
  <2>2. row.customer = t.account[c.to].customer
    BY <2>1 DEF Moved, IsAccountTable, AccountRow
  <2>3. \/ \E rep : Refuse(r, rep)
        \/ Statement(r, "xfr_proctran", [tx[r] EXCEPT !.account = Overlay(@, c.to, row)])
    BY <1>9, Zenon DEF XfrfunCredit
  <2>4. QED
    BY <2>1, <2>2, <2>3, RefuseIsOrderly, WriteAccountIsOrderly
<1>10. CASE XfrfunProctran(r)
  BY <1>10, InsertProctranIsOrderly DEF XfrfunProctran
<1>11. QED
  BY <1>4, <1>5, <1>6, <1>7, <1>8, <1>9, <1>10 DEF XfrfunStep

\* DBCRFUN locks one account.
LEMMA DbcrfunIsOrderly ==
  ASSUME LocalInvariant, NEW r \in Requests, KeepsOwners(cmd[r], tx[r]), DbcrfunStep(r)
  PROVE  Orderly(r)
<1> DEFINE c == cmd[r]
           t == tx[r]
<1>1. c \in Commands /\ IsTransaction(t) /\ pc[r] \in LabelsOf[c.prog] \cup SharedLabels
      /\ Placed(c, pc[r], attempts[r], t)
  BY Facts
<1>2. pc[r] \in LabelsOf["DBCRFUN"] =>
        c.prog = "DBCRFUN" /\ c.account \in Nat /\ DbcrfunHolds(c, pc[r], t)
  BY <1>1, ProgramOfLabel, Labels, CommandFields DEF Placed, DbcrfunCommands
<1>3. CASE DbcrfunReceive(r)
  BY <1>3, ReceiveIsOrderly DEF DbcrfunReceive
<1>4. CASE DbcrfunBegin(r)
  BY <1>4, BeginIsOrderly DEF DbcrfunBegin
<1>5. CASE DbcrfunLock(r)
  <2>1. t = NoTx /\ c.prog = "DBCRFUN" /\ c.account \in Nat
    BY <1>1, <1>2, <1>5, Labels DEF DbcrfunLock, Placed, EmptyHanded
  <2>2. t.held = {}
    BY <2>1 DEF NoTx
  <2>3. QED
    BY <1>5, <2>1, <2>2, LockAccountIsOrderly DEF DbcrfunLock
<1>6. CASE DbcrfunUpdate(r)
  <2> DEFINE row == Moved(t.account[c.account], c.amount)
  <2>1. DOMAIN t.account = {c.account} /\ IsAccountTable(t.account)
    BY <1>1, <1>2, <1>6, Labels DEF DbcrfunUpdate, DbcrfunHolds, HoldsAccounts,
       IsTransaction
  <2>2. row.customer = t.account[c.account].customer
    BY <2>1 DEF Moved, IsAccountTable, AccountRow
  <2>3. \/ \E rep : Refuse(r, rep)
        \/ Statement(r, "dbcr_proctran", [tx[r] EXCEPT !.account = Overlay(@, c.account, row)])
    BY <1>6, Zenon DEF DbcrfunUpdate
  <2>4. QED
    BY <2>1, <2>2, <2>3, RefuseIsOrderly, WriteAccountIsOrderly
<1>7. CASE DbcrfunProctran(r)
  BY <1>7, InsertProctranIsOrderly DEF DbcrfunProctran
<1>8. QED
  BY <1>3, <1>4, <1>5, <1>6, <1>7 DEF DbcrfunStep

\* UPDACC locks one account and does not give it to anyone else.
LEMMA UpdaccIsOrderly ==
  ASSUME LocalInvariant, NEW r \in Requests, KeepsOwners(cmd[r], tx[r]), UpdaccStep(r)
  PROVE  Orderly(r)
<1> DEFINE c == cmd[r]
           t == tx[r]
<1>1. c \in Commands /\ IsTransaction(t) /\ pc[r] \in LabelsOf[c.prog] \cup SharedLabels
      /\ Placed(c, pc[r], attempts[r], t)
  BY Facts
<1>2. pc[r] \in LabelsOf["UPDACC"] =>
        c.prog = "UPDACC" /\ c.account \in Nat /\ UpdaccHolds(c, pc[r], t)
  BY <1>1, ProgramOfLabel, Labels, CommandFields DEF Placed, UpdaccCommands
<1>3. CASE UpdaccReceive(r)
  BY <1>3, ReceiveIsOrderly DEF UpdaccReceive
<1>4. CASE UpdaccBegin(r)
  BY <1>4, BeginIsOrderly DEF UpdaccBegin
<1>5. CASE UpdaccLock(r)
  <2>1. t = NoTx /\ c.prog = "UPDACC" /\ c.account \in Nat
    BY <1>1, <1>2, <1>5, Labels DEF UpdaccLock, Placed, EmptyHanded
  <2>2. t.held = {}
    BY <2>1 DEF NoTx
  <2>3. QED
    BY <1>5, <2>1, <2>2, LockAccountIsOrderly DEF UpdaccLock
<1>6. CASE UpdaccUpdate(r)
  <2> DEFINE row == [t.account[c.account] EXCEPT !.type = c.type, !.overdraft = c.overdraft]
  <2>1. DOMAIN t.account = {c.account} /\ IsAccountTable(t.account)
    BY <1>1, <1>2, <1>6, Labels DEF UpdaccUpdate, UpdaccHolds, HoldsAccounts,
       IsTransaction
  <2>2. row.customer = t.account[c.account].customer
    BY <2>1 DEF IsAccountTable, AccountRow
  <2>3. Statement(r, "updacc_proctran", [tx[r] EXCEPT !.account = Overlay(@, c.account, row)])
    BY <1>6, Zenon DEF UpdaccUpdate
  <2>4. QED
    BY <2>1, <2>2, <2>3, WriteAccountIsOrderly
<1>7. CASE UpdaccProctran(r)
  BY <1>7, InsertProctranIsOrderly DEF UpdaccProctran
<1>8. QED
  BY <1>3, <1>4, <1>5, <1>6, <1>7 DEF UpdaccStep

\* DELACC locks one account.
LEMMA DelaccIsOrderly ==
  ASSUME LocalInvariant, NEW r \in Requests, KeepsOwners(cmd[r], tx[r]), DelaccStep(r)
  PROVE  Orderly(r)
<1> DEFINE c == cmd[r]
           t == tx[r]
<1>1. c \in Commands /\ IsTransaction(t) /\ pc[r] \in LabelsOf[c.prog] \cup SharedLabels
      /\ Placed(c, pc[r], attempts[r], t)
  BY Facts
<1>2. pc[r] \in LabelsOf["DELACC"] => c.prog = "DELACC" /\ c.account \in Nat
  BY <1>1, ProgramOfLabel, Labels, CommandFields DEF Placed, DelaccCommands
<1>3. CASE DelaccReceive(r)
  BY <1>3, ReceiveIsOrderly DEF DelaccReceive
<1>4. CASE DelaccBegin(r)
  BY <1>4, BeginIsOrderly DEF DelaccBegin
<1>5. CASE DelaccLock(r)
  <2>1. t = NoTx /\ c.prog = "DELACC" /\ c.account \in Nat
    BY <1>1, <1>2, <1>5, Labels DEF DelaccLock, Placed, EmptyHanded
  <2>2. t.held = {}
    BY <2>1 DEF NoTx
  <2>3. QED
    BY <1>5, <2>1, <2>2, LockAccountIsOrderly DEF DelaccLock
<1>6. CASE DelaccDelete(r)
  <2> DEFINE own == Without(t.account, c.account)
             u == [tx[r] EXCEPT !.list = tx[r].account, !.account = own]
  <2>1. Statement(r, "delacc_proctran", u)
    BY <1>6 DEF DelaccDelete
  <2>2. u.held = t.held /\ u.account = own
    BY <1>1 DEF IsTransaction, NoTx
  <2>3. KeepsOwners(c, u)
    BY <2>2 DEF KeepsOwners, Without
  <2>4. QED
    BY <2>1, <2>2, <2>3, StatementIsOrderly
<1>7. CASE DelaccProctran(r)
  BY <1>7, InsertProctranIsOrderly DEF DelaccProctran
<1>8. QED
  BY <1>3, <1>4, <1>5, <1>6, <1>7 DEF DelaccStep

\* UPDCUST locks one customer.
LEMMA UpdcustIsOrderly ==
  ASSUME LocalInvariant, NEW r \in Requests, KeepsOwners(cmd[r], tx[r]), UpdcustStep(r)
  PROVE  Orderly(r)
<1> DEFINE c == cmd[r]
           t == tx[r]
<1>1. c \in Commands /\ IsTransaction(t) /\ pc[r] \in LabelsOf[c.prog] \cup SharedLabels
      /\ Placed(c, pc[r], attempts[r], t)
  BY Facts
<1>2. pc[r] \in LabelsOf["UPDCUST"] => c.prog = "UPDCUST" /\ c.customer \in Nat
  BY <1>1, ProgramOfLabel, Labels, CommandFields DEF Placed, UpdcustCommands
<1>3. CASE UpdcustReceive(r)
  BY <1>3, ReceiveIsOrderly DEF UpdcustReceive
<1>4. CASE UpdcustBegin(r)
  BY <1>4, BeginIsOrderly DEF UpdcustBegin
<1>5. CASE UpdcustLock(r)
  <2>1. t = NoTx /\ c.customer \in Nat
    BY <1>1, <1>2, <1>5, Labels DEF UpdcustLock, Placed, EmptyHanded
  <2>2. QED
    BY <1>5, <2>1, LockCustomerIsOrderly DEF UpdcustLock
<1>6. CASE UpdcustUpdate(r)
  <2> DEFINE own == Overlay(t.customer, c.customer,
                            ResolvedFields(t.customer[c.customer], c))
             u == [tx[r] EXCEPT !.customer = own]
  <2>1. \/ Refuse(r, Fail("4"))
        \/ Statement(r, "updcust_proctran", u)
    BY <1>6 DEF UpdcustUpdate
  <2>2. u.held = t.held /\ u.account = t.account
    BY <1>1 DEF IsTransaction, NoTx
  <2>3. KeepsOwners(c, u)
    BY <2>2 DEF KeepsOwners
  <2>4. QED
    BY <2>1, <2>2, <2>3, RefuseIsOrderly, StatementIsOrderly
<1>7. CASE UpdcustProctran(r)
  BY <1>7, InsertProctranIsOrderly DEF UpdcustProctran
<1>8. QED
  BY <1>3, <1>4, <1>5, <1>6, <1>7 DEF UpdcustStep

\* DELCUS: the customer first, then its accounts by number.
LEMMA DelcusIsOrderly ==
  ASSUME LocalInvariant, NEW r \in Requests, KeepsOwners(cmd[r], tx[r]), DelcusStep(r)
  PROVE  Orderly(r)
<1> DEFINE c == cmd[r]
           t == tx[r]
<1>1. c \in Commands /\ IsTransaction(t) /\ pc[r] \in LabelsOf[c.prog] \cup SharedLabels
      /\ Placed(c, pc[r], attempts[r], t)
  BY Facts
<1>2. pc[r] \in LabelsOf["DELCUS"] =>
        c.prog = "DELCUS" /\ c.customer \in Nat /\ DelcusHolds(c, pc[r], t)
  BY <1>1, ProgramOfLabel, Labels, CommandFields DEF Placed, DelcusCommands
<1>3. CASE DelcusReceive(r)
  BY <1>3, ReceiveIsOrderly DEF DelcusReceive
<1>4. CASE DelcusBegin(r)
  BY <1>4, BeginIsOrderly DEF DelcusBegin
<1>5. CASE DelcusLock(r)
  <2>1. t = NoTx /\ c.customer \in Nat
    BY <1>1, <1>2, <1>5, Labels DEF DelcusLock, Placed, EmptyHanded
  <2>2. QED
    BY <1>5, <2>1, LockCustomerIsOrderly DEF DelcusLock
<1>6. CASE DelcusList(r)
  <2> DEFINE page == FirstPage(c.customer)
             u == [tx[r] EXCEPT !.list = page, !.queue = DOMAIN page]
  <2>1. Statement(r, "delcus_delete", u)
    BY <1>6 DEF DelcusList
  <2>2. u.held = t.held /\ u.account = t.account
    BY <1>1 DEF IsTransaction, NoTx
  <2>3. KeepsOwners(c, u)
    BY <2>2 DEF KeepsOwners
  <2>4. QED
    BY <2>1, <2>2, <2>3, StatementIsOrderly
<1>7. CASE DelcusDeleteAccount(r)
  <2>1. PICK a \in t.queue :
          /\ IsNext(a, t.queue) /\ Free(r, AccountKey(a))
          /\ \/ Statement(r, "delcus_audit",
                  [tx[r] EXCEPT !.held = @ \cup {AccountKey(a)}])
             \/ Statement(r, "delcus_delete", [tx[r] EXCEPT !.queue = @ \ {a}])
    BY <1>7 DEF DelcusDeleteAccount
  <2>2. DelcusHolds(c, "delcus_delete", t)
    BY <1>2, <1>7, Labels DEF DelcusDeleteAccount
  <2>3. CASE Statement(r, "delcus_delete", [tx[r] EXCEPT !.queue = @ \ {a}])
    <3> DEFINE u == [tx[r] EXCEPT !.queue = @ \ {a}]
    <3>1. u.held = t.held /\ u.account = t.account
      BY <1>1 DEF IsTransaction, NoTx
    <3>2. KeepsOwners(c, u)
      BY <3>1 DEF KeepsOwners
    <3>3. QED
      BY <2>3, <3>1, <3>2, StatementIsOrderly
  <2>4. CASE Statement(r, "delcus_audit", [tx[r] EXCEPT !.held = @ \cup {AccountKey(a)}])
    <3> DEFINE u == [tx[r] EXCEPT !.held = @ \cup {AccountKey(a)}]
    <3>1. u.held = t.held \cup {AccountKey(a)} /\ u.account = t.account
      BY <1>1 DEF IsTransaction, NoTx
    <3>2. KeepsOwners(c, u)
      BY <3>1 DEF KeepsOwners
    <3>3. \A h \in t.held : RowBefore(h, AccountKey(a))
      <4> SUFFICES ASSUME NEW h \in t.held
                   PROVE  RowBefore(h, AccountKey(a))
        OBVIOUS
      <4>1. h = CustomerKey(c.customer) \/ (h[1] = 2 /\ h[2] < a)
        BY <2>1, <2>2 DEF DelcusHolds
      <4>2. QED
        BY <4>1 DEF RowBefore, CustomerKey, AccountKey
    <3>4. QED
      BY <2>1, <2>4, <3>1, <3>2, <3>3, StatementIsOrderly
  <2>5. QED
    BY <2>1, <2>3, <2>4
<1>8. CASE DelcusAuditAccount(r)
  <2>1. PICK a \in t.queue :
          Statement(r, "delcus_delete",
            [tx[r] EXCEPT !.queue = @ \ {a},
                          !.proctran = Append(@, Audit(r, "ODA", t.list[a].actual))])
    BY <1>8 DEF DelcusAuditAccount
  <2> DEFINE u == [tx[r] EXCEPT !.queue = @ \ {a},
                                !.proctran = Append(@, Audit(r, "ODA", t.list[a].actual))]
  <2>2. u.held = t.held /\ u.account = t.account
    BY <1>1 DEF IsTransaction, NoTx
  <2>3. KeepsOwners(c, u)
    BY <2>2 DEF KeepsOwners
  <2>4. QED
    BY <2>1, <2>2, <2>3, StatementIsOrderly
<1>9. CASE DelcusDeleteCustomer(r)
  <2> DEFINE own == Without(t.customer, c.customer)
             u == [tx[r] EXCEPT !.customer = own]
  <2>1. \/ RetryOrGiveUp(r)
        \/ Refuse(r, Abend("WPV7"))
        \/ Statement(r, "delcus_proctran", u)
    BY <1>9 DEF DelcusDeleteCustomer
  <2>2. u.held = t.held /\ u.account = t.account
    BY <1>1 DEF IsTransaction, NoTx
  <2>3. KeepsOwners(c, u)
    BY <2>2 DEF KeepsOwners
  <2>4. QED
    BY <2>1, <2>2, <2>3, RetryIsOrderly, RefuseIsOrderly, StatementIsOrderly
<1>10. CASE DelcusProctran(r)
  BY <1>10, InsertProctranIsOrderly DEF DelcusProctran
<1>11. QED
  BY <1>3, <1>4, <1>5, <1>6, <1>7, <1>8, <1>9, <1>10 DEF DelcusStep

\* CREACC: the control row, then the new account.
LEMMA CreaccIsOrderly ==
  ASSUME LocalInvariant, NEW r \in Requests, KeepsOwners(cmd[r], tx[r]), CreaccStep(r)
  PROVE  Orderly(r)
<1> DEFINE c == cmd[r]
           t == tx[r]
<1>1. c \in Commands /\ IsTransaction(t) /\ pc[r] \in LabelsOf[c.prog] \cup SharedLabels
      /\ Placed(c, pc[r], attempts[r], t)
  BY Facts
<1>2. pc[r] \in LabelsOf["CREACC"] =>
        c.prog = "CREACC" /\ CreaccHolds(c, pc[r], t)
        /\ (pc[r] \in EmptyHanded => t = NoTx)
  BY <1>1, ProgramOfLabel, Labels DEF Placed
<1>3. CASE CreaccReceive(r)
  BY <1>3, ReceiveIsOrderly DEF CreaccReceive
<1>4. CASE CreaccInqcust(r)
  BY <1>4, RefuseIsOrderly, ForgettingIsOrderly DEF CreaccInqcust, Statement, tables
<1>5. CASE CreaccInqacccu(r)
  BY <1>5, RefuseIsOrderly, ForgettingIsOrderly DEF CreaccInqacccu, Statement, tables
<1>6. CASE CreaccBegin(r)
  BY <1>6, BeginIsOrderly DEF CreaccBegin
<1>7. CASE CreaccReserve(r)
  BY <1>2, <1>7, Labels, ReserveIsOrderly DEF CreaccReserve, EmptyHanded
<1>8. CASE CreaccInsert(r)
  <2> DEFINE a == t.control.account_last
             own == Overlay(t.account, a, NewAccount(c))
             u == [tx[r] EXCEPT !.held = @ \cup {AccountKey(a)}, !.account = own]
  <2>1. c.prog = "CREACC" /\ t.held = {ControlKey} /\ DOMAIN t.account = {}
    BY <1>2, <1>8, Labels DEF CreaccInsert, CreaccHolds
  <2>2. Free(r, AccountKey(a))
        /\ \/ \E rep : Refuse(r, rep)
           \/ Statement(r, "creacc_proctran", u)
    BY <1>8, Zenon DEF CreaccInsert
  <2>3. u.held = t.held \cup {AccountKey(a)} /\ u.account = own
    BY <1>1 DEF IsTransaction, NoTx
  <2>4. DOMAIN own = {a} /\ own[a].customer = c.customer
    BY <2>1 DEF Overlay, NewAccount
  <2>5. KeepsOwners(c, u)
    BY <2>1, <2>3, <2>4 DEF KeepsOwners
  <2>6. RowBefore(ControlKey, AccountKey(a))
    BY DEF RowBefore, ControlKey, AccountKey
  <2>7. QED
    BY <2>1, <2>2, <2>3, <2>5, <2>6, RefuseIsOrderly, StatementIsOrderly
<1>9. CASE CreaccProctran(r)
  BY <1>9, InsertProctranIsOrderly DEF CreaccProctran
<1>10. QED
  BY <1>3, <1>4, <1>5, <1>6, <1>7, <1>8, <1>9 DEF CreaccStep

\* CRECUST: the control row, then the new customer.
LEMMA CrecustIsOrderly ==
  ASSUME LocalInvariant, NEW r \in Requests, KeepsOwners(cmd[r], tx[r]), CrecustStep(r)
  PROVE  Orderly(r)
<1> DEFINE c == cmd[r]
           t == tx[r]
<1>1. c \in Commands /\ IsTransaction(t) /\ pc[r] \in LabelsOf[c.prog] \cup SharedLabels
      /\ Placed(c, pc[r], attempts[r], t)
  BY Facts
<1>2. pc[r] \in LabelsOf["CRECUST"] =>
        CrecustHolds(c, pc[r], t) /\ (pc[r] \in EmptyHanded => t = NoTx)
  BY <1>1, ProgramOfLabel, Labels DEF Placed
<1>3. CASE CrecustReceive(r)
  BY <1>3, ReceiveIsOrderly DEF CrecustReceive
<1>4. CASE CrecustCredit(r)
  BY <1>4, RefuseIsOrderly, ForgettingIsOrderly DEF CrecustCredit, Statement, tables
<1>5. CASE CrecustBegin(r)
  BY <1>5, BeginIsOrderly DEF CrecustBegin
<1>6. CASE CrecustReserve(r)
  BY <1>2, <1>6, Labels, ReserveIsOrderly DEF CrecustReserve, EmptyHanded
<1>7. CASE CrecustInsert(r)
  <2> DEFINE n == t.control.customer_last
             row == [name |-> c.name, address |-> c.address]
             u == [tx[r] EXCEPT !.held = @ \cup {CustomerKey(n)},
                                !.customer = Overlay(@, n, row)]
  <2>1. t.held = {ControlKey} /\ DOMAIN t.account = {}
    BY <1>2, <1>7, Labels DEF CrecustInsert, CrecustHolds
  <2>2. Free(r, CustomerKey(n))
        /\ \/ \E rep : Refuse(r, rep)
           \/ Statement(r, "crecust_proctran", u)
    BY <1>7, Zenon DEF CrecustInsert
  <2>3. u.held = t.held \cup {CustomerKey(n)} /\ u.account = t.account
    BY <1>1 DEF IsTransaction, NoTx
  <2>4. KeepsOwners(c, u)
    BY <2>1, <2>3 DEF KeepsOwners
  <2>5. RowBefore(ControlKey, CustomerKey(n))
    BY DEF RowBefore, ControlKey, CustomerKey
  <2>6. QED
    BY <2>1, <2>2, <2>3, <2>4, <2>5, RefuseIsOrderly, StatementIsOrderly
<1>8. CASE CrecustProctran(r)
  BY <1>8, InsertProctranIsOrderly DEF CrecustProctran
<1>9. QED
  BY <1>3, <1>4, <1>5, <1>6, <1>7, <1>8 DEF CrecustStep

-----------------------------------------------------------------------------
(* Every step of the service.                                              *)

\* A COMMIT that is applied, whether or not the client learns of it.
Installs(r) ==
  /\ pc[r] = "commit" /\ ReadsStillValid(r) /\ Install(r)
  /\ tx' = [tx EXCEPT ![r] = NoTx]
  /\ UNCHANGED cmd

\* A step of a request is orderly, or applies its COMMIT.
LEMMA StepIsOrderly ==
  ASSUME LocalInvariant, OwnersKept, NEW r \in Requests, Progress(r) \/ Trouble(r)
  PROVE  Orderly(r) \/ Installs(r)
<1>1. KeepsOwners(cmd[r], tx[r])
  BY DEF OwnersKept
<1>2. CASE ProgramStep(r)
  BY <1>1, <1>2, XfrfunIsOrderly, DbcrfunIsOrderly, UpdaccIsOrderly, DelaccIsOrderly,
     UpdcustIsOrderly, DelcusIsOrderly, CreaccIsOrderly, CrecustIsOrderly
  DEF ProgramStep
<1>3. CASE Commit(r)
  BY <1>3 DEF Commit, Installs
<1>4. CASE CommitConflict(r) \/ SerializationFailure(r)
  BY <1>4, RetryIsOrderly DEF CommitConflict, SerializationFailure
<1>5. ASSUME NEW rep, Answer(r, rep)
      PROVE  Orderly(r)
  BY <1>5, ForgettingIsOrderly DEF Answer, tables
<1>6. CASE DatabaseError(r) \/ BeginError(r) \/ CreaccSerializationFailure(r)
  BY <1>5, <1>6 DEF DatabaseError, StatementError, BeginError, CreaccSerializationFailure,
     Refuse
<1>7. CASE Abandon(r)
  BY <1>7, ForgettingIsOrderly DEF Abandon, tables
<1>8. CASE CommitLost(r)
  <2>1. CASE ReadsStillValid(r) /\ Install(r)
    BY <1>8, <2>1 DEF CommitLost, Installs
  <2>2. CASE UNCHANGED tables
    BY <1>8, <2>2, ForgettingIsOrderly DEF CommitLost, tables
  <2>3. QED
    BY <1>8, <2>1, <2>2 DEF CommitLost
<1>9. QED
  BY <1>2, <1>3, <1>4, <1>6, <1>7, <1>8 DEF Progress, Trouble

\* Either way it takes rows in turn.
LEMMA InstallLocksNothing ==
  ASSUME LocalInvariant, NEW r \in Requests, Installs(r)
  PROVE  LocksInTurn(r)
<1>1. tx'[r] = NoTx /\ \A q \in Requests \ {r} : tx'[q] = tx[q]
  BY DEF Installs, LocalInvariant, TypeOK
<1>2. QED
  BY <1>1 DEF LocksInTurn, NoTx

\* A transaction has a version only of rows it holds.
LEMMA OwnRowsAreHeld ==
  ASSUME LocalInvariant, NEW r \in Requests, NEW a \in DOMAIN tx[r].account
  PROVE  AccountKey(a) \in tx[r].held
<1> DEFINE c == cmd[r]
           p == pc[r]
           t == tx[r]
<1>1. c \in Commands /\ p \in LabelsOf[c.prog] \cup SharedLabels
      /\ Placed(c, p, attempts[r], t)
  BY Facts
<1>2. p \notin EmptyHanded
  BY <1>1, EmptyTableTyped DEF Placed, NoTx
<1>3. p \in (LabelsOf[c.prog] \ EmptyHanded) \cup {"commit"}
  BY <1>1, <1>2 DEF SharedLabels, EmptyHanded
<1>4. CASE c.prog = "XFRFUN"
  BY <1>1, <1>3, <1>4, EmptyTableTyped, Labels
  DEF Placed, XfrfunHolds, HoldsAccounts, NoTx
<1>5. CASE c.prog = "DBCRFUN"
  BY <1>1, <1>3, <1>5, Labels DEF Placed, DbcrfunHolds, HoldsAccounts, EmptyHanded
<1>6. CASE c.prog = "UPDACC"
  BY <1>1, <1>3, <1>6, Labels DEF Placed, UpdaccHolds, HoldsAccounts, EmptyHanded
<1>7. CASE c.prog = "DELACC"
  BY <1>1, <1>3, <1>7, Labels DEF Placed, DelaccHolds, HoldsAccounts, EmptyHanded
<1>8. CASE c.prog = "UPDCUST"
  BY <1>1, <1>3, <1>8, Labels DEF Placed, UpdcustHolds, HoldsCustomer, EmptyHanded
<1>9. CASE c.prog = "DELCUS"
  BY <1>1, <1>3, <1>9, Labels DEF Placed, DelcusHolds, HoldsCustomer, EmptyHanded
<1>10. CASE c.prog = "CREACC"
  BY <1>1, <1>3, <1>10, Labels DEF Placed, CreaccHolds, EmptyHanded
<1>11. CASE c.prog = "CRECUST"
  BY <1>1, <1>3, <1>11, Labels DEF Placed, CrecustHolds, EmptyHanded
<1>12. QED
  BY <1>1, <1>4, <1>5, <1>6, <1>7, <1>8, <1>9, <1>10, <1>11, CommandFields DEF LabelsOf

\* Only DELCUS removes a customer, and it writes no account.
LEMMA CustomersStay ==
  ASSUME LocalInvariant, NEW r \in Requests, Installs(r)
  PROVE  /\ cmd[r].prog # "DELCUS" => DOMAIN customer \subseteq DOMAIN customer'
         /\ cmd[r].prog = "DELCUS" =>
              /\ DOMAIN customer \subseteq DOMAIN customer' \cup {cmd[r].customer}
              /\ DOMAIN tx[r].account = {}
<1> DEFINE c == cmd[r]
           t == tx[r]
<1>1. c \in Commands /\ Placed(c, "commit", attempts[r], t)
  BY Facts DEF Installs
<1>2. DOMAIN customer' = (DOMAIN customer \ KeysOf(1, t.held)) \cup DOMAIN t.customer
  <2>1. customer' = Merge(customer, t.customer, KeysOf(1, t.held))
    BY DEF Installs, Install
  <2>2. QED
    BY <2>1, MergeTyped, Zenon
<1>3. ASSUME NEW n \in KeysOf(1, t.held)
      PROVE  \E k \in t.held : k[1] = 1 /\ k[2] = n
  BY <1>3 DEF KeysOf
<1>4. CASE c.prog = "DELCUS"
  <2>1. \A k \in t.held : k = CustomerKey(c.customer) \/ k[1] = 2
    BY <1>1, <1>4 DEF Placed, DelcusHolds
  <2>2. \A n \in KeysOf(1, t.held) : n = c.customer
    BY <1>3, <2>1 DEF CustomerKey
  <2>3. QED
    BY <1>1, <1>2, <1>4, <2>2 DEF Placed, DelcusHolds
<1>5. CASE c.prog \in {"UPDCUST", "CRECUST"}
  <2>1. \A k \in t.held : k[1] = 1 => k[2] \in DOMAIN t.customer
    BY <1>1, <1>5 DEF Placed, UpdcustHolds, CrecustHolds, HoldsCustomer, CustomerKey,
       ControlKey
  <2>2. QED
    BY <1>2, <1>3, <1>5, <2>1
<1>6. CASE c.prog \in {"XFRFUN", "DBCRFUN", "UPDACC", "DELACC", "CREACC"}
  <2>1. \A k \in t.held : k[1] # 1
    BY <1>1, <1>6 DEF Placed, XfrfunHolds, DbcrfunHolds, UpdaccHolds, DelaccHolds,
       CreaccHolds, HoldsAccounts, AccountKey, ControlKey
  <2>2. QED
    BY <1>2, <1>3, <1>6, <2>1
<1>7. QED
  BY <1>1, <1>4, <1>5, <1>6, CommandFields DEF LabelsOf

\* No account is left without its customer when a COMMIT is applied: CREACC's
\* customer still exists, and DELCUS has deleted every account of the customer.
LEMMA InstallKeepsIntegrity ==
  ASSUME LocalInvariant, OwnersKept, ReferentialIntegrity, NEW r \in Requests, Installs(r)
  PROVE  ReferentialIntegrity'
<1> DEFINE c == cmd[r]
           t == tx[r]
<1>1. account' = Merge(account, t.account, KeysOf(2, t.held)) /\ ReadsStillValid(r)
      /\ KeepsOwners(c, t)
  BY DEF Installs, Install, OwnersKept
<1>2. SUFFICES ASSUME NEW a \in DOMAIN account'
               PROVE  account'[a].customer \in DOMAIN customer'
  BY DEF ReferentialIntegrity
<1>3. CASE a \in DOMAIN t.account
  <2>1. account'[a] = t.account[a] /\ c.prog # "DELCUS"
    BY <1>1, <1>3, CustomersStay DEF Merge
  <2>2. t.account[a].customer \in DOMAIN customer
    BY <1>1, <1>3 DEF KeepsOwners, ReadsStillValid, ReferentialIntegrity
  <2>3. QED
    BY <2>1, <2>2, CustomersStay
<1>4. CASE a \notin DOMAIN t.account
  <2>1. a \in DOMAIN account \ KeysOf(2, t.held) /\ account'[a] = account[a]
    BY <1>1, <1>2, <1>4 DEF Merge
  <2>2. account[a].customer \in DOMAIN customer
    BY <2>1 DEF ReferentialIntegrity
  <2>3. c.prog = "DELCUS" => account[a].customer # c.customer
    BY <1>1, <2>1 DEF ReadsStillValid, AccountsOf
  <2>4. QED
    BY <2>1, <2>2, <2>3, CustomersStay
<1>5. QED
  BY <1>3, <1>4

\* What the other transactions know of the rows they hold stays true, because
\* none of those rows is written.
LEMMA InstallKeepsOwners ==
  ASSUME LocalInvariant, RowsHaveOneWriter, OwnersKept, NEW r \in Requests, Installs(r)
  PROVE  OwnersKept'
<1>1. /\ account' = Merge(account, tx[r].account, KeysOf(2, tx[r].held))
      /\ cmd' = cmd /\ tx'[r] = NoTx /\ \A q \in Requests \ {r} : tx'[q] = tx[q]
  BY DEF Installs, Install, LocalInvariant, TypeOK
<1>2. SUFFICES ASSUME NEW q \in Requests, NEW a \in DOMAIN tx'[q].account
               PROVE  IF cmd[q].prog = "CREACC"
                        THEN tx'[q].account[a].customer = cmd[q].customer
                        ELSE /\ a \in DOMAIN account'
                             /\ tx'[q].account[a].customer = account'[a].customer
  BY <1>1 DEF OwnersKept, KeepsOwners
<1>3. q # r /\ tx'[q] = tx[q]
  BY <1>1, <1>2, EmptyTableTyped DEF NoTx
<1>4. AccountKey(a) \notin tx[r].held /\ a \notin DOMAIN tx[r].account
  BY <1>2, <1>3, OwnRowsAreHeld DEF RowsHaveOneWriter
<1>5. a \notin KeysOf(2, tx[r].held)
  <2>1. \A k \in tx[r].held : k[1] = 2 /\ k[2] = a => k = AccountKey(a)
    BY Facts DEF IsTransaction, LockKeys, AccountKey
  <2>2. QED
    BY <1>4, <2>1 DEF KeysOf
<1>6. a \in DOMAIN account => a \in DOMAIN account' /\ account'[a] = account[a]
  BY <1>1, <1>4, <1>5 DEF Merge
<1>7. QED
  BY <1>2, <1>3, <1>6 DEF OwnersKept, KeepsOwners

\* Taking only free rows, no two transactions come to hold the same row.
LEMMA TurnsKeepOneWriter ==
  ASSUME RowsHaveOneWriter, NEW r \in Requests, LocksInTurn(r)
  PROVE  RowsHaveOneWriter'
<1> SUFFICES ASSUME NEW p \in Requests, NEW q \in Requests, p # q,
                    NEW k \in tx'[p].held, k \in tx'[q].held
             PROVE  FALSE
  BY DEF RowsHaveOneWriter
<1>1. CASE p = r
  BY <1>1 DEF LocksInTurn, Free, RowsHaveOneWriter
<1>2. CASE q = r
  BY <1>2 DEF LocksInTurn, Free, RowsHaveOneWriter
<1>3. CASE p # r /\ q # r
  BY <1>3 DEF LocksInTurn, RowsHaveOneWriter
<1>4. QED
  BY <1>1, <1>2, <1>3

\* An orderly step leaves tables and owners as they should be.
LEMMA OrderKeepsTables ==
  ASSUME OwnersKept, ReferentialIntegrity, NEW r \in Requests, Orderly(r)
  PROVE  OwnersKept' /\ ReferentialIntegrity'
<1>1. ReferentialIntegrity'
  BY DEF Orderly, ReferentialIntegrity
<1>2. ASSUME NEW q \in Requests
      PROVE  KeepsOwners(cmd[q], tx'[q])
  BY <1>2 DEF Orderly, LocksInTurn, OwnersKept
<1>3. OwnersKept'
  BY <1>2 DEF Orderly, OwnersKept, KeepsOwners
<1>4. QED
  BY <1>1, <1>3

\* The invariant is inductive.
LEMMA SharedInvariantKept ==
  ASSUME SharedInvariant, [Next]_vars
  PROVE  SharedInvariant'
<1>1. LocalInvariant' /\ LocalInvariant
  BY StepKeeps DEF SharedInvariant
<1>2. CASE UNCHANGED vars
  BY <1>1, <1>2 DEF SharedInvariant, RowsHaveOneWriter, OwnersKept, KeepsOwners,
     ReferentialIntegrity, vars
<1>3. ASSUME NEW r \in Requests, Progress(r) \/ Trouble(r)
      PROVE  SharedInvariant'
  <2>1. LocksInTurn(r)
    BY <1>3, StepIsOrderly, InstallLocksNothing DEF Orderly, SharedInvariant
  <2>2. CASE Orderly(r)
    BY <1>1, <2>1, <2>2, TurnsKeepOneWriter, OrderKeepsTables DEF SharedInvariant
  <2>3. CASE Installs(r)
    BY <1>1, <2>1, <2>3, TurnsKeepOneWriter, InstallKeepsIntegrity, InstallKeepsOwners
    DEF SharedInvariant
  <2>4. QED
    BY <1>3, <2>2, <2>3, StepIsOrderly DEF SharedInvariant
<1>4. QED
  BY <1>2, <1>3 DEF Next, Idle

\* It holds of every database a run may start from.
LEMMA InitiallyShared ==
  ASSUME Init
  PROVE  SharedInvariant
<1>1. LocalInvariant
  BY InitiallyPlaced
<1>2. \A r \in Requests : tx[r].held = {} /\ DOMAIN tx[r].account = {}
  BY EmptyTableTyped DEF Init, NoTx
<1>3. ReferentialIntegrity
  BY DatabasesAssumption DEF Init, IsDatabase, ReferentialIntegrity
<1>4. QED
  BY <1>1, <1>2, <1>3 DEF SharedInvariant, RowsHaveOneWriter, OwnersKept, KeepsOwners

-----------------------------------------------------------------------------
(* Theorems.                                                               *)

\* What the transactions know of each other and of the tables is always so.
THEOREM SharingIsSound == Spec => []SharedInvariant
<1>1. Init => SharedInvariant
  BY InitiallyShared
<1>2. SharedInvariant /\ [Next]_vars => SharedInvariant'
  BY SharedInvariantKept
<1>3. QED
  BY <1>1, <1>2, PTL DEF Spec

\* No row is ever held by two transactions, so what a program computes from a
\* row it locked is installed over that very row: no update is lost.
THEOREM OneWriter == Spec => []RowsHaveOneWriter
<1>1. SharedInvariant => RowsHaveOneWriter
  BY DEF SharedInvariant
<1>2. QED
  BY <1>1, SharingIsSound, PTL

\* No account is ever without its customer, although CREACC looks at the
\* customer long before it inserts, and DELCUS lists the accounts it deletes
\* without locking them.
THEOREM IntegrityKept == Spec => []ReferentialIntegrity
<1>1. SharedInvariant => ReferentialIntegrity
  BY DEF SharedInvariant
<1>2. QED
  BY <1>1, SharingIsSound, PTL

\* Any number of requests, of any programs, lock rows in one global order, so
\* they can never wait for each other's locks in a circle.
THEOREM LocksAreOrdered == Spec => LockOrder
<1> DEFINE InOrder == \A r \in Requests :
                        \A k \in tx'[r].held \ tx[r].held :
                          \A h \in tx[r].held : RowBefore(h, k)
<1>1. SharedInvariant /\ [Next]_vars => [InOrder]_vars
  <2> SUFFICES ASSUME SharedInvariant, Next, ~(UNCHANGED vars)
               PROVE  InOrder
    OBVIOUS
  <2>1. PICK r \in Requests : Progress(r) \/ Trouble(r)
    BY DEF Next, Idle
  <2>2. LocksInTurn(r)
    BY <2>1, StepIsOrderly, InstallLocksNothing DEF Orderly, SharedInvariant
  <2>3. QED
    BY <2>2 DEF LocksInTurn
<1>2. QED
  BY <1>1, SharingIsSound, PTL DEF Spec, LockOrder
=============================================================================
