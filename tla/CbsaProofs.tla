------------------------------- MODULE CbsaProofs ------------------------------
(***************************************************************************)
(* Theorems about the service, for any number of requests, commands, rows  *)
(* and attempts: what each request holds at each statement of its program, *)
(* and the types of everything the transactions install.                   *)
(***************************************************************************)
EXTENDS CbsaInvariant, TLAPS

-----------------------------------------------------------------------------
(* Commands and labels.                                                    *)

\* A command has the fields of its program.
LEMMA CommandFields ==
  ASSUME NEW c \in Commands
  PROVE  /\ c.prog \in DOMAIN LabelsOf
         /\ c.prog = "XFRFUN" => c \in XfrfunCommands
         /\ c.prog = "DBCRFUN" => c \in DbcrfunCommands
         /\ c.prog = "UPDACC" => c \in UpdaccCommands
         /\ c.prog = "DELACC" => c \in DelaccCommands
         /\ c.prog = "UPDCUST" => c \in UpdcustCommands
         /\ c.prog = "DELCUS" => c \in DelcusCommands
         /\ c.prog = "CREACC" => c \in CreaccCommands
         /\ c.prog = "CRECUST" => c \in CrecustCommands
<1>1. c \in AllCommands
  BY CommandsAssumption
<1>2. QED
  BY <1>1 DEF AllCommands, LabelsOf, XfrfunCommands, DbcrfunCommands,
     UpdaccCommands, DelaccCommands, UpdcustCommands, DelcusCommands,
     CreaccCommands, CrecustCommands

\* The statements of each program.
LEMMA Labels ==
  /\ LabelsOf["XFRFUN"] =
       {"xfr_from", "xfr_to", "xfr_debit", "xfr_credit", "xfr_proctran"}
  /\ LabelsOf["DBCRFUN"] = {"dbcr_lock", "dbcr_update", "dbcr_proctran"}
  /\ LabelsOf["UPDACC"] = {"updacc_lock", "updacc_update", "updacc_proctran"}
  /\ LabelsOf["DELACC"] = {"delacc_lock", "delacc_delete", "delacc_proctran"}
  /\ LabelsOf["UPDCUST"] = {"updcust_lock", "updcust_update", "updcust_proctran"}
  /\ LabelsOf["DELCUS"] = {"delcus_lock", "delcus_list", "delcus_delete",
                           "delcus_audit", "delcus_proctran"}
  /\ LabelsOf["CREACC"] = {"creacc_inqcust", "creacc_inqacccu", "creacc_reserve",
                           "creacc_insert", "creacc_proctran"}
  /\ LabelsOf["CRECUST"] = {"crecust_credit", "crecust_reserve", "crecust_insert",
                            "crecust_proctran"}
BY DEF LabelsOf, XfrfunErrors, DbcrfunErrors, UpdaccErrors, DelaccErrors,
   UpdcustErrors, DelcusErrors, CreaccErrors, CrecustErrors

\* A statement belongs to one program.
LEMMA ProgramOfLabel ==
  ASSUME NEW c \in Commands, NEW p \in LabelsOf[c.prog] \cup SharedLabels
  PROVE  /\ p \in LabelsOf["XFRFUN"] => c.prog = "XFRFUN"
         /\ p \in LabelsOf["DBCRFUN"] => c.prog = "DBCRFUN"
         /\ p \in LabelsOf["UPDACC"] => c.prog = "UPDACC"
         /\ p \in LabelsOf["DELACC"] => c.prog = "DELACC"
         /\ p \in LabelsOf["UPDCUST"] => c.prog = "UPDCUST"
         /\ p \in LabelsOf["DELCUS"] => c.prog = "DELCUS"
         /\ p \in LabelsOf["CREACC"] => c.prog = "CREACC"
         /\ p \in LabelsOf["CRECUST"] => c.prog = "CRECUST"
<1>1. c.prog \in {"XFRFUN", "DBCRFUN", "UPDACC", "DELACC", "UPDCUST", "DELCUS",
                  "CREACC", "CRECUST"}
  BY CommandFields DEF LabelsOf
<1>2. QED
  BY <1>1, Labels DEF SharedLabels

-----------------------------------------------------------------------------
(* Tables.                                                                 *)

\* The empty table is a table of customers and one of accounts.
LEMMA EmptyTableTyped ==
  /\ DOMAIN EmptyTable = {}
  /\ IsCustomerTable(EmptyTable) /\ IsAccountTable(EmptyTable)
BY DEF EmptyTable, IsCustomerTable, IsAccountTable

\* A transaction that has done nothing yet is one.
LEMMA NoTxTyped == IsTransaction(NoTx)
BY EmptyTableTyped DEF IsTransaction, NoTx, NoControl, Control

\* A table with one more typed row is a table.
LEMMA OverlayTyped ==
  ASSUME NEW t, NEW k \in Nat, NEW row
  PROVE  /\ DOMAIN Overlay(t, k, row) = DOMAIN t \cup {k}
         /\ IsCustomerTable(t) /\ row \in CustomerRow
              => IsCustomerTable(Overlay(t, k, row))
         /\ IsAccountTable(t) /\ row \in AccountRow
              => IsAccountTable(Overlay(t, k, row))
BY DEF Overlay, IsCustomerTable, IsAccountTable

\* So is a table with a row removed.
LEMMA WithoutTyped ==
  ASSUME NEW t, NEW k
  PROVE  /\ DOMAIN Without(t, k) = DOMAIN t \ {k}
         /\ IsCustomerTable(t) => IsCustomerTable(Without(t, k))
         /\ IsAccountTable(t) => IsAccountTable(Without(t, k))
BY DEF Without, IsCustomerTable, IsAccountTable

\* Installing the rows of a transaction makes a table of a table.
LEMMA MergeTyped ==
  ASSUME NEW base, NEW own, NEW held
  PROVE  /\ DOMAIN Merge(base, own, held) = (DOMAIN base \ held) \cup DOMAIN own
         /\ IsCustomerTable(base) /\ IsCustomerTable(own)
              => IsCustomerTable(Merge(base, own, held))
         /\ IsAccountTable(base) /\ IsAccountTable(own)
              => IsAccountTable(Merge(base, own, held))
BY DEF Merge, IsCustomerTable, IsAccountTable

-----------------------------------------------------------------------------
(* The building blocks of the actions keep the invariant.                  *)

\* A statement does, if it leaves its own request well placed.
LEMMA StatementKeeps ==
  ASSUME LocalInvariant, NEW r \in Requests, NEW next, NEW t,
         Statement(r, next, t),
         next \in LabelsOf[cmd[r].prog] \cup SharedLabels,
         IsTransaction(t),
         Placed(cmd[r], next, attempts[r], t)
  PROVE  LocalInvariant'
<1>1. /\ pc' = [pc EXCEPT ![r] = next] /\ tx' = [tx EXCEPT ![r] = t]
      /\ UNCHANGED <<customer, account, control, proctran, cmd, attempts, reply, faults>>
  BY DEF Statement, tables
<1>2. TypeOK /\ EachIsPlaced
  BY DEF LocalInvariant
<1>3. TypeOK'
  BY <1>1, <1>2 DEF TypeOK, IsCustomerTable, IsAccountTable, IsTransaction
<1>4. EachIsPlaced'
  <2> SUFFICES ASSUME NEW q \in Requests
               PROVE  Placed(cmd[q], pc'[q], attempts[q], tx'[q])
    BY <1>1 DEF EachIsPlaced
  <2>1. CASE q = r
    BY <1>1, <1>2, <2>1 DEF TypeOK
  <2>2. CASE q # r
    BY <1>1, <1>2, <2>2 DEF TypeOK, EachIsPlaced
  <2>3. QED
    BY <2>1, <2>2
<1>5. QED
  BY <1>3, <1>4 DEF LocalInvariant

\* Nothing is asked of a request that has ended.
LEMMA EndedIsPlaced ==
  ASSUME NEW c, NEW p \in {"done", "lost"}, NEW n
  PROVE  Placed(c, p, n, NoTx)
BY DEF Placed, Unstarted, EmptyHanded, XfrfunHolds, DbcrfunHolds, UpdaccHolds,
   DelaccHolds, UpdcustHolds, DelcusHolds, CreaccHolds, CrecustHolds

\* A request that ends, in whatever way, keeps the invariant as long as the
\* tables keep their types.
LEMMA EndingKeeps ==
  ASSUME LocalInvariant, NEW r \in Requests, NEW p \in {"done", "lost"},
         pc' = [pc EXCEPT ![r] = p],
         tx' = [tx EXCEPT ![r] = NoTx],
         reply' \in [Requests -> Replies],
         faults' \in 0 .. MaxFaults,
         UNCHANGED <<cmd, attempts>>,
         IsCustomerTable(customer'), DOMAIN customer' \subseteq 1 .. MaxCustomerNumber,
         IsAccountTable(account'), DOMAIN account' \subseteq 1 .. MaxAccountNumber,
         control' \in Control, proctran' \in Seq(AuditRow)
  PROVE  LocalInvariant'
<1>1. TypeOK /\ EachIsPlaced
  BY DEF LocalInvariant
<1>2. TypeOK'
  BY <1>1, NoTxTyped DEF TypeOK, SharedLabels, IsTransaction, IsCustomerTable,
     IsAccountTable
<1>3. EachIsPlaced'
  <2> SUFFICES ASSUME NEW q \in Requests
               PROVE  Placed(cmd[q], pc'[q], attempts[q], tx'[q])
    BY DEF EachIsPlaced
  <2>1. CASE q = r
    BY <1>1, <2>1, EndedIsPlaced DEF TypeOK
  <2>2. CASE q # r
    BY <1>1, <2>2 DEF TypeOK, EachIsPlaced
  <2>3. QED
    BY <2>1, <2>2
<1>4. QED
  BY <1>2, <1>3 DEF LocalInvariant

\* A reply ends the request and forgets its transaction.
LEMMA AnswerKeeps ==
  ASSUME LocalInvariant, NEW r \in Requests, NEW rep \in Replies,
         Answer(r, rep), faults' \in 0 .. MaxFaults
  PROVE  LocalInvariant'
<1>1. TypeOK
  BY DEF LocalInvariant
<1>2. /\ reply' \in [Requests -> Replies]
      /\ pc' = [pc EXCEPT ![r] = "done"] /\ tx' = [tx EXCEPT ![r] = NoTx]
      /\ UNCHANGED <<customer, account, control, proctran, cmd, attempts>>
  BY <1>1 DEF Answer, TypeOK, tables
<1>3. QED
  BY <1>1, <1>2, EndingKeeps DEF TypeOK, IsCustomerTable, IsAccountTable

\* A refusal does the same and counts as no failure.
LEMMA RefuseKeeps ==
  ASSUME LocalInvariant, NEW r \in Requests, NEW rep \in Replies, Refuse(r, rep)
  PROVE  LocalInvariant'
BY AnswerKeeps DEF Refuse, LocalInvariant, TypeOK

\* Starting over keeps it: what the failed attempt did is forgotten.
LEMMA RetryKeeps ==
  ASSUME LocalInvariant, NEW r \in Requests, RetryOrGiveUp(r),
         pc[r] \notin {"idle", "done", "lost"}
  PROVE  LocalInvariant'
<1>1. CASE attempts[r] < MaxAttempts
  <2>1. Statement(r, "begin", NoTx)
    BY <1>1 DEF RetryOrGiveUp
  <2>2. Placed(cmd[r], "begin", attempts[r], NoTx)
    BY <1>1 DEF LocalInvariant, EachIsPlaced, Placed, Unstarted, EmptyHanded,
       XfrfunHolds, DbcrfunHolds, UpdaccHolds, DelaccHolds, UpdcustHolds,
       DelcusHolds, CreaccHolds, CrecustHolds
  <2>3. QED
    BY <2>1, <2>2, NoTxTyped, StatementKeeps DEF SharedLabels
<1>2. CASE ~(attempts[r] < MaxAttempts)
  BY <1>2, RefuseKeeps DEF RetryOrGiveUp, XRTY, Abend, Replies, AbendCodes
<1>3. QED
  BY <1>1, <1>2

\* What is known of a request before it takes a step.
LEMMA Facts ==
  ASSUME LocalInvariant, NEW r \in Requests
  PROVE  /\ cmd[r] \in Commands
         /\ pc[r] \in LabelsOf[cmd[r].prog] \cup SharedLabels
         /\ IsTransaction(tx[r])
         /\ Placed(cmd[r], pc[r], attempts[r], tx[r])
         /\ attempts[r] \in 0 .. MaxAttempts
         /\ IsCustomerTable(customer) /\ DOMAIN customer \subseteq 1 .. MaxCustomerNumber
         /\ IsAccountTable(account) /\ DOMAIN account \subseteq 1 .. MaxAccountNumber
         /\ control \in Control /\ proctran \in Seq(AuditRow)
BY DEF LocalInvariant, TypeOK, EachIsPlaced

\* Outside its own transaction a request is placed wherever its label allows it.
LEMMA EmptyHandedIsPlaced ==
  ASSUME NEW c, NEW p \in EmptyHanded \ {"idle", "done", "lost"}, NEW n \in Nat,
         Accepted(c), p \in Unstarted => n = 0, p = "begin" => n < MaxAttempts
  PROVE  Placed(c, p, n, NoTx)
BY DEF Placed, EmptyHanded, XfrfunHolds, DbcrfunHolds, UpdaccHolds, DelaccHolds,
   UpdcustHolds, DelcusHolds, CreaccHolds, CrecustHolds

\* Inside its transaction a request is placed if it holds what it should.
LEMMA InsideIsPlaced ==
  ASSUME NEW c, NEW p, NEW n, NEW t, Accepted(c), p \notin EmptyHanded
  PROVE  /\ c.prog = "XFRFUN" /\ XfrfunHolds(c, p, t) => Placed(c, p, n, t)
         /\ c.prog = "DBCRFUN" /\ DbcrfunHolds(c, p, t) => Placed(c, p, n, t)
         /\ c.prog = "UPDACC" /\ UpdaccHolds(c, p, t) => Placed(c, p, n, t)
         /\ c.prog = "DELACC" /\ DelaccHolds(c, p, t) => Placed(c, p, n, t)
         /\ c.prog = "UPDCUST" /\ UpdcustHolds(c, p, t) => Placed(c, p, n, t)
         /\ c.prog = "DELCUS" /\ DelcusHolds(c, p, t) => Placed(c, p, n, t)
         /\ c.prog = "CREACC" /\ CreaccHolds(c, p, t) => Placed(c, p, n, t)
         /\ c.prog = "CRECUST" /\ CrecustHolds(c, p, t) => Placed(c, p, n, t)
BY DEF Placed, EmptyHanded, Unstarted

\* A request is only let in if the checks of its service accept it.
LEMMA ReceiveKeeps ==
  ASSUME LocalInvariant, NEW r \in Requests, NEW rejection \in Replies,
         NEW next \in {"begin", "creacc_inqcust", "crecust_credit"},
         Receive(r, rejection, next),
         next \in LabelsOf[cmd[r].prog] \cup SharedLabels,
         rejection = None => Accepted(cmd[r])
  PROVE  LocalInvariant'
<1>1. CASE rejection # None
  BY <1>1, RefuseKeeps DEF Receive
<1>2. CASE rejection = None
  <2>1. Statement(r, next, NoTx) /\ pc[r] = "idle"
    BY <1>2 DEF Receive
  <2>2. attempts[r] = 0
    BY <2>1, Facts DEF Placed, Unstarted
  <2>3. Placed(cmd[r], next, attempts[r], NoTx)
    BY <1>2, <2>2, EmptyHandedIsPlaced, BoundsAssumption DEF EmptyHanded
  <2>4. QED
    BY <2>1, <2>3, NoTxTyped, StatementKeeps
<1>3. QED
  BY <1>1, <1>2

\* pool.begin(): one attempt more, at the first statement, with nothing held.
LEMMA BeginKeeps ==
  ASSUME LocalInvariant, NEW r \in Requests, NEW first \in LabelsOf[cmd[r].prog],
         Begin(r, first),
         Placed(cmd[r], first, attempts[r] + 1, NoTx)
  PROVE  LocalInvariant'
<1>1. /\ TypeOK /\ EachIsPlaced
      /\ pc[r] = "begin" /\ tx[r] = NoTx /\ attempts[r] < MaxAttempts
      /\ pc' = [pc EXCEPT ![r] = first]
      /\ attempts' = [attempts EXCEPT ![r] = @ + 1]
      /\ UNCHANGED <<customer, account, control, proctran, cmd, tx, reply, faults>>
  BY Facts DEF LocalInvariant, Begin, Placed, EmptyHanded, tables
<1>2. TypeOK'
  <2>1. attempts' \in [Requests -> 0 .. MaxAttempts]
    BY <1>1, BoundsAssumption DEF TypeOK
  <2>2. /\ DOMAIN pc' = Requests
        /\ \A q \in Requests : pc'[q] \in LabelsOf[cmd[q].prog] \cup SharedLabels
    BY <1>1 DEF TypeOK
  <2>3. QED
    BY <1>1, <2>1, <2>2 DEF TypeOK, IsCustomerTable, IsAccountTable, IsTransaction
<1>3. EachIsPlaced'
  <2> SUFFICES ASSUME NEW q \in Requests
               PROVE  Placed(cmd[q], pc'[q], attempts'[q], tx[q])
    BY <1>1 DEF EachIsPlaced
  <2>1. CASE q = r
    BY <1>1, <2>1 DEF TypeOK
  <2>2. CASE q # r
    BY <1>1, <2>2 DEF TypeOK, EachIsPlaced
  <2>3. QED
    BY <2>1, <2>2
<1>4. QED
  BY <1>2, <1>3 DEF LocalInvariant

\* SELECT ... FOR UPDATE of an account: either the request is refused, or its
\* transaction holds one account more and has a version of it.
LEMMA LockAccountKeeps ==
  ASSUME LocalInvariant, NEW r \in Requests, NEW next \in LabelsOf[cmd[r].prog],
         NEW a \in Nat, NEW missing \in Replies,
         LockAccount(r, next, a, missing),
         \A t : /\ IsTransaction(t)
                /\ t.held = tx[r].held \cup {AccountKey(a)}
                /\ DOMAIN t.account = DOMAIN tx[r].account \cup {a}
                /\ t.customer = tx[r].customer
                => Placed(cmd[r], next, attempts[r], t)
  PROVE  LocalInvariant'
<1>1. CASE a \notin DOMAIN account
  BY <1>1, RefuseKeeps DEF LockAccount
<1>2. CASE a \in DOMAIN account
  <2> DEFINE own == Overlay(tx[r].account, a, account[a])
             t == [tx[r] EXCEPT !.held = @ \cup {AccountKey(a)}, !.account = own]
  <2>1. Statement(r, next, t)
    BY <1>2 DEF LockAccount
  <2>2. DOMAIN own = DOMAIN tx[r].account \cup {a} /\ IsAccountTable(own)
    BY <1>2, Facts, OverlayTyped DEF IsTransaction, IsAccountTable
  <2>3. AccountKey(a) \in LockKeys
    BY DEF AccountKey, LockKeys
  <2>4. IsTransaction(t) /\ t.held = tx[r].held \cup {AccountKey(a)}
        /\ t.account = own /\ t.customer = tx[r].customer
    BY <1>2, <2>2, <2>3, Facts DEF IsTransaction, NoTx
  <2>5. Placed(cmd[r], next, attempts[r], t)
    BY <2>2, <2>4
  <2>6. QED
    BY <2>1, <2>4, <2>5, StatementKeeps
<1>3. QED
  BY <1>1, <1>2

\* SELECT ... FOR UPDATE of a customer: the same for the customer row.
LEMMA LockCustomerKeeps ==
  ASSUME LocalInvariant, NEW r \in Requests, NEW next \in LabelsOf[cmd[r].prog],
         NEW c \in Nat, NEW missing \in Replies,
         LockCustomer(r, next, c, missing),
         \A t : /\ IsTransaction(t)
                /\ t.held = tx[r].held \cup {CustomerKey(c)}
                /\ DOMAIN t.customer = DOMAIN tx[r].customer \cup {c}
                /\ t.account = tx[r].account
                => Placed(cmd[r], next, attempts[r], t)
  PROVE  LocalInvariant'
<1>1. CASE c \notin DOMAIN customer
  BY <1>1, RefuseKeeps DEF LockCustomer
<1>2. CASE c \in DOMAIN customer
  <2> DEFINE own == Overlay(tx[r].customer, c, customer[c])
             t == [tx[r] EXCEPT !.held = @ \cup {CustomerKey(c)}, !.customer = own]
  <2>1. Statement(r, next, t)
    BY <1>2 DEF LockCustomer
  <2>2. DOMAIN own = DOMAIN tx[r].customer \cup {c} /\ IsCustomerTable(own)
    BY <1>2, Facts, OverlayTyped DEF IsTransaction, IsCustomerTable
  <2>3. CustomerKey(c) \in LockKeys
    BY DEF CustomerKey, LockKeys
  <2>4. IsTransaction(t) /\ t.held = tx[r].held \cup {CustomerKey(c)}
        /\ t.customer = own /\ t.account = tx[r].account
    BY <1>2, <2>2, <2>3, Facts DEF IsTransaction, NoTx
  <2>5. Placed(cmd[r], next, attempts[r], t)
    BY <2>2, <2>4
  <2>6. QED
    BY <2>1, <2>4, <2>5, StatementKeeps
<1>3. QED
  BY <1>1, <1>2

\* UPDATE control: the transaction holds the control row and has it increased.
LEMMA ReserveKeeps ==
  ASSUME LocalInvariant, NEW r \in Requests, NEW next \in LabelsOf[cmd[r].prog],
         NEW bumped \in Control,
         ReserveNumber(r, next, bumped),
         \A t : /\ IsTransaction(t) /\ t.held = tx[r].held \cup {ControlKey}
                /\ t.control = bumped
                /\ t.account = tx[r].account /\ t.customer = tx[r].customer
                => Placed(cmd[r], next, attempts[r], t)
  PROVE  LocalInvariant'
<1> DEFINE t == [tx[r] EXCEPT !.held = @ \cup {ControlKey}, !.control = bumped]
<1>1. Statement(r, next, t)
  BY DEF ReserveNumber
<1>2. ControlKey \in LockKeys
  BY DEF ControlKey, LockKeys
<1>3. IsTransaction(t) /\ t.held = tx[r].held \cup {ControlKey} /\ t.control = bumped
      /\ t.account = tx[r].account /\ t.customer = tx[r].customer
  BY <1>2, Facts DEF IsTransaction, NoTx
<1>4. QED
  BY <1>1, <1>3, StatementKeeps

\* INSERT INTO proctran: only the audit rows of the transaction change.
LEMMA InsertProctranKeeps ==
  ASSUME LocalInvariant, NEW r \in Requests,
         NEW next \in LabelsOf[cmd[r].prog] \cup {"commit"},
         NEW type \in TranTypes, NEW amount \in Money,
         InsertProctran(r, next, type, amount),
         \A t : /\ IsTransaction(t) /\ t.held = tx[r].held
                /\ t.account = tx[r].account /\ t.customer = tx[r].customer
                /\ t.control = tx[r].control
                => Placed(cmd[r], next, attempts[r], t)
  PROVE  LocalInvariant'
<1> DEFINE t == [tx[r] EXCEPT !.proctran = Append(@, Audit(r, type, amount))]
<1>1. Statement(r, next, t)
  BY DEF InsertProctran
<1>2. Audit(r, type, amount) \in AuditRow
  BY DEF Audit, AuditRow
<1>3. Append(tx[r].proctran, Audit(r, type, amount)) \in Seq(AuditRow)
  BY <1>2, Facts DEF IsTransaction
<1>4. IsTransaction(t) /\ t.held = tx[r].held /\ t.account = tx[r].account
      /\ t.customer = tx[r].customer /\ t.control = tx[r].control
  BY <1>3, Facts DEF IsTransaction, NoTx
<1>5. QED
  BY <1>1, <1>4, StatementKeeps DEF SharedLabels

\* UPDATE account: the version the transaction has of a row it holds changes.
LEMMA WriteAccountKeeps ==
  ASSUME LocalInvariant, NEW r \in Requests, NEW next \in LabelsOf[cmd[r].prog],
         NEW a \in DOMAIN tx[r].account, NEW row \in AccountRow,
         Statement(r, next, [tx[r] EXCEPT !.account = Overlay(@, a, row)]),
         \A t : /\ IsTransaction(t) /\ t.held = tx[r].held
                /\ DOMAIN t.account = DOMAIN tx[r].account
                /\ t.customer = tx[r].customer
                => Placed(cmd[r], next, attempts[r], t)
  PROVE  LocalInvariant'
<1> DEFINE own == Overlay(tx[r].account, a, row)
           t == [tx[r] EXCEPT !.account = own]
<1>1. DOMAIN own = DOMAIN tx[r].account /\ IsAccountTable(own)
  <2>1. IsAccountTable(tx[r].account)
    BY Facts DEF IsTransaction
  <2>2. a \in Nat
    BY <2>1 DEF IsAccountTable
  <2>3. DOMAIN own = DOMAIN tx[r].account \cup {a}
    BY <2>2, OverlayTyped
  <2>4. IsAccountTable(own)
    BY <2>1, <2>2, OverlayTyped
  <2>5. QED
    BY <2>3, <2>4
<1>2. IsTransaction(t) /\ t.held = tx[r].held /\ t.account = own
      /\ t.customer = tx[r].customer
  BY <1>1, Facts DEF IsTransaction, NoTx
<1>3. QED
  BY <1>1, <1>2, StatementKeeps

\* A posting that fits NUMERIC(12,2) leaves a row of table account.
LEMMA MovedTyped ==
  ASSUME NEW row \in AccountRow, NEW amount \in Int, Representable(Moved(row, amount))
  PROVE  Moved(row, amount) \in AccountRow
BY DEF AccountRow, Moved, Representable

\* The first row a transaction locks is the only one it holds.
LEMMA FirstAccountHeld ==
  ASSUME NEW u, NEW a, u.held = NoTx.held \cup {AccountKey(a)},
         DOMAIN u.account = DOMAIN NoTx.account \cup {a}, u.customer = NoTx.customer
  PROVE  HoldsAccounts(u, {a})
BY EmptyTableTyped DEF HoldsAccounts, NoTx

\* And so is the first customer row.
LEMMA FirstCustomerHeld ==
  ASSUME NEW u, NEW c, u.held = NoTx.held \cup {CustomerKey(c)},
         DOMAIN u.customer = DOMAIN NoTx.customer \cup {c}, u.account = NoTx.account
  PROVE  HoldsCustomer(u, c)
BY EmptyTableTyped DEF HoldsCustomer, NoTx

\* A rewritten row keeps what is held, and so does a new audit row.
LEMMA SameHoldings ==
  ASSUME NEW t, NEW u, NEW S, NEW n, u.held = t.held,
         DOMAIN u.account = DOMAIN t.account, DOMAIN u.customer = DOMAIN t.customer
  PROVE  /\ HoldsAccounts(t, S) => HoldsAccounts(u, S)
         /\ HoldsCustomer(t, n) => HoldsCustomer(u, n)
BY DEF HoldsAccounts, HoldsCustomer

-----------------------------------------------------------------------------
(* One lemma per program: each of its statements keeps the invariant.       *)

\* XFRFUN: every statement finds the accounts it uses locked, in either order.
LEMMA XfrfunKeeps ==
  ASSUME LocalInvariant, NEW r \in Requests, XfrfunStep(r)
  PROVE  LocalInvariant'
<1> DEFINE c == cmd[r]
           t == tx[r]
<1>1. /\ c \in Commands /\ IsTransaction(t)
      /\ pc[r] \in LabelsOf[c.prog] \cup SharedLabels
      /\ Placed(c, pc[r], attempts[r], t)
      /\ attempts[r] \in 0 .. MaxAttempts
  BY Facts
<1>2. pc[r] \in LabelsOf["XFRFUN"] =>
        c.prog = "XFRFUN" /\ Accepted(c) /\ XfrfunHolds(c, pc[r], t)
  BY <1>1, ProgramOfLabel, Labels DEF Placed
<1>3. c.prog = "XFRFUN" =>
        /\ c.from \in Nat /\ c.to \in Nat /\ c.amount \in Int
        /\ Accepted(c) => c.from # c.to /\ c.amount \in Money
  <2>1. c.prog = "XFRFUN" => c.from \in Nat /\ c.to \in Nat /\ c.amount \in Int
    BY <1>1, CommandFields DEF XfrfunCommands
  <2>2. c.prog = "XFRFUN" /\ Accepted(c) => XfrfunRejection(c) = None
    BY DEF Accepted
  <2>3. QED
    BY <2>1, <2>2 DEF XfrfunRejection, None, Fail, Abend, Invalid
<1>4. CASE XfrfunReceive(r)
  <2>1. XfrfunRejection(c) \in Replies
    BY DEF XfrfunRejection, Replies, Fail, Abend, FailCodes, AbendCodes
  <2>2. c.prog = "XFRFUN" /\ (XfrfunRejection(c) = None => Accepted(c))
    BY <1>4 DEF XfrfunReceive, Accepted
  <2>3. QED
    BY <1>4, <2>1, <2>2, ReceiveKeeps DEF XfrfunReceive, SharedLabels
<1>5. CASE XfrfunBegin(r)
  <2>1. c.prog = "XFRFUN" /\ pc[r] = "begin" /\ Accepted(c)
    BY <1>1, <1>5 DEF XfrfunBegin, Begin, Placed
  <2>2. FirstRole(c) \in {"xfr_from", "xfr_to"}
    BY DEF FirstRole
  <2>3. XfrfunHolds(c, FirstRole(c), NoTx)
    BY DEF FirstRole, XfrfunHolds
  <2>4. Placed(c, FirstRole(c), attempts[r] + 1, NoTx)
    BY <2>1, <2>2, <2>3, InsideIsPlaced DEF EmptyHanded
  <2>5. QED
    BY <1>5, <2>1, <2>2, <2>4, Labels, BeginKeeps DEF XfrfunBegin
<1>6. CASE XfrfunLockFrom(r)
  <2>1. pc[r] = "xfr_from" /\ c.prog = "XFRFUN" /\ Accepted(c)
        /\ XfrfunHolds(c, "xfr_from", t) /\ c.from # c.to
    BY <1>2, <1>3, <1>6, Labels DEF XfrfunLockFrom
  <2>2. AfterLock(c, "xfr_from") \in {"xfr_to", "xfr_debit"}
    BY DEF AfterLock
  <2>3. ASSUME NEW u, IsTransaction(u),
               u.held = t.held \cup {AccountKey(c.from)},
               DOMAIN u.account = DOMAIN t.account \cup {c.from},
               u.customer = t.customer
        PROVE  Placed(c, AfterLock(c, "xfr_from"), attempts[r], u)
    <3>1. XfrfunHolds(c, AfterLock(c, "xfr_from"), u)
      <4>1. CASE c.from < c.to
        BY <2>1, <2>3, <4>1, EmptyTableTyped DEF AfterLock, FirstRole, XfrfunHolds,
           HoldsAccounts, NoTx
      <4>2. CASE ~(c.from < c.to)
        BY <2>1, <2>3, <4>2 DEF AfterLock, FirstRole, XfrfunHolds, HoldsAccounts
      <4>3. QED
        BY <4>1, <4>2
    <3>2. QED
      BY <2>1, <2>2, <3>1, InsideIsPlaced DEF EmptyHanded
  <2>4. /\ AfterLock(c, "xfr_from") \in LabelsOf[c.prog]
        /\ c.from \in Nat /\ Fail("1") \in Replies
        /\ LockAccount(r, AfterLock(c, "xfr_from"), c.from, Fail("1"))
    BY <1>3, <1>6, <2>1, <2>2, Labels DEF XfrfunLockFrom, Replies, FailCodes
  <2>5. QED
    BY <2>3, <2>4, LockAccountKeeps
<1>7. CASE XfrfunLockTo(r)
  <2>1. pc[r] = "xfr_to" /\ c.prog = "XFRFUN" /\ Accepted(c)
        /\ XfrfunHolds(c, "xfr_to", t) /\ c.from # c.to
    BY <1>2, <1>3, <1>7, Labels DEF XfrfunLockTo
  <2>2. AfterLock(c, "xfr_to") \in {"xfr_from", "xfr_debit"}
    BY DEF AfterLock
  <2>3. ASSUME NEW u, IsTransaction(u),
               u.held = t.held \cup {AccountKey(c.to)},
               DOMAIN u.account = DOMAIN t.account \cup {c.to},
               u.customer = t.customer
        PROVE  Placed(c, AfterLock(c, "xfr_to"), attempts[r], u)
    <3>1. XfrfunHolds(c, AfterLock(c, "xfr_to"), u)
      <4>1. CASE c.from < c.to
        BY <2>1, <2>3, <4>1 DEF AfterLock, FirstRole, XfrfunHolds, HoldsAccounts
      <4>2. CASE ~(c.from < c.to)
        BY <2>1, <2>3, <4>2, EmptyTableTyped DEF AfterLock, FirstRole, XfrfunHolds,
           HoldsAccounts, NoTx
      <4>3. QED
        BY <4>1, <4>2
    <3>2. QED
      BY <2>1, <2>2, <3>1, InsideIsPlaced DEF EmptyHanded
  <2>4. /\ AfterLock(c, "xfr_to") \in LabelsOf[c.prog]
        /\ c.to \in Nat /\ Fail("2") \in Replies
        /\ LockAccount(r, AfterLock(c, "xfr_to"), c.to, Fail("2"))
    BY <1>3, <1>7, <2>1, <2>2, Labels DEF XfrfunLockTo, Replies, FailCodes
  <2>5. QED
    BY <2>3, <2>4, LockAccountKeeps
<1>8. CASE XfrfunDebit(r)
  <2> DEFINE debited == Moved(t.account[c.from], -c.amount)
  <2>1. pc[r] = "xfr_debit" /\ c.prog = "XFRFUN" /\ Accepted(c)
        /\ HoldsAccounts(t, {c.from, c.to})
    BY <1>2, <1>8, Labels DEF XfrfunDebit, XfrfunHolds
  <2>2. c.from \in DOMAIN t.account /\ t.account[c.from] \in AccountRow
    BY <1>1, <2>1 DEF HoldsAccounts, IsTransaction, IsAccountTable
  <2>3. CASE ~Insufficient(debited) /\ Representable(debited)
    <3>1. debited \in AccountRow
      BY <1>3, <2>1, <2>2, <2>3, MovedTyped
    <3>2. Statement(r, "xfr_credit",
            [tx[r] EXCEPT !.account = Overlay(@, c.from, debited)])
      BY <1>8, <2>3 DEF XfrfunDebit
    <3>3. ASSUME NEW u, u.held = t.held, DOMAIN u.account = DOMAIN t.account,
                 u.customer = t.customer
          PROVE  Placed(c, "xfr_credit", attempts[r], u)
      <4>1. XfrfunHolds(c, "xfr_credit", u)
        BY <2>1, <3>3 DEF XfrfunHolds, HoldsAccounts
      <4>2. QED
        BY <2>1, <4>1, InsideIsPlaced DEF EmptyHanded
    <3>4. QED
      BY <2>1, <2>2, <3>1, <3>2, <3>3, Labels, WriteAccountKeeps
  <2>4. CASE Insufficient(debited) \/ ~Representable(debited)
    BY <1>8, <2>4, RefuseKeeps DEF XfrfunDebit, Fail, Abend, Replies, FailCodes, AbendCodes
  <2>5. QED
    BY <2>3, <2>4
<1>9. CASE XfrfunCredit(r)
  <2> DEFINE credited == Moved(t.account[c.to], c.amount)
  <2>1. pc[r] = "xfr_credit" /\ c.prog = "XFRFUN" /\ Accepted(c)
        /\ HoldsAccounts(t, {c.from, c.to})
    BY <1>2, <1>9, Labels DEF XfrfunCredit, XfrfunHolds
  <2>2. c.to \in DOMAIN t.account /\ t.account[c.to] \in AccountRow
    BY <1>1, <2>1 DEF HoldsAccounts, IsTransaction, IsAccountTable
  <2>3. CASE Representable(credited)
    <3>1. credited \in AccountRow
      BY <1>3, <2>1, <2>2, <2>3, MovedTyped
    <3>2. Statement(r, "xfr_proctran",
            [tx[r] EXCEPT !.account = Overlay(@, c.to, credited)])
      BY <1>9, <2>3 DEF XfrfunCredit
    <3>3. ASSUME NEW u, u.held = t.held, DOMAIN u.account = DOMAIN t.account,
                 u.customer = t.customer
          PROVE  Placed(c, "xfr_proctran", attempts[r], u)
      <4>1. XfrfunHolds(c, "xfr_proctran", u)
        BY <2>1, <3>3 DEF XfrfunHolds, HoldsAccounts
      <4>2. QED
        BY <2>1, <4>1, InsideIsPlaced DEF EmptyHanded
    <3>4. QED
      BY <2>1, <2>2, <3>1, <3>2, <3>3, Labels, WriteAccountKeeps
  <2>4. CASE ~Representable(credited)
    BY <1>9, <2>4, RefuseKeeps DEF XfrfunCredit, Abend, Replies, AbendCodes
  <2>5. QED
    BY <2>3, <2>4
<1>10. CASE XfrfunProctran(r)
  <2>1. pc[r] = "xfr_proctran" /\ c.prog = "XFRFUN" /\ Accepted(c) /\ c.amount \in Money
        /\ HoldsAccounts(t, {c.from, c.to})
    BY <1>2, <1>3, <1>10, Labels DEF XfrfunProctran, XfrfunHolds
  <2>2. ASSUME NEW u, u.held = t.held, u.account = t.account, u.customer = t.customer
        PROVE  Placed(c, "commit", attempts[r], u)
    <3>1. XfrfunHolds(c, "commit", u)
      BY <2>1, <2>2 DEF XfrfunHolds, HoldsAccounts
    <3>2. QED
      BY <2>1, <3>1, InsideIsPlaced DEF EmptyHanded
  <2>3. QED
    BY <1>10, <2>1, <2>2, InsertProctranKeeps DEF XfrfunProctran, TranTypes
<1>11. QED
  BY <1>4, <1>5, <1>6, <1>7, <1>8, <1>9, <1>10 DEF XfrfunStep

\* DBCRFUN: the account posted to is the one that is locked.
LEMMA DbcrfunKeeps ==
  ASSUME LocalInvariant, NEW r \in Requests, DbcrfunStep(r)
  PROVE  LocalInvariant'
<1> DEFINE c == cmd[r]
           t == tx[r]
<1>1. /\ c \in Commands /\ IsTransaction(t)
      /\ pc[r] \in LabelsOf[c.prog] \cup SharedLabels
      /\ Placed(c, pc[r], attempts[r], t)
      /\ attempts[r] \in 0 .. MaxAttempts
  BY Facts
<1>2. pc[r] \in LabelsOf["DBCRFUN"] =>
        /\ c.prog = "DBCRFUN" /\ DbcrfunHolds(c, pc[r], t)
        /\ pc[r] # "idle" => Accepted(c)
        /\ pc[r] \in EmptyHanded => t = NoTx
  BY <1>1, ProgramOfLabel, Labels DEF Placed
<1>3. c.prog = "DBCRFUN" =>
        /\ c.account \in Nat /\ c.amount \in Int
        /\ Accepted(c) => c.amount \in Money
  <2>1. c.prog = "DBCRFUN" => c \in DbcrfunCommands
    BY <1>1, CommandFields
  <2>2. c.prog = "DBCRFUN" /\ Accepted(c) => DbcrfunRejection(c) = None
    BY DEF Accepted
  <2>3. QED
    BY <2>1, <2>2, BoundsAssumption
       DEF DbcrfunCommands, DbcrfunRejection, None, Fail, Abend, Invalid
<1>4. CASE DbcrfunReceive(r)
  <2>1. DbcrfunRejection(c) \in Replies
    BY DEF DbcrfunRejection, Replies, Fail, Abend, FailCodes, AbendCodes
  <2>2. c.prog = "DBCRFUN" /\ (DbcrfunRejection(c) = None => Accepted(c))
    BY <1>4 DEF DbcrfunReceive, Accepted
  <2>3. QED
    BY <1>4, <2>1, <2>2, Labels, ReceiveKeeps DEF DbcrfunReceive, SharedLabels
<1>5. CASE DbcrfunBegin(r)
  <2>1. c.prog = "DBCRFUN" /\ pc[r] = "begin" /\ Accepted(c)
    BY <1>1, <1>5 DEF DbcrfunBegin, Begin, Placed
  <2>2. Placed(c, "dbcr_lock", attempts[r] + 1, NoTx)
    BY <1>1, <2>1, BoundsAssumption, EmptyHandedIsPlaced DEF EmptyHanded, Unstarted
  <2>3. QED
    BY <1>5, <2>1, <2>2, Labels, BeginKeeps DEF DbcrfunBegin
<1>6. CASE DbcrfunLock(r)
  <2>1. pc[r] = "dbcr_lock" /\ c.prog = "DBCRFUN" /\ Accepted(c) /\ t = NoTx
    BY <1>2, <1>6, Labels DEF DbcrfunLock, EmptyHanded
  <2>2. ASSUME NEW u, u.held = t.held \cup {AccountKey(c.account)},
               DOMAIN u.account = DOMAIN t.account \cup {c.account}, u.customer = t.customer
        PROVE  Placed(c, "dbcr_update", attempts[r], u)
    <3>1. DbcrfunHolds(c, "dbcr_update", u)
      BY <2>1, <2>2, FirstAccountHeld DEF DbcrfunHolds
    <3>2. QED
      BY <2>1, <3>1, InsideIsPlaced DEF EmptyHanded
  <2>3. /\ "dbcr_update" \in LabelsOf[c.prog]
        /\ c.account \in Nat /\ Fail("1") \in Replies
        /\ LockAccount(r, "dbcr_update", c.account, Fail("1"))
    BY <1>3, <1>6, <2>1, Labels DEF DbcrfunLock, Replies, FailCodes
  <2>4. QED
    BY <2>2, <2>3, LockAccountKeeps
<1>7. CASE DbcrfunUpdate(r)
  <2> DEFINE posted == Moved(t.account[c.account], c.amount)
  <2>1. pc[r] = "dbcr_update" /\ c.prog = "DBCRFUN" /\ Accepted(c)
        /\ HoldsAccounts(t, {c.account})
    BY <1>2, <1>7, Labels DEF DbcrfunUpdate, DbcrfunHolds
  <2>2. c.account \in DOMAIN t.account /\ t.account[c.account] \in AccountRow
    BY <1>1, <2>1 DEF HoldsAccounts, IsTransaction, IsAccountTable
  <2>3. \/ \E rep \in Replies : Refuse(r, rep)
        \/ /\ Representable(posted)
           /\ Statement(r, "dbcr_proctran",
                [tx[r] EXCEPT !.account = Overlay(@, c.account, posted)])
    BY <1>7 DEF DbcrfunUpdate, Fail, Abend, Replies, FailCodes, AbendCodes
  <2>4. CASE Representable(posted) /\ Statement(r, "dbcr_proctran",
               [tx[r] EXCEPT !.account = Overlay(@, c.account, posted)])
    <3>1. posted \in AccountRow
      BY <1>3, <2>1, <2>2, <2>4, MovedTyped
    <3>2. ASSUME NEW u, u.held = t.held, DOMAIN u.account = DOMAIN t.account,
                 u.customer = t.customer
          PROVE  Placed(c, "dbcr_proctran", attempts[r], u)
      <4>1. DbcrfunHolds(c, "dbcr_proctran", u)
        BY <2>1, <3>2, SameHoldings DEF DbcrfunHolds
      <4>2. QED
        BY <2>1, <4>1, InsideIsPlaced DEF EmptyHanded
    <3>3. QED
      BY <2>1, <2>2, <2>4, <3>1, <3>2, Labels, WriteAccountKeeps
  <2>5. QED
    BY <2>3, <2>4, RefuseKeeps
<1>8. CASE DbcrfunProctran(r)
  <2>1. pc[r] = "dbcr_proctran" /\ c.prog = "DBCRFUN" /\ Accepted(c)
        /\ DbcrfunHolds(c, "dbcr_proctran", t)
    BY <1>2, <1>8, Labels DEF DbcrfunProctran
  <2>2. ASSUME NEW u, u.held = t.held, u.account = t.account,
               u.customer = t.customer, u.control = t.control
        PROVE  Placed(c, "commit", attempts[r], u)
    <3>1. DbcrfunHolds(c, "commit", u)
      BY <2>1, <2>2, SameHoldings DEF DbcrfunHolds
    <3>2. QED
      BY <2>1, <3>1, InsideIsPlaced DEF EmptyHanded
  <2>3. c.amount \in Money /\ DbcrfunTranType(c) \in TranTypes
    BY <1>3, <2>1 DEF DbcrfunTranType, TranTypes
  <2>4. QED
    BY <1>8, <2>2, <2>3, InsertProctranKeeps DEF DbcrfunProctran
<1>9. QED
  BY <1>4, <1>5, <1>6, <1>7, <1>8 DEF DbcrfunStep

\* UPDACC: the account rewritten is the one that is locked.
LEMMA UpdaccKeeps ==
  ASSUME LocalInvariant, NEW r \in Requests, UpdaccStep(r)
  PROVE  LocalInvariant'
<1> DEFINE c == cmd[r]
           t == tx[r]
<1>1. /\ c \in Commands /\ IsTransaction(t)
      /\ pc[r] \in LabelsOf[c.prog] \cup SharedLabels
      /\ Placed(c, pc[r], attempts[r], t)
      /\ attempts[r] \in 0 .. MaxAttempts
  BY Facts
<1>2. pc[r] \in LabelsOf["UPDACC"] =>
        /\ c.prog = "UPDACC" /\ UpdaccHolds(c, pc[r], t)
        /\ pc[r] # "idle" => Accepted(c)
        /\ pc[r] \in EmptyHanded => t = NoTx
  BY <1>1, ProgramOfLabel, Labels DEF Placed
<1>3. c.prog = "UPDACC" =>
        /\ c.account \in Nat /\ c.overdraft \in Overdrafts
        /\ Accepted(c) => c.type \in AccountTypes
  <2>1. c.prog = "UPDACC" => c \in UpdaccCommands
    BY <1>1, CommandFields
  <2>2. c.prog = "UPDACC" /\ Accepted(c) => UpdaccRejection(c) = None
    BY DEF Accepted
  <2>3. QED
    BY <2>1, <2>2, BoundsAssumption
       DEF UpdaccCommands, UpdaccRejection, None, Fail, Abend, Invalid
<1>4. CASE UpdaccReceive(r)
  <2>1. UpdaccRejection(c) \in Replies
    BY DEF UpdaccRejection, Replies, Fail, Abend, FailCodes, AbendCodes
  <2>2. c.prog = "UPDACC" /\ (UpdaccRejection(c) = None => Accepted(c))
    BY <1>4 DEF UpdaccReceive, Accepted
  <2>3. QED
    BY <1>4, <2>1, <2>2, Labels, ReceiveKeeps DEF UpdaccReceive, SharedLabels
<1>5. CASE UpdaccBegin(r)
  <2>1. c.prog = "UPDACC" /\ pc[r] = "begin" /\ Accepted(c)
    BY <1>1, <1>5 DEF UpdaccBegin, Begin, Placed
  <2>2. Placed(c, "updacc_lock", attempts[r] + 1, NoTx)
    BY <1>1, <2>1, BoundsAssumption, EmptyHandedIsPlaced DEF EmptyHanded, Unstarted
  <2>3. QED
    BY <1>5, <2>1, <2>2, Labels, BeginKeeps DEF UpdaccBegin
<1>6. CASE UpdaccLock(r)
  <2>1. pc[r] = "updacc_lock" /\ c.prog = "UPDACC" /\ Accepted(c) /\ t = NoTx
    BY <1>2, <1>6, Labels DEF UpdaccLock, EmptyHanded
  <2>2. ASSUME NEW u, u.held = t.held \cup {AccountKey(c.account)},
               DOMAIN u.account = DOMAIN t.account \cup {c.account}, u.customer = t.customer
        PROVE  Placed(c, "updacc_update", attempts[r], u)
    <3>1. UpdaccHolds(c, "updacc_update", u)
      BY <2>1, <2>2, FirstAccountHeld DEF UpdaccHolds
    <3>2. QED
      BY <2>1, <3>1, InsideIsPlaced DEF EmptyHanded
  <2>3. /\ "updacc_update" \in LabelsOf[c.prog]
        /\ c.account \in Nat /\ Fail("1") \in Replies
        /\ LockAccount(r, "updacc_update", c.account, Fail("1"))
    BY <1>3, <1>6, <2>1, Labels DEF UpdaccLock, Replies, FailCodes
  <2>4. QED
    BY <2>2, <2>3, LockAccountKeeps
<1>7. CASE UpdaccUpdate(r)
  <2> DEFINE updated == [t.account[c.account] EXCEPT !.type = c.type,
                                                     !.overdraft = c.overdraft]
  <2>1. pc[r] = "updacc_update" /\ c.prog = "UPDACC" /\ Accepted(c)
        /\ HoldsAccounts(t, {c.account})
    BY <1>2, <1>7, Labels DEF UpdaccUpdate, UpdaccHolds
  <2>2. c.account \in DOMAIN t.account /\ t.account[c.account] \in AccountRow
    BY <1>1, <2>1 DEF HoldsAccounts, IsTransaction, IsAccountTable
  <2>3. updated \in AccountRow
    BY <1>3, <2>1, <2>2 DEF AccountRow
  <2>4. ASSUME NEW u, u.held = t.held, DOMAIN u.account = DOMAIN t.account,
               u.customer = t.customer
        PROVE  Placed(c, "updacc_proctran", attempts[r], u)
    <3>1. UpdaccHolds(c, "updacc_proctran", u)
      BY <2>1, <2>4, SameHoldings DEF UpdaccHolds
    <3>2. QED
      BY <2>1, <3>1, InsideIsPlaced DEF EmptyHanded
  <2>5. Statement(r, "updacc_proctran",
          [tx[r] EXCEPT !.account = Overlay(@, c.account, updated)])
    BY <1>7 DEF UpdaccUpdate
  <2>6. QED
    BY <2>1, <2>2, <2>3, <2>4, <2>5, Labels, WriteAccountKeeps
<1>8. CASE UpdaccProctran(r)
  <2>1. pc[r] = "updacc_proctran" /\ c.prog = "UPDACC" /\ Accepted(c)
        /\ UpdaccHolds(c, "updacc_proctran", t)
    BY <1>2, <1>8, Labels DEF UpdaccProctran
  <2>2. ASSUME NEW u, u.held = t.held, u.account = t.account,
               u.customer = t.customer, u.control = t.control
        PROVE  Placed(c, "commit", attempts[r], u)
    <3>1. UpdaccHolds(c, "commit", u)
      BY <2>1, <2>2, SameHoldings DEF UpdaccHolds
    <3>2. QED
      BY <2>1, <3>1, InsideIsPlaced DEF EmptyHanded
  <2>3. 0 \in Money /\ "OUA" \in TranTypes
    BY BoundsAssumption DEF Money, TranTypes
  <2>4. QED
    BY <1>8, <2>2, <2>3, InsertProctranKeeps DEF UpdaccProctran
<1>9. QED
  BY <1>4, <1>5, <1>6, <1>7, <1>8 DEF UpdaccStep

\* DELACC: the audit row finds the deleted row still in its variable.
LEMMA DelaccKeeps ==
  ASSUME LocalInvariant, NEW r \in Requests, DelaccStep(r)
  PROVE  LocalInvariant'
<1> DEFINE c == cmd[r]
           t == tx[r]
<1>1. /\ c \in Commands /\ IsTransaction(t)
      /\ pc[r] \in LabelsOf[c.prog] \cup SharedLabels
      /\ Placed(c, pc[r], attempts[r], t)
      /\ attempts[r] \in 0 .. MaxAttempts
  BY Facts
<1>2. pc[r] \in LabelsOf["DELACC"] =>
        /\ c.prog = "DELACC" /\ DelaccHolds(c, pc[r], t)
        /\ pc[r] # "idle" => Accepted(c)
        /\ pc[r] \in EmptyHanded => t = NoTx
  BY <1>1, ProgramOfLabel, Labels DEF Placed
<1>3. c.prog = "DELACC" =>
        /\ c.account \in Nat
        /\ Accepted(c) => TRUE
  <2>1. c.prog = "DELACC" => c \in DelaccCommands
    BY <1>1, CommandFields
  <2>2. c.prog = "DELACC" /\ Accepted(c) => DelaccRejection(c) = None
    BY DEF Accepted
  <2>3. QED
    BY <2>1, <2>2, BoundsAssumption
       DEF DelaccCommands, DelaccRejection, None, Fail, Abend, Invalid
<1>4. CASE DelaccReceive(r)
  <2>1. DelaccRejection(c) \in Replies
    BY DEF DelaccRejection, Replies, Fail, Abend, FailCodes, AbendCodes
  <2>2. c.prog = "DELACC" /\ (DelaccRejection(c) = None => Accepted(c))
    BY <1>4 DEF DelaccReceive, Accepted
  <2>3. QED
    BY <1>4, <2>1, <2>2, Labels, ReceiveKeeps DEF DelaccReceive, SharedLabels
<1>5. CASE DelaccBegin(r)
  <2>1. c.prog = "DELACC" /\ pc[r] = "begin" /\ Accepted(c)
    BY <1>1, <1>5 DEF DelaccBegin, Begin, Placed
  <2>2. Placed(c, "delacc_lock", attempts[r] + 1, NoTx)
    BY <1>1, <2>1, BoundsAssumption, EmptyHandedIsPlaced DEF EmptyHanded, Unstarted
  <2>3. QED
    BY <1>5, <2>1, <2>2, Labels, BeginKeeps DEF DelaccBegin
<1>6. CASE DelaccLock(r)
  <2>1. pc[r] = "delacc_lock" /\ c.prog = "DELACC" /\ Accepted(c) /\ t = NoTx
    BY <1>2, <1>6, Labels DEF DelaccLock, EmptyHanded
  <2>2. ASSUME NEW u, u.held = t.held \cup {AccountKey(c.account)},
               DOMAIN u.account = DOMAIN t.account \cup {c.account}, u.customer = t.customer
        PROVE  Placed(c, "delacc_delete", attempts[r], u)
    <3>1. DelaccHolds(c, "delacc_delete", u)
      BY <2>1, <2>2, FirstAccountHeld DEF DelaccHolds
    <3>2. QED
      BY <2>1, <3>1, InsideIsPlaced DEF EmptyHanded
  <2>3. /\ "delacc_delete" \in LabelsOf[c.prog]
        /\ c.account \in Nat /\ Fail("1") \in Replies
        /\ LockAccount(r, "delacc_delete", c.account, Fail("1"))
    BY <1>3, <1>6, <2>1, Labels DEF DelaccLock, Replies, FailCodes
  <2>4. QED
    BY <2>2, <2>3, LockAccountKeeps
<1>7. CASE DelaccDelete(r)
  <2> DEFINE own == Without(t.account, c.account)
             u == [tx[r] EXCEPT !.list = t.account, !.account = own]
  <2>1. pc[r] = "delacc_delete" /\ c.prog = "DELACC" /\ Accepted(c)
        /\ HoldsAccounts(t, {c.account})
    BY <1>2, <1>7, Labels DEF DelaccDelete, DelaccHolds
  <2>2. DOMAIN own = {} /\ IsAccountTable(own)
    <3>1. DOMAIN t.account = {c.account}
      BY <2>1 DEF HoldsAccounts
    <3>2. IsAccountTable(t.account)
      BY <1>1 DEF IsTransaction
    <3>3. DOMAIN own = DOMAIN t.account \ {c.account}
      BY WithoutTyped
    <3>4. IsAccountTable(own)
      BY <3>2, WithoutTyped
    <3>5. QED
      BY <3>1, <3>3, <3>4
  <2>3. IsTransaction(u) /\ u.held = t.held /\ u.account = own
        /\ u.customer = t.customer /\ u.list = t.account
    BY <1>1, <2>2 DEF IsTransaction, NoTx
  <2>4. DelaccHolds(c, "delacc_proctran", u)
    BY <2>1, <2>2, <2>3 DEF DelaccHolds, HoldsAccounts
  <2>5. Placed(c, "delacc_proctran", attempts[r], u)
    BY <2>1, <2>4, InsideIsPlaced DEF EmptyHanded
  <2>6. Statement(r, "delacc_proctran", u)
    BY <1>7 DEF DelaccDelete
  <2>7. QED
    BY <2>1, <2>3, <2>5, <2>6, Labels, StatementKeeps
<1>8. CASE DelaccProctran(r)
  <2>1. pc[r] = "delacc_proctran" /\ c.prog = "DELACC" /\ Accepted(c)
        /\ DelaccHolds(c, "delacc_proctran", t)
    BY <1>2, <1>8, Labels DEF DelaccProctran
  <2>2. ASSUME NEW u, u.held = t.held, u.account = t.account,
               u.customer = t.customer, u.control = t.control
        PROVE  Placed(c, "commit", attempts[r], u)
    <3>1. DelaccHolds(c, "commit", u)
      BY <2>1, <2>2 DEF DelaccHolds
    <3>2. QED
      BY <2>1, <3>1, InsideIsPlaced DEF EmptyHanded
  <2>3. t.list[c.account].actual \in Money /\ "ODA" \in TranTypes
    BY <1>1, <2>1 DEF DelaccHolds, IsTransaction, IsAccountTable, AccountRow, TranTypes
  <2>4. QED
    BY <1>8, <2>2, <2>3, InsertProctranKeeps DEF DelaccProctran
<1>9. QED
  BY <1>4, <1>5, <1>6, <1>7, <1>8 DEF DelaccStep

\* UPDCUST: the customer rewritten is the one that is locked.
LEMMA UpdcustKeeps ==
  ASSUME LocalInvariant, NEW r \in Requests, UpdcustStep(r)
  PROVE  LocalInvariant'
<1> DEFINE c == cmd[r]
           t == tx[r]
<1>1. /\ c \in Commands /\ IsTransaction(t)
      /\ pc[r] \in LabelsOf[c.prog] \cup SharedLabels
      /\ Placed(c, pc[r], attempts[r], t)
      /\ attempts[r] \in 0 .. MaxAttempts
  BY Facts
<1>2. pc[r] \in LabelsOf["UPDCUST"] =>
        /\ c.prog = "UPDCUST" /\ UpdcustHolds(c, pc[r], t)
        /\ pc[r] # "idle" => Accepted(c)
        /\ pc[r] \in EmptyHanded => t = NoTx
  BY <1>1, ProgramOfLabel, Labels DEF Placed
<1>3. c.prog = "UPDCUST" =>
        /\ c.customer \in Nat /\ c.name \in Texts /\ c.address \in Texts
        /\ Accepted(c) => TRUE
  <2>1. c.prog = "UPDCUST" => c \in UpdcustCommands
    BY <1>1, CommandFields
  <2>2. c.prog = "UPDCUST" /\ Accepted(c) => UpdcustRejection(c) = None
    BY DEF Accepted
  <2>3. QED
    BY <2>1, <2>2, BoundsAssumption
       DEF UpdcustCommands, UpdcustRejection, None, Fail, Abend, Invalid
<1>4. CASE UpdcustReceive(r)
  <2>1. UpdcustRejection(c) \in Replies
    BY DEF UpdcustRejection, Replies, Fail, Abend, FailCodes, AbendCodes
  <2>2. c.prog = "UPDCUST" /\ (UpdcustRejection(c) = None => Accepted(c))
    BY <1>4 DEF UpdcustReceive, Accepted
  <2>3. QED
    BY <1>4, <2>1, <2>2, Labels, ReceiveKeeps DEF UpdcustReceive, SharedLabels
<1>5. CASE UpdcustBegin(r)
  <2>1. c.prog = "UPDCUST" /\ pc[r] = "begin" /\ Accepted(c)
    BY <1>1, <1>5 DEF UpdcustBegin, Begin, Placed
  <2>2. Placed(c, "updcust_lock", attempts[r] + 1, NoTx)
    BY <1>1, <2>1, BoundsAssumption, EmptyHandedIsPlaced DEF EmptyHanded, Unstarted
  <2>3. QED
    BY <1>5, <2>1, <2>2, Labels, BeginKeeps DEF UpdcustBegin
<1>6. CASE UpdcustLock(r)
  <2>1. pc[r] = "updcust_lock" /\ c.prog = "UPDCUST" /\ Accepted(c) /\ t = NoTx
    BY <1>2, <1>6, Labels DEF UpdcustLock, EmptyHanded
  <2>2. ASSUME NEW u, u.held = t.held \cup {CustomerKey(c.customer)},
               DOMAIN u.customer = DOMAIN t.customer \cup {c.customer}, u.account = t.account
        PROVE  Placed(c, "updcust_update", attempts[r], u)
    <3>1. UpdcustHolds(c, "updcust_update", u)
      BY <2>1, <2>2, FirstCustomerHeld DEF UpdcustHolds
    <3>2. QED
      BY <2>1, <3>1, InsideIsPlaced DEF EmptyHanded
  <2>3. /\ "updcust_update" \in LabelsOf[c.prog]
        /\ c.customer \in Nat /\ Fail("1") \in Replies
        /\ LockCustomer(r, "updcust_update", c.customer, Fail("1"))
    BY <1>3, <1>6, <2>1, Labels DEF UpdcustLock, Replies, FailCodes
  <2>4. QED
    BY <2>2, <2>3, LockCustomerKeeps
<1>7. CASE UpdcustUpdate(r)
  <2> DEFINE row == ResolvedFields(t.customer[c.customer], c)
             own == Overlay(t.customer, c.customer, row)
             u == [tx[r] EXCEPT !.customer = own]
  <2>1. pc[r] = "updcust_update" /\ c.prog = "UPDCUST" /\ Accepted(c)
        /\ HoldsCustomer(t, c.customer)
    BY <1>2, <1>7, Labels DEF UpdcustUpdate, UpdcustHolds
  <2>2. CASE {c.name, c.address} \subseteq BlankishTexts
    BY <1>7, <2>2, RefuseKeeps DEF UpdcustUpdate, Fail, Replies, FailCodes
  <2>3. CASE ~({c.name, c.address} \subseteq BlankishTexts)
    <3>1. c.customer \in DOMAIN t.customer /\ t.customer[c.customer] \in CustomerRow
      BY <1>1, <2>1 DEF HoldsCustomer, IsTransaction, IsCustomerTable
    <3>2. row \in CustomerRow
      BY <1>3, <2>1, <3>1 DEF ResolvedFields, CustomerRow
    <3>3. DOMAIN own = DOMAIN t.customer \cup {c.customer} /\ IsCustomerTable(own)
      BY <1>1, <1>3, <2>1, <3>2, OverlayTyped DEF IsTransaction
    <3>4. DOMAIN own = DOMAIN t.customer
      BY <3>1, <3>3
    <3>5. IsTransaction(u) /\ u.held = t.held /\ u.customer = own
          /\ u.account = t.account
      BY <1>1, <3>3, <3>4 DEF IsTransaction, NoTx
    <3>6. UpdcustHolds(c, "updcust_proctran", u)
      BY <2>1, <3>4, <3>5 DEF UpdcustHolds, HoldsCustomer
    <3>7. Placed(c, "updcust_proctran", attempts[r], u)
      BY <2>1, <3>6, InsideIsPlaced DEF EmptyHanded
    <3>8. Statement(r, "updcust_proctran", u)
      BY <1>7, <2>3 DEF UpdcustUpdate
    <3>9. QED
      BY <2>1, <3>5, <3>7, <3>8, Labels, StatementKeeps
  <2>4. QED
    BY <2>2, <2>3
<1>8. CASE UpdcustProctran(r)
  <2>1. pc[r] = "updcust_proctran" /\ c.prog = "UPDCUST" /\ Accepted(c)
        /\ UpdcustHolds(c, "updcust_proctran", t)
    BY <1>2, <1>8, Labels DEF UpdcustProctran
  <2>2. ASSUME NEW u, u.held = t.held, u.account = t.account,
               u.customer = t.customer, u.control = t.control
        PROVE  Placed(c, "commit", attempts[r], u)
    <3>1. UpdcustHolds(c, "commit", u)
      BY <2>1, <2>2, SameHoldings DEF UpdcustHolds
    <3>2. QED
      BY <2>1, <3>1, InsideIsPlaced DEF EmptyHanded
  <2>3. 0 \in Money /\ "OUC" \in TranTypes
    BY BoundsAssumption DEF Money, TranTypes
  <2>4. QED
    BY <1>8, <2>2, <2>3, InsertProctranKeeps DEF UpdcustProctran
<1>9. QED
  BY <1>4, <1>5, <1>6, <1>7, <1>8 DEF UpdcustStep

\* CRECUST: the number inserted is within range and the one just reserved.
LEMMA CrecustKeeps ==
  ASSUME LocalInvariant, NEW r \in Requests, CrecustStep(r)
  PROVE  LocalInvariant'
<1> DEFINE c == cmd[r]
           t == tx[r]
<1>1. /\ c \in Commands /\ IsTransaction(t)
      /\ pc[r] \in LabelsOf[c.prog] \cup SharedLabels
      /\ Placed(c, pc[r], attempts[r], t)
      /\ attempts[r] \in 0 .. MaxAttempts
  BY Facts
<1>2. pc[r] \in LabelsOf["CRECUST"] =>
        /\ c.prog = "CRECUST" /\ CrecustHolds(c, pc[r], t)
        /\ pc[r] # "idle" => Accepted(c)
        /\ pc[r] \in EmptyHanded => t = NoTx
  BY <1>1, ProgramOfLabel, Labels DEF Placed
<1>3. c.prog = "CRECUST" =>
        /\ c.name \in Texts /\ c.address \in Texts /\ c.birth \in {"valid", "O", "Y", "Z"}
        /\ Accepted(c) => TRUE
  <2>1. c.prog = "CRECUST" => c \in CrecustCommands
    BY <1>1, CommandFields
  <2>2. c.prog = "CRECUST" /\ Accepted(c) => CrecustRejection(c) = None
    BY DEF Accepted
  <2>3. QED
    BY <2>1, <2>2, BoundsAssumption
       DEF CrecustCommands, CrecustRejection, None, Fail, Abend, Invalid
<1>4. CASE CrecustReceive(r)
  <2>1. CrecustRejection(c) \in Replies
    BY <1>3, <1>4 DEF CrecustReceive, CrecustRejection, Replies, Fail, Abend, FailCodes, AbendCodes
  <2>2. c.prog = "CRECUST" /\ (CrecustRejection(c) = None => Accepted(c))
    BY <1>4 DEF CrecustReceive, Accepted
  <2>3. QED
    BY <1>4, <2>1, <2>2, Labels, ReceiveKeeps DEF CrecustReceive, SharedLabels
<1>5. CASE CrecustBegin(r)
  <2>1. c.prog = "CRECUST" /\ pc[r] = "begin" /\ Accepted(c)
    BY <1>1, <1>5 DEF CrecustBegin, Begin, Placed
  <2>2. Placed(c, "crecust_reserve", attempts[r] + 1, NoTx)
    BY <1>1, <2>1, BoundsAssumption, EmptyHandedIsPlaced DEF EmptyHanded, Unstarted
  <2>3. QED
    BY <1>5, <2>1, <2>2, Labels, BeginKeeps DEF CrecustBegin
<1>6. CASE CrecustCredit(r)
  <2>1. pc[r] = "crecust_credit" /\ c.prog = "CRECUST" /\ Accepted(c)
    BY <1>2, <1>6, Labels DEF CrecustCredit
  <2>2. attempts[r] = 0
    BY <1>1, <2>1 DEF Placed, Unstarted
  <2>3. Placed(c, "begin", attempts[r], NoTx)
    BY <2>1, <2>2, BoundsAssumption, EmptyHandedIsPlaced DEF EmptyHanded, Unstarted
  <2>4. CASE Statement(r, "begin", NoTx)
    BY <2>3, <2>4, NoTxTyped, StatementKeeps DEF SharedLabels
  <2>5. CASE Refuse(r, Fail("G"))
    BY <2>5, RefuseKeeps DEF Fail, Replies, FailCodes
  <2>6. QED
    BY <1>6, <2>4, <2>5 DEF CrecustCredit
<1>7. CASE CrecustReserve(r)
  <2> DEFINE bumped == [control EXCEPT !.customer_count = @ + 1, !.customer_last = @ + 1]
  <2>1. pc[r] = "crecust_reserve" /\ c.prog = "CRECUST" /\ Accepted(c) /\ t = NoTx
    BY <1>2, <1>7, Labels DEF CrecustReserve, EmptyHanded
  <2>2. bumped \in Control /\ bumped.customer_last > 0
    <3>1. control \in Control
      BY Facts
    <3>2. /\ control.customer_count + 1 \in Nat /\ control.customer_last + 1 \in Nat
          /\ control.customer_last + 1 > 0
      BY <3>1 DEF Control
    <3>3. bumped \in Control
      BY <3>1, <3>2 DEF Control
    <3>4. bumped.customer_last = control.customer_last + 1
      BY <3>1 DEF Control
    <3>5. QED
      BY <3>2, <3>3, <3>4
  <2>3. ASSUME NEW u, u.held = t.held \cup {ControlKey}, u.control = bumped,
               u.account = t.account, u.customer = t.customer
        PROVE  Placed(c, "crecust_insert", attempts[r], u)
    <3>1. CrecustHolds(c, "crecust_insert", u)
      BY <2>1, <2>2, <2>3, EmptyTableTyped DEF CrecustHolds, NoTx
    <3>2. QED
      BY <2>1, <3>1, InsideIsPlaced DEF EmptyHanded
  <2>4. QED
    BY <1>7, <2>1, <2>2, <2>3, Labels, ReserveKeeps DEF CrecustReserve
<1>8. CASE CrecustInsert(r)
  <2> DEFINE n == t.control.customer_last
             row == [name |-> c.name, address |-> c.address]
             own == Overlay(t.customer, n, row)
             u == [tx[r] EXCEPT !.held = @ \cup {CustomerKey(n)}, !.customer = own]
  <2>1. pc[r] = "crecust_insert" /\ c.prog = "CRECUST" /\ Accepted(c)
        /\ CrecustHolds(c, "crecust_insert", t)
    BY <1>2, <1>8, Labels DEF CrecustInsert
  <2>2. \/ \E rep \in Replies : Refuse(r, rep)
        \/ n <= MaxCustomerNumber /\ Statement(r, "crecust_proctran", u)
    <3>1. n \in Nat
      BY <1>1 DEF IsTransaction, Control
    <3>2. Fail("4") \in Replies /\ Fail("1") \in Replies
      BY DEF Fail, Replies, FailCodes
    <3>3. QED
      BY <1>8, <3>1, <3>2, BoundsAssumption DEF CrecustInsert
  <2>3. CASE n <= MaxCustomerNumber /\ Statement(r, "crecust_proctran", u)
    <3>1. row \in CustomerRow
      BY <1>3, <2>1 DEF CustomerRow
    <3>2. n \in 1 .. MaxCustomerNumber
      BY <1>1, <2>1, <2>3, BoundsAssumption DEF CrecustHolds, IsTransaction, Control
    <3>3. DOMAIN own = {n} /\ IsCustomerTable(own)
      <4>1. DOMAIN t.customer = {} /\ IsCustomerTable(t.customer) /\ n \in Nat
        BY <1>1, <2>1, <3>2 DEF CrecustHolds, IsTransaction
      <4>2. DOMAIN own = DOMAIN t.customer \cup {n}
        BY <4>1, OverlayTyped
      <4>3. IsCustomerTable(own)
        BY <3>1, <4>1, OverlayTyped
      <4>4. QED
        BY <4>1, <4>2, <4>3
    <3>4. CustomerKey(n) \in LockKeys
      BY <3>2 DEF CustomerKey, LockKeys
    <3>5. IsTransaction(u) /\ u.held = t.held \cup {CustomerKey(n)} /\ u.customer = own
          /\ u.account = t.account /\ u.control = t.control
      BY <1>1, <3>2, <3>3, <3>4 DEF IsTransaction, NoTx
    <3>6. CrecustHolds(c, "crecust_proctran", u)
      BY <2>1, <3>3, <3>5 DEF CrecustHolds
    <3>7. Placed(c, "crecust_proctran", attempts[r], u)
      BY <2>1, <3>6, InsideIsPlaced DEF EmptyHanded
    <3>8. QED
      BY <2>1, <2>3, <3>5, <3>7, Labels, StatementKeeps
  <2>4. QED
    BY <2>2, <2>3, RefuseKeeps
<1>9. CASE CrecustProctran(r)
  <2>1. pc[r] = "crecust_proctran" /\ c.prog = "CRECUST" /\ Accepted(c)
        /\ CrecustHolds(c, "crecust_proctran", t)
    BY <1>2, <1>9, Labels DEF CrecustProctran
  <2>2. ASSUME NEW u, u.held = t.held, u.account = t.account,
               u.customer = t.customer, u.control = t.control
        PROVE  Placed(c, "commit", attempts[r], u)
    <3>1. CrecustHolds(c, "commit", u)
      BY <2>1, <2>2 DEF CrecustHolds
    <3>2. QED
      BY <2>1, <3>1, InsideIsPlaced DEF EmptyHanded
  <2>3. 0 \in Money /\ "OCC" \in TranTypes
    BY BoundsAssumption DEF Money, TranTypes
  <2>4. QED
    BY <1>9, <2>2, <2>3, InsertProctranKeeps DEF CrecustProctran
<1>10. QED
  BY <1>4, <1>5, <1>6, <1>7, <1>8, <1>9 DEF CrecustStep

\* CREACC: the number inserted is within range and the one just reserved.
LEMMA CreaccKeeps ==
  ASSUME LocalInvariant, NEW r \in Requests, CreaccStep(r)
  PROVE  LocalInvariant'
<1> DEFINE c == cmd[r]
           t == tx[r]
<1>1. /\ c \in Commands /\ IsTransaction(t)
      /\ pc[r] \in LabelsOf[c.prog] \cup SharedLabels
      /\ Placed(c, pc[r], attempts[r], t)
      /\ attempts[r] \in 0 .. MaxAttempts
  BY Facts
<1>2. pc[r] \in LabelsOf["CREACC"] =>
        /\ c.prog = "CREACC" /\ CreaccHolds(c, pc[r], t)
        /\ pc[r] # "idle" => Accepted(c)
        /\ pc[r] \in EmptyHanded => t = NoTx
  BY <1>1, ProgramOfLabel, Labels DEF Placed
<1>3. c.prog = "CREACC" =>
        /\ c.customer \in Nat /\ c.type \in AccountTypes /\ c.overdraft \in Overdrafts
        /\ Accepted(c) => Representable(c)
  <2>1. c.prog = "CREACC" => c \in CreaccCommands
    BY <1>1, CommandFields
  <2>2. c.prog = "CREACC" /\ Accepted(c) => CreaccRejection(c) = None
    BY DEF Accepted
  <2>3. QED
    BY <2>1, <2>2, BoundsAssumption
       DEF CreaccCommands, CreaccRejection, None, Fail, Abend, Invalid, SupportedTypes
<1>4. CASE CreaccReceive(r)
  <2>1. CreaccRejection(c) \in Replies
    BY DEF CreaccRejection, Replies, Fail, Abend, FailCodes, AbendCodes
  <2>2. c.prog = "CREACC" /\ (CreaccRejection(c) = None => Accepted(c))
    BY <1>4 DEF CreaccReceive, Accepted
  <2>3. QED
    BY <1>4, <2>1, <2>2, Labels, ReceiveKeeps DEF CreaccReceive, SharedLabels
<1>5. CASE CreaccBegin(r)
  <2>1. c.prog = "CREACC" /\ pc[r] = "begin" /\ Accepted(c)
    BY <1>1, <1>5 DEF CreaccBegin, Begin, Placed
  <2>2. Placed(c, "creacc_reserve", attempts[r] + 1, NoTx)
    BY <1>1, <2>1, BoundsAssumption, EmptyHandedIsPlaced DEF EmptyHanded, Unstarted
  <2>3. QED
    BY <1>5, <2>1, <2>2, Labels, BeginKeeps DEF CreaccBegin
<1>6. CASE CreaccInqcust(r)
  <2>1. pc[r] = "creacc_inqcust" /\ c.prog = "CREACC" /\ Accepted(c)
    BY <1>2, <1>6, Labels DEF CreaccInqcust
  <2>2. attempts[r] = 0
    BY <1>1, <2>1 DEF Placed, Unstarted
  <2>3. Placed(c, "creacc_inqacccu", attempts[r], NoTx)
    BY <2>1, <2>2, BoundsAssumption, EmptyHandedIsPlaced DEF EmptyHanded, Unstarted
  <2>4. (\E rep \in Replies : Refuse(r, rep)) \/ Statement(r, "creacc_inqacccu", NoTx)
    BY <1>6 DEF CreaccInqcust, Fail, Replies, FailCodes
  <2>5. QED
    BY <2>1, <2>3, <2>4, Labels, NoTxTyped, RefuseKeeps, StatementKeeps DEF SharedLabels
<1>7. CASE CreaccInqacccu(r)
  <2>1. pc[r] = "creacc_inqacccu" /\ c.prog = "CREACC" /\ Accepted(c)
    BY <1>2, <1>7, Labels DEF CreaccInqacccu
  <2>2. attempts[r] = 0
    BY <1>1, <2>1 DEF Placed, Unstarted
  <2>3. Placed(c, "begin", attempts[r], NoTx)
    BY <2>1, <2>2, BoundsAssumption, EmptyHandedIsPlaced DEF EmptyHanded, Unstarted
  <2>4. (\E rep \in Replies : Refuse(r, rep)) \/ Statement(r, "begin", NoTx)
    BY <1>7 DEF CreaccInqacccu, Fail, Replies, FailCodes
  <2>5. QED
    BY <2>1, <2>3, <2>4, Labels, NoTxTyped, RefuseKeeps, StatementKeeps DEF SharedLabels
<1>8. CASE CreaccReserve(r)
  <2> DEFINE bumped == [control EXCEPT !.account_count = @ + 1, !.account_last = @ + 1]
  <2>1. pc[r] = "creacc_reserve" /\ c.prog = "CREACC" /\ Accepted(c) /\ t = NoTx
    BY <1>2, <1>8, Labels DEF CreaccReserve, EmptyHanded
  <2>2. bumped \in Control /\ bumped.account_last > 0
    <3>1. control \in Control
      BY Facts
    <3>2. /\ control.account_count + 1 \in Nat /\ control.account_last + 1 \in Nat
          /\ control.account_last + 1 > 0
      BY <3>1 DEF Control
    <3>3. bumped \in Control
      BY <3>1, <3>2 DEF Control
    <3>4. bumped.account_last = control.account_last + 1
      BY <3>1 DEF Control
    <3>5. QED
      BY <3>2, <3>3, <3>4
  <2>3. ASSUME NEW u, u.held = t.held \cup {ControlKey}, u.control = bumped,
               u.account = t.account, u.customer = t.customer
        PROVE  Placed(c, "creacc_insert", attempts[r], u)
    <3>1. CreaccHolds(c, "creacc_insert", u)
      BY <2>1, <2>2, <2>3, EmptyTableTyped DEF CreaccHolds, NoTx
    <3>2. QED
      BY <2>1, <3>1, InsideIsPlaced DEF EmptyHanded
  <2>4. QED
    BY <1>8, <2>1, <2>2, <2>3, Labels, ReserveKeeps DEF CreaccReserve
<1>9. CASE CreaccInsert(r)
  <2> DEFINE a == t.control.account_last
             own == Overlay(t.account, a, NewAccount(c))
             u == [tx[r] EXCEPT !.held = @ \cup {AccountKey(a)}, !.account = own]
  <2>1. pc[r] = "creacc_insert" /\ c.prog = "CREACC" /\ Accepted(c)
        /\ CreaccHolds(c, "creacc_insert", t)
    BY <1>2, <1>9, Labels DEF CreaccInsert
  <2>2. \/ \E rep \in Replies : Refuse(r, rep)
        \/ a <= MaxAccountNumber /\ Statement(r, "creacc_proctran", u)
    <3>1. a \in Nat
      BY <1>1 DEF IsTransaction, Control
    <3>2. Abend("HNCS") \in Replies /\ Fail("7") \in Replies
      BY DEF Fail, Abend, Replies, FailCodes, AbendCodes
    <3>3. QED
      BY <1>9, <3>1, <3>2, BoundsAssumption DEF CreaccInsert, Exhausted
  <2>3. CASE a <= MaxAccountNumber /\ Statement(r, "creacc_proctran", u)
    <3>1. NewAccount(c) \in AccountRow
      BY <1>3, <2>1 DEF NewAccount, AccountRow, Representable
    <3>2. a \in 1 .. MaxAccountNumber
      <4>1. a \in Nat
        BY <1>1 DEF IsTransaction, Control
      <4>2. a > 0
        BY <2>1 DEF CreaccHolds
      <4>3. QED
        BY <4>1, <4>2, <2>3, BoundsAssumption
    <3>3. DOMAIN own = {a} /\ IsAccountTable(own)
      <4>1. DOMAIN t.account = {} /\ IsAccountTable(t.account) /\ a \in Nat
        BY <1>1, <2>1, <3>2 DEF CreaccHolds, IsTransaction
      <4>2. DOMAIN own = DOMAIN t.account \cup {a}
        BY <4>1, OverlayTyped
      <4>3. IsAccountTable(own)
        BY <3>1, <4>1, OverlayTyped
      <4>4. QED
        BY <4>1, <4>2, <4>3
    <3>4. AccountKey(a) \in LockKeys
      BY <3>2 DEF AccountKey, LockKeys
    <3>5. IsTransaction(u) /\ u.held = t.held \cup {AccountKey(a)} /\ u.account = own
          /\ u.customer = t.customer /\ u.control = t.control
      BY <1>1, <3>2, <3>3, <3>4 DEF IsTransaction, NoTx
    <3>6. CreaccHolds(c, "creacc_proctran", u)
      BY <2>1, <3>3, <3>5 DEF CreaccHolds
    <3>7. Placed(c, "creacc_proctran", attempts[r], u)
      BY <2>1, <3>6, InsideIsPlaced DEF EmptyHanded
    <3>8. QED
      BY <2>1, <2>3, <3>5, <3>7, Labels, StatementKeeps
  <2>4. QED
    BY <2>2, <2>3, RefuseKeeps
<1>10. CASE CreaccProctran(r)
  <2>1. pc[r] = "creacc_proctran" /\ c.prog = "CREACC" /\ Accepted(c)
        /\ CreaccHolds(c, "creacc_proctran", t)
    BY <1>2, <1>10, Labels DEF CreaccProctran
  <2>2. ASSUME NEW u, u.held = t.held, u.account = t.account,
               u.customer = t.customer, u.control = t.control
        PROVE  Placed(c, "commit", attempts[r], u)
    <3>1. CreaccHolds(c, "commit", u)
      BY <2>1, <2>2 DEF CreaccHolds
    <3>2. QED
      BY <2>1, <3>1, InsideIsPlaced DEF EmptyHanded
  <2>3. 0 \in Money /\ "OCA" \in TranTypes
    BY BoundsAssumption DEF Money, TranTypes
  <2>4. QED
    BY <1>10, <2>2, <2>3, InsertProctranKeeps DEF CreaccProctran
<1>11. QED
  BY <1>4, <1>5, <1>6, <1>7, <1>8, <1>9, <1>10 DEF CreaccStep

\* DELCUS: what is deleted was listed, and the deleted precede the queued.
LEMMA DelcusKeeps ==
  ASSUME LocalInvariant, NEW r \in Requests, DelcusStep(r)
  PROVE  LocalInvariant'
<1> DEFINE c == cmd[r]
           t == tx[r]
<1>1. /\ c \in Commands /\ IsTransaction(t)
      /\ pc[r] \in LabelsOf[c.prog] \cup SharedLabels
      /\ Placed(c, pc[r], attempts[r], t)
      /\ attempts[r] \in 0 .. MaxAttempts
  BY Facts
<1>2. pc[r] \in LabelsOf["DELCUS"] =>
        /\ c.prog = "DELCUS" /\ DelcusHolds(c, pc[r], t)
        /\ pc[r] # "idle" => Accepted(c)
        /\ pc[r] \in EmptyHanded => t = NoTx
  BY <1>1, ProgramOfLabel, Labels DEF Placed
<1>3. c.prog = "DELCUS" =>
        /\ c.customer \in Nat
        /\ Accepted(c) => TRUE
  <2>1. c.prog = "DELCUS" => c \in DelcusCommands
    BY <1>1, CommandFields
  <2>2. c.prog = "DELCUS" /\ Accepted(c) => DelcusRejection(c) = None
    BY DEF Accepted
  <2>3. QED
    BY <2>1, <2>2, BoundsAssumption
       DEF DelcusCommands, DelcusRejection, None, Fail, Abend, Invalid
<1>4. CASE DelcusReceive(r)
  <2>1. DelcusRejection(c) \in Replies
    BY DEF DelcusRejection, Replies, Fail, Abend, FailCodes, AbendCodes
  <2>2. c.prog = "DELCUS" /\ (DelcusRejection(c) = None => Accepted(c))
    BY <1>4 DEF DelcusReceive, Accepted
  <2>3. QED
    BY <1>4, <2>1, <2>2, Labels, ReceiveKeeps DEF DelcusReceive, SharedLabels
<1>5. CASE DelcusBegin(r)
  <2>1. c.prog = "DELCUS" /\ pc[r] = "begin" /\ Accepted(c)
    BY <1>1, <1>5 DEF DelcusBegin, Begin, Placed
  <2>2. Placed(c, "delcus_lock", attempts[r] + 1, NoTx)
    BY <1>1, <2>1, BoundsAssumption, EmptyHandedIsPlaced DEF EmptyHanded, Unstarted
  <2>3. QED
    BY <1>5, <2>1, <2>2, Labels, BeginKeeps DEF DelcusBegin
<1>6. CASE DelcusLock(r)
  <2>1. pc[r] = "delcus_lock" /\ c.prog = "DELCUS" /\ Accepted(c) /\ t = NoTx
    BY <1>2, <1>6, Labels DEF DelcusLock, EmptyHanded
  <2>2. ASSUME NEW u, u.held = t.held \cup {CustomerKey(c.customer)},
               DOMAIN u.customer = DOMAIN t.customer \cup {c.customer}, u.account = t.account
        PROVE  Placed(c, "delcus_list", attempts[r], u)
    <3>1. DelcusHolds(c, "delcus_list", u)
      BY <2>1, <2>2, FirstCustomerHeld DEF DelcusHolds
    <3>2. QED
      BY <2>1, <3>1, InsideIsPlaced DEF EmptyHanded
  <2>3. /\ "delcus_list" \in LabelsOf[c.prog]
        /\ c.customer \in Nat /\ Fail("1") \in Replies
        /\ LockCustomer(r, "delcus_list", c.customer, Fail("1"))
    BY <1>3, <1>6, <2>1, Labels DEF DelcusLock, Replies, FailCodes
  <2>4. QED
    BY <2>2, <2>3, LockCustomerKeeps
<1>7. CASE DelcusList(r)
  <2> DEFINE page == FirstPage(c.customer)
             u == [tx[r] EXCEPT !.list = page, !.queue = DOMAIN page]
  <2>1. pc[r] = "delcus_list" /\ c.prog = "DELCUS" /\ Accepted(c)
        /\ HoldsCustomer(t, c.customer)
    BY <1>2, <1>7, Labels DEF DelcusList, DelcusHolds
  <2>2. IsAccountTable(page)
    BY Facts DEF FirstPage, AccountsOf, IsAccountTable
  <2>3. IsTransaction(u) /\ u.held = t.held /\ u.customer = t.customer
        /\ u.account = t.account /\ u.list = page /\ u.queue = DOMAIN page
    BY <1>1, <2>2 DEF IsTransaction, IsAccountTable, NoTx
  <2>4. DelcusHolds(c, "delcus_delete", u)
    BY <2>1, <2>3 DEF DelcusHolds, HoldsCustomer, CustomerKey
  <2>5. Placed(c, "delcus_delete", attempts[r], u)
    BY <2>1, <2>4, InsideIsPlaced DEF EmptyHanded
  <2>6. Statement(r, "delcus_delete", u)
    BY <1>7 DEF DelcusList
  <2>7. QED
    BY <2>1, <2>3, <2>5, <2>6, Labels, StatementKeeps
<1>8. CASE DelcusDeleteAccount(r)
  <2>1. pc[r] = "delcus_delete" /\ c.prog = "DELCUS" /\ Accepted(c)
        /\ DelcusHolds(c, "delcus_delete", t)
    BY <1>2, <1>8, Labels DEF DelcusDeleteAccount
  <2>2. PICK a \in t.queue :
          /\ IsNext(a, t.queue)
          /\ IF a \in DOMAIN account
               THEN Statement(r, "delcus_audit",
                      [tx[r] EXCEPT !.held = @ \cup {AccountKey(a)}])
               ELSE Statement(r, "delcus_delete", [tx[r] EXCEPT !.queue = @ \ {a}])
    BY <1>8 DEF DelcusDeleteAccount
  <2>3. a \in Nat /\ t.queue \subseteq Nat
    BY <1>1 DEF IsTransaction
  <2>4. CASE a \in DOMAIN account
    <3> DEFINE u == [tx[r] EXCEPT !.held = @ \cup {AccountKey(a)}]
    <3>1. AccountKey(a) \in LockKeys /\ AccountKey(a)[1] = 2 /\ AccountKey(a)[2] = a
      BY <2>3 DEF AccountKey, LockKeys
    <3>2. IsTransaction(u) /\ u.held = t.held \cup {AccountKey(a)}
          /\ u.customer = t.customer /\ u.account = t.account
          /\ u.list = t.list /\ u.queue = t.queue
      BY <1>1, <3>1 DEF IsTransaction, NoTx
    <3>3. \A k \in u.held : k[1] = 2 => \A b \in u.queue : k[2] <= b
      <4> SUFFICES ASSUME NEW k \in u.held, k[1] = 2, NEW b \in t.queue
                   PROVE  k[2] <= b
        BY <3>2
      <4>1. CASE k \in t.held
        <5>1. k[2] < b
          BY <2>1, <4>1 DEF DelcusHolds
        <5>2. k[2] \in Nat
          BY <1>1, <4>1 DEF IsTransaction, LockKeys
        <5>3. QED
          BY <2>3, <5>1, <5>2
      <4>2. CASE k = AccountKey(a)
        BY <2>2, <3>1, <4>2 DEF IsNext
      <4>3. QED
        BY <3>2, <4>1, <4>2
    <3>4. DelcusHolds(c, "delcus_audit", u)
      BY <2>1, <3>1, <3>2, <3>3 DEF DelcusHolds
    <3>5. Placed(c, "delcus_audit", attempts[r], u)
      BY <2>1, <3>4, InsideIsPlaced DEF EmptyHanded
    <3>6. QED
      BY <2>1, <2>2, <2>4, <3>2, <3>5, Labels, StatementKeeps
  <2>5. CASE a \notin DOMAIN account
    <3> DEFINE u == [tx[r] EXCEPT !.queue = @ \ {a}]
    <3>1. IsTransaction(u) /\ u.held = t.held
          /\ u.customer = t.customer /\ u.account = t.account
          /\ u.list = t.list /\ u.queue = t.queue \ {a}
      BY <1>1 DEF IsTransaction, NoTx
    <3>2. DelcusHolds(c, "delcus_delete", u)
      BY <2>1, <3>1 DEF DelcusHolds
    <3>3. Placed(c, "delcus_delete", attempts[r], u)
      BY <2>1, <3>2, InsideIsPlaced DEF EmptyHanded
    <3>4. QED
      BY <2>1, <2>2, <2>5, <3>1, <3>3, Labels, StatementKeeps
  <2>6. QED
    BY <2>4, <2>5
<1>9. CASE DelcusAuditAccount(r)
  <2>1. pc[r] = "delcus_audit" /\ c.prog = "DELCUS" /\ Accepted(c)
        /\ DelcusHolds(c, "delcus_audit", t)
    BY <1>2, <1>9, Labels DEF DelcusAuditAccount
  <2>2. PICK a \in t.queue :
          /\ IsNext(a, t.queue)
          /\ Statement(r, "delcus_delete",
               [tx[r] EXCEPT !.queue = @ \ {a},
                             !.proctran = Append(@, Audit(r, "ODA", t.list[a].actual))])
    BY <1>9 DEF DelcusAuditAccount
  <2> DEFINE rows == Append(t.proctran, Audit(r, "ODA", t.list[a].actual))
             u == [tx[r] EXCEPT !.queue = @ \ {a}, !.proctran = rows]
  <2>3. a \in Nat /\ t.queue \subseteq Nat
    BY <1>1 DEF IsTransaction
  <2>4. rows \in Seq(AuditRow)
    <3>1. t.list[a] \in AccountRow
      BY <1>1, <2>1, <2>2 DEF DelcusHolds, IsTransaction, IsAccountTable
    <3>2. Audit(r, "ODA", t.list[a].actual) \in AuditRow
      BY <3>1 DEF Audit, AuditRow, AccountRow, TranTypes
    <3>3. t.proctran \in Seq(AuditRow)
      BY <1>1 DEF IsTransaction
    <3>4. QED
      BY <3>2, <3>3
  <2>5. IsTransaction(u) /\ u.held = t.held
        /\ u.customer = t.customer /\ u.account = t.account
        /\ u.list = t.list /\ u.queue = t.queue \ {a}
    BY <1>1, <2>4 DEF IsTransaction, NoTx
  <2>6. \A k \in u.held : k[1] = 2 => \A b \in u.queue : k[2] < b
    <3> SUFFICES ASSUME NEW k \in t.held, k[1] = 2, NEW b \in t.queue \ {a}
                 PROVE  k[2] < b
      BY <2>5
    <3>1. k[2] <= a /\ a <= b
      BY <2>1, <2>2 DEF DelcusHolds, IsNext
    <3>2. k[2] \in Nat
      BY <1>1 DEF IsTransaction, LockKeys
    <3>3. QED
      BY <2>3, <3>1, <3>2
  <2>7. DelcusHolds(c, "delcus_delete", u)
    BY <2>1, <2>5, <2>6 DEF DelcusHolds
  <2>8. Placed(c, "delcus_delete", attempts[r], u)
    BY <2>1, <2>7, InsideIsPlaced DEF EmptyHanded
  <2>9. QED
    BY <2>1, <2>2, <2>5, <2>8, Labels, StatementKeeps
<1>10. CASE DelcusDeleteCustomer(r)
  <2> DEFINE own == Without(t.customer, c.customer)
             u == [tx[r] EXCEPT !.customer = own]
  <2>1. pc[r] = "delcus_delete" /\ c.prog = "DELCUS" /\ Accepted(c)
        /\ DelcusHolds(c, "delcus_delete", t)
    BY <1>2, <1>10, Labels DEF DelcusDeleteCustomer
  <2>2. \/ RetryOrGiveUp(r)
        \/ Refuse(r, Abend("WPV7"))
        \/ Statement(r, "delcus_proctran", u)
    BY <1>10 DEF DelcusDeleteCustomer
  <2>3. CASE Statement(r, "delcus_proctran", u)
    <3>1. DOMAIN own = DOMAIN t.customer \ {c.customer} /\ IsCustomerTable(own)
      BY <1>1, WithoutTyped DEF IsTransaction
    <3>2. IsTransaction(u) /\ u.held = t.held
          /\ u.customer = own /\ u.account = t.account
      BY <1>1, <3>1 DEF IsTransaction, NoTx
    <3>3. DelcusHolds(c, "delcus_proctran", u)
      BY <2>1, <3>1, <3>2 DEF DelcusHolds
    <3>4. Placed(c, "delcus_proctran", attempts[r], u)
      BY <2>1, <3>3, InsideIsPlaced DEF EmptyHanded
    <3>5. QED
      BY <2>1, <2>3, <3>2, <3>4, Labels, StatementKeeps
  <2>4. CASE Refuse(r, Abend("WPV7"))
    BY <2>4, RefuseKeeps DEF Abend, Replies, AbendCodes
  <2>5. CASE RetryOrGiveUp(r)
    BY <2>1, <2>5, RetryKeeps
  <2>6. QED
    BY <2>2, <2>3, <2>4, <2>5
<1>11. CASE DelcusProctran(r)
  <2>1. pc[r] = "delcus_proctran" /\ c.prog = "DELCUS" /\ Accepted(c)
        /\ DelcusHolds(c, "delcus_proctran", t)
    BY <1>2, <1>11, Labels DEF DelcusProctran
  <2>2. ASSUME NEW u, u.held = t.held, u.account = t.account,
               u.customer = t.customer, u.control = t.control
        PROVE  Placed(c, "commit", attempts[r], u)
    <3>1. DelcusHolds(c, "commit", u)
      BY <2>1, <2>2 DEF DelcusHolds
    <3>2. QED
      BY <2>1, <3>1, InsideIsPlaced DEF EmptyHanded
  <2>3. 0 \in Money /\ "ODC" \in TranTypes
    BY BoundsAssumption DEF Money, TranTypes
  <2>4. QED
    BY <1>11, <2>2, <2>3, InsertProctranKeeps DEF DelcusProctran
<1>12. QED
  BY <1>4, <1>5, <1>6, <1>7, <1>8, <1>9, <1>10, <1>11 DEF DelcusStep

-----------------------------------------------------------------------------
(* COMMIT, failures and the initial state.                                 *)

\* COMMIT keeps the types of the tables: a transaction's own rows are typed,
\* and the others stay as they are.
LEMMA InstallTyped ==
  ASSUME LocalInvariant, NEW r \in Requests, Install(r)
  PROVE  /\ IsCustomerTable(customer') /\ DOMAIN customer' \subseteq 1 .. MaxCustomerNumber
         /\ IsAccountTable(account') /\ DOMAIN account' \subseteq 1 .. MaxAccountNumber
         /\ control' \in Control /\ proctran' \in Seq(AuditRow)
<1>1. /\ IsCustomerTable(customer) /\ DOMAIN customer \subseteq 1 .. MaxCustomerNumber
      /\ IsAccountTable(account) /\ DOMAIN account \subseteq 1 .. MaxAccountNumber
      /\ control \in Control /\ proctran \in Seq(AuditRow)
      /\ IsTransaction(tx[r])
  BY Facts
<1>2. IsCustomerTable(customer') /\ DOMAIN customer' \subseteq 1 .. MaxCustomerNumber
  <2>1. customer' = Merge(customer, tx[r].customer, KeysOf(1, tx[r].held))
    BY DEF Install
  <2>2. /\ IsCustomerTable(tx[r].customer)
        /\ DOMAIN tx[r].customer \subseteq 1 .. MaxCustomerNumber
    BY <1>1 DEF IsTransaction
  <2> DEFINE new == Merge(customer, tx[r].customer, KeysOf(1, tx[r].held))
  <2>3. /\ IsCustomerTable(new)
        /\ DOMAIN new = (DOMAIN customer \ KeysOf(1, tx[r].held)) \cup DOMAIN tx[r].customer
    BY <1>1, <2>2, MergeTyped
  <2>4. IsCustomerTable(new) /\ DOMAIN new \subseteq 1 .. MaxCustomerNumber
    <3> HIDE DEF new
    <3>1. QED
      BY <1>1, <2>2, <2>3
  <2>5. QED
    BY <2>1, <2>4
<1>3. IsAccountTable(account') /\ DOMAIN account' \subseteq 1 .. MaxAccountNumber
  <2>1. account' = Merge(account, tx[r].account, KeysOf(2, tx[r].held))
    BY DEF Install
  <2>2. /\ IsAccountTable(tx[r].account)
        /\ DOMAIN tx[r].account \subseteq 1 .. MaxAccountNumber
    BY <1>1 DEF IsTransaction
  <2> DEFINE new == Merge(account, tx[r].account, KeysOf(2, tx[r].held))
  <2>3. /\ IsAccountTable(new)
        /\ DOMAIN new = (DOMAIN account \ KeysOf(2, tx[r].held)) \cup DOMAIN tx[r].account
    BY <1>1, <2>2, MergeTyped
  <2>4. IsAccountTable(new) /\ DOMAIN new \subseteq 1 .. MaxAccountNumber
    <3> HIDE DEF new
    <3>1. QED
      BY <1>1, <2>2, <2>3
  <2>5. QED
    BY <2>1, <2>4
<1>4. control' \in Control
  BY <1>1 DEF Install, IsTransaction
<1>5. proctran' \in Seq(AuditRow)
  BY <1>1 DEF Install, IsTransaction
<1>6. QED
  BY <1>2, <1>3, <1>4, <1>5

\* COMMIT keeps the invariant.
LEMMA CommitKeeps ==
  ASSUME LocalInvariant, NEW r \in Requests, Commit(r)
  PROVE  LocalInvariant'
<1>1. reply' \in [Requests -> Replies] /\ faults' \in 0 .. MaxFaults
  BY DEF LocalInvariant, TypeOK, Commit, Replies
<1>2. QED
  BY <1>1, InstallTyped, EndingKeeps DEF Commit

\* So does a COMMIT whose outcome the client does not learn.
LEMMA CommitLostKeeps ==
  ASSUME LocalInvariant, NEW r \in Requests, CommitLost(r)
  PROVE  LocalInvariant'
<1>1. TypeOK
  BY DEF LocalInvariant
<1>2. faults' \in 0 .. MaxFaults
  BY <1>1, BoundsAssumption DEF CommitLost, TypeOK
<1>3. PICK p \in {"done", "lost"} : pc' = [pc EXCEPT ![r] = p]
  BY DEF CommitLost
<1>4. reply' \in [Requests -> Replies]
  BY <1>1 DEF CommitLost, TypeOK, Replies, AbendCodes, UNEX, Abend
<1>5. /\ IsCustomerTable(customer') /\ DOMAIN customer' \subseteq 1 .. MaxCustomerNumber
      /\ IsAccountTable(account') /\ DOMAIN account' \subseteq 1 .. MaxAccountNumber
      /\ control' \in Control /\ proctran' \in Seq(AuditRow)
  <2>1. CASE Install(r)
    BY <2>1, InstallTyped
  <2>2. CASE UNCHANGED tables
    BY <1>1, <2>2 DEF TypeOK, tables
  <2>3. QED
    BY <2>1, <2>2 DEF CommitLost
<1>6. QED
  BY <1>2, <1>3, <1>4, <1>5, EndingKeeps DEF CommitLost

\* A dropped handler leaves the invariant as it was.
LEMMA AbandonKeeps ==
  ASSUME LocalInvariant, NEW r \in Requests, Abandon(r)
  PROVE  LocalInvariant'
<1>1. TypeOK
  BY DEF LocalInvariant
<1>2. faults' \in 0 .. MaxFaults
  BY <1>1, BoundsAssumption DEF Abandon, TypeOK
<1>3. QED
  BY <1>1, <1>2, EndingKeeps DEF Abandon, tables, TypeOK

\* So does a database error other than 40001 at a statement.
LEMMA StatementErrorKeeps ==
  ASSUME LocalInvariant, NEW r \in Requests, NEW errors,
         \A p \in DOMAIN errors : errors[p] \subseteq Replies,
         StatementError(r, errors)
  PROVE  LocalInvariant'
<1>1. PICK rep \in errors[pc[r]] : Answer(r, rep)
  BY DEF StatementError
<1>2. rep \in Replies /\ faults' \in 0 .. MaxFaults
  BY <1>1, BoundsAssumption DEF StatementError, LocalInvariant, TypeOK
<1>3. QED
  BY <1>1, <1>2, AnswerKeeps

\* The codes an error is reported with are codes a client may get.
LEMMA ErrorReplies ==
  /\ Abend("FROM") \in Replies /\ Abend("TO  ") \in Replies
  /\ Abend("HUAC") \in Replies /\ Abend("HRAC") \in Replies
  /\ Abend("WPV6") \in Replies /\ Abend("WPV7") \in Replies
  /\ Abend("CVR1") \in Replies /\ Abend("HACU") \in Replies
  /\ Abend("HNCS") \in Replies /\ Fail("7") \in Replies
  /\ Fail("1") \in Replies /\ Fail("2") \in Replies /\ Fail("3") \in Replies
  /\ HWPT \in Replies /\ XRTY \in Replies /\ UNEX \in Replies
<1>1. /\ \A code \in AbendCodes : Abend(code) \in Replies
      /\ \A code \in FailCodes : Fail(code) \in Replies
  BY DEF Replies
<1>2. QED
  BY <1>1 DEF HWPT, XRTY, UNEX, AbendCodes, FailCodes

\* The replies the programs have for a failed statement.
LEMMA ErrorsTyped ==
  \A errors \in {XfrfunErrors, DbcrfunErrors, UpdaccErrors, DelaccErrors,
                 UpdcustErrors, DelcusErrors, CreaccErrors, CrecustErrors} :
    \A p \in DOMAIN errors : errors[p] \subseteq Replies
<1>1. \A p \in DOMAIN XfrfunErrors : XfrfunErrors[p] \subseteq Replies
  <2>1. /\ XfrfunErrors["xfr_from"] = {Abend("FROM")}
        /\ XfrfunErrors["xfr_to"] = {Abend("TO  ")}
        /\ XfrfunErrors["xfr_debit"] = {Abend("FROM")}
        /\ XfrfunErrors["xfr_credit"] = {Abend("TO  ")}
        /\ XfrfunErrors["xfr_proctran"] = {HWPT}
    BY DEF XfrfunErrors
  <2>2. DOMAIN XfrfunErrors =
          {"xfr_from", "xfr_to", "xfr_debit", "xfr_credit", "xfr_proctran"}
    BY DEF XfrfunErrors
  <2>3. /\ {Abend("FROM")} \subseteq Replies
        /\ {Abend("TO  ")} \subseteq Replies
        /\ {HWPT} \subseteq Replies
    BY ErrorReplies
  <2>4. QED
    BY <2>1, <2>2, <2>3
<1>2. \A p \in DOMAIN DbcrfunErrors : DbcrfunErrors[p] \subseteq Replies
  <2>1. /\ DbcrfunErrors["dbcr_lock"] = {Abend("HRAC")}
        /\ DbcrfunErrors["dbcr_update"] = {Abend("HUAC")}
        /\ DbcrfunErrors["dbcr_proctran"] = {HWPT}
    BY DEF DbcrfunErrors
  <2>2. DOMAIN DbcrfunErrors =
          {"dbcr_lock", "dbcr_update", "dbcr_proctran"}
    BY DEF DbcrfunErrors
  <2>3. /\ {Abend("HRAC")} \subseteq Replies
        /\ {Abend("HUAC")} \subseteq Replies
        /\ {HWPT} \subseteq Replies
    BY ErrorReplies
  <2>4. QED
    BY <2>1, <2>2, <2>3
<1>3. \A p \in DOMAIN UpdaccErrors : UpdaccErrors[p] \subseteq Replies
  <2>1. /\ UpdaccErrors["updacc_lock"] = {Abend("HRAC")}
        /\ UpdaccErrors["updacc_update"] = {Abend("HUAC")}
        /\ UpdaccErrors["updacc_proctran"] = {HWPT}
    BY DEF UpdaccErrors
  <2>2. DOMAIN UpdaccErrors =
          {"updacc_lock", "updacc_update", "updacc_proctran"}
    BY DEF UpdaccErrors
  <2>3. /\ {Abend("HRAC")} \subseteq Replies
        /\ {Abend("HUAC")} \subseteq Replies
        /\ {HWPT} \subseteq Replies
    BY ErrorReplies
  <2>4. QED
    BY <2>1, <2>2, <2>3
<1>4. \A p \in DOMAIN DelaccErrors : DelaccErrors[p] \subseteq Replies
  <2>1. /\ DelaccErrors["delacc_lock"] = {Abend("HRAC")}
        /\ DelaccErrors["delacc_delete"] = {Fail("3")}
        /\ DelaccErrors["delacc_proctran"] = {HWPT}
    BY DEF DelaccErrors
  <2>2. DOMAIN DelaccErrors =
          {"delacc_lock", "delacc_delete", "delacc_proctran"}
    BY DEF DelaccErrors
  <2>3. /\ {Abend("HRAC")} \subseteq Replies
        /\ {Fail("3")} \subseteq Replies
        /\ {HWPT} \subseteq Replies
    BY ErrorReplies
  <2>4. QED
    BY <2>1, <2>2, <2>3
<1>5. \A p \in DOMAIN UpdcustErrors : UpdcustErrors[p] \subseteq Replies
  <2>1. /\ UpdcustErrors["updcust_lock"] = {Fail("2")}
        /\ UpdcustErrors["updcust_update"] = {Fail("3")}
        /\ UpdcustErrors["updcust_proctran"] = {HWPT}
    BY DEF UpdcustErrors
  <2>2. DOMAIN UpdcustErrors =
          {"updcust_lock", "updcust_update", "updcust_proctran"}
    BY DEF UpdcustErrors
  <2>3. /\ {Fail("2")} \subseteq Replies
        /\ {Fail("3")} \subseteq Replies
        /\ {HWPT} \subseteq Replies
    BY ErrorReplies
  <2>4. QED
    BY <2>1, <2>2, <2>3
<1>6. \A p \in DOMAIN DelcusErrors : DelcusErrors[p] \subseteq Replies
  <2>1. /\ DelcusErrors["delcus_lock"] = {Abend("WPV6")}
        /\ DelcusErrors["delcus_list"] = {Abend("WPV6")}
        /\ DelcusErrors["delcus_delete"] = {Abend("WPV7")}
        /\ DelcusErrors["delcus_audit"] = {HWPT}
        /\ DelcusErrors["delcus_proctran"] = {HWPT}
    BY DEF DelcusErrors
  <2>2. DOMAIN DelcusErrors =
          {"delcus_lock", "delcus_list", "delcus_delete", "delcus_audit", "delcus_proctran"}
    BY DEF DelcusErrors
  <2>3. /\ {Abend("WPV6")} \subseteq Replies
        /\ {Abend("WPV7")} \subseteq Replies
        /\ {HWPT} \subseteq Replies
    BY ErrorReplies
  <2>4. QED
    BY <2>1, <2>2, <2>3
<1>7. \A p \in DOMAIN CreaccErrors : CreaccErrors[p] \subseteq Replies
  <2>1. /\ CreaccErrors["creacc_inqcust"] = {Abend("CVR1")}
        /\ CreaccErrors["creacc_inqacccu"] = {Abend("HACU")}
        /\ CreaccErrors["creacc_reserve"] = {Abend("HNCS")}
        /\ CreaccErrors["creacc_insert"] = {Fail("7")}
        /\ CreaccErrors["creacc_proctran"] = {HWPT}
    BY DEF CreaccErrors
  <2>2. DOMAIN CreaccErrors =
          {"creacc_inqcust", "creacc_inqacccu", "creacc_reserve", "creacc_insert", "creacc_proctran"}
    BY DEF CreaccErrors
  <2>3. /\ {Abend("HACU")} \subseteq Replies /\ {HWPT} \subseteq Replies
        /\ {Abend("CVR1")} \subseteq Replies /\ {Abend("HNCS")} \subseteq Replies
        /\ {Fail("7")} \subseteq Replies
    BY ErrorReplies
  <2>4. QED
    BY <2>1, <2>2, <2>3
<1>8. \A p \in DOMAIN CrecustErrors : CrecustErrors[p] \subseteq Replies
  <2>1. /\ CrecustErrors["crecust_reserve"] = {Fail("3")}
        /\ CrecustErrors["crecust_insert"] = {Fail("1")}
        /\ CrecustErrors["crecust_proctran"] = {HWPT}
    BY DEF CrecustErrors
  <2>2. DOMAIN CrecustErrors =
          {"crecust_reserve", "crecust_insert", "crecust_proctran"}
    BY DEF CrecustErrors
  <2>3. /\ {Fail("3")} \subseteq Replies
        /\ {Fail("1")} \subseteq Replies
        /\ {HWPT} \subseteq Replies
    BY ErrorReplies
  <2>4. QED
    BY <2>1, <2>2, <2>3
<1>9. QED
  BY <1>1, <1>2, <1>3, <1>4, <1>5, <1>6, <1>7, <1>8

\* So are the replies CREACC has for contention in its inquiries.
LEMMA ContentionReplies ==
  ASSUME NEW p \in DOMAIN CreaccContention
  PROVE  CreaccContention[p] \in {Abend("CVR1"), XRTY} /\ CreaccContention[p] \in Replies
<1>1. CreaccContention[p] \in {Abend("CVR1"), XRTY}
  BY DEF CreaccContention
<1>2. QED
  BY <1>1, ErrorReplies

\* Whatever fails, the invariant is kept.
LEMMA TroubleKeeps ==
  ASSUME LocalInvariant, NEW r \in Requests, Trouble(r)
  PROVE  LocalInvariant'
<1>1. CASE SerializationFailure(r)
  BY <1>1, RetryKeeps DEF SerializationFailure, InTransaction, Running
<1>2. CASE DatabaseError(r)
  BY <1>2, ErrorsTyped, StatementErrorKeeps DEF DatabaseError
<1>3. CASE BeginError(r)
  <2>1. faults' \in 0 .. MaxFaults
    BY <1>3, BoundsAssumption DEF BeginError, LocalInvariant, TypeOK
  <2>2. QED
    BY <1>3, <2>1, ErrorReplies, AnswerKeeps DEF BeginError
<1>4. CASE CommitLost(r)
  BY <1>4, CommitLostKeeps
<1>5. CASE Abandon(r)
  BY <1>5, AbandonKeeps
<1>6. CASE CreaccSerializationFailure(r)
  BY <1>6, ContentionReplies, RefuseKeeps DEF CreaccSerializationFailure
<1>7. QED
  BY <1>1, <1>2, <1>3, <1>4, <1>5, <1>6 DEF Trouble

\* So does every step of a program, COMMIT included.
LEMMA ProgressKeeps ==
  ASSUME LocalInvariant, NEW r \in Requests, Progress(r)
  PROVE  LocalInvariant'
<1>1. CASE ProgramStep(r)
  BY <1>1, XfrfunKeeps, DbcrfunKeeps, UpdaccKeeps, DelaccKeeps, UpdcustKeeps,
     DelcusKeeps, CreaccKeeps, CrecustKeeps DEF ProgramStep
<1>2. CASE Commit(r)
  BY <1>2, CommitKeeps
<1>3. CASE CommitConflict(r)
  BY <1>3, RetryKeeps DEF CommitConflict
<1>4. QED
  BY <1>1, <1>2, <1>3 DEF Progress

\* The invariant holds of every database a run may start from.
LEMMA InitiallyPlaced ==
  ASSUME Init
  PROVE  LocalInvariant
<1>1. PICK d \in InitialDatabases :
        customer = d.customer /\ account = d.account /\ control = d.control
  BY DEF Init
<1>2. IsDatabase(d)
  BY DatabasesAssumption
<1>3. /\ IsCustomerTable(customer) /\ DOMAIN customer \subseteq 1 .. MaxCustomerNumber
      /\ IsAccountTable(account) /\ DOMAIN account \subseteq 1 .. MaxAccountNumber
      /\ control \in Control
  BY <1>1, <1>2, BoundsAssumption DEF IsDatabase, Control
<1>4. TypeOK
  BY <1>3, NoTxTyped, BoundsAssumption DEF Init, TypeOK, SharedLabels, Replies
<1>5. EachIsPlaced
  BY DEF Init, EachIsPlaced, Placed, Unstarted, EmptyHanded, XfrfunHolds,
     DbcrfunHolds, UpdaccHolds, DelaccHolds, UpdcustHolds, DelcusHolds,
     CreaccHolds, CrecustHolds
<1>6. QED
  BY <1>4, <1>5 DEF LocalInvariant

\* The invariant is inductive.
LEMMA StepKeeps ==
  ASSUME LocalInvariant, [Next]_vars
  PROVE  LocalInvariant'
<1>1. CASE UNCHANGED vars
  BY <1>1 DEF vars, LocalInvariant, TypeOK, EachIsPlaced, IsCustomerTable,
     IsAccountTable, IsTransaction
<1>2. CASE \E r \in Requests : Progress(r) \/ Trouble(r)
  BY <1>2, ProgressKeeps, TroubleKeeps
<1>3. QED
  BY <1>1, <1>2 DEF Next, Idle

-----------------------------------------------------------------------------
(* Theorems.                                                               *)

\* Every request is always where its program can have brought it: at each
\* statement its transaction holds the rows that statement needs and a version
\* of each. This is what the closures of the repository modules rely on when
\* they use a row they locked some statements ago.
THEOREM RequestsArePlaced == Spec => []LocalInvariant
<1>1. Init => LocalInvariant
  BY InitiallyPlaced
<1>2. LocalInvariant /\ [Next]_vars => LocalInvariant'
  BY StepKeeps
<1>3. QED
  BY <1>1, <1>2, PTL DEF Spec

\* No balance ever leaves NUMERIC(12,2) and no number its key range, in the
\* tables or in what a transaction is about to install, however the requests
\* interleave, fail and are retried.
THEOREM TypeCorrect == Spec => []TypeOK
<1>1. LocalInvariant => TypeOK
  BY DEF LocalInvariant
<1>2. QED
  BY <1>1, RequestsArePlaced, PTL
=============================================================================
