----------------------------- MODULE CbsaBankProofs ----------------------------
(***************************************************************************)
(* The service implements the bank: every COMMIT that is applied does what *)
(* the bank does in one step on the tables of that moment, every refusal   *)
(* is justified by the tables of that moment, and nothing else shows.      *)
(***************************************************************************)
EXTENDS CbsaSharingProofs, CbsaKnowledge, SequenceTheorems, FiniteSetTheorems

\* Labels at which a request is over.
Ended == {"done", "lost"}

\* Request r goes on to label p with the transaction t, and nobody outside sees it.
MovesTo(r, p, t) ==
  /\ pc'[r] = p /\ tx'[r] = t
  /\ \A q \in Requests \ {r} : pc'[q] = pc[q] /\ tx'[q] = tx[q]
  /\ p \notin Ended
  /\ Knows(r, cmd[r], p, t)

Moves(r) ==
  /\ pc[r] \notin Ended
  /\ UNCHANGED <<tables, cmd, reply>>
  /\ \E p, t : MovesTo(r, p, t)

\* What the bank may answer to the command of r as the tables are.
Justified(r, rep) ==
  AtomicBank!Refused(cmd[r], rep) \/ AtomicBank!BlamesDatabase(cmd[r], rep)

AnswersTruly(r) ==
  /\ pc[r] \notin Ended
  /\ \E rep \in Replies : Answer(r, rep) /\ Justified(r, rep)

Banks(r) == Moves(r) \/ AnswersTruly(r)

\* It ends with a reply, whether the bank would give it or not.
Ends(r) == pc[r] \notin Ended /\ \E rep \in Replies : Answer(r, rep)

-----------------------------------------------------------------------------
(* The building blocks of the actions.                                     *)

\* The bank counts as the service does: Cardinality, read through the INSTANCE.
LEMMA SameCardinality ==
  ASSUME NEW S
  PROVE  AtomicBank!Cardinality(S) = Cardinality(S)
BY DEF Cardinality, AtomicBank!Cardinality

\* Replies that blame the database need no table to justify them.
LEMMA BlamesJustified ==
  ASSUME NEW r
  PROVE  /\ Justified(r, XRTY)
         /\ cmd[r].prog = "CREACC" => Justified(r, Abend("CVR1"))
         /\ MaxFaults > 0 =>
              /\ Justified(r, HWPT) /\ Justified(r, UNEX)
              /\ \A rep \in AtomicBank!Breakdowns[cmd[r].prog] : Justified(r, rep)
BY DEF Justified, AtomicBank!BlamesDatabase, AtomicBank!Contended, AtomicBank!Breakable,
   AtomicBank!XRTY, XRTY, AtomicBank!HWPT, HWPT, AtomicBank!UNEX, UNEX, AtomicBank!Abend, Abend

\* A request outside its transaction has computed nothing.
LEMMA NothingIsKnown ==
  ASSUME NEW r, NEW c, NEW p \in EmptyHanded, c.prog # "XFRFUN" \/ p = "begin"
  PROVE  Knows(r, c, p, NoTx)
BY DEF Knows, AuditedLast, NoTx, EmptyHanded, XfrfunKnows, DbcrfunKnows, UpdaccKnows,
   DelaccKnows, UpdcustKnows, DelcusKnows, CreaccKnows, CrecustKnows

\* A statement after which the request knows what it should.
LEMMA StatementMoves ==
  ASSUME LocalInvariant, NEW r \in Requests, NEW p, NEW t, Statement(r, p, t),
         pc[r] \notin Ended, p \notin Ended, Knows(r, cmd[r], p, t)
  PROVE  Moves(r)
BY DEF Statement, Moves, MovesTo, LocalInvariant, TypeOK

\* A refusal the bank allows.
LEMMA RefusalIsTrue ==
  ASSUME NEW r \in Requests, NEW rep \in Replies, Refuse(r, rep),
         pc[r] \notin Ended, Justified(r, rep)
  PROVE  AnswersTruly(r)
BY DEF Refuse, AnswersTruly

\* with_retry starts over, or blames the database.
LEMMA RetryBanks ==
  ASSUME LocalInvariant, NEW r \in Requests, RetryOrGiveUp(r), pc[r] \notin Ended
  PROVE  Banks(r)
<1>1. CASE Statement(r, "begin", NoTx)
  BY <1>1, NothingIsKnown, StatementMoves DEF EmptyHanded, Ended, Banks
<1>2. CASE Refuse(r, XRTY)
  <2>1. XRTY \in Replies /\ Justified(r, XRTY)
    BY BlamesJustified DEF XRTY, Abend, Replies, AbendCodes
  <2>2. QED
    BY <1>2, <2>1, RefusalIsTrue DEF Banks
<1>3. QED
  BY <1>1, <1>2 DEF RetryOrGiveUp

\* The service lets a request in or refuses it as the bank would.
LEMMA ReceiveBanks ==
  ASSUME LocalInvariant, NEW r \in Requests, NEW rejection \in Replies,
         NEW next \in {"begin", "creacc_inqcust", "crecust_credit"},
         Receive(r, rejection, next),
         next # "begin" => cmd[r].prog # "XFRFUN",
         rejection # None => Justified(r, rejection)
  PROVE  Banks(r)
<1>1. pc[r] \notin Ended
  BY DEF Receive, Ended
<1>2. CASE rejection # None
  BY <1>1, <1>2, RefusalIsTrue DEF Receive, Banks
<1>3. CASE rejection = None
  <2>1. next \in EmptyHanded /\ next \notin Ended /\ Statement(r, next, NoTx)
    BY <1>3 DEF EmptyHanded, Ended, Receive
  <2>2. Knows(r, cmd[r], next, NoTx)
    BY <2>1, NothingIsKnown
  <2>3. QED
    BY <1>1, <2>1, <2>2, StatementMoves DEF Banks
<1>4. QED
  BY <1>2, <1>3

\* A new attempt starts with an empty transaction.
LEMMA BeginBanks ==
  ASSUME LocalInvariant, NEW r \in Requests, NEW first, Begin(r, first),
         first \notin Ended, Knows(r, cmd[r], first, NoTx)
  PROVE  Banks(r)
<1>1. tx[r] = NoTx /\ pc[r] = "begin"
  BY Facts DEF Begin, Placed, EmptyHanded
<1>2. MovesTo(r, first, NoTx)
  BY <1>1 DEF Begin, MovesTo, LocalInvariant, TypeOK
<1>3. QED
  BY <1>1, <1>2 DEF Begin, Moves, Banks, Ended

\* SELECT ... FOR UPDATE of an account.
LEMMA LockAccountBanks ==
  ASSUME LocalInvariant, NEW r \in Requests, NEW next, NEW a \in Nat,
         NEW missing \in Replies, LockAccount(r, next, a, missing),
         pc[r] \notin Ended, next \notin Ended,
         a \notin DOMAIN account => Justified(r, missing),
         ASSUME NEW u, a \in DOMAIN account, u.held = tx[r].held \cup {AccountKey(a)},
                u.account = Overlay(tx[r].account, a, account[a]),
                u.proctran = tx[r].proctran
         PROVE  Knows(r, cmd[r], next, u)
  PROVE  Banks(r)
<1>1. CASE a \notin DOMAIN account
  BY <1>1, RefusalIsTrue DEF LockAccount, Banks
<1>2. CASE a \in DOMAIN account
  <2> DEFINE u == [tx[r] EXCEPT !.held = @ \cup {AccountKey(a)},
                                !.account = Overlay(@, a, account[a])]
  <2>1. Statement(r, next, u)
    BY <1>2 DEF LockAccount
  <2>2. /\ u.held = tx[r].held \cup {AccountKey(a)}
        /\ u.account = Overlay(tx[r].account, a, account[a])
        /\ u.proctran = tx[r].proctran
    BY Facts DEF IsTransaction, NoTx
  <2>3. Knows(r, cmd[r], next, u)
    BY <1>2, <2>2
  <2>4. QED
    BY <2>1, <2>3, StatementMoves DEF Banks
<1>3. QED
  BY <1>1, <1>2

\* UPDATE account.
LEMMA WriteAccountBanks ==
  ASSUME LocalInvariant, NEW r \in Requests, NEW next, NEW a, NEW row,
         Statement(r, next, [tx[r] EXCEPT !.account = Overlay(@, a, row)]),
         pc[r] \notin Ended, next \notin Ended,
         ASSUME NEW u, u.account = Overlay(tx[r].account, a, row),
                u.proctran = tx[r].proctran
         PROVE  Knows(r, cmd[r], next, u)
  PROVE  Moves(r)
<1> DEFINE u == [tx[r] EXCEPT !.account = Overlay(@, a, row)]
<1>1. u.account = Overlay(tx[r].account, a, row) /\ u.proctran = tx[r].proctran
  BY Facts DEF IsTransaction, NoTx
<1>2. Knows(r, cmd[r], next, u)
  BY <1>1
<1>3. QED
  BY <1>2, StatementMoves

\* The only audit row of a program.
LEMMA AuditBanks ==
  ASSUME LocalInvariant, NEW r \in Requests, NEW type, NEW amount,
         InsertProctran(r, "commit", type, amount), pc[r] \notin Ended,
         tx[r].proctran = <<>>,
         ASSUME NEW u, u.held = tx[r].held, u.account = tx[r].account,
                u.customer = tx[r].customer, u.control = tx[r].control,
                u.list = tx[r].list, u.queue = tx[r].queue,
                u.proctran = <<Audit(r, type, amount)>>
         PROVE  Knows(r, cmd[r], "commit", u)
  PROVE  Moves(r)
<1> DEFINE u == [tx[r] EXCEPT !.proctran = Append(@, Audit(r, type, amount))]
<1>1. Statement(r, "commit", u)
  BY DEF InsertProctran
<1>2. /\ u.held = tx[r].held /\ u.account = tx[r].account
      /\ u.customer = tx[r].customer /\ u.control = tx[r].control
      /\ u.list = tx[r].list /\ u.queue = tx[r].queue
      /\ u.proctran = Append(tx[r].proctran, Audit(r, type, amount))
  BY Facts DEF IsTransaction, NoTx
<1>3. u.proctran = <<Audit(r, type, amount)>>
  BY <1>2
<1>4. Knows(r, cmd[r], "commit", u)
  BY <1>2, <1>3
<1>5. QED
  BY <1>1, <1>4, StatementMoves DEF Ended

-----------------------------------------------------------------------------
(* One lemma per program: its statements bring it from what it knows to    *)
(* what it should know next, or to a reply the tables justify.             *)

\* The program of a label, what the request knows there, and that it is open.
LEMMA AtLabel ==
  ASSUME LocalInvariant, EachKnows, NEW r \in Requests
  PROVE  /\ \A prog \in DOMAIN LabelsOf : pc[r] \in LabelsOf[prog] => cmd[r].prog = prog
         /\ cmd[r] \in Commands
         /\ IsTransaction(tx[r])
         /\ Placed(cmd[r], pc[r], attempts[r], tx[r])
         /\ Knows(r, cmd[r], pc[r], tx[r])
<1>1. /\ cmd[r] \in Commands /\ pc[r] \in LabelsOf[cmd[r].prog] \cup SharedLabels
      /\ IsTransaction(tx[r]) /\ Placed(cmd[r], pc[r], attempts[r], tx[r])
  BY Facts
<1>2. \A prog \in DOMAIN LabelsOf : pc[r] \in LabelsOf[prog] => cmd[r].prog = prog
  BY <1>1, ProgramOfLabel DEF LabelsOf
<1>3. QED
  BY <1>1, <1>2 DEF EachKnows

\* When the bank refuses a transfer.
LEMMA TransferJustified ==
  ASSUME NEW r, cmd[r] \in XfrfunCommands, IsAccountTable(account)
  PROVE  /\ XfrfunRejection(cmd[r]) # None => Justified(r, XfrfunRejection(cmd[r]))
         /\ cmd[r].from \notin DOMAIN account => Justified(r, Fail("1"))
         /\ cmd[r].to \notin DOMAIN account => Justified(r, Fail("2"))
         /\ cmd[r].from \in DOMAIN account =>
              (Insufficient(Moved(account[cmd[r].from], -cmd[r].amount))
                 => Justified(r, Fail("3")))
         /\ cmd[r].to \in DOMAIN account =>
              (~Representable(Moved(account[cmd[r].to], cmd[r].amount))
                 => Justified(r, Abend("TO  ")))
<1> DEFINE c == cmd[r]
<1>1. c.prog = "XFRFUN" /\ c.from \in Nat /\ c.to \in Nat /\ c.amount \in Int
  BY DEF XfrfunCommands
<1>2. \A rep : AtomicBank!TransferRefused(c, rep) => Justified(r, rep)
  BY <1>1 DEF Justified, AtomicBank!Refused
<1>3. XfrfunRejection(c) # None => AtomicBank!TransferRefused(c, XfrfunRejection(c))
  BY <1>1 DEF XfrfunRejection, AtomicBank!TransferRefused, AtomicBank!Account, Invalid,
     AtomicBank!Invalid, Fail, AtomicBank!Fail, Abend, AtomicBank!Abend, Money,
     AtomicBank!Money
<1>4. /\ c.from \notin DOMAIN account => AtomicBank!TransferRefused(c, Fail("1"))
      /\ c.to \notin DOMAIN account => AtomicBank!TransferRefused(c, Fail("2"))
  BY DEF AtomicBank!TransferRefused, AtomicBank!Existing, Fail, AtomicBank!Fail
<1>5. ASSUME c.from \in DOMAIN account, Insufficient(Moved(account[c.from], -c.amount))
      PROVE  AtomicBank!TransferRefused(c, Fail("3"))
  <2> DEFINE row == account[c.from]
  <2>1. row \in AccountRow
    BY <1>5 DEF IsAccountTable
  <2>2. /\ Moved(row, -c.amount).available = row.available - c.amount
        /\ Moved(row, -c.amount).actual = row.actual - c.amount
        /\ Moved(row, -c.amount).overdraft = row.overdraft
        /\ row.available \in Int /\ row.actual \in Int /\ row.overdraft \in Int
    BY <1>1, <2>1 DEF Moved, AccountRow, Money, Overdrafts
  <2>3. row.available < c.amount \/ row.actual + row.overdraft < c.amount
    BY <1>1, <1>5, <2>2 DEF Insufficient
  <2>4. QED
    BY <1>5, <2>3 DEF AtomicBank!TransferRefused, AtomicBank!Existing, Fail, AtomicBank!Fail
<1>6. /\ c.to \in DOMAIN account /\ ~Representable(Moved(account[c.to], c.amount))
        => AtomicBank!TransferRefused(c, Abend("TO  "))
  BY DEF AtomicBank!TransferRefused, AtomicBank!Existing, Abend, AtomicBank!Abend,
     Representable, AtomicBank!Representable, Moved, AtomicBank!Moved, Money, AtomicBank!Money
<1>7. XfrfunRejection(c) # None => Justified(r, XfrfunRejection(c))
  BY <1>2, <1>3
<1>8. QED
  BY <1>2, <1>4, <1>5, <1>6, <1>7

\* A debit that is sufficient leaves balances that fit their columns.
LEMMA SufficientFits ==
  ASSUME NEW row \in AccountRow, NEW amount \in Money, amount > 0,
         ~Insufficient(Moved(row, -amount))
  PROVE  Representable(Moved(row, -amount))
<1>1. /\ Moved(row, -amount).available = row.available - amount
      /\ Moved(row, -amount).actual = row.actual - amount
      /\ Moved(row, -amount).overdraft = row.overdraft
      /\ row.available \in Money /\ row.actual \in Money /\ row.overdraft \in Overdrafts
  BY DEF Moved, AccountRow, Money
<1>2. QED
  BY <1>1, BoundsAssumption DEF Insufficient, Representable, Money, Overdrafts

\* XFRFUN: whichever account is locked first, both are as the tables have them
\* when the balances are computed.
LEMMA XfrfunBanks ==
  ASSUME LocalInvariant, EachKnows, NEW r \in Requests, XfrfunStep(r)
  PROVE  Banks(r)
<1> DEFINE c == cmd[r]
           t == tx[r]
<1>1. /\ c \in Commands /\ IsTransaction(t)
      /\ Placed(c, pc[r], attempts[r], t) /\ Knows(r, c, pc[r], t)
      /\ IsAccountTable(account)
      /\ pc[r] \in LabelsOf["XFRFUN"] => c.prog = "XFRFUN"
  BY AtLabel, Facts DEF LabelsOf
<1>a. c.prog = "XFRFUN" =>
        c \in XfrfunCommands /\ c.from \in Nat /\ c.to \in Nat /\ c.amount \in Int
  BY <1>1, CommandFields DEF XfrfunCommands
<1>2. c.prog = "XFRFUN" =>
        /\ c \in XfrfunCommands /\ c.from \in Nat /\ c.to \in Nat /\ c.amount \in Int
        /\ \A p, u : XfrfunKnows(c, p, u)
                     /\ u.proctran = (IF p = "commit" THEN <<Audit(r, "TFR", c.amount)>> ELSE <<>>)
                     => Knows(r, c, p, u)
  BY <1>1, CommandFields DEF XfrfunCommands, Knows, AuditedLast, MainType, MainAmount
<1>3. pc[r] \in LabelsOf["XFRFUN"] =>
        /\ c.prog = "XFRFUN" /\ XfrfunKnows(c, pc[r], t) /\ t.proctran = <<>>
        /\ pc[r] \notin Ended /\ XfrfunHolds(c, pc[r], t)
        /\ c.from # c.to /\ c.amount \in Money /\ c.amount > 0
  <2>1. pc[r] \in LabelsOf["XFRFUN"] =>
          pc[r] \notin {"idle", "done", "lost", "commit"}
    BY Labels
  <2>2. c.prog = "XFRFUN" /\ Accepted(c) => XfrfunRejection(c) = None
    BY DEF Accepted
  <2>3. c.prog = "XFRFUN" /\ Accepted(c) => c.from # c.to /\ c.amount \in Money /\ c.amount > 0
    <3>1. Invalid # None /\ Fail("4") # None /\ Abend("SAME") # None
      BY DEF None, Fail, Abend, Invalid
    <3>2. QED
      BY <1>a, <2>2, <3>1 DEF XfrfunRejection
  <2>4. QED
    BY <1>1, <2>1, <2>3 DEF Knows, AuditedLast, Placed, Ended
<1>4. CASE XfrfunReceive(r)
  <2>1. XfrfunRejection(c) \in Replies
    BY DEF XfrfunRejection, Replies, Fail, Abend, FailCodes, AbendCodes
  <2>2. c.prog = "XFRFUN" /\ Receive(r, XfrfunRejection(c), "begin")
    BY <1>4 DEF XfrfunReceive
  <2>3. XfrfunRejection(c) # None => Justified(r, XfrfunRejection(c))
    BY <1>1, <1>2, <2>2, TransferJustified
  <2>4. QED
    BY <2>1, <2>2, <2>3, ReceiveBanks
<1>5. CASE XfrfunBegin(r)
  <2>1. c.prog = "XFRFUN" /\ Begin(r, FirstRole(c))
        /\ FirstRole(c) \in {"xfr_from", "xfr_to"}
    BY <1>5 DEF XfrfunBegin, FirstRole
  <2>2. XfrfunKnows(c, FirstRole(c), NoTx) /\ NoTx.proctran = <<>>
    BY DEF XfrfunKnows, FirstRole, NoTx
  <2>3. QED
    BY <1>2, <2>1, <2>2, BeginBanks DEF Ended
<1>6. CASE XfrfunLockFrom(r)
  <2>1. pc[r] = "xfr_from" /\ LockAccount(r, AfterLock(c, "xfr_from"), c.from, Fail("1"))
        /\ pc[r] \in LabelsOf["XFRFUN"] /\ Fail("1") \in Replies
    BY <1>6, Labels DEF XfrfunLockFrom, Replies, FailCodes
  <2>2. c.from \notin DOMAIN account => Justified(r, Fail("1"))
    BY <1>1, <1>2, <1>3, <2>1, TransferJustified
  <2>3. AfterLock(c, "xfr_from") = IF c.from < c.to THEN "xfr_to" ELSE "xfr_debit"
    BY DEF AfterLock, FirstRole
  <2>4. ASSUME NEW u, c.from \in DOMAIN account,
               u.account = Overlay(t.account, c.from, account[c.from]),
               u.proctran = t.proctran
        PROVE  Knows(r, c, AfterLock(c, "xfr_from"), u)
    <3>1. HasAccount(u, c.from)
      BY <2>4 DEF HasAccount, Overlay
    <3>2. ~(c.from < c.to) => HasAccount(u, c.to)
      BY <1>3, <2>1, <2>4 DEF HasAccount, Overlay, XfrfunKnows, XfrfunHolds, HoldsAccounts
    <3>3. XfrfunKnows(c, AfterLock(c, "xfr_from"), u)
      BY <2>3, <3>1, <3>2 DEF XfrfunKnows
    <3>4. QED
      BY <1>2, <1>3, <2>1, <2>3, <2>4, <3>3
  <2>5. QED
    BY <1>2, <1>3, <2>1, <2>2, <2>3, <2>4, LockAccountBanks DEF Ended
<1>7. CASE XfrfunLockTo(r)
  <2>1. pc[r] = "xfr_to" /\ LockAccount(r, AfterLock(c, "xfr_to"), c.to, Fail("2"))
        /\ pc[r] \in LabelsOf["XFRFUN"] /\ Fail("2") \in Replies
    BY <1>7, Labels DEF XfrfunLockTo, Replies, FailCodes
  <2>2. c.to \notin DOMAIN account => Justified(r, Fail("2"))
    BY <1>1, <1>2, <1>3, <2>1, TransferJustified
  <2>3. AfterLock(c, "xfr_to") = IF c.from < c.to THEN "xfr_debit" ELSE "xfr_from"
    BY DEF AfterLock, FirstRole
  <2>4. ASSUME NEW u, c.to \in DOMAIN account,
               u.account = Overlay(t.account, c.to, account[c.to]),
               u.proctran = t.proctran
        PROVE  Knows(r, c, AfterLock(c, "xfr_to"), u)
    <3>1. HasAccount(u, c.to)
      BY <2>4 DEF HasAccount, Overlay
    <3>2. c.from < c.to => HasAccount(u, c.from)
      BY <1>3, <2>1, <2>4 DEF HasAccount, Overlay, XfrfunKnows, XfrfunHolds, HoldsAccounts
    <3>3. XfrfunKnows(c, AfterLock(c, "xfr_to"), u)
      BY <2>3, <3>1, <3>2 DEF XfrfunKnows
    <3>4. QED
      BY <1>2, <1>3, <2>1, <2>3, <2>4, <3>3
  <2>5. QED
    BY <1>2, <1>3, <2>1, <2>2, <2>3, <2>4, LockAccountBanks DEF Ended
<1>8. CASE XfrfunDebit(r)
  <2> DEFINE debited == Moved(t.account[c.from], -c.amount)
  <2>1. pc[r] = "xfr_debit" /\ pc[r] \in LabelsOf["XFRFUN"]
    BY <1>8, Labels DEF XfrfunDebit
  <2>2. HasAccount(t, c.from) /\ HasAccount(t, c.to) /\ HoldsAccounts(t, {c.from, c.to})
    BY <1>3, <2>1 DEF XfrfunKnows, XfrfunHolds
  <2>3. CASE Insufficient(debited)
    <3>1. Refuse(r, Fail("3")) /\ Fail("3") \in Replies
      BY <1>8, <2>3 DEF XfrfunDebit, Replies, FailCodes
    <3>2. Justified(r, Fail("3"))
      BY <1>1, <1>2, <1>3, <2>1, <2>2, <2>3, TransferJustified DEF HasAccount
    <3>3. QED
      BY <1>3, <2>1, <3>1, <3>2, RefusalIsTrue DEF Banks
  <2>4. CASE ~Insufficient(debited)
    <3>1. account[c.from] \in AccountRow /\ t.account[c.from] = account[c.from]
      BY <1>1, <2>2 DEF HasAccount, IsAccountTable
    <3>2. Representable(debited)
      BY <1>3, <2>1, <2>4, <3>1, SufficientFits
    <3>3. Statement(r, "xfr_credit", [tx[r] EXCEPT !.account = Overlay(@, c.from, debited)])
      BY <1>8, <2>4, <3>2 DEF XfrfunDebit
    <3>4. ASSUME NEW u, u.account = Overlay(t.account, c.from, debited),
                 u.proctran = t.proctran
          PROVE  Knows(r, c, "xfr_credit", u)
      <4>1. u.account[c.from] = debited /\ u.account[c.to] = t.account[c.to]
        BY <1>3, <2>1, <2>2, <3>4 DEF Overlay, HoldsAccounts
      <4>2. XfrfunKnows(c, "xfr_credit", u)
        BY <2>2, <2>4, <3>1, <4>1 DEF XfrfunKnows, HasAccount
      <4>3. QED
        BY <1>2, <1>3, <2>1, <3>4, <4>2
    <3>5. pc[r] \notin Ended /\ "xfr_credit" \notin Ended
      BY <1>3, <2>1 DEF Ended
    <3>6. QED
      BY <3>3, <3>4, <3>5, WriteAccountBanks DEF Banks
  <2>5. QED
    BY <2>3, <2>4
<1>9. CASE XfrfunCredit(r)
  <2> DEFINE credited == Moved(t.account[c.to], c.amount)
  <2>1. pc[r] = "xfr_credit" /\ pc[r] \in LabelsOf["XFRFUN"]
    BY <1>9, Labels DEF XfrfunCredit
  <2>2. HasAccount(t, c.to) /\ HoldsAccounts(t, {c.from, c.to})
    BY <1>3, <2>1 DEF XfrfunKnows, XfrfunHolds
  <2>3. CASE ~Representable(credited)
    <3>1. Refuse(r, Abend("TO  ")) /\ Abend("TO  ") \in Replies
      BY <1>9, <2>3 DEF XfrfunCredit, Replies, AbendCodes
    <3>2. Justified(r, Abend("TO  "))
      BY <1>1, <1>2, <1>3, <2>1, <2>2, <2>3, TransferJustified DEF HasAccount
    <3>3. QED
      BY <1>3, <2>1, <3>1, <3>2, RefusalIsTrue DEF Banks
  <2>4. CASE Representable(credited)
    <3>1. Statement(r, "xfr_proctran", [tx[r] EXCEPT !.account = Overlay(@, c.to, credited)])
      BY <1>9, <2>4 DEF XfrfunCredit
    <3>2. ASSUME NEW u, u.account = Overlay(t.account, c.to, credited),
                 u.proctran = t.proctran
          PROVE  Knows(r, c, "xfr_proctran", u)
      <4>1. u.account[c.to] = credited /\ u.account[c.from] = t.account[c.from]
        BY <1>3, <2>1, <2>2, <3>2 DEF Overlay, HoldsAccounts
      <4>2. XfrfunKnows(c, "xfr_proctran", u)
        BY <1>3, <2>1, <2>2, <2>4, <4>1 DEF XfrfunKnows, HasAccount
      <4>3. QED
        BY <1>2, <1>3, <2>1, <3>2, <4>2
    <3>3. pc[r] \notin Ended /\ "xfr_proctran" \notin Ended
      BY <1>3, <2>1 DEF Ended
    <3>4. QED
      BY <3>1, <3>2, <3>3, WriteAccountBanks DEF Banks
  <2>5. QED
    BY <2>3, <2>4
<1>10. CASE XfrfunProctran(r)
  <2>1. pc[r] = "xfr_proctran" /\ pc[r] \in LabelsOf["XFRFUN"]
        /\ InsertProctran(r, "commit", "TFR", c.amount)
    BY <1>10, Labels DEF XfrfunProctran
  <2>2. ASSUME NEW u, u.account = t.account, u.proctran = <<Audit(r, "TFR", c.amount)>>
        PROVE  Knows(r, c, "commit", u)
    <3>1. XfrfunKnows(c, "commit", u)
      BY <1>3, <2>1, <2>2 DEF XfrfunKnows
    <3>2. QED
      BY <1>2, <1>3, <2>1, <2>2, <3>1
  <2>3. QED
    BY <1>3, <2>1, <2>2, AuditBanks DEF Banks
<1>11. QED
  BY <1>4, <1>5, <1>6, <1>7, <1>8, <1>9, <1>10 DEF XfrfunStep

\* When the bank refuses a posting.
LEMMA PostJustified ==
  ASSUME NEW r, cmd[r] \in DbcrfunCommands, IsAccountTable(account)
  PROVE  /\ DbcrfunRejection(cmd[r]) # None => Justified(r, DbcrfunRejection(cmd[r]))
         /\ cmd[r].account \notin DOMAIN account => Justified(r, Fail("1"))
         /\ cmd[r].account \in DOMAIN account =>
              /\ cmd[r].payment /\ account[cmd[r].account].type \in RestrictedTypes
                   => Justified(r, Fail("4"))
              /\ Unfunded(cmd[r], Moved(account[cmd[r].account], cmd[r].amount))
                   => Justified(r, Fail("3"))
              /\ ~Representable(Moved(account[cmd[r].account], cmd[r].amount))
                   => Justified(r, Abend("HUAC"))
<1> DEFINE c == cmd[r]
           row == account[c.account]
<1>1. c.prog = "DBCRFUN" /\ c.account \in Nat /\ c.amount \in Int
  BY DEF DbcrfunCommands
<1>2. \A rep : AtomicBank!PostRefused(c, rep) => Justified(r, rep)
  BY <1>1 DEF Justified, AtomicBank!Refused
<1>3. DbcrfunRejection(c) # None => AtomicBank!PostRefused(c, DbcrfunRejection(c))
  BY <1>1 DEF DbcrfunRejection, AtomicBank!PostRefused, AtomicBank!Account, Invalid,
     AtomicBank!Invalid, Money, AtomicBank!Money
<1>4. c.account \notin DOMAIN account => AtomicBank!PostRefused(c, Fail("1"))
  BY DEF AtomicBank!PostRefused, AtomicBank!Existing, Fail, AtomicBank!Fail
<1>5. c.account \in DOMAIN account =>
        (c.payment /\ row.type \in RestrictedTypes => AtomicBank!PostRefused(c, Fail("4")))
  BY DEF AtomicBank!PostRefused, AtomicBank!Existing, Fail, AtomicBank!Fail, RestrictedTypes
<1>6. ASSUME c.account \in DOMAIN account, Unfunded(c, Moved(row, c.amount))
      PROVE  AtomicBank!PostRefused(c, Fail("3"))
  <2>1. row \in AccountRow
    BY <1>6 DEF IsAccountTable
  <2>2. Moved(row, c.amount).available = row.available + c.amount
    BY <1>1, <2>1 DEF Moved, AccountRow
  <2>3. QED
    BY <1>6, <2>2 DEF Unfunded, AtomicBank!PostRefused, AtomicBank!Existing, Fail,
       AtomicBank!Fail
<1>7. c.account \in DOMAIN account =>
        (~Representable(Moved(row, c.amount)) => AtomicBank!PostRefused(c, Abend("HUAC")))
  BY DEF AtomicBank!PostRefused, AtomicBank!Existing, Abend, AtomicBank!Abend,
     Representable, AtomicBank!Representable, Moved, AtomicBank!Moved, Money, AtomicBank!Money
<1>8. DbcrfunRejection(c) # None => Justified(r, DbcrfunRejection(c))
  BY <1>2, <1>3
<1>9. QED
  BY <1>2, <1>4, <1>5, <1>6, <1>7, <1>8

\* DBCRFUN: what is checked and posted is the row as it is in the table.
LEMMA DbcrfunBanks ==
  ASSUME LocalInvariant, EachKnows, NEW r \in Requests, DbcrfunStep(r)
  PROVE  Banks(r)
<1> DEFINE c == cmd[r]
           t == tx[r]
<1>1. /\ c \in Commands /\ IsTransaction(t)
      /\ Placed(c, pc[r], attempts[r], t) /\ Knows(r, c, pc[r], t)
      /\ IsAccountTable(account)
      /\ pc[r] \in LabelsOf["DBCRFUN"] => c.prog = "DBCRFUN"
  BY AtLabel, Facts DEF LabelsOf
<1>2. c.prog = "DBCRFUN" => c \in DbcrfunCommands /\ c.account \in Nat
  BY <1>1, CommandFields DEF DbcrfunCommands
<1>3. ASSUME c.prog = "DBCRFUN", NEW p, NEW u, DbcrfunKnows(c, p, u),
             u.proctran = IF p = "commit"
                            THEN <<Audit(r, DbcrfunTranType(c), c.amount)>> ELSE <<>>
      PROVE  Knows(r, c, p, u)
  BY <1>3 DEF Knows, AuditedLast, MainType, MainAmount
<1>4. pc[r] \in LabelsOf["DBCRFUN"] =>
        /\ c.prog = "DBCRFUN" /\ DbcrfunKnows(c, pc[r], t) /\ t.proctran = <<>>
        /\ pc[r] \notin Ended
  <2>1. pc[r] \in LabelsOf["DBCRFUN"] => pc[r] \notin {"done", "lost", "commit"}
    BY Labels
  <2>2. QED
    BY <1>1, <2>1 DEF Knows, AuditedLast, Ended
<1>5. CASE DbcrfunReceive(r)
  <2>1. DbcrfunRejection(c) \in Replies
    BY DEF DbcrfunRejection, Replies
  <2>2. c.prog = "DBCRFUN" /\ Receive(r, DbcrfunRejection(c), "begin")
    BY <1>5 DEF DbcrfunReceive
  <2>3. DbcrfunRejection(c) # None => Justified(r, DbcrfunRejection(c))
    BY <1>1, <1>2, <2>2, PostJustified
  <2>4. QED
    BY <2>1, <2>2, <2>3, ReceiveBanks
<1>6. CASE DbcrfunBegin(r)
  <2>1. c.prog = "DBCRFUN" /\ Begin(r, "dbcr_lock")
    BY <1>6 DEF DbcrfunBegin
  <2>2. Knows(r, c, "dbcr_lock", NoTx)
    BY <2>1, NothingIsKnown DEF EmptyHanded
  <2>3. QED
    BY <2>1, <2>2, BeginBanks DEF Ended
<1>7. CASE DbcrfunLock(r)
  <2>1. pc[r] = "dbcr_lock" /\ LockAccount(r, "dbcr_update", c.account, Fail("1"))
        /\ pc[r] \in LabelsOf["DBCRFUN"] /\ Fail("1") \in Replies
    BY <1>7, Labels DEF DbcrfunLock, Replies, FailCodes
  <2>2. c.account \notin DOMAIN account => Justified(r, Fail("1"))
    BY <1>1, <1>2, <1>4, <2>1, PostJustified
  <2>3. ASSUME NEW u, c.account \in DOMAIN account,
               u.account = Overlay(t.account, c.account, account[c.account]),
               u.proctran = t.proctran
        PROVE  Knows(r, c, "dbcr_update", u)
    <3>1. DbcrfunKnows(c, "dbcr_update", u)
      BY <2>3 DEF DbcrfunKnows, HasAccount, Overlay
    <3>2. QED
      BY <1>3, <1>4, <2>1, <2>3, <3>1
  <2>4. pc[r] \notin Ended /\ "dbcr_update" \notin Ended /\ c.account \in Nat
    BY <1>2, <1>4, <2>1 DEF Ended
  <2>5. QED
    BY <2>1, <2>2, <2>3, <2>4, LockAccountBanks
<1>8. CASE DbcrfunUpdate(r)
  <2> DEFINE row == t.account[c.account]
             posted == Moved(row, c.amount)
  <2>1. pc[r] = "dbcr_update" /\ pc[r] \in LabelsOf["DBCRFUN"]
    BY <1>8, Labels DEF DbcrfunUpdate
  <2>2. c.account \in DOMAIN account /\ row = account[c.account]
    BY <1>4, <2>1 DEF DbcrfunKnows, HasAccount
  <2>3. /\ c.payment /\ row.type \in RestrictedTypes => Justified(r, Fail("4"))
        /\ Unfunded(c, posted) => Justified(r, Fail("3"))
        /\ ~Representable(posted) => Justified(r, Abend("HUAC"))
    BY <1>1, <1>2, <1>4, <2>1, <2>2, PostJustified
  <2>4. CASE (c.payment /\ row.type \in RestrictedTypes) \/ Unfunded(c, posted)
             \/ ~Representable(posted)
    <3>1. \E rep \in Replies : Refuse(r, rep) /\ Justified(r, rep)
      BY <1>8, <2>3, <2>4 DEF DbcrfunUpdate, Replies, FailCodes, AbendCodes
    <3>2. QED
      BY <1>4, <2>1, <3>1, RefusalIsTrue DEF Banks
  <2>5. CASE ~(c.payment /\ row.type \in RestrictedTypes) /\ ~Unfunded(c, posted)
             /\ Representable(posted)
    <3>1. Statement(r, "dbcr_proctran",
            [tx[r] EXCEPT !.account = Overlay(@, c.account, posted)])
      BY <1>8, <2>5 DEF DbcrfunUpdate
    <3>2. ASSUME NEW u, u.account = Overlay(t.account, c.account, posted),
                 u.proctran = t.proctran
          PROVE  Knows(r, c, "dbcr_proctran", u)
      <4>1. u.account[c.account] = posted
        BY <3>2 DEF Overlay
      <4>2. DbcrfunKnows(c, "dbcr_proctran", u)
        BY <2>2, <2>5, <4>1 DEF DbcrfunKnows
      <4>3. QED
        BY <1>3, <1>4, <2>1, <3>2, <4>2
    <3>3. pc[r] \notin Ended /\ "dbcr_proctran" \notin Ended
      BY <1>4, <2>1 DEF Ended
    <3>4. QED
      BY <3>1, <3>2, <3>3, WriteAccountBanks DEF Banks
  <2>6. QED
    BY <2>4, <2>5
<1>9. CASE DbcrfunProctran(r)
  <2>1. pc[r] = "dbcr_proctran" /\ pc[r] \in LabelsOf["DBCRFUN"]
        /\ InsertProctran(r, "commit", DbcrfunTranType(c), c.amount)
    BY <1>9, Labels DEF DbcrfunProctran
  <2>2. ASSUME NEW u, u.account = t.account,
               u.proctran = <<Audit(r, DbcrfunTranType(c), c.amount)>>
        PROVE  Knows(r, c, "commit", u)
    <3>1. DbcrfunKnows(c, "commit", u)
      BY <1>4, <2>1, <2>2 DEF DbcrfunKnows
    <3>2. QED
      BY <1>3, <1>4, <2>1, <2>2, <3>1
  <2>3. QED
    BY <1>4, <2>1, <2>2, AuditBanks DEF Banks
<1>10. QED
  BY <1>5, <1>6, <1>7, <1>8, <1>9 DEF DbcrfunStep

\* When the bank refuses to update or to close an account.
LEMMA AccountJustified ==
  ASSUME NEW r, cmd[r] \in UpdaccCommands \cup DelaccCommands
  PROVE  /\ cmd[r].prog = "UPDACC" /\ UpdaccRejection(cmd[r]) # None
              => Justified(r, UpdaccRejection(cmd[r]))
         /\ cmd[r].prog = "DELACC" /\ DelaccRejection(cmd[r]) # None
              => Justified(r, DelaccRejection(cmd[r]))
         /\ cmd[r].account \notin DOMAIN account => Justified(r, Fail("1"))
<1> DEFINE c == cmd[r]
<1>1. /\ c.prog \in {"UPDACC", "DELACC"}
      /\ c.account \in Nat
  BY DEF UpdaccCommands, DelaccCommands
<1>2. /\ c.prog = "UPDACC" =>
           \A rep : AtomicBank!UpdateAccountRefused(c, rep) => Justified(r, rep)
      /\ c.prog = "DELACC" =>
           \A rep : AtomicBank!CloseAccountRefused(c, rep) => Justified(r, rep)
  BY DEF Justified, AtomicBank!Refused
<1>3. UpdaccRejection(c) # None => AtomicBank!UpdateAccountRefused(c, UpdaccRejection(c))
  BY <1>1 DEF UpdaccRejection, AtomicBank!UpdateAccountRefused, AtomicBank!Account, Invalid,
     AtomicBank!Invalid, Fail, AtomicBank!Fail
<1>4. DelaccRejection(c) # None => AtomicBank!CloseAccountRefused(c, DelaccRejection(c))
  BY <1>1 DEF DelaccRejection, AtomicBank!CloseAccountRefused, AtomicBank!Account, Invalid,
     AtomicBank!Invalid
<1>5. c.account \notin DOMAIN account =>
        /\ AtomicBank!UpdateAccountRefused(c, Fail("1"))
        /\ AtomicBank!CloseAccountRefused(c, Fail("1"))
  BY DEF AtomicBank!UpdateAccountRefused, AtomicBank!CloseAccountRefused,
     AtomicBank!Existing, Fail, AtomicBank!Fail
<1>6. QED
  BY <1>1, <1>2, <1>3, <1>4, <1>5

\* UPDACC: type and overdraft change, the balances stay as the table has them.
LEMMA UpdaccBanks ==
  ASSUME LocalInvariant, EachKnows, NEW r \in Requests, UpdaccStep(r)
  PROVE  Banks(r)
<1> DEFINE c == cmd[r]
           t == tx[r]
<1>1. /\ c \in Commands /\ IsTransaction(t) /\ Knows(r, c, pc[r], t)
      /\ pc[r] \in LabelsOf["UPDACC"] => c.prog = "UPDACC"
  BY AtLabel, Facts DEF LabelsOf
<1>2. c.prog = "UPDACC" => c \in UpdaccCommands /\ c.account \in Nat
  BY <1>1, CommandFields DEF UpdaccCommands
<1>3. ASSUME c.prog = "UPDACC", NEW p, NEW u, UpdaccKnows(c, p, u),
             u.proctran = IF p = "commit" THEN <<Audit(r, "OUA", 0)>> ELSE <<>>
      PROVE  Knows(r, c, p, u)
  BY <1>3 DEF Knows, AuditedLast, MainType, MainAmount
<1>4. pc[r] \in LabelsOf["UPDACC"] =>
        /\ c.prog = "UPDACC" /\ UpdaccKnows(c, pc[r], t) /\ t.proctran = <<>>
        /\ pc[r] \notin Ended
  <2>1. pc[r] \in LabelsOf["UPDACC"] => pc[r] \notin {"done", "lost", "commit"}
    BY Labels
  <2>2. QED
    BY <1>1, <2>1 DEF Knows, AuditedLast, Ended
<1>5. CASE UpdaccReceive(r)
  <2>1. UpdaccRejection(c) \in Replies
    BY DEF UpdaccRejection, Replies, FailCodes
  <2>2. c.prog = "UPDACC" /\ Receive(r, UpdaccRejection(c), "begin")
    BY <1>5 DEF UpdaccReceive
  <2>3. UpdaccRejection(c) # None => Justified(r, UpdaccRejection(c))
    BY <1>2, <2>2, AccountJustified
  <2>4. QED
    BY <2>1, <2>2, <2>3, ReceiveBanks
<1>6. CASE UpdaccBegin(r)
  <2>1. c.prog = "UPDACC" /\ Begin(r, "updacc_lock")
    BY <1>6 DEF UpdaccBegin
  <2>2. Knows(r, c, "updacc_lock", NoTx)
    BY <2>1, NothingIsKnown DEF EmptyHanded
  <2>3. QED
    BY <2>1, <2>2, BeginBanks DEF Ended
<1>7. CASE UpdaccLock(r)
  <2>1. pc[r] = "updacc_lock" /\ LockAccount(r, "updacc_update", c.account, Fail("1"))
        /\ pc[r] \in LabelsOf["UPDACC"] /\ Fail("1") \in Replies
    BY <1>7, Labels DEF UpdaccLock, Replies, FailCodes
  <2>2. c.account \notin DOMAIN account => Justified(r, Fail("1"))
    BY <1>2, <1>4, <2>1, AccountJustified
  <2>3. ASSUME NEW u, c.account \in DOMAIN account,
               u.account = Overlay(t.account, c.account, account[c.account]),
               u.proctran = t.proctran
        PROVE  Knows(r, c, "updacc_update", u)
    <3>1. UpdaccKnows(c, "updacc_update", u)
      BY <2>3 DEF UpdaccKnows, HasAccount, Overlay
    <3>2. QED
      BY <1>3, <1>4, <2>1, <2>3, <3>1
  <2>4. pc[r] \notin Ended /\ "updacc_update" \notin Ended /\ c.account \in Nat
    BY <1>2, <1>4, <2>1 DEF Ended
  <2>5. QED
    BY <2>1, <2>2, <2>3, <2>4, LockAccountBanks
<1>8. CASE UpdaccUpdate(r)
  <2> DEFINE updated == [t.account[c.account] EXCEPT !.type = c.type,
                                                     !.overdraft = c.overdraft]
  <2>1. pc[r] = "updacc_update" /\ pc[r] \in LabelsOf["UPDACC"]
        /\ Statement(r, "updacc_proctran",
             [tx[r] EXCEPT !.account = Overlay(@, c.account, updated)])
    BY <1>8, Labels DEF UpdaccUpdate
  <2>2. c.account \in DOMAIN account /\ t.account[c.account] = account[c.account]
    BY <1>4, <2>1 DEF UpdaccKnows, HasAccount
  <2>3. ASSUME NEW u, u.account = Overlay(t.account, c.account, updated),
               u.proctran = t.proctran
        PROVE  Knows(r, c, "updacc_proctran", u)
    <3>1. u.account[c.account] = updated
      BY <2>3 DEF Overlay
    <3>2. UpdaccKnows(c, "updacc_proctran", u)
      BY <2>2, <3>1 DEF UpdaccKnows
    <3>3. QED
      BY <1>3, <1>4, <2>1, <2>3, <3>2
  <2>4. pc[r] \notin Ended /\ "updacc_proctran" \notin Ended
    BY <1>4, <2>1 DEF Ended
  <2>5. QED
    BY <2>1, <2>3, <2>4, WriteAccountBanks DEF Banks
<1>9. CASE UpdaccProctran(r)
  <2>1. pc[r] = "updacc_proctran" /\ pc[r] \in LabelsOf["UPDACC"]
        /\ InsertProctran(r, "commit", "OUA", 0)
    BY <1>9, Labels DEF UpdaccProctran
  <2>2. ASSUME NEW u, u.account = t.account, u.proctran = <<Audit(r, "OUA", 0)>>
        PROVE  Knows(r, c, "commit", u)
    <3>1. UpdaccKnows(c, "commit", u)
      BY <1>4, <2>1, <2>2 DEF UpdaccKnows
    <3>2. QED
      BY <1>3, <1>4, <2>1, <2>2, <3>1
  <2>3. QED
    BY <1>4, <2>1, <2>2, AuditBanks DEF Banks
<1>10. QED
  BY <1>5, <1>6, <1>7, <1>8, <1>9 DEF UpdaccStep

\* DELACC: the closing balance it audits is the balance in the table.
LEMMA DelaccBanks ==
  ASSUME LocalInvariant, EachKnows, NEW r \in Requests, DelaccStep(r)
  PROVE  Banks(r)
<1> DEFINE c == cmd[r]
           t == tx[r]
<1>1. /\ c \in Commands /\ IsTransaction(t) /\ Knows(r, c, pc[r], t)
      /\ pc[r] \in LabelsOf["DELACC"] => c.prog = "DELACC"
  BY AtLabel, Facts DEF LabelsOf
<1>2. c.prog = "DELACC" => c \in DelaccCommands /\ c.account \in Nat
  BY <1>1, CommandFields DEF DelaccCommands
<1>3. ASSUME c.prog = "DELACC", NEW p, NEW u, DelaccKnows(c, p, u),
             u.proctran = IF p = "commit"
                            THEN <<Audit(r, "ODA", account[c.account].actual)>> ELSE <<>>
      PROVE  Knows(r, c, p, u)
  BY <1>3 DEF Knows, AuditedLast, MainType, MainAmount
<1>4. pc[r] \in LabelsOf["DELACC"] =>
        /\ c.prog = "DELACC" /\ DelaccKnows(c, pc[r], t) /\ t.proctran = <<>>
        /\ pc[r] \notin Ended
  <2>1. pc[r] \in LabelsOf["DELACC"] => pc[r] \notin {"done", "lost", "commit"}
    BY Labels
  <2>2. QED
    BY <1>1, <2>1 DEF Knows, AuditedLast, Ended
<1>5. CASE DelaccReceive(r)
  <2>1. DelaccRejection(c) \in Replies
    BY DEF DelaccRejection, Replies
  <2>2. c.prog = "DELACC" /\ Receive(r, DelaccRejection(c), "begin")
    BY <1>5 DEF DelaccReceive
  <2>3. DelaccRejection(c) # None => Justified(r, DelaccRejection(c))
    BY <1>2, <2>2, AccountJustified
  <2>4. QED
    BY <2>1, <2>2, <2>3, ReceiveBanks
<1>6. CASE DelaccBegin(r)
  <2>1. c.prog = "DELACC" /\ Begin(r, "delacc_lock")
    BY <1>6 DEF DelaccBegin
  <2>2. Knows(r, c, "delacc_lock", NoTx)
    BY <2>1, NothingIsKnown DEF EmptyHanded
  <2>3. QED
    BY <2>1, <2>2, BeginBanks DEF Ended
<1>7. CASE DelaccLock(r)
  <2>1. pc[r] = "delacc_lock" /\ LockAccount(r, "delacc_delete", c.account, Fail("1"))
        /\ pc[r] \in LabelsOf["DELACC"] /\ Fail("1") \in Replies
    BY <1>7, Labels DEF DelaccLock, Replies, FailCodes
  <2>2. c.account \notin DOMAIN account => Justified(r, Fail("1"))
    BY <1>2, <1>4, <2>1, AccountJustified
  <2>3. ASSUME NEW u, c.account \in DOMAIN account,
               u.account = Overlay(t.account, c.account, account[c.account]),
               u.proctran = t.proctran
        PROVE  Knows(r, c, "delacc_delete", u)
    <3>1. DelaccKnows(c, "delacc_delete", u)
      BY <2>3 DEF DelaccKnows, HasAccount, Overlay
    <3>2. QED
      BY <1>3, <1>4, <2>1, <2>3, <3>1
  <2>4. pc[r] \notin Ended /\ "delacc_delete" \notin Ended /\ c.account \in Nat
    BY <1>2, <1>4, <2>1 DEF Ended
  <2>5. QED
    BY <2>1, <2>2, <2>3, <2>4, LockAccountBanks
<1>8. CASE DelaccDelete(r)
  <2> DEFINE u == [tx[r] EXCEPT !.list = tx[r].account,
                                !.account = Without(@, c.account)]
  <2>1. pc[r] = "delacc_delete" /\ pc[r] \in LabelsOf["DELACC"]
        /\ Statement(r, "delacc_proctran", u)
    BY <1>8, Labels DEF DelaccDelete
  <2>2. u.list = t.account /\ u.proctran = t.proctran
    BY <1>1 DEF IsTransaction, NoTx
  <2>3. DelaccKnows(c, "delacc_proctran", u)
    BY <1>4, <2>1, <2>2 DEF DelaccKnows, HasAccount
  <2>4. Knows(r, c, "delacc_proctran", u)
    BY <1>3, <1>4, <2>1, <2>2, <2>3
  <2>5. QED
    BY <1>4, <2>1, <2>4, StatementMoves DEF Ended, Banks
<1>9. CASE DelaccProctran(r)
  <2>1. pc[r] = "delacc_proctran" /\ pc[r] \in LabelsOf["DELACC"]
        /\ InsertProctran(r, "commit", "ODA", t.list[c.account].actual)
    BY <1>9, Labels DEF DelaccProctran
  <2>2. c.account \in DOMAIN account /\ t.list[c.account] = account[c.account]
    BY <1>4, <2>1 DEF DelaccKnows
  <2>3. ASSUME NEW u, u.proctran = <<Audit(r, "ODA", t.list[c.account].actual)>>
        PROVE  Knows(r, c, "commit", u)
    <3>1. DelaccKnows(c, "commit", u)
      BY <2>2 DEF DelaccKnows
    <3>2. QED
      BY <1>3, <1>4, <2>1, <2>2, <2>3, <3>1
  <2>4. QED
    BY <1>4, <2>1, <2>3, AuditBanks DEF Banks
<1>10. QED
  BY <1>5, <1>6, <1>7, <1>8, <1>9 DEF DelaccStep

\* When the bank refuses to update a customer.
LEMMA CustomerJustified ==
  ASSUME NEW r, cmd[r] \in UpdcustCommands
  PROVE  /\ UpdcustRejection(cmd[r]) # None => Justified(r, UpdcustRejection(cmd[r]))
         /\ cmd[r].customer \notin DOMAIN customer => Justified(r, Fail("1"))
         /\ {cmd[r].name, cmd[r].address} \subseteq BlankishTexts => Justified(r, Fail("4"))
<1> DEFINE c == cmd[r]
<1>1. c.prog = "UPDCUST"
  BY DEF UpdcustCommands
<1>2. \A rep : AtomicBank!UpdateCustomerRefused(c, rep) => Justified(r, rep)
  BY <1>1 DEF Justified, AtomicBank!Refused
<1>3. UpdcustRejection(c) # None => AtomicBank!UpdateCustomerRefused(c, UpdcustRejection(c))
  BY DEF UpdcustRejection, AtomicBank!UpdateCustomerRefused, Invalid,
     AtomicBank!Invalid, Fail, AtomicBank!Fail
<1>4. /\ c.customer \notin DOMAIN customer => AtomicBank!UpdateCustomerRefused(c, Fail("1"))
      /\ {c.name, c.address} \subseteq BlankishTexts =>
           AtomicBank!UpdateCustomerRefused(c, Fail("4"))
  BY DEF AtomicBank!UpdateCustomerRefused, Fail, AtomicBank!Fail
<1>5. UpdcustRejection(c) # None => Justified(r, UpdcustRejection(c))
  BY <1>2, <1>3
<1>6. QED
  BY <1>2, <1>4, <1>5

\* UPDCUST: what is not changed stays as the table has it.
LEMMA UpdcustBanks ==
  ASSUME LocalInvariant, EachKnows, NEW r \in Requests, UpdcustStep(r)
  PROVE  Banks(r)
<1> DEFINE c == cmd[r]
           t == tx[r]
<1>1. /\ c \in Commands /\ IsTransaction(t) /\ Knows(r, c, pc[r], t)
      /\ pc[r] \in LabelsOf["UPDCUST"] => c.prog = "UPDCUST"
  BY AtLabel, Facts DEF LabelsOf
<1>2. c.prog = "UPDCUST" => c \in UpdcustCommands /\ c.customer \in Nat
  BY <1>1, CommandFields DEF UpdcustCommands
<1>3. ASSUME c.prog = "UPDCUST", NEW p, NEW u, UpdcustKnows(c, p, u),
             u.proctran = IF p = "commit" THEN <<Audit(r, "OUC", 0)>> ELSE <<>>
      PROVE  Knows(r, c, p, u)
  BY <1>3 DEF Knows, AuditedLast, MainType, MainAmount
<1>4. pc[r] \in LabelsOf["UPDCUST"] =>
        /\ c.prog = "UPDCUST" /\ UpdcustKnows(c, pc[r], t) /\ t.proctran = <<>>
        /\ pc[r] \notin Ended
  <2>1. pc[r] \in LabelsOf["UPDCUST"] => pc[r] \notin {"done", "lost", "commit"}
    BY Labels
  <2>2. QED
    BY <1>1, <2>1 DEF Knows, AuditedLast, Ended
<1>5. CASE UpdcustReceive(r)
  <2>1. UpdcustRejection(c) \in Replies
    BY DEF UpdcustRejection, Replies, FailCodes
  <2>2. c.prog = "UPDCUST" /\ Receive(r, UpdcustRejection(c), "begin")
    BY <1>5 DEF UpdcustReceive
  <2>3. UpdcustRejection(c) # None => Justified(r, UpdcustRejection(c))
    BY <1>2, <2>2, CustomerJustified
  <2>4. QED
    BY <2>1, <2>2, <2>3, ReceiveBanks
<1>6. CASE UpdcustBegin(r)
  <2>1. c.prog = "UPDCUST" /\ Begin(r, "updcust_lock")
    BY <1>6 DEF UpdcustBegin
  <2>2. Knows(r, c, "updcust_lock", NoTx)
    BY <2>1, NothingIsKnown DEF EmptyHanded
  <2>3. QED
    BY <2>1, <2>2, BeginBanks DEF Ended
<1>7. CASE UpdcustLock(r)
  <2>1. pc[r] = "updcust_lock" /\ LockCustomer(r, "updcust_update", c.customer, Fail("1"))
        /\ pc[r] \in LabelsOf["UPDCUST"] /\ Fail("1") \in Replies
    BY <1>7, Labels DEF UpdcustLock, Replies, FailCodes
  <2>2. CASE c.customer \notin DOMAIN customer
    <3>1. Justified(r, Fail("1"))
      BY <1>2, <1>4, <2>1, <2>2, CustomerJustified
    <3>2. QED
      BY <1>4, <2>1, <2>2, <3>1, RefusalIsTrue DEF LockCustomer, Banks
  <2>3. CASE c.customer \in DOMAIN customer
    <3> DEFINE own == Overlay(t.customer, c.customer, customer[c.customer])
               u == [tx[r] EXCEPT !.held = @ \cup {CustomerKey(c.customer)},
                                  !.customer = Overlay(@, c.customer, customer[c.customer])]
    <3>1. Statement(r, "updcust_update", u)
      BY <2>1, <2>3 DEF LockCustomer
    <3>2. u.customer = own /\ u.proctran = t.proctran
      BY <1>1 DEF IsTransaction, NoTx
    <3>3. own[c.customer] = customer[c.customer]
      BY DEF Overlay
    <3>4. UpdcustKnows(c, "updcust_update", u)
      BY <2>3, <3>2, <3>3 DEF UpdcustKnows
    <3>5. Knows(r, c, "updcust_update", u)
      BY <1>3, <1>4, <2>1, <3>2, <3>4
    <3>6. pc[r] \notin Ended /\ "updcust_update" \notin Ended
      BY <1>4, <2>1 DEF Ended
    <3>7. QED
      BY <3>1, <3>5, <3>6, StatementMoves DEF Banks
  <2>4. QED
    BY <2>2, <2>3
<1>8. CASE UpdcustUpdate(r)
  <2> DEFINE row == ResolvedFields(t.customer[c.customer], c)
             own == Overlay(t.customer, c.customer, row)
             u == [tx[r] EXCEPT !.customer =
                     Overlay(@, c.customer, ResolvedFields(@[c.customer], c))]
  <2>1. pc[r] = "updcust_update" /\ pc[r] \in LabelsOf["UPDCUST"]
    BY <1>8, Labels DEF UpdcustUpdate
  <2>2. c.customer \in DOMAIN customer /\ t.customer[c.customer] = customer[c.customer]
    BY <1>4, <2>1 DEF UpdcustKnows
  <2>3. CASE {c.name, c.address} \subseteq BlankishTexts
    <3>1. Justified(r, Fail("4"))
      BY <1>2, <1>4, <2>1, <2>3, CustomerJustified
    <3>2. Refuse(r, Fail("4")) /\ Fail("4") \in Replies
      BY <1>8, <2>3 DEF UpdcustUpdate, Replies, FailCodes
    <3>3. QED
      BY <1>4, <2>1, <3>1, <3>2, RefusalIsTrue DEF Banks
  <2>4. CASE ~({c.name, c.address} \subseteq BlankishTexts)
    <3>1. Statement(r, "updcust_proctran", u)
      BY <1>8, <2>4 DEF UpdcustUpdate
    <3>2. u.customer = own /\ u.proctran = t.proctran
      BY <1>1 DEF IsTransaction, NoTx
    <3>3. own[c.customer] = row
      BY DEF Overlay
    <3>4. UpdcustKnows(c, "updcust_proctran", u)
      BY <2>2, <2>4, <3>2, <3>3 DEF UpdcustKnows
    <3>5. Knows(r, c, "updcust_proctran", u)
      BY <1>3, <1>4, <2>1, <3>2, <3>4
    <3>6. pc[r] \notin Ended /\ "updcust_proctran" \notin Ended
      BY <1>4, <2>1 DEF Ended
    <3>7. QED
      BY <3>1, <3>5, <3>6, StatementMoves DEF Banks
  <2>5. QED
    BY <2>3, <2>4
<1>9. CASE UpdcustProctran(r)
  <2>1. pc[r] = "updcust_proctran" /\ pc[r] \in LabelsOf["UPDCUST"]
        /\ InsertProctran(r, "commit", "OUC", 0)
    BY <1>9, Labels DEF UpdcustProctran
  <2>2. ASSUME NEW u, u.customer = t.customer, u.proctran = <<Audit(r, "OUC", 0)>>
        PROVE  Knows(r, c, "commit", u)
    <3>1. UpdcustKnows(c, "commit", u)
      BY <1>4, <2>1, <2>2 DEF UpdcustKnows
    <3>2. QED
      BY <1>3, <1>4, <2>1, <2>2, <3>1
  <2>3. QED
    BY <1>4, <2>1, <2>2, AuditBanks DEF Banks
<1>10. QED
  BY <1>5, <1>6, <1>7, <1>8, <1>9 DEF UpdcustStep

\* The first page shows some of the accounts of the customer.
LEMMA PageIsPart ==
  ASSUME LocalInvariant, NEW n
  PROVE  /\ IsFiniteSet(AccountsOf(n))
         /\ DOMAIN FirstPage(n) \subseteq AccountsOf(n)
         /\ Cardinality(DOMAIN FirstPage(n)) \in Nat
         /\ Cardinality(AccountsOf(n)) \in Nat
         /\ Cardinality(DOMAIN FirstPage(n)) <= Cardinality(AccountsOf(n))
<1>1. AccountsOf(n) \subseteq 1 .. MaxAccountNumber
  BY Facts DEF AccountsOf, LocalInvariant, TypeOK
<1>2. IsFiniteSet(1 .. MaxAccountNumber)
  BY FS_Interval, BoundsAssumption
<1>3. IsFiniteSet(AccountsOf(n))
  BY <1>1, <1>2, FS_Subset
<1>4. DOMAIN FirstPage(n) \subseteq AccountsOf(n)
  BY DEF FirstPage
<1>5. QED
  BY <1>3, <1>4, FS_Subset, FS_CardinalityType

\* When the bank refuses to open an account.
LEMMA OpeningJustified ==
  ASSUME LocalInvariant, NEW r, cmd[r] \in CreaccCommands
  PROVE  /\ CreaccRejection(cmd[r]) # None => Justified(r, CreaccRejection(cmd[r]))
         /\ cmd[r].customer \notin DOMAIN customer =>
              Justified(r, Fail("1")) /\ Justified(r, Fail("7"))
         /\ AtCapacity(cmd[r].customer) => Justified(r, Fail("8"))
         /\ Exhausted(control.account_last + 1) => Justified(r, Abend("HNCS"))
<1> DEFINE c == cmd[r]
<1>1. c.prog = "CREACC" /\ c.customer \in Nat
  BY DEF CreaccCommands
<1>2. \A rep : AtomicBank!OpenAccountRefused(c, rep) => Justified(r, rep)
  BY <1>1 DEF Justified, AtomicBank!Refused
<1>3. CreaccRejection(c) # None => AtomicBank!OpenAccountRefused(c, CreaccRejection(c))
  BY <1>1 DEF CreaccRejection, AtomicBank!OpenAccountRefused, SupportedTypes,
     ReservedCustomers, Invalid, AtomicBank!Invalid, Fail, AtomicBank!Fail,
     Representable, AtomicBank!Representable, Money, AtomicBank!Money
<1>4. c.customer \notin DOMAIN customer =>
        /\ AtomicBank!OpenAccountRefused(c, Fail("1"))
        /\ AtomicBank!OpenAccountRefused(c, Fail("7"))
  BY DEF AtomicBank!OpenAccountRefused, Fail, AtomicBank!Fail
<1>5. AtCapacity(c.customer) => AtomicBank!OpenAccountRefused(c, Fail("8"))
  <2>1. AtCapacity(c.customer) => Cardinality(AccountsOf(c.customer)) > MaxAccountsPerCustomer
    BY PageIsPart, BoundsAssumption DEF AtCapacity
  <2>2. AtomicBank!AccountsOf(c.customer) = AccountsOf(c.customer)
    BY DEF AccountsOf, AtomicBank!AccountsOf
  <2>3. QED
    BY <2>1, <2>2, SameCardinality DEF AtomicBank!OpenAccountRefused, Fail, AtomicBank!Fail
<1>6. Exhausted(control.account_last + 1) => AtomicBank!OpenAccountRefused(c, Abend("HNCS"))
  <2>1. control.account_last \in Nat
    BY DEF LocalInvariant, TypeOK, Control
  <2>2. QED
    BY <2>1, BoundsAssumption DEF Exhausted, AtomicBank!OpenAccountRefused, Abend,
       AtomicBank!Abend
<1>7. CreaccRejection(c) # None => Justified(r, CreaccRejection(c))
  BY <1>2, <1>3
<1>8. QED
  BY <1>2, <1>4, <1>5, <1>6, <1>7

\* UPDATE control, the first statement of its transaction.
LEMMA ReserveBanks ==
  ASSUME LocalInvariant, NEW r \in Requests, NEW next, NEW bumped,
         ReserveNumber(r, next, bumped), pc[r] \notin Ended, next \notin Ended,
         ASSUME NEW u, u.control = bumped, u.proctran = tx[r].proctran
         PROVE  Knows(r, cmd[r], next, u)
  PROVE  Banks(r)
<1> DEFINE u == [tx[r] EXCEPT !.held = @ \cup {ControlKey}, !.control = bumped]
<1>1. Statement(r, next, u)
  BY DEF ReserveNumber
<1>2. u.control = bumped /\ u.proctran = tx[r].proctran
  BY Facts DEF IsTransaction, NoTx
<1>3. Knows(r, cmd[r], next, u)
  BY <1>2
<1>4. QED
  BY <1>1, <1>3, StatementMoves DEF Banks

\* CREACC: the number it took is still the next one when the account is inserted.
LEMMA CreaccBanks ==
  ASSUME LocalInvariant, EachKnows, NumbersWereIssued, NEW r \in Requests, CreaccStep(r)
  PROVE  Banks(r)
<1> DEFINE c == cmd[r]
           t == tx[r]
           bumped == [control EXCEPT !.account_count = @ + 1, !.account_last = @ + 1]
<1>1. /\ c \in Commands /\ IsTransaction(t) /\ Knows(r, c, pc[r], t)
      /\ pc[r] \in LabelsOf["CREACC"] => c.prog = "CREACC"
  BY AtLabel, Facts DEF LabelsOf
<1>2. c.prog = "CREACC" => c \in CreaccCommands
  BY <1>1, CommandFields
<1>3. ASSUME c.prog = "CREACC", NEW p, NEW u, CreaccKnows(c, p, u),
             u.proctran = IF p = "commit" THEN <<Audit(r, "OCA", 0)>> ELSE <<>>
      PROVE  Knows(r, c, p, u)
  BY <1>3 DEF Knows, AuditedLast, MainType, MainAmount
<1>4. pc[r] \in LabelsOf["CREACC"] =>
        /\ c.prog = "CREACC" /\ CreaccKnows(c, pc[r], t) /\ t.proctran = <<>>
        /\ pc[r] \notin Ended
  <2>1. pc[r] \in LabelsOf["CREACC"] => pc[r] \notin {"done", "lost", "commit"}
    BY Labels
  <2>2. QED
    BY <1>1, <2>1 DEF Knows, AuditedLast, Ended
<1>5. bumped.account_last = control.account_last + 1 /\ control.account_last \in Nat
  BY DEF LocalInvariant, TypeOK, Control
<1>6. CASE CreaccReceive(r)
  <2>1. CreaccRejection(c) \in Replies
    BY DEF CreaccRejection, Replies, FailCodes
  <2>2. c.prog = "CREACC" /\ Receive(r, CreaccRejection(c), "creacc_inqcust")
    BY <1>6 DEF CreaccReceive
  <2>3. CreaccRejection(c) # None => Justified(r, CreaccRejection(c))
    BY <1>2, <2>2, OpeningJustified
  <2>4. QED
    BY <2>1, <2>2, <2>3, ReceiveBanks
<1>7. CASE CreaccInqcust(r) \/ CreaccInqacccu(r)
  <2>1. pc[r] \in {"creacc_inqcust", "creacc_inqacccu"} /\ pc[r] \in LabelsOf["CREACC"]
    BY <1>7, Labels DEF CreaccInqcust, CreaccInqacccu
  <2>2. \/ \E rep \in Replies : Refuse(r, rep) /\ Justified(r, rep)
        \/ \E p \in {"creacc_inqacccu", "begin"} : Statement(r, p, NoTx)
    BY <1>2, <1>4, <1>7, <2>1, OpeningJustified
    DEF CreaccInqcust, CreaccInqacccu, Replies, FailCodes
  <2>3. \A p \in {"creacc_inqacccu", "begin"} : Knows(r, c, p, NoTx) /\ p \notin Ended
    BY <1>4, <2>1, NothingIsKnown DEF EmptyHanded, Ended
  <2>4. QED
    BY <1>4, <2>1, <2>2, <2>3, RefusalIsTrue, StatementMoves DEF Banks
<1>8. CASE CreaccBegin(r)
  <2>1. c.prog = "CREACC" /\ Begin(r, "creacc_reserve")
    BY <1>8 DEF CreaccBegin
  <2>2. Knows(r, c, "creacc_reserve", NoTx)
    BY <2>1, NothingIsKnown DEF EmptyHanded
  <2>3. QED
    BY <2>1, <2>2, BeginBanks DEF Ended
<1>9. CASE CreaccReserve(r)
  <2>1. pc[r] = "creacc_reserve" /\ ReserveNumber(r, "creacc_insert", bumped)
        /\ pc[r] \in LabelsOf["CREACC"]
    BY <1>9, Labels DEF CreaccReserve
  <2>2. ASSUME NEW u, u.control = bumped, u.proctran = t.proctran
        PROVE  Knows(r, c, "creacc_insert", u)
    <3>1. CreaccKnows(c, "creacc_insert", u)
      BY <2>2 DEF CreaccKnows
    <3>2. QED
      BY <1>3, <1>4, <2>1, <2>2, <3>1
  <2>3. pc[r] \notin Ended /\ "creacc_insert" \notin Ended
    BY <1>4, <2>1 DEF Ended
  <2>4. QED
    BY <2>1, <2>2, <2>3, ReserveBanks
<1>10. CASE CreaccInsert(r)
  <2> DEFINE a == t.control.account_last
             own == Overlay(t.account, a, NewAccount(c))
             u == [tx[r] EXCEPT !.held = @ \cup {AccountKey(a)}, !.account = own]
  <2>1. pc[r] = "creacc_insert" /\ pc[r] \in LabelsOf["CREACC"]
    BY <1>10, Labels DEF CreaccInsert
  <2>2. t.control = bumped /\ a = control.account_last + 1
    BY <1>4, <1>5, <2>1 DEF CreaccKnows
  <2>3. a \notin DOMAIN account
    BY <1>5, <2>2 DEF NumbersWereIssued
  <2>4. \/ \E rep \in Replies : Refuse(r, rep) /\ Justified(r, rep)
        \/ ~Exhausted(a) /\ Statement(r, "creacc_proctran", u)
    BY <1>2, <1>4, <1>10, <2>1, <2>2, <2>3, OpeningJustified
    DEF CreaccInsert, Replies, FailCodes, AbendCodes
  <2>5. CASE \E rep \in Replies : Refuse(r, rep) /\ Justified(r, rep)
    BY <1>4, <2>1, <2>5, RefusalIsTrue DEF Banks
  <2>6. CASE ~Exhausted(a) /\ Statement(r, "creacc_proctran", u)
    <3>1. u.control = t.control /\ u.account = own /\ u.proctran = t.proctran
      BY <1>1 DEF IsTransaction, NoTx
    <3>2. own[a] = NewAccount(c)
      BY DEF Overlay
    <3>3. CreaccKnows(c, "creacc_proctran", u)
      BY <2>2, <2>6, <3>1, <3>2 DEF CreaccKnows
    <3>4. Knows(r, c, "creacc_proctran", u)
      BY <1>3, <1>4, <2>1, <3>1, <3>3
    <3>5. pc[r] \notin Ended /\ "creacc_proctran" \notin Ended
      BY <1>4, <2>1 DEF Ended
    <3>6. QED
      BY <2>6, <3>4, <3>5, StatementMoves DEF Banks
  <2>7. QED
    BY <2>4, <2>5, <2>6
<1>11. CASE CreaccProctran(r)
  <2>1. pc[r] = "creacc_proctran" /\ pc[r] \in LabelsOf["CREACC"]
        /\ InsertProctran(r, "commit", "OCA", 0)
    BY <1>11, Labels DEF CreaccProctran
  <2>2. ASSUME NEW u, u.account = t.account, u.control = t.control,
               u.proctran = <<Audit(r, "OCA", 0)>>
        PROVE  Knows(r, c, "commit", u)
    <3>1. CreaccKnows(c, "commit", u)
      BY <1>4, <2>1, <2>2 DEF CreaccKnows
    <3>2. QED
      BY <1>3, <1>4, <2>1, <2>2, <3>1
  <2>3. QED
    BY <1>4, <2>1, <2>2, AuditBanks DEF Banks
<1>12. QED
  BY <1>6, <1>7, <1>8, <1>9, <1>10, <1>11 DEF CreaccStep

\* When the bank refuses to add a customer.
LEMMA AddingJustified ==
  ASSUME LocalInvariant, NEW r, cmd[r] \in CrecustCommands
  PROVE  /\ CrecustRejection(cmd[r]) # None => Justified(r, CrecustRejection(cmd[r]))
         /\ Justified(r, Fail("G"))
         /\ control.customer_last + 1 > MaxCustomerNumber => Justified(r, Fail("4"))
<1> DEFINE c == cmd[r]
<1>1. c.prog = "CRECUST"
  BY DEF CrecustCommands
<1>2. \A rep : AtomicBank!AddCustomerRefused(c, rep) => Justified(r, rep)
  BY <1>1 DEF Justified, AtomicBank!Refused
<1>3. CrecustRejection(c) # None => AtomicBank!AddCustomerRefused(c, CrecustRejection(c))
  BY DEF CrecustRejection, AtomicBank!AddCustomerRefused, Invalid, AtomicBank!Invalid, Fail,
     AtomicBank!Fail
<1>4. AtomicBank!AddCustomerRefused(c, Fail("G"))
  BY DEF AtomicBank!AddCustomerRefused, Fail, AtomicBank!Fail
<1>5. control.customer_last + 1 > MaxCustomerNumber
        => AtomicBank!AddCustomerRefused(c, Fail("4"))
  <2>1. control.customer_last \in Nat
    BY DEF LocalInvariant, TypeOK, Control
  <2>2. QED
    BY <2>1, BoundsAssumption DEF AtomicBank!AddCustomerRefused, Fail, AtomicBank!Fail
<1>6. CrecustRejection(c) # None => Justified(r, CrecustRejection(c))
  BY <1>2, <1>3
<1>7. QED
  BY <1>2, <1>4, <1>5, <1>6

\* CRECUST: the same of the customer number.
LEMMA CrecustBanks ==
  ASSUME LocalInvariant, EachKnows, NumbersWereIssued, NEW r \in Requests, CrecustStep(r)
  PROVE  Banks(r)
<1> DEFINE c == cmd[r]
           t == tx[r]
           bumped == [control EXCEPT !.customer_count = @ + 1, !.customer_last = @ + 1]
<1>1. /\ c \in Commands /\ IsTransaction(t) /\ Knows(r, c, pc[r], t)
      /\ pc[r] \in LabelsOf["CRECUST"] => c.prog = "CRECUST"
  BY AtLabel, Facts DEF LabelsOf
<1>2. c.prog = "CRECUST" =>
        c \in CrecustCommands /\ c.birth \in {"valid", "O", "Y", "Z"}
  BY <1>1, CommandFields DEF CrecustCommands
<1>3. ASSUME c.prog = "CRECUST", NEW p, NEW u, CrecustKnows(c, p, u),
             u.proctran = IF p = "commit" THEN <<Audit(r, "OCC", 0)>> ELSE <<>>
      PROVE  Knows(r, c, p, u)
  BY <1>3 DEF Knows, AuditedLast, MainType, MainAmount
<1>4. pc[r] \in LabelsOf["CRECUST"] =>
        /\ c.prog = "CRECUST" /\ CrecustKnows(c, pc[r], t) /\ t.proctran = <<>>
        /\ pc[r] \notin Ended
  <2>1. pc[r] \in LabelsOf["CRECUST"] => pc[r] \notin {"done", "lost", "commit"}
    BY Labels
  <2>2. QED
    BY <1>1, <2>1 DEF Knows, AuditedLast, Ended
<1>5. bumped.customer_last = control.customer_last + 1 /\ control.customer_last \in Nat
  BY DEF LocalInvariant, TypeOK, Control
<1>6. CASE CrecustReceive(r)
  <2>1. c.prog = "CRECUST" /\ Receive(r, CrecustRejection(c), "crecust_credit")
    BY <1>6 DEF CrecustReceive
  <2>2. CrecustRejection(c) \in Replies
    BY <1>2, <2>1 DEF CrecustRejection, Replies, FailCodes
  <2>3. CrecustRejection(c) # None => Justified(r, CrecustRejection(c))
    BY <1>2, <2>1, AddingJustified
  <2>4. QED
    BY <2>1, <2>2, <2>3, ReceiveBanks
<1>7. CASE CrecustCredit(r)
  <2>1. pc[r] = "crecust_credit" /\ pc[r] \in LabelsOf["CRECUST"]
    BY <1>7, Labels DEF CrecustCredit
  <2>2. \/ \E rep \in Replies : Refuse(r, rep) /\ Justified(r, rep)
        \/ Statement(r, "begin", NoTx)
    BY <1>2, <1>4, <1>7, <2>1, AddingJustified DEF CrecustCredit, Replies, FailCodes
  <2>3. Knows(r, c, "begin", NoTx) /\ "begin" \notin Ended
    BY <1>4, <2>1, NothingIsKnown DEF EmptyHanded, Ended
  <2>4. QED
    BY <1>4, <2>1, <2>2, <2>3, RefusalIsTrue, StatementMoves DEF Banks
<1>8. CASE CrecustBegin(r)
  <2>1. c.prog = "CRECUST" /\ Begin(r, "crecust_reserve")
    BY <1>8 DEF CrecustBegin
  <2>2. Knows(r, c, "crecust_reserve", NoTx)
    BY <2>1, NothingIsKnown DEF EmptyHanded
  <2>3. QED
    BY <2>1, <2>2, BeginBanks DEF Ended
<1>9. CASE CrecustReserve(r)
  <2>1. pc[r] = "crecust_reserve" /\ ReserveNumber(r, "crecust_insert", bumped)
        /\ pc[r] \in LabelsOf["CRECUST"]
    BY <1>9, Labels DEF CrecustReserve
  <2>2. ASSUME NEW u, u.control = bumped, u.proctran = t.proctran
        PROVE  Knows(r, c, "crecust_insert", u)
    <3>1. CrecustKnows(c, "crecust_insert", u)
      BY <2>2 DEF CrecustKnows
    <3>2. QED
      BY <1>3, <1>4, <2>1, <2>2, <3>1
  <2>3. pc[r] \notin Ended /\ "crecust_insert" \notin Ended
    BY <1>4, <2>1 DEF Ended
  <2>4. QED
    BY <2>1, <2>2, <2>3, ReserveBanks
<1>10. CASE CrecustInsert(r)
  <2> DEFINE n == t.control.customer_last
             row == [name |-> c.name, address |-> c.address]
             own == Overlay(t.customer, n, row)
             u == [tx[r] EXCEPT !.held = @ \cup {CustomerKey(n)}, !.customer = own]
  <2>1. pc[r] = "crecust_insert" /\ pc[r] \in LabelsOf["CRECUST"]
    BY <1>10, Labels DEF CrecustInsert
  <2>2. t.control = bumped /\ n = control.customer_last + 1
    BY <1>4, <1>5, <2>1 DEF CrecustKnows
  <2>3. n \notin DOMAIN customer
    BY <1>5, <2>2 DEF NumbersWereIssued
  <2>4. \/ \E rep \in Replies : Refuse(r, rep) /\ Justified(r, rep)
        \/ ~(n > MaxCustomerNumber) /\ Statement(r, "crecust_proctran", u)
    BY <1>2, <1>4, <1>10, <2>1, <2>2, <2>3, AddingJustified
    DEF CrecustInsert, Replies, FailCodes
  <2>5. CASE \E rep \in Replies : Refuse(r, rep) /\ Justified(r, rep)
    BY <1>4, <2>1, <2>5, RefusalIsTrue DEF Banks
  <2>6. CASE ~(n > MaxCustomerNumber) /\ Statement(r, "crecust_proctran", u)
    <3>1. u.control = t.control /\ u.customer = own /\ u.proctran = t.proctran
      BY <1>1 DEF IsTransaction, NoTx
    <3>2. own[n] = row
      BY DEF Overlay
    <3>3. CrecustKnows(c, "crecust_proctran", u)
      BY <2>2, <2>6, <3>1, <3>2 DEF CrecustKnows
    <3>4. Knows(r, c, "crecust_proctran", u)
      BY <1>3, <1>4, <2>1, <3>1, <3>3
    <3>5. pc[r] \notin Ended /\ "crecust_proctran" \notin Ended
      BY <1>4, <2>1 DEF Ended
    <3>6. QED
      BY <2>6, <3>4, <3>5, StatementMoves DEF Banks
  <2>7. QED
    BY <2>4, <2>5, <2>6
<1>11. CASE CrecustProctran(r)
  <2>1. pc[r] = "crecust_proctran" /\ pc[r] \in LabelsOf["CRECUST"]
        /\ InsertProctran(r, "commit", "OCC", 0)
    BY <1>11, Labels DEF CrecustProctran
  <2>2. ASSUME NEW u, u.customer = t.customer, u.control = t.control,
               u.proctran = <<Audit(r, "OCC", 0)>>
        PROVE  Knows(r, c, "commit", u)
    <3>1. CrecustKnows(c, "commit", u)
      BY <1>4, <2>1, <2>2 DEF CrecustKnows
    <3>2. QED
      BY <1>3, <1>4, <2>1, <2>2, <3>1
  <2>3. QED
    BY <1>4, <2>1, <2>2, AuditBanks DEF Banks
<1>12. QED
  BY <1>6, <1>7, <1>8, <1>9, <1>10, <1>11 DEF CrecustStep

\* One more account after all those audited so far, and its audit row.
LEMMA AuditsGrow ==
  ASSUME NEW r, NEW rows, NEW list, NEW S, NEW a, IsFiniteSet(S), S \subseteq Int, a \in Int,
         \A b \in S : b < a, AuditsInOrder(r, rows, list, S), Len(rows) = Cardinality(S),
         rows \in Seq(AuditRow), Audit(r, "ODA", list[a].actual) \in AuditRow
  PROVE  /\ AuditsInOrder(r, Append(rows, Audit(r, "ODA", list[a].actual)), list, S \cup {a})
         /\ Len(Append(rows, Audit(r, "ODA", list[a].actual))) = Cardinality(S \cup {a})
         /\ Cardinality(S \cup {a}) \in Nat
<1> DEFINE row == Audit(r, "ODA", list[a].actual)
           longer == Append(rows, row)
           T == S \cup {a}
<1>1. a \notin S
  OBVIOUS
<1>2. Cardinality(T) = Cardinality(S) + 1 /\ Cardinality(S) \in Nat
  BY <1>1, FS_AddElement, FS_CardinalityType
<1>3. Len(longer) = Len(rows) + 1 /\ longer[Len(rows) + 1] = row
      /\ \A n \in 1 .. Len(rows) : longer[n] = rows[n]
  BY AppendProperties
<1>4. ASSUME NEW n \in 1 .. Cardinality(T)
      PROVE  \E x \in T : /\ Cardinality({b \in T : b < x}) = n - 1
                          /\ longer[n] = Audit(r, "ODA", list[x].actual)
  <2>1. CASE n = Cardinality(T)
    <3>1. \A b \in T : b < a <=> b \in S
      BY <1>1
    <3>2. {b \in T : b < a} = S
      BY <3>1
    <3>3. Cardinality(S) = n - 1 /\ longer[n] = row
      BY <1>2, <1>3, <2>1
    <3>4. Cardinality({b \in T : b < a}) = n - 1
      BY <3>2, <3>3, Zenon
    <3>5. QED
      BY <3>3, <3>4
  <2>2. CASE n # Cardinality(T)
    <3>1. n \in 1 .. Cardinality(S)
      BY <1>2, <2>2
    <3>2. PICK x \in S : /\ Cardinality({b \in S : b < x}) = n - 1
                         /\ rows[n] = Audit(r, "ODA", list[x].actual)
      BY <3>1 DEF AuditsInOrder
    <3>3. {b \in T : b < x} = {b \in S : b < x}
      OBVIOUS
    <3>4. QED
      BY <1>3, <3>1, <3>2, <3>3
  <2>3. QED
    BY <2>1, <2>2
<1>5. AuditsInOrder(r, longer, list, T)
  <2>1. Cardinality(T) <= Len(longer)
    BY <1>2, <1>3
  <2>2. QED
    BY <1>4, <2>1, Zenon DEF AuditsInOrder
<1>6. QED
  BY <1>2, <1>3, <1>5

\* A row that comes after the audited accounts does not disturb them.
LEMMA AuditsStay ==
  ASSUME NEW r, NEW rows, NEW row \in AuditRow, NEW list, NEW S, IsFiniteSet(S),
         AuditsInOrder(r, rows, list, S), rows \in Seq(AuditRow)
  PROVE  AuditsInOrder(r, Append(rows, row), list, S)
<1>1. Len(Append(rows, row)) = Len(rows) + 1
      /\ \A n \in 1 .. Len(rows) : Append(rows, row)[n] = rows[n]
  BY AppendProperties
<1>2. Cardinality(S) \in Nat
  BY FS_CardinalityType
<1>3. ASSUME NEW n \in 1 .. Cardinality(S)
      PROVE  \E a \in S : /\ Cardinality({b \in S : b < a}) = n - 1
                          /\ Append(rows, row)[n] = Audit(r, "ODA", list[a].actual)
  <2>1. PICK a \in S : /\ Cardinality({b \in S : b < a}) = n - 1
                       /\ rows[n] = Audit(r, "ODA", list[a].actual)
    BY DEF AuditsInOrder
  <2>2. n \in 1 .. Len(rows)
    BY <1>2 DEF AuditsInOrder
  <2>3. QED
    BY <1>1, <2>1, <2>2
<1>4. Cardinality(S) <= Len(Append(rows, row))
  BY <1>1, <1>2 DEF AuditsInOrder
<1>5. QED
  BY <1>3, <1>4, Zenon DEF AuditsInOrder

\* An account that does not make the page has a full page before it.
LEMMA PageIsFull ==
  ASSUME LocalInvariant, NEW n, NEW a \in AccountsOf(n), a \notin DOMAIN FirstPage(n)
  PROVE  Cardinality(AccountsOf(n)) > PageSize
<1> DEFINE below == {b \in AccountsOf(n) : b < a}
<1>1. AccountsOf(n) \subseteq 1 .. MaxAccountNumber
  BY Facts DEF AccountsOf, LocalInvariant, TypeOK
<1>2. IsFiniteSet(1 .. MaxAccountNumber)
  BY FS_Interval, BoundsAssumption
<1>3. IsFiniteSet(AccountsOf(n))
  BY <1>1, <1>2, FS_Subset
<1>4. IsFiniteSet(below) /\ a \notin below /\ below \cup {a} \subseteq AccountsOf(n)
  BY <1>1, <1>3, FS_Subset
<1>5. ~(Cardinality(below) < PageSize)
  BY DEF FirstPage
<1>6. Cardinality(below \cup {a}) = Cardinality(below) + 1 /\ Cardinality(below) \in Nat
  BY <1>4, FS_AddElement, FS_CardinalityType
<1>7. Cardinality(below \cup {a}) <= Cardinality(AccountsOf(n))
      /\ Cardinality(AccountsOf(n)) \in Nat
  BY <1>3, <1>4, FS_Subset, FS_CardinalityType
<1>8. QED
  BY <1>5, <1>6, <1>7, BoundsAssumption

\* What DELCUS holds and has audited is a set of issued numbers.
LEMMA AuditedAreFinite ==
  ASSUME LocalInvariant, NEW t, KeysOf(2, t.held) \subseteq DOMAIN t.list,
         DOMAIN t.list \subseteq 1 .. control.account_last
  PROVE  IsFiniteSet(AuditedAccounts(t)) /\ AuditedAccounts(t) \subseteq Int
<1>1. control.account_last \in Nat
  BY DEF LocalInvariant, TypeOK, Control
<1>2. IsFiniteSet(1 .. control.account_last)
  <2>1. \A m, n \in Int : IsFiniteSet(m .. n)
    BY FS_Interval
  <2>2. 1 \in Int /\ control.account_last \in Int
    BY <1>1
  <2>3. QED
    BY <2>1, <2>2
<1>3. AuditedAccounts(t) \subseteq 1 .. control.account_last
  BY DEF AuditedAccounts
<1>4. 1 .. control.account_last \subseteq Int
  OBVIOUS
<1>5. QED
  BY <1>2, <1>3, <1>4, FS_Subset

\* When the bank refuses to remove a customer.
LEMMA RemovalJustified ==
  ASSUME LocalInvariant, NEW r, cmd[r] \in DelcusCommands
  PROVE  /\ DelcusRejection(cmd[r]) # None => Justified(r, DelcusRejection(cmd[r]))
         /\ cmd[r].customer \notin DOMAIN customer => Justified(r, Fail("1"))
         /\ Cardinality(AccountsOf(cmd[r].customer)) > PageSize
              => Justified(r, Abend("WPV7"))
<1> DEFINE c == cmd[r]
<1>1. c.prog = "DELCUS"
  BY DEF DelcusCommands
<1>2. \A rep : AtomicBank!RemoveCustomerRefused(c, rep) => Justified(r, rep)
  BY <1>1 DEF Justified, AtomicBank!Refused
<1>3. DelcusRejection(c) # None => AtomicBank!RemoveCustomerRefused(c, DelcusRejection(c))
  BY DEF DelcusRejection, AtomicBank!RemoveCustomerRefused, Invalid, AtomicBank!Invalid
<1>4. c.customer \notin DOMAIN customer => AtomicBank!RemoveCustomerRefused(c, Fail("1"))
  BY DEF AtomicBank!RemoveCustomerRefused, Fail, AtomicBank!Fail
<1>5. Cardinality(AccountsOf(c.customer)) > PageSize
        => AtomicBank!RemoveCustomerRefused(c, Abend("WPV7"))
  <2>1. AtomicBank!AccountsOf(c.customer) = AccountsOf(c.customer)
    BY DEF AccountsOf, AtomicBank!AccountsOf
  <2>2. QED
    BY <2>1, SameCardinality DEF AtomicBank!RemoveCustomerRefused, Abend, AtomicBank!Abend
<1>6. DelcusRejection(c) # None => Justified(r, DelcusRejection(c))
  BY <1>2, <1>3
<1>7. QED
  BY <1>2, <1>4, <1>5, <1>6

\* The accounts held once one more is.
LEMMA OneMoreKey ==
  ASSUME NEW held, NEW a
  PROVE  KeysOf(2, held \cup {AccountKey(a)}) = KeysOf(2, held) \cup {a}
<1> DEFINE K == {h \in held : h[1] = 2}
           L == {h \in held \cup {AccountKey(a)} : h[1] = 2}
<1>1. L = K \cup {AccountKey(a)} /\ AccountKey(a)[2] = a
  BY DEF AccountKey
<1>2. {k[2] : k \in L} = {k[2] : k \in K} \cup {a}
  BY <1>1
<1>3. QED
  BY <1>2 DEF KeysOf

\* DELCUS: every listed account is still to come, or deleted and audited with
\* the balance that was listed, or gone for good.
LEMMA DelcusBanks ==
  ASSUME LocalInvariant, EachKnows, NumbersWereIssued, NEW r \in Requests, DelcusStep(r)
  PROVE  Banks(r)
<1> DEFINE c == cmd[r]
           t == tx[r]
           n == c.customer
<1>1. /\ c \in Commands /\ IsTransaction(t) /\ t.proctran \in Seq(AuditRow)
      /\ Placed(c, pc[r], attempts[r], t) /\ Knows(r, c, pc[r], t)
      /\ pc[r] \in LabelsOf["DELCUS"] => c.prog = "DELCUS"
      /\ control.account_last \in Nat /\ IsAccountTable(t.list)
  BY AtLabel, Facts DEF LabelsOf, IsTransaction, Control
<1>2. c.prog = "DELCUS" => c \in DelcusCommands /\ n \in Nat
  BY <1>1, CommandFields DEF DelcusCommands
<1>3. ASSUME c.prog = "DELCUS", NEW p, NEW u, DelcusKnows(r, c, p, u)
      PROVE  Knows(r, c, p, u)
  BY <1>3 DEF Knows, AuditedLast
<1>4. pc[r] \in LabelsOf["DELCUS"] =>
        /\ c.prog = "DELCUS" /\ DelcusKnows(r, c, pc[r], t) /\ DelcusHolds(c, pc[r], t)
        /\ pc[r] \notin Ended
        /\ pc[r] = "delcus_lock" => t = NoTx
  <2>1. pc[r] \in LabelsOf["DELCUS"] => pc[r] \notin {"done", "lost", "commit"}
    BY Labels
  <2>2. QED
    BY <1>1, <2>1 DEF Knows, Placed, Ended, EmptyHanded
<1>5. pc[r] \in {"delcus_delete", "delcus_audit", "delcus_proctran"} =>
        /\ c.prog = "DELCUS" /\ pc[r] \notin Ended
        /\ n \in DOMAIN customer
        /\ DOMAIN t.list \subseteq 1 .. control.account_last
        /\ KeysOf(2, t.held) \subseteq DOMAIN t.list
        /\ \A a \in DOMAIN t.list :
             a \in t.queue \/ a \in KeysOf(2, t.held) \/ a \notin DOMAIN account
        /\ AuditsInOrder(r, t.proctran, t.list, AuditedAccounts(t))
        /\ Len(t.proctran) = Cardinality(AuditedAccounts(t))
        /\ IsFiniteSet(AuditedAccounts(t)) /\ AuditedAccounts(t) \subseteq Int
        /\ Cardinality(AuditedAccounts(t)) \in Nat
  <2>1. pc[r] \in {"delcus_delete", "delcus_audit", "delcus_proctran"} =>
          /\ c.prog = "DELCUS" /\ DelcusKnows(r, c, pc[r], t) /\ pc[r] \notin Ended
    BY <1>4, Labels
  <2>2. pc[r] \in {"delcus_delete", "delcus_audit", "delcus_proctran"} =>
          /\ n \in DOMAIN customer
          /\ DOMAIN t.list \subseteq 1 .. control.account_last
          /\ KeysOf(2, t.held) \subseteq DOMAIN t.list
          /\ \A a \in DOMAIN t.list :
               a \in t.queue \/ a \in KeysOf(2, t.held) \/ a \notin DOMAIN account
          /\ AuditsInOrder(r, t.proctran, t.list, AuditedAccounts(t))
          /\ Len(t.proctran) = Cardinality(AuditedAccounts(t)) + 0
    BY <2>1 DEF DelcusKnows
  <2>3. pc[r] \in {"delcus_delete", "delcus_audit", "delcus_proctran"} =>
          IsFiniteSet(AuditedAccounts(t)) /\ AuditedAccounts(t) \subseteq Int
    BY <2>2, AuditedAreFinite
  <2>4. pc[r] \in {"delcus_delete", "delcus_audit", "delcus_proctran"} =>
          Cardinality(AuditedAccounts(t)) \in Nat
    BY <2>3, FS_CardinalityType
  <2>5. QED
    BY <2>1, <2>2, <2>3, <2>4
<1>6. CASE DelcusReceive(r)
  <2>1. DelcusRejection(c) \in Replies
    BY DEF DelcusRejection, Replies
  <2>2. c.prog = "DELCUS" /\ Receive(r, DelcusRejection(c), "begin")
    BY <1>6 DEF DelcusReceive
  <2>3. DelcusRejection(c) # None => Justified(r, DelcusRejection(c))
    BY <1>2, <2>2, RemovalJustified
  <2>4. QED
    BY <2>1, <2>2, <2>3, ReceiveBanks
<1>7. CASE DelcusBegin(r)
  <2>1. c.prog = "DELCUS" /\ Begin(r, "delcus_lock")
    BY <1>7 DEF DelcusBegin
  <2>2. Knows(r, c, "delcus_lock", NoTx)
    BY <2>1, NothingIsKnown DEF EmptyHanded
  <2>3. QED
    BY <2>1, <2>2, BeginBanks DEF Ended
<1>8. CASE DelcusLock(r)
  <2> DEFINE u == [tx[r] EXCEPT !.held = @ \cup {CustomerKey(n)},
                                !.customer = Overlay(@, n, customer[n])]
  <2>1. pc[r] = "delcus_lock" /\ pc[r] \in LabelsOf["DELCUS"] /\ Fail("1") \in Replies
        /\ LockCustomer(r, "delcus_list", n, Fail("1"))
    BY <1>8, Labels DEF DelcusLock, Replies, FailCodes
  <2>2. CASE n \notin DOMAIN customer
    <3>1. Refuse(r, Fail("1")) /\ Justified(r, Fail("1"))
      BY <1>2, <1>4, <2>1, <2>2, RemovalJustified DEF LockCustomer
    <3>2. QED
      BY <1>4, <2>1, <3>1, RefusalIsTrue DEF Banks
  <2>3. CASE n \in DOMAIN customer
    <3>1. Statement(r, "delcus_list", u)
      BY <2>1, <2>3 DEF LockCustomer
    <3>2. u.proctran = <<>>
      BY <1>4, <2>1 DEF NoTx
    <3>3. DelcusKnows(r, c, "delcus_list", u)
      BY <2>3, <3>2 DEF DelcusKnows
    <3>4. pc[r] \notin Ended /\ "delcus_list" \notin Ended
      BY <1>4, <2>1 DEF Ended
    <3>5. Knows(r, c, "delcus_list", u)
      BY <1>3, <1>4, <2>1, <3>3
    <3>6. QED
      BY <3>1, <3>4, <3>5, StatementMoves DEF Banks
  <2>4. QED
    BY <2>2, <2>3
<1>9. CASE DelcusList(r)
  <2> DEFINE page == FirstPage(n)
             u == [tx[r] EXCEPT !.list = page, !.queue = DOMAIN page]
  <2>1. pc[r] = "delcus_list" /\ pc[r] \in LabelsOf["DELCUS"]
        /\ Statement(r, "delcus_delete", u)
    BY <1>9, Labels DEF DelcusList
  <2>2. /\ u.list = page /\ u.queue = DOMAIN page
        /\ u.held = t.held /\ u.proctran = t.proctran
    BY <1>1 DEF IsTransaction, NoTx
  <2>3. t.proctran = <<>> /\ n \in DOMAIN customer /\ t.held = {CustomerKey(n)}
    BY <1>4, <2>1 DEF DelcusKnows, DelcusHolds, HoldsCustomer
  <2>4. KeysOf(2, u.held) = {} /\ AuditedAccounts(u) = {}
    BY <2>2, <2>3 DEF KeysOf, CustomerKey, AuditedAccounts
  <2>5. DOMAIN page \subseteq 1 .. control.account_last
    BY DEF FirstPage, AccountsOf, NumbersWereIssued
  <2>6. AuditsInOrder(r, u.proctran, u.list, AuditedAccounts(u))
        /\ Len(u.proctran) = Cardinality(AuditedAccounts(u)) + 0
    <3>1. Cardinality(AuditedAccounts(u)) = 0 /\ Len(u.proctran) = 0
      BY <2>2, <2>3, <2>4, FS_EmptySet
    <3>2. QED
      BY <3>1 DEF AuditsInOrder
  <2>7. DelcusKnows(r, c, "delcus_delete", u)
    BY <2>2, <2>3, <2>4, <2>5, <2>6 DEF DelcusKnows
  <2>8. pc[r] \notin Ended /\ "delcus_delete" \notin Ended
    BY <1>4, <2>1 DEF Ended
  <2>9. Knows(r, c, "delcus_delete", u)
    BY <1>3, <1>4, <2>1, <2>7
  <2>10. QED
    BY <2>1, <2>8, <2>9, StatementMoves DEF Banks
<1>10. CASE DelcusDeleteAccount(r)
  <2>1. pc[r] = "delcus_delete" /\ pc[r] \in LabelsOf["DELCUS"]
    BY <1>10, Labels DEF DelcusDeleteAccount
  <2>2. PICK a \in t.queue :
          /\ IsNext(a, t.queue)
          /\ IF a \in DOMAIN account
               THEN Statement(r, "delcus_audit",
                      [tx[r] EXCEPT !.held = @ \cup {AccountKey(a)}])
               ELSE Statement(r, "delcus_delete", [tx[r] EXCEPT !.queue = @ \ {a}])
    BY <1>10 DEF DelcusDeleteAccount
  <2>3. t.queue \subseteq DOMAIN t.list /\ a \notin KeysOf(2, t.held) /\ a \in Nat
    BY <1>1, <1>4, <1>5, <2>1 DEF DelcusHolds, KeysOf, IsTransaction
  <2>4. CASE a \in DOMAIN account
    <3> DEFINE u == [tx[r] EXCEPT !.held = @ \cup {AccountKey(a)}]
    <3>1. /\ u.held = t.held \cup {AccountKey(a)}
          /\ u.list = t.list /\ u.queue = t.queue /\ u.proctran = t.proctran
      BY <1>1 DEF IsTransaction, NoTx
    <3>2. KeysOf(2, u.held) = KeysOf(2, t.held) \cup {a}
      BY <3>1, OneMoreKey
    <3>3. AuditedAccounts(u) = AuditedAccounts(t)
      BY <3>1, <3>2 DEF AuditedAccounts
    <3>4. Len(u.proctran) = Cardinality(AuditedAccounts(u)) + 0
      BY <1>5, <2>1, <3>1, <3>3
    <3>5. DelcusKnows(r, c, "delcus_audit", u)
      BY <1>5, <2>1, <2>2, <2>3, <3>1, <3>2, <3>3, <3>4 DEF DelcusKnows
    <3>6. pc[r] \notin Ended /\ "delcus_audit" \notin Ended
      BY <1>4, <2>1 DEF Ended
    <3>7. Knows(r, c, "delcus_audit", u)
      BY <1>3, <1>4, <2>1, <3>5
    <3>8. QED
      BY <2>2, <2>4, <3>6, <3>7, StatementMoves DEF Banks
  <2>5. CASE a \notin DOMAIN account
    <3> DEFINE u == [tx[r] EXCEPT !.queue = @ \ {a}]
    <3>1. /\ u.held = t.held /\ u.list = t.list /\ u.queue = t.queue \ {a}
          /\ u.proctran = t.proctran
      BY <1>1 DEF IsTransaction, NoTx
    <3>2. AuditedAccounts(u) = AuditedAccounts(t)
      BY <2>3, <3>1 DEF AuditedAccounts
    <3>3. Len(u.proctran) = Cardinality(AuditedAccounts(u)) + 0
      BY <1>5, <2>1, <3>1, <3>2
    <3>4. DelcusKnows(r, c, "delcus_delete", u)
      BY <1>5, <2>1, <2>5, <3>1, <3>2, <3>3 DEF DelcusKnows
    <3>5. pc[r] \notin Ended /\ "delcus_delete" \notin Ended
      BY <1>4, <2>1 DEF Ended
    <3>6. Knows(r, c, "delcus_delete", u)
      BY <1>3, <1>4, <2>1, <3>4
    <3>7. QED
      BY <2>2, <2>5, <3>5, <3>6, StatementMoves DEF Banks
  <2>6. QED
    BY <2>4, <2>5
<1>11. CASE DelcusAuditAccount(r)
  <2>1. pc[r] = "delcus_audit" /\ pc[r] \in LabelsOf["DELCUS"]
    BY <1>11, Labels DEF DelcusAuditAccount
  <2>2. PICK a \in t.queue :
          /\ IsNext(a, t.queue)
          /\ Statement(r, "delcus_delete",
               [tx[r] EXCEPT !.queue = @ \ {a},
                             !.proctran = Append(@, Audit(r, "ODA", t.list[a].actual))])
    BY <1>11 DEF DelcusAuditAccount
  <2> DEFINE S == AuditedAccounts(t)
             row == Audit(r, "ODA", t.list[a].actual)
             longer == Append(t.proctran, row)
             u == [tx[r] EXCEPT !.queue = @ \ {a}, !.proctran = Append(@, row)]
  <2>3. /\ u.held = t.held /\ u.list = t.list /\ u.queue = t.queue \ {a}
        /\ u.proctran = longer
    BY <1>1 DEF IsTransaction, NoTx
  <2>4. t.queue \subseteq Nat /\ t.queue \subseteq DOMAIN t.list
    BY <1>1, <1>4, <2>1 DEF DelcusHolds, IsTransaction
  <2>5. a \in KeysOf(2, t.held)
    <3>1. PICK b \in t.queue : IsNext(b, t.queue) /\ b \in KeysOf(2, t.held)
      BY <1>4, <2>1 DEF DelcusKnows
    <3>2. a = b
      BY <2>2, <2>4, <3>1 DEF IsNext
    <3>3. QED
      BY <3>1, <3>2
  <2>6. \A b \in S : b < a
    <3>1. \A b \in KeysOf(2, t.held) : b <= a
      BY <1>4, <2>1 DEF DelcusHolds, KeysOf
    <3>2. QED
      BY <1>5, <2>1, <2>4, <3>1 DEF AuditedAccounts
  <2>7. AuditedAccounts(u) = S \cup {a}
    BY <2>3, <2>5 DEF AuditedAccounts
  <2>8. row \in AuditRow
    BY <1>1, <2>4 DEF Audit, AuditRow, IsAccountTable, AccountRow, TranTypes
  <2>9. /\ AuditsInOrder(r, longer, t.list, S \cup {a})
        /\ Len(longer) = Cardinality(S \cup {a})
        /\ Cardinality(S \cup {a}) \in Nat
    <3>1. /\ IsFiniteSet(S) /\ S \subseteq Int /\ a \in Int
          /\ AuditsInOrder(r, t.proctran, t.list, S) /\ Len(t.proctran) = Cardinality(S)
          /\ t.proctran \in Seq(AuditRow)
      BY <1>1, <1>5, <2>1, <2>4
    <3>2. QED
      BY <2>6, <2>8, <3>1, AuditsGrow, Zenon
  <2>10. Len(u.proctran) = Cardinality(AuditedAccounts(u)) + 0
    <3>1. Len(u.proctran) = Cardinality(AuditedAccounts(u))
          /\ Cardinality(AuditedAccounts(u)) \in Nat
      BY <2>3, <2>7, <2>9, Zenon
    <3>2. QED
      BY <3>1
  <2>11. AuditsInOrder(r, u.proctran, u.list, AuditedAccounts(u))
    BY <2>3, <2>7, <2>9
  <2>12. \A b \in DOMAIN u.list :
           b \in u.queue \/ b \in KeysOf(2, u.held) \/ b \notin DOMAIN account
    BY <1>5, <2>1, <2>3, <2>5
  <2>13. DelcusKnows(r, c, "delcus_delete", u)
    BY <1>5, <2>1, <2>3, <2>10, <2>11, <2>12 DEF DelcusKnows
  <2>14. pc[r] \notin Ended /\ "delcus_delete" \notin Ended
    BY <1>4, <2>1 DEF Ended
  <2>15. Knows(r, c, "delcus_delete", u)
    BY <1>3, <1>4, <2>1, <2>13
  <2>16. QED
    BY <2>2, <2>14, <2>15, StatementMoves DEF Banks
<1>12. CASE DelcusDeleteCustomer(r)
  <2> DEFINE u == [tx[r] EXCEPT !.customer = Without(@, n)]
  <2>1. pc[r] = "delcus_delete" /\ pc[r] \in LabelsOf["DELCUS"] /\ t.queue = {}
    BY <1>12, Labels DEF DelcusDeleteCustomer
  <2>2. CASE FirstPage(n) # t.list
    BY <1>4, <1>12, <2>1, <2>2, RetryBanks DEF DelcusDeleteCustomer
  <2>3. CASE FirstPage(n) = t.list /\ AccountsOf(n) \subseteq KeysOf(2, t.held)
    <3>1. Statement(r, "delcus_proctran", u)
      BY <1>12, <2>3 DEF DelcusDeleteCustomer
    <3>2. /\ u.held = t.held /\ u.list = t.list /\ u.queue = {}
          /\ u.proctran = t.proctran /\ u.customer = Without(t.customer, n)
      BY <1>1, <2>1 DEF IsTransaction, NoTx
    <3>3. DOMAIN u.customer = {}
      BY <1>4, <2>1, <3>2 DEF DelcusHolds, Without
    <3>4. AuditedAccounts(u) = AuditedAccounts(t)
      BY <2>1, <3>2 DEF AuditedAccounts
    <3>5. Len(u.proctran) = Cardinality(AuditedAccounts(u)) + 0
      BY <1>5, <2>1, <3>2, <3>4
    <3>6. DelcusKnows(r, c, "delcus_proctran", u)
      BY <1>5, <2>1, <3>2, <3>3, <3>4, <3>5 DEF DelcusKnows
    <3>7. pc[r] \notin Ended /\ "delcus_proctran" \notin Ended
      BY <1>4, <2>1 DEF Ended
    <3>8. Knows(r, c, "delcus_proctran", u)
      BY <1>3, <1>4, <2>1, <3>6
    <3>9. QED
      BY <3>1, <3>7, <3>8, StatementMoves DEF Banks
  <2>4. CASE FirstPage(n) = t.list /\ ~(AccountsOf(n) \subseteq KeysOf(2, t.held))
    <3>1. Refuse(r, Abend("WPV7")) /\ Abend("WPV7") \in Replies
      BY <1>12, <2>4, ErrorReplies DEF DelcusDeleteCustomer
    <3>2. PICK a \in AccountsOf(n) : a \notin KeysOf(2, t.held)
      BY <2>4
    <3>3. a \notin DOMAIN FirstPage(n)
      BY <1>5, <2>1, <2>4, <3>2 DEF AccountsOf
    <3>4. Justified(r, Abend("WPV7"))
      BY <1>2, <1>4, <2>1, <3>3, PageIsFull, RemovalJustified
    <3>5. QED
      BY <1>4, <2>1, <3>1, <3>4, RefusalIsTrue DEF Banks
  <2>5. QED
    BY <2>2, <2>3, <2>4
<1>13. CASE DelcusProctran(r)
  <2> DEFINE row == Audit(r, "ODC", 0)
             u == [tx[r] EXCEPT !.proctran = Append(@, row)]
  <2>1. pc[r] = "delcus_proctran" /\ pc[r] \in LabelsOf["DELCUS"]
        /\ Statement(r, "commit", u)
    BY <1>13, Labels DEF DelcusProctran, InsertProctran
  <2>2. /\ u.held = t.held /\ u.list = t.list /\ u.queue = t.queue
        /\ u.customer = t.customer /\ u.proctran = Append(t.proctran, row)
    BY <1>1 DEF IsTransaction, NoTx
  <2>3. row \in AuditRow
    BY BoundsAssumption DEF Audit, AuditRow, TranTypes, Money
  <2>4. /\ Len(u.proctran) = Len(t.proctran) + 1
        /\ u.proctran[Len(u.proctran)] = row
    BY <1>1, <2>2, <2>3, AppendProperties
  <2>5. AuditedAccounts(u) = AuditedAccounts(t)
    BY <2>2 DEF AuditedAccounts
  <2>6. AuditsInOrder(r, u.proctran, u.list, AuditedAccounts(u))
    BY <1>1, <1>5, <2>1, <2>2, <2>3, <2>5, AuditsStay
  <2>7. Len(u.proctran) = Cardinality(AuditedAccounts(u)) + 1
    BY <1>5, <2>1, <2>4, <2>5
  <2>8. t.queue = {} /\ DOMAIN t.customer = {}
    BY <1>4, <2>1 DEF DelcusKnows
  <2>9. DelcusKnows(r, c, "commit", u)
    BY <1>5, <2>1, <2>2, <2>4, <2>5, <2>6, <2>7, <2>8 DEF DelcusKnows
  <2>10. pc[r] \notin Ended /\ "commit" \notin Ended
    BY <1>4, <2>1 DEF Ended
  <2>11. Knows(r, c, "commit", u)
    BY <1>3, <1>4, <2>1, <2>9
  <2>12. QED
    BY <2>1, <2>10, <2>11, StatementMoves DEF Banks
<1>14. QED
  BY <1>6, <1>7, <1>8, <1>9, <1>10, <1>11, <1>12, <1>13 DEF DelcusStep

-----------------------------------------------------------------------------
(* What the database and the clients do to a request.                      *)

\* A request is dropped before its COMMIT, or by a COMMIT that was not applied.
Drops(r) ==
  /\ pc[r] \notin Ended /\ MaxFaults > 0
  /\ pc' = [pc EXCEPT ![r] = "lost"] /\ tx' = [tx EXCEPT ![r] = NoTx]
  /\ UNCHANGED <<tables, cmd, reply>>

\* A COMMIT that is applied; the client may hear UNEX, or nothing.
Commits(r) ==
  /\ Installs(r)
  /\ \/ pc' = [pc EXCEPT ![r] = "done"] /\ reply' = [reply EXCEPT ![r] = Success]
     \/ /\ MaxFaults > 0
        /\ \/ pc' = [pc EXCEPT ![r] = "done"] /\ reply' = [reply EXCEPT ![r] = UNEX]
           \/ pc' = [pc EXCEPT ![r] = "lost"] /\ UNCHANGED reply

\* The bank's replies are the service's.
LEMMA SameReplies ==
  /\ \A code : AtomicBank!Abend(code) = Abend(code) /\ AtomicBank!Fail(code) = Fail(code)
  /\ AtomicBank!Replies = Replies /\ AtomicBank!None = None
  /\ AtomicBank!Success = Success /\ AtomicBank!UNEX = UNEX
<1>1. \A code : AtomicBank!Abend(code) = Abend(code) /\ AtomicBank!Fail(code) = Fail(code)
  BY DEF AtomicBank!Abend, Abend, AtomicBank!Fail, Fail
<1>2. /\ AtomicBank!None = None /\ AtomicBank!Success = Success
      /\ AtomicBank!Invalid = Invalid /\ AtomicBank!UNEX = UNEX
      /\ AtomicBank!FailCodes = FailCodes /\ AtomicBank!AbendCodes = AbendCodes
  BY <1>1 DEF AtomicBank!None, None, AtomicBank!Success, Success, AtomicBank!Invalid,
     Invalid, AtomicBank!UNEX, UNEX, AtomicBank!FailCodes, FailCodes,
     AtomicBank!AbendCodes, AbendCodes
<1>3. AtomicBank!Replies = Replies
  BY <1>1, <1>2 DEF AtomicBank!Replies, Replies
<1>4. QED
  BY <1>1, <1>2, <1>3

\* Each program answers a database error with a reply that blames the database.
LEMMA ErrorsBlame ==
  /\ \A p \in DOMAIN XfrfunErrors :
       XfrfunErrors[p] \subseteq AtomicBank!Breakdowns["XFRFUN"] \cup {HWPT}
  /\ \A p \in DOMAIN DbcrfunErrors :
       DbcrfunErrors[p] \subseteq AtomicBank!Breakdowns["DBCRFUN"] \cup {HWPT}
  /\ \A p \in DOMAIN UpdaccErrors :
       UpdaccErrors[p] \subseteq AtomicBank!Breakdowns["UPDACC"] \cup {HWPT}
  /\ \A p \in DOMAIN DelaccErrors :
       DelaccErrors[p] \subseteq AtomicBank!Breakdowns["DELACC"] \cup {HWPT}
  /\ \A p \in DOMAIN UpdcustErrors :
       UpdcustErrors[p] \subseteq AtomicBank!Breakdowns["UPDCUST"] \cup {HWPT}
  /\ \A p \in DOMAIN DelcusErrors :
       DelcusErrors[p] \subseteq AtomicBank!Breakdowns["DELCUS"] \cup {HWPT}
  /\ \A p \in DOMAIN CreaccErrors :
       CreaccErrors[p] \subseteq AtomicBank!Breakdowns["CREACC"] \cup {HWPT}
  /\ \A p \in DOMAIN CrecustErrors :
       CrecustErrors[p] \subseteq AtomicBank!Breakdowns["CRECUST"] \cup {HWPT}
<1>1. /\ AtomicBank!Breakdowns["XFRFUN"] = {Abend("FROM"), Abend("TO  ")}
      /\ AtomicBank!Breakdowns["DBCRFUN"] = {Abend("HRAC"), Abend("HUAC")}
      /\ AtomicBank!Breakdowns["UPDACC"] = {Abend("HRAC"), Abend("HUAC")}
      /\ AtomicBank!Breakdowns["DELACC"] = {Abend("HRAC"), Fail("3")}
      /\ AtomicBank!Breakdowns["UPDCUST"] = {Fail("2"), Fail("3")}
      /\ AtomicBank!Breakdowns["DELCUS"] = {Abend("WPV6"), Abend("WPV7")}
      /\ AtomicBank!Breakdowns["CREACC"]
           = {Abend("CVR1"), Abend("HACU"), Abend("HNCS"), Fail("7")}
      /\ AtomicBank!Breakdowns["CRECUST"] = {Fail("3"), Fail("1")}
  BY SameReplies DEF AtomicBank!Breakdowns
<1>2. \A p \in DOMAIN XfrfunErrors :
        XfrfunErrors[p] \subseteq {Abend("FROM"), Abend("TO  "), HWPT}
  <2>1. /\ XfrfunErrors["xfr_from"] = {Abend("FROM")}
        /\ XfrfunErrors["xfr_to"] = {Abend("TO  ")}
        /\ XfrfunErrors["xfr_debit"] = {Abend("FROM")}
        /\ XfrfunErrors["xfr_credit"] = {Abend("TO  ")}
        /\ XfrfunErrors["xfr_proctran"] = {HWPT}
        /\ DOMAIN XfrfunErrors =
             {"xfr_from", "xfr_to", "xfr_debit", "xfr_credit", "xfr_proctran"}
    BY DEF XfrfunErrors
  <2>2. QED
    BY <2>1
<1>3. \A p \in DOMAIN DbcrfunErrors :
        DbcrfunErrors[p] \subseteq {Abend("HRAC"), Abend("HUAC"), HWPT}
  BY DEF DbcrfunErrors
<1>4. \A p \in DOMAIN UpdaccErrors :
        UpdaccErrors[p] \subseteq {Abend("HRAC"), Abend("HUAC"), HWPT}
  BY DEF UpdaccErrors
<1>5. \A p \in DOMAIN DelaccErrors :
        DelaccErrors[p] \subseteq {Abend("HRAC"), Fail("3"), HWPT}
  BY DEF DelaccErrors
<1>6. \A p \in DOMAIN UpdcustErrors :
        UpdcustErrors[p] \subseteq {Fail("2"), Fail("3"), HWPT}
  BY DEF UpdcustErrors
<1>7. \A p \in DOMAIN DelcusErrors :
        DelcusErrors[p] \subseteq {Abend("WPV6"), Abend("WPV7"), HWPT}
  BY DEF DelcusErrors
<1>8. \A p \in DOMAIN CreaccErrors :
        CreaccErrors[p] \subseteq {Abend("CVR1"), Abend("HACU"), Abend("HNCS"), Fail("7"),
                                   HWPT}
  BY DEF CreaccErrors
<1>9. \A p \in DOMAIN CrecustErrors :
        CrecustErrors[p] \subseteq {Fail("3"), Fail("1"), HWPT}
  BY DEF CrecustErrors
<1>10. \A p \in DOMAIN XfrfunErrors :
        XfrfunErrors[p] \subseteq AtomicBank!Breakdowns["XFRFUN"] \cup {HWPT}
  BY <1>1, <1>2
<1>11. \A p \in DOMAIN DbcrfunErrors :
        DbcrfunErrors[p] \subseteq AtomicBank!Breakdowns["DBCRFUN"] \cup {HWPT}
  BY <1>1, <1>3
<1>12. \A p \in DOMAIN UpdaccErrors :
        UpdaccErrors[p] \subseteq AtomicBank!Breakdowns["UPDACC"] \cup {HWPT}
  BY <1>1, <1>4
<1>13. \A p \in DOMAIN DelaccErrors :
        DelaccErrors[p] \subseteq AtomicBank!Breakdowns["DELACC"] \cup {HWPT}
  BY <1>1, <1>5
<1>14. \A p \in DOMAIN UpdcustErrors :
        UpdcustErrors[p] \subseteq AtomicBank!Breakdowns["UPDCUST"] \cup {HWPT}
  BY <1>1, <1>6
<1>15. \A p \in DOMAIN DelcusErrors :
        DelcusErrors[p] \subseteq AtomicBank!Breakdowns["DELCUS"] \cup {HWPT}
  BY <1>1, <1>7
<1>16. \A p \in DOMAIN CreaccErrors :
        CreaccErrors[p] \subseteq AtomicBank!Breakdowns["CREACC"] \cup {HWPT}
  BY <1>1, <1>8
<1>17. \A p \in DOMAIN CrecustErrors :
        CrecustErrors[p] \subseteq AtomicBank!Breakdowns["CRECUST"] \cup {HWPT}
  BY <1>1, <1>9
<1>18. QED
  BY <1>10, <1>11, <1>12, <1>13, <1>14, <1>15, <1>16, <1>17

\* A fault of which there may be one.
LEMMA FaultsAllowed ==
  ASSUME LocalInvariant, faults < MaxFaults
  PROVE  MaxFaults > 0
BY BoundsAssumption DEF LocalInvariant, TypeOK

\* The reply to a database error blames the database.
LEMMA StatementErrorBanks ==
  ASSUME LocalInvariant, NEW r \in Requests, NEW errors, StatementError(r, errors),
         pc[r] \notin Ended,
         \A p \in DOMAIN errors : errors[p] \subseteq Replies,
         errors[pc[r]] \subseteq AtomicBank!Breakdowns[cmd[r].prog] \cup {HWPT}
  PROVE  Banks(r)
<1>1. PICK rep \in errors[pc[r]] : Answer(r, rep)
  BY DEF StatementError
<1>2. MaxFaults > 0
  BY FaultsAllowed DEF StatementError
<1>3. rep \in Replies /\ Justified(r, rep)
  BY <1>1, <1>2, BlamesJustified DEF StatementError
<1>4. QED
  BY <1>1, <1>3 DEF AnswersTruly, Banks

\* An error at a statement of one of the programs.
LEMMA DatabaseErrorBanks ==
  ASSUME LocalInvariant, NEW r \in Requests, DatabaseError(r)
  PROVE  Banks(r)
<1> USE DEF LabelsOf
<1>1. cmd[r] \in Commands /\ pc[r] \in LabelsOf[cmd[r].prog] \cup SharedLabels
  BY Facts
<1>2. \A prog \in DOMAIN LabelsOf : pc[r] \in LabelsOf[prog] => pc[r] \notin Ended
  BY Labels DEF Ended
<1>3. CASE StatementError(r, XfrfunErrors)
  <2>1. cmd[r].prog = "XFRFUN" /\ pc[r] \notin Ended /\ pc[r] \in DOMAIN XfrfunErrors
    BY <1>1, <1>2, <1>3, ProgramOfLabel DEF StatementError
  <2>2. QED
    BY <1>3, <2>1, ErrorsTyped, ErrorsBlame, StatementErrorBanks
<1>4. CASE StatementError(r, DbcrfunErrors)
  <2>1. cmd[r].prog = "DBCRFUN" /\ pc[r] \notin Ended /\ pc[r] \in DOMAIN DbcrfunErrors
    BY <1>1, <1>2, <1>4, ProgramOfLabel DEF StatementError
  <2>2. QED
    BY <1>4, <2>1, ErrorsTyped, ErrorsBlame, StatementErrorBanks
<1>5. CASE StatementError(r, UpdaccErrors)
  <2>1. cmd[r].prog = "UPDACC" /\ pc[r] \notin Ended /\ pc[r] \in DOMAIN UpdaccErrors
    BY <1>1, <1>2, <1>5, ProgramOfLabel DEF StatementError
  <2>2. QED
    BY <1>5, <2>1, ErrorsTyped, ErrorsBlame, StatementErrorBanks
<1>6. CASE StatementError(r, DelaccErrors)
  <2>1. cmd[r].prog = "DELACC" /\ pc[r] \notin Ended /\ pc[r] \in DOMAIN DelaccErrors
    BY <1>1, <1>2, <1>6, ProgramOfLabel DEF StatementError
  <2>2. QED
    BY <1>6, <2>1, ErrorsTyped, ErrorsBlame, StatementErrorBanks
<1>7. CASE StatementError(r, UpdcustErrors)
  <2>1. cmd[r].prog = "UPDCUST" /\ pc[r] \notin Ended /\ pc[r] \in DOMAIN UpdcustErrors
    BY <1>1, <1>2, <1>7, ProgramOfLabel DEF StatementError
  <2>2. QED
    BY <1>7, <2>1, ErrorsTyped, ErrorsBlame, StatementErrorBanks
<1>8. CASE StatementError(r, DelcusErrors)
  <2>1. cmd[r].prog = "DELCUS" /\ pc[r] \notin Ended /\ pc[r] \in DOMAIN DelcusErrors
    BY <1>1, <1>2, <1>8, ProgramOfLabel DEF StatementError
  <2>2. QED
    BY <1>8, <2>1, ErrorsTyped, ErrorsBlame, StatementErrorBanks
<1>9. CASE StatementError(r, CreaccErrors)
  <2>1. cmd[r].prog = "CREACC" /\ pc[r] \notin Ended /\ pc[r] \in DOMAIN CreaccErrors
    BY <1>1, <1>2, <1>9, ProgramOfLabel DEF StatementError
  <2>2. QED
    BY <1>9, <2>1, ErrorsTyped, ErrorsBlame, StatementErrorBanks
<1>10. CASE StatementError(r, CrecustErrors)
  <2>1. cmd[r].prog = "CRECUST" /\ pc[r] \notin Ended /\ pc[r] \in DOMAIN CrecustErrors
    BY <1>1, <1>2, <1>10, ProgramOfLabel DEF StatementError
  <2>2. QED
    BY <1>10, <2>1, ErrorsTyped, ErrorsBlame, StatementErrorBanks
<1>11. QED
  BY <1>3, <1>4, <1>5, <1>6, <1>7, <1>8, <1>9, <1>10 DEF DatabaseError

\* Contention in the inquiries of CREACC has a reply the bank may give as well.
LEMMA ContentionBanks ==
  ASSUME LocalInvariant, NEW r \in Requests, CreaccSerializationFailure(r)
  PROVE  Banks(r)
<1> DEFINE rep == CreaccContention[pc[r]]
<1>1. pc[r] \in {"creacc_inqcust", "creacc_inqacccu"} /\ Answer(r, rep)
  BY DEF CreaccSerializationFailure, CreaccContention, Refuse
<1>2. cmd[r].prog = "CREACC"
  <2>1. cmd[r] \in Commands /\ pc[r] \in LabelsOf[cmd[r].prog] \cup SharedLabels
    BY Facts
  <2>2. pc[r] \in LabelsOf["CREACC"]
    BY <1>1 DEF LabelsOf, CreaccErrors
  <2>3. QED
    BY <2>1, <2>2, ProgramOfLabel
<1>3. rep \in Replies /\ rep \in {Abend("CVR1"), XRTY}
  BY ContentionReplies DEF CreaccSerializationFailure
<1>4. Justified(r, rep)
  BY <1>2, <1>3, BlamesJustified
<1>5. QED
  BY <1>1, <1>3, <1>4 DEF AnswersTruly, Banks, Ended

\* Every step of a request does what the bank may do, or nothing it would see.
LEMMA StepBanks ==
  ASSUME BankInvariant, NEW r \in Requests, Progress(r) \/ Trouble(r)
  PROVE  Banks(r) \/ Drops(r) \/ Commits(r)
<1>1. LocalInvariant /\ EachKnows /\ NumbersWereIssued
  BY DEF BankInvariant, SharedInvariant
<1>2. CASE ProgramStep(r)
  BY <1>1, <1>2, XfrfunBanks, DbcrfunBanks, UpdaccBanks, DelaccBanks, UpdcustBanks,
     DelcusBanks, CreaccBanks, CrecustBanks DEF ProgramStep
<1>3. CASE Commit(r)
  BY <1>3 DEF Commit, Commits, Installs
<1>4. CASE CommitConflict(r) \/ SerializationFailure(r)
  <2>1. RetryOrGiveUp(r) /\ pc[r] \notin Ended
    BY <1>4 DEF CommitConflict, SerializationFailure, InTransaction, Running, Ended
  <2>2. QED
    BY <1>1, <2>1, RetryBanks
<1>5. CASE DatabaseError(r)
  BY <1>1, <1>5, DatabaseErrorBanks
<1>6. ASSUME Answer(r, UNEX), faults < MaxFaults, pc[r] \notin Ended
      PROVE  Banks(r)
  <2>1. Justified(r, UNEX) /\ UNEX \in Replies
    BY <1>1, <1>6, FaultsAllowed, BlamesJustified, ErrorReplies
  <2>2. QED
    BY <1>6, <2>1 DEF AnswersTruly, Banks
<1>7. CASE BeginError(r)
  BY <1>6, <1>7 DEF BeginError, Ended
<1>8. CASE Abandon(r)
  BY <1>1, <1>8, FaultsAllowed DEF Abandon, Running, Drops, Ended
<1>9. CASE CommitLost(r)
  <2>1. MaxFaults > 0 /\ pc[r] = "commit" /\ pc[r] \notin Ended
    BY <1>1, <1>9, FaultsAllowed DEF CommitLost, Ended
  <2>2. CASE ReadsStillValid(r) /\ Install(r)
    BY <1>9, <2>1, <2>2 DEF CommitLost, Commits, Installs
  <2>3. CASE UNCHANGED tables
    <3>1. CASE pc' = [pc EXCEPT ![r] = "done"] /\ reply' = [reply EXCEPT ![r] = UNEX]
      BY <1>6, <1>9, <2>1, <2>3, <3>1 DEF CommitLost, Answer
    <3>2. CASE pc' = [pc EXCEPT ![r] = "lost"] /\ UNCHANGED reply
      BY <1>9, <2>1, <2>3, <3>2 DEF CommitLost, Drops
    <3>3. QED
      BY <1>9, <3>1, <3>2 DEF CommitLost
  <2>4. QED
    BY <1>9, <2>2, <2>3 DEF CommitLost
<1>10. CASE CreaccSerializationFailure(r)
  BY <1>1, <1>10, ContentionBanks
<1>11. QED
  BY <1>2, <1>3, <1>4, <1>5, <1>7, <1>8, <1>9, <1>10 DEF Progress, Trouble

-----------------------------------------------------------------------------
(* One lemma per program again: a COMMIT that is applied is the effect of  *)
(* the command on the tables of that moment.                               *)

\* Nothing is installed by a transaction that holds nothing of a table.
LEMMA MergeNothing ==
  ASSUME NEW base, NEW own, NEW S, base \in [DOMAIN base -> S], DOMAIN own = {}
  PROVE  Merge(base, own, {}) = base
BY DEF Merge

\* The keys of a transaction that holds accounts only.
LEMMA AccountKeysHeld ==
  ASSUME NEW t, NEW S, t.held = {AccountKey(a) : a \in S}
  PROVE  KeysOf(2, t.held) = S /\ KeysOf(1, t.held) = {} /\ ControlKey \notin t.held
<1>1. \A k \in t.held : k[1] = 2 /\ k[2] \in S
  BY DEF AccountKey
<1>2. \A a \in S : AccountKey(a) \in t.held /\ AccountKey(a)[1] = 2 /\ AccountKey(a)[2] = a
  BY DEF AccountKey
<1>3. KeysOf(2, t.held) = S
  BY <1>1, <1>2 DEF KeysOf
<1>4. KeysOf(1, t.held) = {}
  BY <1>1 DEF KeysOf
<1>5. ControlKey \notin t.held
  BY <1>1 DEF ControlKey
<1>6. QED
  BY <1>3, <1>4, <1>5

\* What a program that writes accounts it locked installs.
LEMMA InstallAccounts ==
  ASSUME LocalInvariant, NEW r \in Requests, Installs(r),
         DOMAIN tx[r].account \subseteq DOMAIN account,
         HoldsAccounts(tx[r], DOMAIN tx[r].account)
  PROVE  /\ customer' = customer /\ control' = control
         /\ account' = [k \in DOMAIN account |->
                          IF k \in DOMAIN tx[r].account THEN tx[r].account[k] ELSE account[k]]
         /\ proctran' = proctran \o tx[r].proctran
<1> DEFINE t == tx[r]
           S == DOMAIN t.account
<1>1. KeysOf(2, t.held) = S /\ KeysOf(1, t.held) = {} /\ ControlKey \notin t.held
  BY AccountKeysHeld DEF HoldsAccounts
<1>2. /\ customer' = Merge(customer, t.customer, KeysOf(1, t.held))
      /\ account' = Merge(account, t.account, KeysOf(2, t.held))
      /\ control' = IF ControlKey \in t.held THEN t.control ELSE control
      /\ proctran' = proctran \o t.proctran
  BY DEF Installs, Install
<1>3. customer' = customer
  BY <1>1, <1>2, Facts, MergeNothing DEF HoldsAccounts, IsCustomerTable
<1>4. account' = Merge(account, t.account, S) /\ DOMAIN t.account = S
  BY <1>1, <1>2 DEF HoldsAccounts
<1>5. QED
  BY <1>1, <1>2, <1>3, <1>4 DEF Merge

\* What a program that writes one customer it locked installs.
LEMMA InstallCustomer ==
  ASSUME LocalInvariant, NEW r \in Requests, Installs(r), NEW n \in DOMAIN customer,
         HoldsCustomer(tx[r], n)
  PROVE  /\ UNCHANGED <<account, control>>
         /\ customer' = [customer EXCEPT ![n] = tx[r].customer[n]]
         /\ proctran' = proctran \o tx[r].proctran
<1> DEFINE t == tx[r]
<1>1. KeysOf(1, t.held) = {n} /\ KeysOf(2, t.held) = {} /\ ControlKey \notin t.held
  <2>1. t.held = {<<1, n>>}
    BY DEF HoldsCustomer, CustomerKey
  <2>2. {h \in t.held : h[1] = 1} = {<<1, n>>} /\ \A h \in t.held : h[1] # 2
    BY <2>1
  <2>3. KeysOf(1, t.held) = {n}
    <3>1. {k[2] : k \in {<<1, n>>}} = {n}
      OBVIOUS
    <3>2. QED
      BY <2>2, <3>1, Zenon DEF KeysOf
  <2>4. KeysOf(2, t.held) = {}
    <3>1. {h \in t.held : h[1] = 2} = {}
      BY <2>2
    <3>2. QED
      BY <3>1 DEF KeysOf
  <2>5. ControlKey \notin t.held
    BY <2>1 DEF ControlKey
  <2>6. QED
    BY <2>3, <2>4, <2>5
<1>2. /\ customer' = Merge(customer, t.customer, KeysOf(1, t.held))
      /\ account' = Merge(account, t.account, KeysOf(2, t.held))
      /\ control' = IF ControlKey \in t.held THEN t.control ELSE control
      /\ proctran' = proctran \o t.proctran
  BY DEF Installs, Install
<1>3. account' = account
  BY <1>1, <1>2, Facts, MergeNothing DEF HoldsCustomer, IsAccountTable
<1>4. customer' = Merge(customer, t.customer, {n}) /\ DOMAIN t.customer = {n}
  BY <1>1, <1>2 DEF HoldsCustomer
<1>5. customer \in [DOMAIN customer -> CustomerRow]
  BY Facts DEF IsCustomerTable
<1>6. QED
  BY <1>1, <1>2, <1>3, <1>4, <1>5 DEF Merge

\* What a request at COMMIT knows, holds and has audited.
LEMMA AtCommit ==
  ASSUME BankInvariant, NEW r \in Requests, Installs(r)
  PROVE  /\ LocalInvariant /\ cmd[r] \in Commands /\ IsTransaction(tx[r])
         /\ IsAccountTable(account) /\ IsCustomerTable(customer) /\ control \in Control
         /\ Placed(cmd[r], "commit", attempts[r], tx[r]) /\ Accepted(cmd[r])
         /\ Knows(r, cmd[r], "commit", tx[r])
         /\ ReadsStillValid(r)
         /\ cmd[r].prog # "DELCUS" =>
              tx[r].proctran = AtomicBank!Entry(r, MainType(cmd[r]), MainAmount(cmd[r]))
<1>1. LocalInvariant /\ EachKnows /\ pc[r] = "commit"
  BY DEF BankInvariant, SharedInvariant, Installs
<1>2. Knows(r, cmd[r], "commit", tx[r]) /\ Placed(cmd[r], "commit", attempts[r], tx[r])
  BY <1>1, AtLabel
<1>3. cmd[r].prog # "DELCUS" =>
        tx[r].proctran = AtomicBank!Entry(r, MainType(cmd[r]), MainAmount(cmd[r]))
  BY <1>2 DEF Knows, AuditedLast, AtomicBank!Entry, AtomicBank!Audit, Audit
<1>4. Accepted(cmd[r])
  BY <1>2 DEF Placed
<1>5. QED
  BY <1>1, <1>2, <1>3, <1>4, Facts DEF Installs

\* XFRFUN.
LEMMA TransferTakesEffect ==
  ASSUME BankInvariant, NEW r \in Requests, Installs(r), cmd[r].prog = "XFRFUN"
  PROVE  AtomicBank!Transfer(r, cmd[r])
<1> DEFINE c == cmd[r]
           t == tx[r]
<1>1. /\ LocalInvariant /\ c \in XfrfunCommands /\ IsAccountTable(account)
      /\ HoldsAccounts(t, {c.from, c.to}) /\ XfrfunKnows(c, "commit", t)
      /\ XfrfunRejection(c) = None
      /\ t.proctran = AtomicBank!Entry(r, "TFR", c.amount)
  BY AtCommit, CommandFields DEF Placed, XfrfunHolds, Knows, Accepted, MainType, MainAmount
<1>2. c.from \in Nat /\ c.to \in Nat /\ c.amount \in Int
  BY <1>1 DEF XfrfunCommands
<1>3. c.from # c.to /\ c.amount > 0
  <2>1. Invalid # None /\ Fail("4") # None /\ Abend("SAME") # None
    BY DEF None, Fail, Abend, Invalid
  <2>2. QED
    BY <1>1, <1>2, <2>1 DEF XfrfunRejection
<1>4. /\ c.from \in DOMAIN account /\ c.to \in DOMAIN account
      /\ t.account[c.from] = Moved(account[c.from], -c.amount)
      /\ ~Insufficient(t.account[c.from])
      /\ t.account[c.to] = Moved(account[c.to], c.amount)
      /\ Representable(t.account[c.to])
  BY <1>1 DEF XfrfunKnows
<1>5. /\ UNCHANGED <<customer, control>>
      /\ DOMAIN t.account = {c.from, c.to}
      /\ account' = [k \in DOMAIN account |-> IF k \in DOMAIN t.account THEN t.account[k]
                                                                       ELSE account[k]]
      /\ proctran' = proctran \o t.proctran
  <2>1. DOMAIN t.account = {c.from, c.to} /\ DOMAIN t.account \subseteq DOMAIN account
    BY <1>1, <1>4 DEF HoldsAccounts
  <2>2. HoldsAccounts(t, DOMAIN t.account)
    BY <1>1, <2>1
  <2>3. QED
    BY <1>1, <2>1, <2>2, InstallAccounts
<1>6. account' = [account EXCEPT ![c.from] = AtomicBank!Moved(@, -c.amount),
                                 ![c.to] = AtomicBank!Moved(@, c.amount)]
  <2>1. /\ t.account[c.from] = AtomicBank!Moved(account[c.from], -c.amount)
        /\ t.account[c.to] = AtomicBank!Moved(account[c.to], c.amount)
    BY <1>4 DEF Moved, AtomicBank!Moved
  <2>2. account \in [DOMAIN account -> AccountRow]
    BY <1>1 DEF IsAccountTable
  <2>3. QED
    BY <1>3, <1>4, <1>5, <2>1, <2>2
<1>7. account'[c.from] = t.account[c.from] /\ account'[c.to] = t.account[c.to]
  BY <1>4, <1>5
<1>8. account'[c.from].available >= 0 /\ account'[c.from].actual >= -account[c.from].overdraft
  <2>1. account[c.from] \in AccountRow
    BY <1>1, <1>4 DEF IsAccountTable
  <2>2. /\ t.account[c.from].available = account[c.from].available - c.amount
        /\ t.account[c.from].actual = account[c.from].actual - c.amount
        /\ t.account[c.from].overdraft = account[c.from].overdraft
        /\ account[c.from].available \in Int /\ account[c.from].actual \in Int
        /\ account[c.from].overdraft \in Int
    BY <1>2, <1>4, <2>1 DEF Moved, AccountRow, Money, Overdrafts
  <2>3. QED
    BY <1>2, <1>4, <1>7, <2>2 DEF Insufficient
<1>9. AtomicBank!Representable(account'[c.to])
  BY <1>4, <1>7 DEF Representable, AtomicBank!Representable, Money, AtomicBank!Money
<1>10. QED
  BY <1>1, <1>3, <1>4, <1>5, <1>6, <1>8, <1>9 DEF AtomicBank!Transfer, AtomicBank!Record

\* DBCRFUN.
LEMMA PostTakesEffect ==
  ASSUME BankInvariant, NEW r \in Requests, Installs(r), cmd[r].prog = "DBCRFUN"
  PROVE  AtomicBank!Post(r, cmd[r])
<1> DEFINE c == cmd[r]
           t == tx[r]
           a == c.account
<1>1. /\ LocalInvariant /\ c \in DbcrfunCommands /\ IsAccountTable(account)
      /\ HoldsAccounts(t, {a}) /\ DbcrfunKnows(c, "commit", t)
      /\ t.proctran = AtomicBank!Entry(r, DbcrfunTranType(c), c.amount)
  BY AtCommit, CommandFields DEF Placed, DbcrfunHolds, Knows, MainType, MainAmount
<1>2. /\ a \in DOMAIN account /\ t.account[a] = Moved(account[a], c.amount)
      /\ Representable(t.account[a])
      /\ ~(c.payment /\ account[a].type \in {"MORTGAGE", "LOAN"})
      /\ ~(c.payment /\ c.amount < 0 /\ t.account[a].available < 0)
  BY <1>1 DEF DbcrfunKnows, RestrictedTypes, Unfunded
<1>3. /\ UNCHANGED <<customer, control>>
      /\ DOMAIN t.account = {a}
      /\ account' = [k \in DOMAIN account |-> IF k \in DOMAIN t.account THEN t.account[k]
                                                                       ELSE account[k]]
      /\ proctran' = proctran \o t.proctran
  <2>1. DOMAIN t.account = {a} /\ DOMAIN t.account \subseteq DOMAIN account
    BY <1>1, <1>2 DEF HoldsAccounts
  <2>2. HoldsAccounts(t, DOMAIN t.account)
    BY <1>1, <2>1
  <2>3. QED
    BY <1>1, <2>1, <2>2, InstallAccounts
<1>4. account' = [account EXCEPT ![a] = AtomicBank!Moved(@, c.amount)]
  <2>1. t.account[a] = AtomicBank!Moved(account[a], c.amount)
    BY <1>2 DEF Moved, AtomicBank!Moved
  <2>2. account \in [DOMAIN account -> AccountRow]
    BY <1>1 DEF IsAccountTable
  <2>3. QED
    BY <1>2, <1>3, <2>1, <2>2
<1>5. account'[a] = t.account[a]
  BY <1>2, <1>3
<1>6. AtomicBank!Representable(account'[a])
  BY <1>2, <1>5 DEF Representable, AtomicBank!Representable, Money, AtomicBank!Money
<1>7. c.payment => /\ account[a].type \notin {"MORTGAGE", "LOAN"}
                   /\ c.amount < 0 => account'[a].available >= 0
  <2>1. t.account[a].available \in Int
    BY <1>2 DEF Representable, Money
  <2>2. QED
    BY <1>2, <1>5, <2>1
<1>8. t.proctran = AtomicBank!Entry(r,
        IF c.amount < 0 THEN IF c.payment THEN "PDR" ELSE "DEB"
                        ELSE IF c.payment THEN "PCR" ELSE "CRE", c.amount)
  BY <1>1 DEF DbcrfunTranType
<1>9. QED
  BY <1>2, <1>3, <1>4, <1>6, <1>7, <1>8 DEF AtomicBank!Post, AtomicBank!Record

\* UPDACC.
LEMMA UpdateAccountTakesEffect ==
  ASSUME BankInvariant, NEW r \in Requests, Installs(r), cmd[r].prog = "UPDACC"
  PROVE  AtomicBank!UpdateAccount(r, cmd[r])
<1> DEFINE c == cmd[r]
           t == tx[r]
           a == c.account
<1>1. /\ LocalInvariant /\ IsAccountTable(account)
      /\ HoldsAccounts(t, {a}) /\ UpdaccKnows(c, "commit", t)
      /\ UpdaccRejection(c) = None
      /\ t.proctran = AtomicBank!Entry(r, "OUA", 0)
  BY AtCommit DEF Placed, UpdaccHolds, Knows, Accepted, MainType, MainAmount
<1>2. /\ a \in DOMAIN account
      /\ t.account[a] = [account[a] EXCEPT !.type = c.type, !.overdraft = c.overdraft]
  BY <1>1 DEF UpdaccKnows
<1>3. c.type # ""
  BY <1>1 DEF UpdaccRejection, None, Fail, Invalid
<1>4. /\ UNCHANGED <<customer, control>>
      /\ DOMAIN t.account = {a}
      /\ account' = [k \in DOMAIN account |-> IF k \in DOMAIN t.account THEN t.account[k]
                                                                       ELSE account[k]]
      /\ proctran' = proctran \o t.proctran
  <2>1. DOMAIN t.account = {a} /\ DOMAIN t.account \subseteq DOMAIN account
    BY <1>1, <1>2 DEF HoldsAccounts
  <2>2. HoldsAccounts(t, DOMAIN t.account)
    BY <1>1, <2>1
  <2>3. QED
    BY <1>1, <2>1, <2>2, InstallAccounts
<1>5. account' = [account EXCEPT ![a].type = c.type, ![a].overdraft = c.overdraft]
  <2>1. account \in [DOMAIN account -> AccountRow]
    BY <1>1 DEF IsAccountTable
  <2>2. QED
    BY <1>2, <1>4, <2>1
<1>6. QED
  BY <1>1, <1>2, <1>3, <1>4, <1>5 DEF AtomicBank!UpdateAccount, AtomicBank!Record

\* DELACC.
LEMMA CloseAccountTakesEffect ==
  ASSUME BankInvariant, NEW r \in Requests, Installs(r), cmd[r].prog = "DELACC"
  PROVE  AtomicBank!CloseAccount(r, cmd[r])
<1> DEFINE c == cmd[r]
           t == tx[r]
           a == c.account
<1>1. /\ LocalInvariant /\ t.held = {AccountKey(a)}
      /\ DOMAIN t.account = {} /\ DOMAIN t.customer = {}
      /\ a \in DOMAIN account
      /\ t.proctran = AtomicBank!Entry(r, "ODA", account[a].actual)
  BY AtCommit DEF Placed, DelaccHolds, Knows, DelaccKnows, MainType, MainAmount
<1>2. KeysOf(2, t.held) = {a} /\ KeysOf(1, t.held) = {} /\ ControlKey \notin t.held
  <2>1. t.held = {AccountKey(x) : x \in {a}}
    BY <1>1
  <2>2. QED
    BY <2>1, AccountKeysHeld, Zenon
<1>3. /\ customer' = Merge(customer, t.customer, {})
      /\ account' = Merge(account, t.account, {a})
      /\ control' = control
      /\ proctran' = proctran \o t.proctran
  BY <1>2 DEF Installs, Install
<1>4. customer' = customer
  BY <1>1, <1>3, Facts, MergeNothing DEF IsCustomerTable
<1>5. account' = AtomicBank!Without(account, a)
  BY <1>1, <1>3 DEF Merge, AtomicBank!Without
<1>6. QED
  BY <1>1, <1>3, <1>4, <1>5 DEF AtomicBank!CloseAccount, AtomicBank!Record

\* UPDCUST.
LEMMA UpdateCustomerTakesEffect ==
  ASSUME BankInvariant, NEW r \in Requests, Installs(r), cmd[r].prog = "UPDCUST"
  PROVE  AtomicBank!UpdateCustomer(r, cmd[r])
<1> DEFINE c == cmd[r]
           t == tx[r]
           n == c.customer
<1>1. /\ LocalInvariant /\ HoldsCustomer(t, n) /\ UpdcustKnows(c, "commit", t)
      /\ customer \in [DOMAIN customer -> CustomerRow]
      /\ t.proctran = AtomicBank!Entry(r, "OUC", 0)
  BY AtCommit DEF Placed, UpdcustHolds, Knows, MainType, MainAmount, IsCustomerTable
<1>2. /\ n \in DOMAIN customer /\ t.customer[n] = ResolvedFields(customer[n], c)
      /\ ~({c.name, c.address} \subseteq BlankishTexts)
  BY <1>1 DEF UpdcustKnows
<1>3. /\ UNCHANGED <<account, control>>
      /\ customer' = [customer EXCEPT ![n] = t.customer[n]]
      /\ proctran' = proctran \o t.proctran
  BY <1>1, <1>2, InstallCustomer
<1>4. customer' =
        [customer EXCEPT
           ![n].name = IF c.name \in BlankishTexts THEN @ ELSE c.name,
           ![n].address = IF c.address \in BlankishTexts THEN @ ELSE c.address]
  <2>1. customer[n] \in CustomerRow
    BY <1>1, <1>2
  <2>2. ResolvedFields(customer[n], c) =
          [customer[n] EXCEPT
             !.name = IF c.name \in BlankishTexts THEN @ ELSE c.name,
             !.address = IF c.address \in BlankishTexts THEN @ ELSE c.address]
    <3> DEFINE row == customer[n]
               name == IF c.name \in BlankishTexts THEN row.name ELSE c.name
               address == IF c.address \in BlankishTexts THEN row.address ELSE c.address
               updated == [row EXCEPT !.name = name, !.address = address]
    <3>1. row.name \in Texts /\ row.address \in Texts /\ c.name \in Texts /\ c.address \in Texts
      BY <1>1, <2>1, AtCommit, CommandFields DEF CustomerRow, UpdcustCommands
    <3>2. name \in Texts /\ address \in Texts
      BY <3>1
    <3> HIDE DEF name, address
    <3>3. /\ updated \in CustomerRow
          /\ updated.name = name /\ updated.address = address
      BY <2>1, <3>2 DEF CustomerRow
    <3> HIDE DEF updated
    <3>4. updated = [name |-> updated.name, address |-> updated.address]
      BY <3>3 DEF CustomerRow
    <3>5. updated = [name |-> name, address |-> address]
      BY <3>3, <3>4
    <3>6. QED
      BY <3>5 DEF ResolvedFields, updated, name, address
  <2>3. QED
    BY <1>1, <1>2, <1>3, <2>2
<1>5. QED
  BY <1>1, <1>2, <1>3, <1>4 DEF AtomicBank!UpdateCustomer, AtomicBank!Record

\* CREACC.
LEMMA OpenAccountTakesEffect ==
  ASSUME BankInvariant, NEW r \in Requests, Installs(r), cmd[r].prog = "CREACC"
  PROVE  AtomicBank!OpenAccount(r, cmd[r])
<1> DEFINE c == cmd[r]
           t == tx[r]
           n == t.control.account_last
<1>1. /\ LocalInvariant /\ CreaccRejection(c) = None
      /\ t.held = {ControlKey, AccountKey(n)} /\ CreaccKnows(c, "commit", t)
      /\ DOMAIN t.account = {n} /\ DOMAIN t.customer = {}
      /\ c.customer \in DOMAIN customer /\ control \in Control
      /\ t.proctran = AtomicBank!Entry(r, "OCA", 0)
  BY AtCommit DEF Placed, CreaccHolds, Knows, Accepted, MainType, MainAmount, ReadsStillValid
<1>2. /\ t.control = [control EXCEPT !.account_count = @ + 1, !.account_last = @ + 1]
      /\ ~Exhausted(n) /\ t.account[n] = NewAccount(c)
  BY <1>1 DEF CreaccKnows
<1>3. n = control.account_last + 1 /\ control.account_last \in Nat
  BY <1>1, <1>2 DEF Control
<1>4. KeysOf(2, t.held) = {n} /\ KeysOf(1, t.held) = {}
  <2>1. t.held = {<<0, 0>>, <<2, n>>}
    BY <1>1 DEF ControlKey, AccountKey
  <2>2. {h \in t.held : h[1] = 2} = {<<2, n>>} /\ {h \in t.held : h[1] = 1} = {}
    BY <2>1
  <2>3. {k[2] : k \in {<<2, n>>}} = {n}
    OBVIOUS
  <2>4. QED
    BY <2>2, <2>3, Zenon DEF KeysOf
<1>5. /\ customer' = Merge(customer, t.customer, {})
      /\ account' = Merge(account, t.account, {n})
      /\ control' = t.control /\ proctran' = proctran \o t.proctran
  BY <1>1, <1>4 DEF Installs, Install
<1>6. customer' = customer
  BY <1>1, <1>5, Facts, MergeNothing DEF IsCustomerTable
<1>7. account' = AtomicBank!Overlay(account, n,
                   [customer |-> c.customer, type |-> c.type, overdraft |-> c.overdraft,
                    available |-> c.available, actual |-> c.actual])
  BY <1>1, <1>2, <1>5 DEF Merge, AtomicBank!Overlay, NewAccount
<1>8. c.customer \notin {0, MaxCustomerNumber}
  BY <1>1 DEF CreaccRejection, ReservedCustomers, None, Fail, Invalid
<1>9. control.account_last < MaxAccountNumber
  BY <1>2, <1>3, BoundsAssumption DEF Exhausted
<1>10. control' = [control EXCEPT !.account_count = @ + 1, !.account_last = @ + 1]
       /\ control'.account_last = n
  BY <1>2, <1>5
<1>11. QED
  BY <1>1, <1>5, <1>6, <1>7, <1>8, <1>9, <1>10 DEF AtomicBank!OpenAccount, AtomicBank!Record

\* CRECUST.
LEMMA AddCustomerTakesEffect ==
  ASSUME BankInvariant, NEW r \in Requests, Installs(r), cmd[r].prog = "CRECUST"
  PROVE  AtomicBank!AddCustomer(r, cmd[r])
<1> DEFINE c == cmd[r]
           t == tx[r]
           n == t.control.customer_last
<1>1. /\ LocalInvariant
      /\ t.held = {ControlKey, CustomerKey(n)} /\ CrecustKnows(c, "commit", t)
      /\ DOMAIN t.customer = {n} /\ DOMAIN t.account = {}
      /\ control \in Control
      /\ t.proctran = AtomicBank!Entry(r, "OCC", 0)
  BY AtCommit DEF Placed, CrecustHolds, Knows, MainType, MainAmount
<1>2. /\ t.control = [control EXCEPT !.customer_count = @ + 1, !.customer_last = @ + 1]
      /\ ~(n > MaxCustomerNumber)
      /\ t.customer[n] = [name |-> c.name, address |-> c.address]
  BY <1>1 DEF CrecustKnows
<1>3. n = control.customer_last + 1 /\ control.customer_last \in Nat
  BY <1>1, <1>2 DEF Control
<1>4. KeysOf(1, t.held) = {n} /\ KeysOf(2, t.held) = {}
  <2>1. t.held = {<<0, 0>>, <<1, n>>}
    BY <1>1 DEF ControlKey, CustomerKey
  <2>2. {h \in t.held : h[1] = 1} = {<<1, n>>} /\ {h \in t.held : h[1] = 2} = {}
    BY <2>1
  <2>3. {k[2] : k \in {<<1, n>>}} = {n}
    OBVIOUS
  <2>4. QED
    BY <2>2, <2>3, Zenon DEF KeysOf
<1>5. /\ customer' = Merge(customer, t.customer, {n})
      /\ account' = Merge(account, t.account, {})
      /\ control' = t.control /\ proctran' = proctran \o t.proctran
  BY <1>1, <1>4 DEF Installs, Install
<1>6. account' = account
  BY <1>1, <1>5, Facts, MergeNothing DEF IsAccountTable
<1>7. customer' = AtomicBank!Overlay(customer, n, [name |-> c.name, address |-> c.address])
  BY <1>1, <1>2, <1>5 DEF Merge, AtomicBank!Overlay
<1>8. control.customer_last < MaxCustomerNumber
  BY <1>2, <1>3, BoundsAssumption
<1>9. control' = [control EXCEPT !.customer_count = @ + 1, !.customer_last = @ + 1]
      /\ control'.customer_last = n
  BY <1>2, <1>5
<1>10. QED
  BY <1>1, <1>5, <1>6, <1>7, <1>8, <1>9 DEF AtomicBank!AddCustomer, AtomicBank!Record

\* Two members of a set of numbers with as many members below them are one.
LEMMA SameRank ==
  ASSUME NEW S, S \subseteq Int, IsFiniteSet(S), NEW a \in S, NEW b \in S,
         Cardinality({x \in S : x < a}) = Cardinality({x \in S : x < b})
  PROVE  a = b
<1>1. ASSUME NEW x \in S, NEW y \in S, x < y
      PROVE  Cardinality({z \in S : z < x}) < Cardinality({z \in S : z < y})
  <2> DEFINE X == {z \in S : z < x}
             Y == {z \in S : z < y}
  <2>1. X \cup {x} \subseteq Y /\ x \notin X
    <3>1. \A z \in X : z \in S /\ z < x /\ x \in Int /\ y \in Int /\ z \in Int
      OBVIOUS
    <3>2. \A z \in X : z \in Y
      BY <1>1, <3>1
    <3>3. x \in Y /\ x \notin X
      BY <1>1
    <3>4. QED
      BY <3>2, <3>3
  <2>2. IsFiniteSet(X) /\ IsFiniteSet(Y)
    BY FS_Subset
  <2>3. Cardinality(X \cup {x}) = Cardinality(X) + 1 /\ Cardinality(X) \in Nat
    BY <2>1, <2>2, FS_AddElement, FS_CardinalityType
  <2>4. Cardinality(X \cup {x}) <= Cardinality(Y) /\ Cardinality(Y) \in Nat
    BY <2>1, <2>2, FS_Subset, FS_CardinalityType
  <2>5. QED
    BY <2>3, <2>4
<1>2. Cardinality({x \in S : x < a}) \in Nat
  <2>1. IsFiniteSet({x \in S : x < a})
    BY FS_Subset
  <2>2. QED
    BY <2>1, FS_CardinalityType
<1>3. ~(a < b) /\ ~(b < a)
  BY <1>1, <1>2
<1>4. QED
  BY <1>3

\* What the bank records when it removes customer n.
RemovalAudits(r, n) ==
  [i \in 1 .. AtomicBank!Cardinality(AtomicBank!AccountsOf(n)) |->
     AtomicBank!Audit(r, "ODA", account[AtomicBank!NthAccount(n, i)].actual)]
  \o AtomicBank!Entry(r, "ODC", 0)

\* The audit rows of DELCUS are those of the bank: one for each account of the
\* customer by ascending number, and one for the customer.
LEMMA AuditsAreTheBanks ==
  ASSUME NEW r \in Requests, NEW n, NEW rows \in Seq(AuditRow), NEW list,
         AccountsOf(n) \subseteq Int, IsFiniteSet(AccountsOf(n)),
         AuditsInOrder(r, rows, list, AccountsOf(n)),
         \A a \in AccountsOf(n) : list[a] = account[a],
         Len(rows) = Cardinality(AccountsOf(n)) + 1,
         rows[Len(rows)] = Audit(r, "ODC", 0)
  PROVE  rows = RemovalAudits(r, n)
<1> DEFINE S == AccountsOf(n)
           size == Cardinality(S)
           first == [i \in 1 .. size |->
                       AtomicBank!Audit(r, "ODA", account[AtomicBank!NthAccount(n, i)].actual)]
           last == AtomicBank!Entry(r, "ODC", 0)
<1>1. AtomicBank!AccountsOf(n) = S
  BY DEF AccountsOf, AtomicBank!AccountsOf
<1>2. size \in Nat
  BY FS_CardinalityType
<1>3. ASSUME NEW i \in 1 .. size
      PROVE  rows[i] = first[i]
  <2>1. PICK a \in S : /\ Cardinality({b \in S : b < a}) = i - 1
                       /\ rows[i] = Audit(r, "ODA", list[a].actual)
    BY DEF AuditsInOrder
  <2>2. AtomicBank!NthAccount(n, i) = CHOOSE b \in S : Cardinality({x \in S : x < b}) = i - 1
    BY <1>1, SameCardinality, Zenon DEF AtomicBank!NthAccount
  <2>3. \A b \in S : Cardinality({x \in S : x < b}) = i - 1 => b = a
    BY <2>1, SameRank
  <2>4. AtomicBank!NthAccount(n, i) = a
    BY <2>1, <2>2, <2>3
  <2>5. QED
    BY <2>1, <2>4 DEF AtomicBank!Audit, Audit
<1>4. \A i \in 1 .. size : rows[i] \in AuditRow
  BY <1>2
<1>5. first \in Seq(AuditRow) /\ Len(first) = size
  BY <1>2, <1>3, <1>4
<1>6. last \in Seq(AuditRow) /\ Len(last) = 1 /\ last[1] = Audit(r, "ODC", 0)
  <2>1. last = <<Audit(r, "ODC", 0)>>
    BY DEF AtomicBank!Entry, AtomicBank!Audit, Audit
  <2>2. Audit(r, "ODC", 0) \in AuditRow
    BY BoundsAssumption DEF Audit, AuditRow, TranTypes, Money
  <2>3. \A e \in AuditRow : <<e>> \in Seq(AuditRow) /\ Len(<<e>>) = 1 /\ <<e>>[1] = e
    OBVIOUS
  <2>4. QED
    BY <2>1, <2>2, <2>3, Zenon
<1> HIDE DEF first, last
<1>7. /\ first \o last \in Seq(AuditRow) /\ Len(first \o last) = size + 1
      /\ \A i \in 1 .. size + 1 :
           (first \o last)[i] = IF i <= size THEN first[i] ELSE last[i - size]
  <2>1. /\ first \o last \in Seq(AuditRow) /\ Len(first \o last) = Len(first) + Len(last)
        /\ \A i \in 1 .. Len(first) + Len(last) :
             (first \o last)[i] = IF i <= Len(first) THEN first[i] ELSE last[i - Len(first)]
    BY <1>5, <1>6, ConcatProperties, Zenon
  <2>2. QED
    BY <2>1, <1>5, <1>6, Zenon
<1>8. \A i \in 1 .. Len(rows) : rows[i] = (first \o last)[i]
  BY <1>2, <1>3, <1>6, <1>7
<1>9. rows = first \o last
  BY <1>7, <1>8, SeqEqual
<1>10. QED
  BY <1>1, <1>9, SameCardinality, Zenon DEF first, last, RemovalAudits

\* The transaction of DELCUS holds the customer and accounts only.
LEMMA CustomerKeysHeld ==
  ASSUME NEW t, NEW n, CustomerKey(n) \in t.held,
         \A k \in t.held : k = CustomerKey(n) \/ k[1] = 2
  PROVE  KeysOf(1, t.held) = {n} /\ ControlKey \notin t.held
<1>1. \A k \in t.held : k[1] = 1 => k = <<1, n>>
  BY DEF CustomerKey
<1>2. <<1, n>> \in t.held /\ <<1, n>>[1] = 1
  BY DEF CustomerKey
<1>3. {h \in t.held : h[1] = 1} = {<<1, n>>}
  BY <1>1, <1>2
<1>4. {k[2] : k \in {<<1, n>>}} = {n}
  OBVIOUS
<1>5. KeysOf(1, t.held) = {n}
  BY <1>3, <1>4, Zenon DEF KeysOf
<1>6. ControlKey \notin t.held
  BY DEF ControlKey, CustomerKey
<1>7. QED
  BY <1>5, <1>6

\* DELCUS: what it listed, locked and audited are the accounts of the customer.
LEMMA RemoveCustomerTakesEffect ==
  ASSUME BankInvariant, NEW r \in Requests, Installs(r), cmd[r].prog = "DELCUS"
  PROVE  AtomicBank!RemoveCustomer(r, cmd[r])
<1> DEFINE c == cmd[r]
           t == tx[r]
           n == c.customer
           S == AccountsOf(n)
<1>1. /\ LocalInvariant /\ DelcusHolds(c, "commit", t) /\ DelcusKnows(r, c, "commit", t)
      /\ IsAccountTable(account) /\ IsTransaction(t) /\ control \in Control
      /\ FirstPage(n) = t.list /\ S \subseteq KeysOf(2, t.held)
  BY AtCommit DEF Placed, Knows, ReadsStillValid
<1>2. /\ n \in DOMAIN customer
      /\ DOMAIN t.list \subseteq 1 .. control.account_last
      /\ KeysOf(2, t.held) \subseteq DOMAIN t.list
      /\ AuditsInOrder(r, t.proctran, t.list, AuditedAccounts(t))
      /\ Len(t.proctran) = Cardinality(AuditedAccounts(t)) + 1
      /\ t.queue = {} /\ DOMAIN t.customer = {} /\ DOMAIN t.account = {}
      /\ t.proctran[Len(t.proctran)] = Audit(r, "ODC", 0)
  BY <1>1 DEF DelcusKnows, DelcusHolds
<1>3. /\ DOMAIN t.list = {a \in S : Cardinality({b \in S : b < a}) < PageSize}
      /\ \A a \in DOMAIN t.list : t.list[a] = account[a]
  BY <1>1 DEF FirstPage
<1>4. KeysOf(2, t.held) = S /\ DOMAIN t.list = S
  BY <1>1, <1>2, <1>3
<1>5. AuditedAccounts(t) = S
  BY <1>2, <1>4 DEF AuditedAccounts
<1>6. IsFiniteSet(S) /\ S \subseteq Int /\ Cardinality(S) \in Nat
  <2>1. S \subseteq 1 .. control.account_last /\ control.account_last \in Int
    BY <1>1, <1>2, <1>4 DEF Control
  <2>2. IsFiniteSet(1 .. control.account_last)
    BY <2>1, FS_Interval
  <2>3. IsFiniteSet(S)
    BY <2>1, <2>2, FS_Subset
  <2>4. Cardinality(S) \in Nat
    BY <2>3, FS_CardinalityType
  <2>5. QED
    BY <2>1, <2>3, <2>4
<1>7. Cardinality(S) <= PageSize
  <2>1. AuditsInOrder(r, t.proctran, t.list, S)
    BY <1>2, <1>5
  <2>2. CASE Cardinality(S) = 0
    BY <2>2, BoundsAssumption
  <2>3. CASE Cardinality(S) > 0
    <3>1. Cardinality(S) \in 1 .. Cardinality(S)
      BY <1>6, <2>3
    <3>2. PICK a \in S : Cardinality({b \in S : b < a}) = Cardinality(S) - 1
      BY <2>1, <3>1 DEF AuditsInOrder
    <3>3. Cardinality({b \in S : b < a}) < PageSize
      BY <1>3, <1>4
    <3>4. QED
      BY <1>6, <3>2, <3>3, BoundsAssumption
  <2>4. QED
    BY <1>6, <2>2, <2>3
<1>8. KeysOf(1, t.held) = {n} /\ ControlKey \notin t.held
  BY <1>1, CustomerKeysHeld DEF DelcusHolds
<1>9. /\ customer' = Merge(customer, t.customer, {n})
      /\ account' = Merge(account, t.account, S)
      /\ control' = control
      /\ proctran' = proctran \o t.proctran
  BY <1>4, <1>8 DEF Installs, Install
<1>10. customer' = AtomicBank!Without(customer, n)
  BY <1>2, <1>9 DEF Merge, AtomicBank!Without
<1>11. account' = [a \in DOMAIN account \ S |-> account[a]]
  BY <1>2, <1>9 DEF Merge
<1>12. t.proctran = RemovalAudits(r, n)
  <2>1. t.proctran \in Seq(AuditRow)
    BY <1>1 DEF IsTransaction
  <2>2. /\ AuditsInOrder(r, t.proctran, t.list, S)
        /\ \A a \in S : t.list[a] = account[a]
        /\ Len(t.proctran) = Cardinality(S) + 1
    BY <1>2, <1>3, <1>4, <1>5
  <2>3. t.proctran[Len(t.proctran)] = Audit(r, "ODC", 0)
    BY <1>2
  <2>4. AccountsOf(n) \subseteq Int /\ IsFiniteSet(AccountsOf(n))
    BY <1>6
  <2>5. \A list : \A rows \in Seq(AuditRow) :
          /\ AuditsInOrder(r, rows, list, AccountsOf(n))
          /\ \A a \in AccountsOf(n) : list[a] = account[a]
          /\ Len(rows) = Cardinality(AccountsOf(n)) + 1
          /\ rows[Len(rows)] = Audit(r, "ODC", 0)
          => rows = RemovalAudits(r, n)
    BY <2>4, AuditsAreTheBanks
  <2>6. QED
    BY <2>1, <2>2, <2>3, <2>5
<1>13. AtomicBank!AccountsOf(n) = S
  BY DEF AccountsOf, AtomicBank!AccountsOf
<1>14. AtomicBank!Cardinality(AtomicBank!AccountsOf(n)) <= PageSize
  BY <1>7, <1>13, SameCardinality
<1>15. account' = [a \in DOMAIN account \ AtomicBank!AccountsOf(n) |-> account[a]]
  BY <1>11, <1>13
<1> HIDE DEF S
<1>16. QED
  BY <1>2, <1>9, <1>10, <1>12, <1>14, <1>15 DEF AtomicBank!RemoveCustomer, AtomicBank!Record,
     RemovalAudits

\* A COMMIT that is applied is the effect of the command.
LEMMA CommitTakesEffect ==
  ASSUME BankInvariant, NEW r \in Requests, Installs(r)
  PROVE  AtomicBank!Effect(r, cmd[r])
<1>1. cmd[r].prog \in {"XFRFUN", "DBCRFUN", "UPDACC", "DELACC", "UPDCUST", "DELCUS",
                       "CREACC", "CRECUST"}
  BY AtCommit, CommandFields DEF LabelsOf
<1>2. QED
  BY <1>1, TransferTakesEffect, PostTakesEffect, UpdateAccountTakesEffect,
     CloseAccountTakesEffect, UpdateCustomerTakesEffect, RemoveCustomerTakesEffect,
     OpenAccountTakesEffect, AddCustomerTakesEffect DEF AtomicBank!Effect

-----------------------------------------------------------------------------
(* What the other requests know stays true.                                *)

\* The effects issue the numbers after the last one, and take none back.
LEMMA CommitIssuesNumbers ==
  ASSUME BankInvariant, NEW r \in Requests, Installs(r)
  PROVE  /\ DOMAIN account' \ DOMAIN account
               = control.account_last + 1 .. control'.account_last
         /\ DOMAIN customer' \ DOMAIN customer
               = control.customer_last + 1 .. control'.customer_last
         /\ control.account_last <= control'.account_last
         /\ control.customer_last <= control'.customer_last
<1> DEFINE c == cmd[r]
           a == control.account_last
           n == control.customer_last
<1>1. AtomicBank!Effect(r, c)
  BY CommitTakesEffect
<1>2. /\ control \in Control /\ DOMAIN account \subseteq 1 .. a
      /\ DOMAIN customer \subseteq 1 .. n
  BY AtCommit DEF BankInvariant, NumbersWereIssued
<1>3. a \in Nat /\ n \in Nat
  BY <1>2 DEF Control
<1>4. ASSUME DOMAIN account' \subseteq DOMAIN account, DOMAIN customer' \subseteq DOMAIN customer,
             control' = control
      PROVE  /\ DOMAIN account' \ DOMAIN account = a + 1 .. control'.account_last
             /\ DOMAIN customer' \ DOMAIN customer = n + 1 .. control'.customer_last
             /\ a <= control'.account_last /\ n <= control'.customer_last
  <2>1. a + 1 .. a = {} /\ n + 1 .. n = {}
    BY <1>3
  <2>2. QED
    BY <1>3, <1>4, <2>1
<1>5. CASE AtomicBank!Transfer(r, c) \/ AtomicBank!Post(r, c) \/ AtomicBank!UpdateAccount(r, c)
  <2>1. DOMAIN account' = DOMAIN account /\ customer' = customer /\ control' = control
    BY <1>5 DEF AtomicBank!Transfer, AtomicBank!Post, AtomicBank!UpdateAccount
  <2>2. QED
    BY <1>4, <2>1
<1>6. CASE AtomicBank!CloseAccount(r, c)
  <2>1. DOMAIN account' \subseteq DOMAIN account /\ customer' = customer /\ control' = control
    BY <1>6 DEF AtomicBank!CloseAccount, AtomicBank!Without
  <2>2. QED
    BY <1>4, <2>1
<1>7. CASE AtomicBank!UpdateCustomer(r, c)
  <2>1. account' = account /\ DOMAIN customer' = DOMAIN customer /\ control' = control
    BY <1>7 DEF AtomicBank!UpdateCustomer
  <2>2. QED
    BY <1>4, <2>1
<1>8. CASE AtomicBank!RemoveCustomer(r, c)
  <2>1. /\ DOMAIN account' \subseteq DOMAIN account
        /\ DOMAIN customer' \subseteq DOMAIN customer /\ control' = control
    BY <1>8 DEF AtomicBank!RemoveCustomer, AtomicBank!Without
  <2>2. QED
    BY <1>4, <2>1
<1>9. CASE AtomicBank!OpenAccount(r, c)
  <2>1. /\ customer' = customer
        /\ control' = [control EXCEPT !.account_count = @ + 1, !.account_last = @ + 1]
        /\ DOMAIN account' = DOMAIN account \cup {control'.account_last}
    BY <1>9 DEF AtomicBank!OpenAccount, AtomicBank!Overlay
  <2>2. control'.account_last = a + 1 /\ control'.customer_last = n
    BY <1>2, <2>1 DEF Control
  <2>3. a + 1 .. a + 1 = {a + 1} /\ n + 1 .. n = {} /\ a + 1 \notin DOMAIN account
    BY <1>2, <1>3
  <2>4. DOMAIN account' \ DOMAIN account = {a + 1}
    BY <2>1, <2>2, <2>3
  <2>5. QED
    BY <1>3, <2>1, <2>2, <2>3, <2>4
<1>10. CASE AtomicBank!AddCustomer(r, c)
  <2>1. /\ account' = account
        /\ control' = [control EXCEPT !.customer_count = @ + 1, !.customer_last = @ + 1]
        /\ DOMAIN customer' = DOMAIN customer \cup {control'.customer_last}
    BY <1>10 DEF AtomicBank!AddCustomer, AtomicBank!Overlay
  <2>2. control'.customer_last = n + 1 /\ control'.account_last = a
    BY <1>2, <2>1 DEF Control
  <2>3. n + 1 .. n + 1 = {n + 1} /\ a + 1 .. a = {} /\ n + 1 \notin DOMAIN customer
    BY <1>2, <1>3
  <2>4. DOMAIN customer' \ DOMAIN customer = {n + 1}
    BY <2>1, <2>2, <2>3
  <2>5. QED
    BY <1>3, <2>1, <2>2, <2>3, <2>4
<1>11. QED
  BY <1>1, <1>5, <1>6, <1>7, <1>8, <1>9, <1>10 DEF AtomicBank!Effect

\* A transaction has versions of customers it holds only.
LEMMA OwnCustomersAreHeld ==
  ASSUME BankInvariant, NEW r \in Requests, Installs(r), NEW n \in DOMAIN tx[r].customer
  PROVE  CustomerKey(n) \in tx[r].held
<1> DEFINE c == cmd[r]
           t == tx[r]
<1>1. /\ Placed(c, "commit", attempts[r], t) /\ c \in Commands
      /\ Knows(r, c, "commit", t)
  BY AtCommit
<1>2. c.prog \in {"XFRFUN", "DBCRFUN", "UPDACC", "DELACC", "CREACC"} => DOMAIN t.customer = {}
  BY <1>1 DEF Placed, XfrfunHolds, DbcrfunHolds, UpdaccHolds, DelaccHolds, CreaccHolds,
     HoldsAccounts
<1>3. c.prog = "DELCUS" => DOMAIN t.customer = {}
  BY <1>1 DEF Knows, DelcusKnows
<1>4. c.prog = "UPDCUST" => CustomerKey(n) \in t.held
  BY <1>1 DEF Placed, UpdcustHolds, HoldsCustomer
<1>5. c.prog = "CRECUST" => CustomerKey(n) \in t.held
  BY <1>1 DEF Placed, CrecustHolds
<1>6. QED
  BY <1>1, <1>2, <1>3, <1>4, <1>5, CommandFields DEF LabelsOf

\* What request q holds stays as it is, and an account that is gone stays gone.
Spared(q) ==
  /\ cmd'[q] = cmd[q] /\ pc'[q] = pc[q] /\ tx'[q] = tx[q]
  /\ \A a : AccountKey(a) \in tx[q].held =>
       /\ a \in DOMAIN account' <=> a \in DOMAIN account
       /\ a \in DOMAIN account => account'[a] = account[a]
  /\ \A n : CustomerKey(n) \in tx[q].held =>
       /\ n \in DOMAIN customer' <=> n \in DOMAIN customer
       /\ n \in DOMAIN customer => customer'[n] = customer[n]
  /\ ControlKey \in tx[q].held => control' = control
  /\ control.account_last <= control'.account_last
  /\ \A a \in 1 .. control.account_last : a \notin DOMAIN account => a \notin DOMAIN account'
  /\ control \in Control /\ control' \in Control

\* A COMMIT touches no row that somebody else holds.
LEMMA CommitSparesOthers ==
  ASSUME BankInvariant, NEW r \in Requests, Installs(r), NEW q \in Requests, q # r,
         pc'[q] = pc[q]
  PROVE  Spared(q)
<1> DEFINE t == tx[r]
<1>1. /\ LocalInvariant /\ RowsHaveOneWriter /\ IsTransaction(tx[q]) /\ IsTransaction(t)
      /\ control \in Control
  BY Facts DEF BankInvariant, SharedInvariant
<1>2. /\ customer' = Merge(customer, t.customer, KeysOf(1, t.held))
      /\ account' = Merge(account, t.account, KeysOf(2, t.held))
      /\ control' = IF ControlKey \in t.held THEN t.control ELSE control
  BY DEF Installs, Install
<1>3. cmd'[q] = cmd[q] /\ tx'[q] = tx[q]
  BY <1>1 DEF Installs, LocalInvariant, TypeOK
<1>4. \A k \in tx[q].held : k \notin t.held
  BY <1>1 DEF RowsHaveOneWriter
<1>5. ASSUME NEW a, AccountKey(a) \in tx[q].held
      PROVE  /\ a \in DOMAIN account' <=> a \in DOMAIN account
             /\ a \in DOMAIN account => account'[a] = account[a]
  <2>1. a \notin DOMAIN t.account
    BY <1>1, <1>4, <1>5, OwnRowsAreHeld
  <2>2. a \notin KeysOf(2, t.held)
    <3>1. \A k \in t.held : k[1] = 2 /\ k[2] = a => k = AccountKey(a)
      BY <1>1 DEF IsTransaction, LockKeys, AccountKey
    <3>2. QED
      BY <1>4, <1>5, <3>1 DEF KeysOf
  <2>3. QED
    BY <1>2, <2>1, <2>2 DEF Merge
<1>6. ASSUME NEW n, CustomerKey(n) \in tx[q].held
      PROVE  /\ n \in DOMAIN customer' <=> n \in DOMAIN customer
             /\ n \in DOMAIN customer => customer'[n] = customer[n]
  <2>1. n \notin DOMAIN t.customer
    BY <1>1, <1>4, <1>6, OwnCustomersAreHeld
  <2>2. n \notin KeysOf(1, t.held)
    <3>1. \A k \in t.held : k[1] = 1 /\ k[2] = n => k = CustomerKey(n)
      BY <1>1 DEF IsTransaction, LockKeys, CustomerKey
    <3>2. QED
      BY <1>4, <1>6, <3>1 DEF KeysOf
  <2>3. QED
    BY <1>2, <2>1, <2>2 DEF Merge
<1>7. ControlKey \in tx[q].held => control' = control
  BY <1>2, <1>4
<1>8. control' \in Control
  BY <1>1, <1>2 DEF IsTransaction
<1>9. /\ control.account_last <= control'.account_last
      /\ \A a \in 1 .. control.account_last :
           a \notin DOMAIN account => a \notin DOMAIN account'
  <2>1. /\ DOMAIN account' \ DOMAIN account
             = control.account_last + 1 .. control'.account_last
        /\ control.account_last <= control'.account_last
    BY CommitIssuesNumbers
  <2>2. control.account_last \in Nat /\ control'.account_last \in Nat
    BY <1>1, <1>8 DEF Control
  <2>3. QED
    BY <2>1, <2>2
<1>10. QED
  BY <1>1, <1>3, <1>5, <1>6, <1>7, <1>8, <1>9 DEF Spared

\* A row that a spared transaction holds and knows, it knows still.
LEMMA SparedAccount ==
  ASSUME NEW q \in Requests, Spared(q), NEW a, AccountKey(a) \in tx[q].held,
         a \in DOMAIN account
  PROVE  a \in DOMAIN account' /\ account'[a] = account[a]
BY DEF Spared

\* What each program knows, once more.
LEMMA SparedXfrfun ==
  ASSUME NEW q \in Requests, Spared(q), XfrfunHolds(cmd[q], pc[q], tx[q]),
         XfrfunKnows(cmd[q], pc[q], tx[q])
  PROVE  XfrfunKnows(cmd[q], pc[q], tx[q])'
<1> DEFINE c == cmd[q]
           t == tx[q]
           p == pc[q]
<1>1. cmd'[q] = c /\ pc'[q] = p /\ tx'[q] = t
  BY DEF Spared
<1>2. /\ p = "xfr_from" /\ ~(c.from < c.to) => AccountKey(c.to) \in t.held
      /\ p = "xfr_to" /\ c.from < c.to => AccountKey(c.from) \in t.held
      /\ p \in {"xfr_debit", "xfr_credit", "xfr_proctran", "commit"} =>
           AccountKey(c.from) \in t.held /\ AccountKey(c.to) \in t.held
  BY DEF XfrfunHolds, HoldsAccounts
<1>3. \A a : AccountKey(a) \in t.held /\ a \in DOMAIN account =>
        a \in DOMAIN account' /\ account'[a] = account[a]
  BY SparedAccount
<1>4. QED
  BY <1>1, <1>2, <1>3 DEF XfrfunKnows, HasAccount

LEMMA SparedDbcrfun ==
  ASSUME NEW q \in Requests, Spared(q), DbcrfunHolds(cmd[q], pc[q], tx[q]),
         DbcrfunKnows(cmd[q], pc[q], tx[q])
  PROVE  DbcrfunKnows(cmd[q], pc[q], tx[q])'
<1> DEFINE c == cmd[q]
           t == tx[q]
           p == pc[q]
<1>1. cmd'[q] = c /\ pc'[q] = p /\ tx'[q] = t
  BY DEF Spared
<1>2. p \in {"dbcr_update", "dbcr_proctran", "commit"} => AccountKey(c.account) \in t.held
  BY DEF DbcrfunHolds, HoldsAccounts
<1>3. AccountKey(c.account) \in t.held /\ c.account \in DOMAIN account =>
        c.account \in DOMAIN account' /\ account'[c.account] = account[c.account]
  BY SparedAccount
<1>4. QED
  BY <1>1, <1>2, <1>3 DEF DbcrfunKnows, HasAccount

LEMMA SparedUpdacc ==
  ASSUME NEW q \in Requests, Spared(q), UpdaccHolds(cmd[q], pc[q], tx[q]),
         UpdaccKnows(cmd[q], pc[q], tx[q])
  PROVE  UpdaccKnows(cmd[q], pc[q], tx[q])'
<1> DEFINE c == cmd[q]
           t == tx[q]
           p == pc[q]
<1>1. cmd'[q] = c /\ pc'[q] = p /\ tx'[q] = t
  BY DEF Spared
<1>2. p \in {"updacc_update", "updacc_proctran", "commit"} => AccountKey(c.account) \in t.held
  BY DEF UpdaccHolds, HoldsAccounts
<1>3. AccountKey(c.account) \in t.held /\ c.account \in DOMAIN account =>
        c.account \in DOMAIN account' /\ account'[c.account] = account[c.account]
  BY SparedAccount
<1>4. QED
  BY <1>1, <1>2, <1>3 DEF UpdaccKnows, HasAccount

LEMMA SparedDelacc ==
  ASSUME NEW q \in Requests, Spared(q), DelaccHolds(cmd[q], pc[q], tx[q]),
         DelaccKnows(cmd[q], pc[q], tx[q])
  PROVE  /\ DelaccKnows(cmd[q], pc[q], tx[q])'
         /\ pc[q] = "commit" => account'[cmd[q].account] = account[cmd[q].account]
<1> DEFINE c == cmd[q]
           t == tx[q]
           p == pc[q]
<1>1. cmd'[q] = c /\ pc'[q] = p /\ tx'[q] = t
  BY DEF Spared
<1>2. p \in {"delacc_delete", "delacc_proctran", "commit"} => AccountKey(c.account) \in t.held
  BY DEF DelaccHolds, HoldsAccounts
<1>3. AccountKey(c.account) \in t.held /\ c.account \in DOMAIN account =>
        c.account \in DOMAIN account' /\ account'[c.account] = account[c.account]
  BY SparedAccount
<1>4. QED
  BY <1>1, <1>2, <1>3 DEF DelaccKnows, HasAccount

LEMMA SparedUpdcust ==
  ASSUME NEW q \in Requests, Spared(q), UpdcustHolds(cmd[q], pc[q], tx[q]),
         UpdcustKnows(cmd[q], pc[q], tx[q])
  PROVE  UpdcustKnows(cmd[q], pc[q], tx[q])'
<1> DEFINE c == cmd[q]
           t == tx[q]
           p == pc[q]
<1>1. cmd'[q] = c /\ pc'[q] = p /\ tx'[q] = t
  BY DEF Spared
<1>2. p \in {"updcust_update", "updcust_proctran", "commit"} => CustomerKey(c.customer) \in t.held
  BY DEF UpdcustHolds, HoldsCustomer
<1>3. CustomerKey(c.customer) \in t.held /\ c.customer \in DOMAIN customer =>
        c.customer \in DOMAIN customer' /\ customer'[c.customer] = customer[c.customer]
  BY DEF Spared
<1>4. QED
  BY <1>1, <1>2, <1>3 DEF UpdcustKnows

LEMMA SparedDelcus ==
  ASSUME NEW q \in Requests, Spared(q), DelcusHolds(cmd[q], pc[q], tx[q]),
         DelcusKnows(q, cmd[q], pc[q], tx[q])
  PROVE  DelcusKnows(q, cmd[q], pc[q], tx[q])'
<1> DEFINE c == cmd[q]
           t == tx[q]
           p == pc[q]
<1>1. cmd'[q] = c /\ pc'[q] = p /\ tx'[q] = t
  BY DEF Spared
<1>2. p \in {"delcus_list", "delcus_delete", "delcus_audit", "delcus_proctran", "commit"} =>
        CustomerKey(c.customer) \in t.held
  BY DEF DelcusHolds, HoldsCustomer
<1>3. CustomerKey(c.customer) \in t.held /\ c.customer \in DOMAIN customer =>
        c.customer \in DOMAIN customer'
  BY DEF Spared
<1>4. DOMAIN t.list \subseteq 1 .. control.account_last =>
        /\ DOMAIN t.list \subseteq 1 .. control'.account_last
        /\ \A a \in DOMAIN t.list : a \notin DOMAIN account => a \notin DOMAIN account'
  BY DEF Spared, Control
<1>5. QED
  BY <1>1, <1>2, <1>3, <1>4 DEF DelcusKnows

LEMMA SparedCreacc ==
  ASSUME NEW q \in Requests, Spared(q), CreaccHolds(cmd[q], pc[q], tx[q]),
         CreaccKnows(cmd[q], pc[q], tx[q])
  PROVE  CreaccKnows(cmd[q], pc[q], tx[q])'
<1>1. cmd'[q] = cmd[q] /\ pc'[q] = pc[q] /\ tx'[q] = tx[q]
  BY DEF Spared
<1>2. pc[q] \in {"creacc_insert", "creacc_proctran", "commit"} => control' = control
  BY DEF CreaccHolds, Spared
<1>3. QED
  BY <1>1, <1>2 DEF CreaccKnows

LEMMA SparedCrecust ==
  ASSUME NEW q \in Requests, Spared(q), CrecustHolds(cmd[q], pc[q], tx[q]),
         CrecustKnows(cmd[q], pc[q], tx[q])
  PROVE  CrecustKnows(cmd[q], pc[q], tx[q])'
<1>1. cmd'[q] = cmd[q] /\ pc'[q] = pc[q] /\ tx'[q] = tx[q]
  BY DEF Spared
<1>2. pc[q] \in {"crecust_insert", "crecust_proctran", "commit"} => control' = control
  BY DEF CrecustHolds, Spared
<1>3. QED
  BY <1>1, <1>2 DEF CrecustKnows

\* Whatever its program is.
LEMMA SparedKnows ==
  ASSUME LocalInvariant, EachKnows, NEW q \in Requests, Spared(q)
  PROVE  Knows(q, cmd[q], pc[q], tx[q])'
<1>1. /\ Placed(cmd[q], pc[q], attempts[q], tx[q]) /\ Knows(q, cmd[q], pc[q], tx[q])
      /\ cmd[q] \in Commands
  BY AtLabel
<1>2. cmd'[q] = cmd[q] /\ pc'[q] = pc[q] /\ tx'[q] = tx[q]
  BY DEF Spared
<1>3. cmd[q].prog = "XFRFUN" => XfrfunKnows(cmd[q], pc[q], tx[q])'
  BY <1>1, SparedXfrfun DEF Placed, Knows
<1>4. cmd[q].prog = "DBCRFUN" => DbcrfunKnows(cmd[q], pc[q], tx[q])'
  BY <1>1, SparedDbcrfun DEF Placed, Knows
<1>5. cmd[q].prog = "UPDACC" => UpdaccKnows(cmd[q], pc[q], tx[q])'
  BY <1>1, SparedUpdacc DEF Placed, Knows
<1>6. cmd[q].prog = "DELACC" =>
        /\ DelaccKnows(cmd[q], pc[q], tx[q])'
        /\ pc[q] = "commit" => account'[cmd[q].account] = account[cmd[q].account]
  BY <1>1, SparedDelacc DEF Placed, Knows
<1>7. cmd[q].prog = "UPDCUST" => UpdcustKnows(cmd[q], pc[q], tx[q])'
  BY <1>1, SparedUpdcust DEF Placed, Knows
<1>8. cmd[q].prog = "DELCUS" => DelcusKnows(q, cmd[q], pc[q], tx[q])'
  BY <1>1, SparedDelcus DEF Placed, Knows
<1>9. cmd[q].prog = "CREACC" => CreaccKnows(cmd[q], pc[q], tx[q])'
  BY <1>1, SparedCreacc DEF Placed, Knows
<1>10. cmd[q].prog = "CRECUST" => CrecustKnows(cmd[q], pc[q], tx[q])'
  BY <1>1, SparedCrecust DEF Placed, Knows
<1>11. AuditedLast(q, cmd[q], pc[q], tx[q])'
  BY <1>1, <1>2, <1>6 DEF Knows, AuditedLast, MainAmount
<1>12. QED
  BY <1>2, <1>3, <1>4, <1>5, <1>6, <1>7, <1>8, <1>9, <1>10, <1>11 DEF Knows

\* What a request knows does not depend on the step that got it there.
LEMMA KnowsKept ==
  ASSUME NEW r, NEW p, NEW t, Knows(r, cmd[r], p, t), pc'[r] = p, tx'[r] = t,
         UNCHANGED <<tables, cmd>>
  PROVE  Knows(r, cmd[r], pc[r], tx[r])'
<1>1. /\ UNCHANGED <<account, customer, control>> /\ cmd'[r] = cmd[r]
      /\ pc'[r] = p /\ tx'[r] = t
  BY DEF tables
<1>2. QED
  BY <1>1 DEF Knows, AuditedLast, MainAmount, XfrfunKnows, DbcrfunKnows, UpdaccKnows,
     DelaccKnows, UpdcustKnows, DelcusKnows, CreaccKnows, CrecustKnows, HasAccount

\* A request that is over has nothing left to know.
LEMMA EndedKnows ==
  ASSUME NEW r, pc'[r] \in Ended, tx'[r] = NoTx
  PROVE  Knows(r, cmd[r], pc[r], tx[r])'
BY DEF Knows, AuditedLast, NoTx, Ended, XfrfunKnows, DbcrfunKnows, UpdaccKnows,
   DelaccKnows, UpdcustKnows, DelcusKnows, CreaccKnows, CrecustKnows

\* A step that leaves the tables alone spares everybody else.
LEMMA IdleTablesSpare ==
  ASSUME LocalInvariant, NEW q \in Requests, UNCHANGED <<tables, cmd>>,
         pc'[q] = pc[q], tx'[q] = tx[q]
  PROVE  Spared(q)
<1>1. UNCHANGED <<account, customer, control>> /\ cmd'[q] = cmd[q] /\ control \in Control
  BY Facts DEF tables
<1>2. control.account_last <= control'.account_last
  BY <1>1 DEF Control
<1>3. QED
  BY <1>1, <1>2 DEF Spared

\* Whatever request r does, the others know what they should.
LEMMA StepKeepsKnowledge ==
  ASSUME BankInvariant, NEW r \in Requests, Banks(r) \/ Ends(r) \/ Drops(r) \/ Commits(r)
  PROVE  EachKnows'
<1>1. /\ LocalInvariant /\ EachKnows /\ DOMAIN pc = Requests /\ DOMAIN tx = Requests
  BY DEF BankInvariant, SharedInvariant, LocalInvariant, TypeOK
<1>2. SUFFICES ASSUME NEW q \in Requests
               PROVE  Knows(q, cmd[q], pc[q], tx[q])'
  BY DEF EachKnows
<1>3. CASE Moves(r)
  <2>1. PICK p, t : MovesTo(r, p, t)
    BY <1>3 DEF Moves
  <2>2. CASE q = r
    BY <1>3, <2>1, <2>2, KnowsKept DEF MovesTo, Moves
  <2>3. CASE q # r
    BY <1>1, <1>3, <2>1, <2>3, IdleTablesSpare, SparedKnows DEF MovesTo, Moves
  <2>4. QED
    BY <2>2, <2>3
<1>4. ASSUME NEW p \in Ended, pc' = [pc EXCEPT ![r] = p], tx' = [tx EXCEPT ![r] = NoTx],
             q # r => Spared(q)
      PROVE  Knows(q, cmd[q], pc[q], tx[q])'
  <2>1. CASE q = r
    BY <1>1, <1>4, <2>1, EndedKnows
  <2>2. CASE q # r
    BY <1>1, <1>4, <2>2, SparedKnows
  <2>3. QED
    BY <2>1, <2>2
<1>5. CASE AnswersTruly(r) \/ Ends(r) \/ Drops(r)
  <2>1. PICK p \in Ended : pc' = [pc EXCEPT ![r] = p]
    BY <1>5 DEF AnswersTruly, Ends, Answer, Drops, Ended
  <2>2. tx' = [tx EXCEPT ![r] = NoTx] /\ UNCHANGED <<tables, cmd>>
    BY <1>5 DEF AnswersTruly, Ends, Answer, Drops
  <2>3. q # r => Spared(q)
    BY <1>1, <2>1, <2>2, IdleTablesSpare
  <2>4. QED
    BY <1>4, <2>1, <2>2, <2>3
<1>6. CASE Commits(r)
  <2>1. PICK p \in Ended : pc' = [pc EXCEPT ![r] = p]
    BY <1>6 DEF Commits, Ended
  <2>2. Installs(r) /\ tx' = [tx EXCEPT ![r] = NoTx]
    BY <1>6 DEF Commits, Installs
  <2>3. q # r => Spared(q)
    BY <1>1, <2>1, <2>2, CommitSparesOthers
  <2>4. QED
    BY <1>4, <2>1, <2>2, <2>3
<1>7. QED
  BY <1>3, <1>5, <1>6 DEF Banks

\* No number is used that was not issued.
LEMMA StepKeepsNumbers ==
  ASSUME BankInvariant, NEW r \in Requests, Banks(r) \/ Ends(r) \/ Drops(r) \/ Commits(r)
  PROVE  NumbersWereIssued'
<1>1. CASE UNCHANGED tables
  BY <1>1 DEF tables, BankInvariant, NumbersWereIssued
<1>2. CASE Installs(r)
  <2>1. /\ NumbersWereIssued /\ control \in Control /\ LocalInvariant
    BY <1>2, AtCommit DEF BankInvariant
  <2>2. control' \in Control
    BY <1>2, <2>1, InstallTyped DEF Installs
  <2>3. /\ DOMAIN account' \ DOMAIN account
             = control.account_last + 1 .. control'.account_last
        /\ DOMAIN customer' \ DOMAIN customer
             = control.customer_last + 1 .. control'.customer_last
        /\ control.account_last <= control'.account_last
        /\ control.customer_last <= control'.customer_last
    BY <1>2, CommitIssuesNumbers
  <2>4. /\ control.account_last \in Nat /\ control'.account_last \in Nat
        /\ control.customer_last \in Nat /\ control'.customer_last \in Nat
    BY <2>1, <2>2 DEF Control
  <2>5. ASSUME NEW a \in DOMAIN account'
        PROVE  a \in 1 .. control'.account_last
    BY <2>1, <2>3, <2>4 DEF NumbersWereIssued
  <2>6. ASSUME NEW n \in DOMAIN customer'
        PROVE  n \in 1 .. control'.customer_last
    BY <2>1, <2>3, <2>4 DEF NumbersWereIssued
  <2>7. QED
    BY <2>5, <2>6 DEF NumbersWereIssued
<1>3. QED
  BY <1>1, <1>2 DEF Banks, Moves, AnswersTruly, Ends, Answer, Drops, Commits

\* Only the last step of a request gives it a reply.
LEMMA StepKeepsReplies ==
  ASSUME BankInvariant, NEW r \in Requests, Banks(r) \/ Ends(r) \/ Drops(r) \/ Commits(r)
  PROVE  RepliesComeLast'
<1>1. /\ RepliesComeLast /\ DOMAIN pc = Requests /\ DOMAIN reply = Requests
  BY DEF BankInvariant, SharedInvariant, LocalInvariant, TypeOK
<1>2. SUFFICES ASSUME NEW q \in Requests, pc'[q] # "done"
               PROVE  reply'[q] = None
  BY DEF RepliesComeLast
<1>3. CASE Moves(r)
  BY <1>1, <1>2, <1>3 DEF Moves, MovesTo, RepliesComeLast, Ended
<1>4. CASE AnswersTruly(r) \/ Ends(r)
  BY <1>1, <1>2, <1>4 DEF AnswersTruly, Ends, Answer, RepliesComeLast
<1>5. CASE Drops(r)
  BY <1>1, <1>2, <1>5 DEF Drops, RepliesComeLast, Ended
<1>6. CASE Commits(r)
  BY <1>1, <1>2, <1>6 DEF Commits, Installs, RepliesComeLast
<1>7. QED
  BY <1>3, <1>4, <1>5, <1>6 DEF Banks

LEMMA InitiallyKnown ==
  ASSUME Init
  PROVE  BankInvariant
<1>1. SharedInvariant
  BY InitiallyShared
<1>2. EachKnows
  <2>1. SUFFICES ASSUME NEW r \in Requests
                 PROVE  Knows(r, cmd[r], "idle", NoTx)
    BY DEF Init, EachKnows
  <2>2. CASE cmd[r].prog # "XFRFUN"
    BY <2>2, NothingIsKnown DEF EmptyHanded
  <2>3. CASE cmd[r].prog = "XFRFUN"
    BY <2>3 DEF Knows, AuditedLast, XfrfunKnows, NoTx
  <2>4. QED
    BY <2>2, <2>3
<1>3. NumbersWereIssued
  BY DatabasesAssumption DEF Init, IsDatabase, NumbersWereIssued
<1>4. RepliesComeLast
  BY DEF Init, RepliesComeLast
<1>5. QED
  BY <1>1, <1>2, <1>3, <1>4 DEF BankInvariant

LEMMA BankInvariantKept ==
  ASSUME BankInvariant, [Next]_vars
  PROVE  BankInvariant'
<1>1. SharedInvariant'
  BY SharedInvariantKept DEF BankInvariant
<1>2. ASSUME NEW r \in Requests, Progress(r) \/ Trouble(r)
      PROVE  EachKnows' /\ NumbersWereIssued' /\ RepliesComeLast'
  BY <1>2, StepBanks, StepKeepsKnowledge, StepKeepsNumbers, StepKeepsReplies
<1>3. CASE UNCHANGED vars
  <2>1. /\ UNCHANGED <<tables, cmd>> /\ UNCHANGED <<pc, tx, reply>>
        /\ UNCHANGED <<account, customer, control>>
    BY <1>3 DEF vars, tables
  <2>2. EachKnows'
    <3>1. SUFFICES ASSUME NEW q \in Requests
                   PROVE  Knows(q, cmd[q], pc[q], tx[q])'
      BY DEF EachKnows
    <3>2. Knows(q, cmd[q], pc[q], tx[q])
      BY DEF BankInvariant, EachKnows
    <3>3. QED
      BY <2>1, <3>2, KnowsKept
  <2>3. NumbersWereIssued' /\ RepliesComeLast'
    BY <2>1 DEF BankInvariant, NumbersWereIssued, RepliesComeLast
  <2>4. QED
    BY <2>2, <2>3, <1>1 DEF BankInvariant
<1>4. QED
  BY <1>1, <1>2, <1>3 DEF Next, Idle, BankInvariant

\* What a transaction has computed from the rows it holds is what the tables
\* would give it now, at every statement of every program.
THEOREM ComputationsStayCurrent == Spec => []BankInvariant
<1>1. Init => BankInvariant
  BY InitiallyKnown
<1>2. BankInvariant /\ [Next]_vars => BankInvariant'
  BY BankInvariantKept
<1>3. QED
  BY <1>1, <1>2, PTL DEF Spec

-----------------------------------------------------------------------------
(* Every step is a step of the bank, or one it does not see.               *)

\* A request that ends here ends in the bank.
LEMMA ClosesInTheBank ==
  ASSUME LocalInvariant, NEW r \in Requests, NEW p \in Ended, NEW rep,
         pc[r] \notin Ended, pc' = [pc EXCEPT ![r] = p],
         reply' = [reply EXCEPT ![r] = rep], UNCHANGED cmd
  PROVE  AtomicBank!Close(r, p, rep)
<1>1. DOMAIN pc = Requests
  BY DEF LocalInvariant, TypeOK
<1>2. QED
  BY <1>1 DEF AtomicBank!Close, Ended

\* A request that goes on is open before and after.
LEMMA MovesUnseen ==
  ASSUME LocalInvariant, NEW r \in Requests, Moves(r)
  PROVE  UNCHANGED AtomicBank!bankVars
<1>1. PICK p, t : MovesTo(r, p, t)
  BY DEF Moves
<1>2. \A q \in Requests : (IF pc[q] \in {"done", "lost"} THEN pc[q] ELSE "open")
                          = (IF pc'[q] \in {"done", "lost"} THEN pc'[q] ELSE "open")
  BY <1>1 DEF MovesTo, Moves, Ended
<1>3. UNCHANGED <<customer, account, control, proctran, cmd, reply>>
  BY DEF Moves, tables
<1>4. QED
  BY <1>2, <1>3 DEF AtomicBank!bankVars

\* What a step of a request is to the bank.
LEMMA StepIsTheBanks ==
  ASSUME BankInvariant, NEW r \in Requests, Banks(r) \/ Drops(r) \/ Commits(r)
  PROVE  AtomicBank!Next \/ UNCHANGED AtomicBank!bankVars
<1>1. /\ LocalInvariant /\ reply \in [Requests -> Replies]
      /\ pc[r] \notin Ended => reply[r] = None
  BY DEF BankInvariant, SharedInvariant, LocalInvariant, TypeOK, RepliesComeLast, Ended
<1>2. CASE Moves(r)
  BY <1>1, <1>2, MovesUnseen
<1>3. CASE AnswersTruly(r)
  <2>1. PICK rep \in Replies : Answer(r, rep) /\ Justified(r, rep)
    BY <1>3 DEF AnswersTruly
  <2>2. AtomicBank!Close(r, "done", rep)
    BY <1>1, <1>3, <2>1, ClosesInTheBank DEF AnswersTruly, Answer, Ended
  <2>3. rep \in AtomicBank!Replies
    BY SameReplies
  <2>4. UNCHANGED AtomicBank!tables
    BY <2>1 DEF Answer, tables, AtomicBank!tables
  <2>5. AtomicBank!Refuse(r)
    BY <2>1, <2>2, <2>3, <2>4 DEF AtomicBank!Refuse, Justified
  <2>6. QED
    BY <2>5 DEF AtomicBank!Next
<1>4. ASSUME pc[r] \notin Ended, UNCHANGED <<reply, cmd>>, pc' = [pc EXCEPT ![r] = "lost"]
      PROVE  AtomicBank!Close(r, "lost", AtomicBank!None)
  <2>1. reply' = [reply EXCEPT ![r] = AtomicBank!None]
    <3>1. reply = [reply EXCEPT ![r] = reply[r]]
      BY <1>1
    <3>2. reply[r] = AtomicBank!None
      BY <1>1, <1>4, SameReplies
    <3>3. QED
      BY <1>4, <3>1, <3>2, Zenon
  <2>2. QED
    BY <1>1, <1>4, <2>1, ClosesInTheBank DEF Ended
<1>5. CASE Drops(r)
  <2>1. AtomicBank!Close(r, "lost", AtomicBank!None) /\ AtomicBank!Breakable
    BY <1>4, <1>5 DEF Drops, AtomicBank!Breakable
  <2>2. UNCHANGED AtomicBank!tables
    BY <1>5 DEF Drops, tables, AtomicBank!tables
  <2>3. QED
    BY <2>1, <2>2 DEF AtomicBank!Lose, AtomicBank!Next
<1>6. CASE Commits(r)
  <2>1. AtomicBank!Effect(r, cmd[r])
    BY <1>6, CommitTakesEffect DEF Commits
  <2>2. pc[r] \notin Ended /\ UNCHANGED cmd
    BY <1>6 DEF Commits, Installs, Ended
  <2>3. CASE pc' = [pc EXCEPT ![r] = "done"] /\ reply' = [reply EXCEPT ![r] = Success]
    <3>1. AtomicBank!Close(r, "done", AtomicBank!Success)
      BY <1>1, <2>2, <2>3, ClosesInTheBank, SameReplies DEF Ended
    <3>2. QED
      BY <2>1, <3>1 DEF AtomicBank!Apply, AtomicBank!Next
  <2>4. CASE MaxFaults > 0 /\ pc' = [pc EXCEPT ![r] = "done"]
             /\ reply' = [reply EXCEPT ![r] = UNEX]
    <3>1. AtomicBank!Close(r, "done", AtomicBank!UNEX)
      BY <1>1, <2>2, <2>4, ClosesInTheBank, SameReplies DEF Ended
    <3>2. QED
      BY <2>1, <2>4, <3>1 DEF AtomicBank!Apply, AtomicBank!Breakable, AtomicBank!Next
  <2>5. CASE MaxFaults > 0 /\ pc' = [pc EXCEPT ![r] = "lost"] /\ UNCHANGED reply
    <3>1. AtomicBank!Close(r, "lost", AtomicBank!None)
      BY <1>4, <2>2, <2>5
    <3>2. QED
      BY <2>1, <2>5, <3>1 DEF AtomicBank!Apply, AtomicBank!Breakable, AtomicBank!Next
  <2>6. QED
    BY <1>6, <2>3, <2>4, <2>5 DEF Commits
<1>7. QED
  BY <1>2, <1>3, <1>5, <1>6 DEF Banks

LEMMA InitiallyABank ==
  ASSUME Init
  PROVE  AtomicBank!Init
<1>1. [r \in Requests |-> IF pc[r] \in {"done", "lost"} THEN pc[r] ELSE "open"]
        = [r \in Requests |-> "open"]
  BY DEF Init
<1>2. reply = [r \in Requests |-> AtomicBank!None]
  BY SameReplies DEF Init
<1>3. QED
  BY <1>1, <1>2 DEF Init, AtomicBank!Init

LEMMA NextIsTheBanks ==
  ASSUME BankInvariant, [Next]_vars
  PROVE  [AtomicBank!Next]_AtomicBank!bankVars
<1>1. CASE UNCHANGED vars
  BY <1>1 DEF vars, AtomicBank!bankVars
<1>2. QED
  BY <1>1, StepBanks, StepIsTheBanks DEF Next, Idle

\* The service is a bank that handles one request at a time: eight programs of
\* several statements each, their locks, retries, refusals and lost connections
\* implement the abstract bank step by step, for any number of requests, any
\* commands, any tables and any bounds.
THEOREM ServiceIsABank == Spec => ImplementsAtomicBank
<1>1. Init => AtomicBank!Init
  BY InitiallyABank
<1>2. BankInvariant /\ [Next]_vars => [AtomicBank!Next]_AtomicBank!bankVars
  BY NextIsTheBanks
<1>3. QED
  BY <1>1, <1>2, ComputationsStayCurrent, PTL DEF Spec, ImplementsAtomicBank, AtomicBank!Spec
=============================================================================
