----------------------------- MODULE CbsaInvariant -----------------------------
(***************************************************************************)
(* Why the properties hold: what every transaction has locked, and which   *)
(* rows it has a version of, at each statement of its program. The theorems *)
(* of CbsaProofs and CbsaSharingProofs rest on this invariant.             *)
(***************************************************************************)
EXTENDS CbsaProperties

\* Labels at which a request has no transaction, or an empty one.
EmptyHanded ==
  {"idle", "begin", "done", "lost", "creacc_inqcust", "creacc_inqacccu",
   "crecust_credit", "dbcr_lock", "updacc_lock", "delacc_lock", "updcust_lock",
   "delcus_lock", "creacc_reserve", "crecust_reserve"}

\* Labels before the first attempt.
Unstarted == {"idle", "creacc_inqcust", "creacc_inqacccu", "crecust_credit"}

\* The request passed the checks of its service.
Accepted(c) ==
  /\ c.prog = "XFRFUN" => XfrfunRejection(c) = None
  /\ c.prog = "DBCRFUN" => DbcrfunRejection(c) = None
  /\ c.prog = "UPDACC" => UpdaccRejection(c) = None
  /\ c.prog = "DELACC" => DelaccRejection(c) = None
  /\ c.prog = "UPDCUST" => UpdcustRejection(c) = None
  /\ c.prog = "DELCUS" => DelcusRejection(c) = None
  /\ c.prog = "CREACC" => CreaccRejection(c) = None
  /\ c.prog = "CRECUST" => CrecustRejection(c) = None

\* A transaction that holds the accounts in S, or the customers in S, and has
\* a version of each, and nothing else.
HoldsAccounts(t, S) ==
  /\ t.held = {AccountKey(a) : a \in S}
  /\ DOMAIN t.account = S /\ DOMAIN t.customer = {}

HoldsCustomer(t, c) ==
  /\ t.held = {CustomerKey(c)}
  /\ DOMAIN t.customer = {c} /\ DOMAIN t.account = {}

XfrfunHolds(c, p, t) ==
  /\ p = "xfr_from" => IF c.from < c.to THEN t = NoTx ELSE HoldsAccounts(t, {c.to})
  /\ p = "xfr_to" => IF c.from < c.to THEN HoldsAccounts(t, {c.from}) ELSE t = NoTx
  /\ p \in {"xfr_debit", "xfr_credit", "xfr_proctran", "commit"} =>
       HoldsAccounts(t, {c.from, c.to})

DbcrfunHolds(c, p, t) ==
  p \in {"dbcr_update", "dbcr_proctran", "commit"} => HoldsAccounts(t, {c.account})

UpdaccHolds(c, p, t) ==
  p \in {"updacc_update", "updacc_proctran", "commit"} => HoldsAccounts(t, {c.account})

DelaccHolds(c, p, t) ==
  /\ p = "delacc_delete" => HoldsAccounts(t, {c.account})
  /\ p \in {"delacc_proctran", "commit"} =>
       /\ t.held = {AccountKey(c.account)}
       /\ DOMAIN t.account = {} /\ DOMAIN t.customer = {}
  /\ p = "delacc_proctran" => c.account \in DOMAIN t.list

UpdcustHolds(c, p, t) ==
  p \in {"updcust_update", "updcust_proctran", "commit"} => HoldsCustomer(t, c.customer)

\* The accounts deleted so far come before those still in the queue.
DelcusHolds(c, p, t) ==
  /\ p = "delcus_list" => HoldsCustomer(t, c.customer)
  /\ p \in {"delcus_delete", "delcus_audit", "delcus_proctran", "commit"} =>
       /\ CustomerKey(c.customer) \in t.held
       /\ \A k \in t.held : k = CustomerKey(c.customer) \/ k[1] = 2
       /\ DOMAIN t.account = {}
       /\ DOMAIN t.customer \subseteq {c.customer}
  /\ p \in {"delcus_delete", "delcus_audit"} => t.queue \subseteq DOMAIN t.list
  /\ p = "delcus_delete" => \A k \in t.held : k[1] = 2 => \A a \in t.queue : k[2] < a
  /\ p = "delcus_audit" => \A k \in t.held : k[1] = 2 => \A a \in t.queue : k[2] <= a

CreaccHolds(c, p, t) ==
  /\ p = "creacc_insert" =>
       /\ t.held = {ControlKey} /\ t.control.account_last > 0
       /\ DOMAIN t.account = {} /\ DOMAIN t.customer = {}
  /\ p \in {"creacc_proctran", "commit"} =>
       /\ t.held = {ControlKey, AccountKey(t.control.account_last)}
       /\ DOMAIN t.account = {t.control.account_last} /\ DOMAIN t.customer = {}

CrecustHolds(c, p, t) ==
  /\ p = "crecust_insert" =>
       /\ t.held = {ControlKey} /\ t.control.customer_last > 0
       /\ DOMAIN t.account = {} /\ DOMAIN t.customer = {}
  /\ p \in {"crecust_proctran", "commit"} =>
       /\ t.held = {ControlKey, CustomerKey(t.control.customer_last)}
       /\ DOMAIN t.customer = {t.control.customer_last} /\ DOMAIN t.account = {}

\* A request of command c that is at label p, has started n attempts and has
\* the transaction t, is where its program can bring it.
Placed(c, p, n, t) ==
  /\ p \in Unstarted => n = 0
  /\ p = "begin" => n < MaxAttempts
  /\ p \notin {"idle", "done", "lost"} => Accepted(c)
  /\ p \in EmptyHanded => t = NoTx
  /\ c.prog = "XFRFUN" => XfrfunHolds(c, p, t)
  /\ c.prog = "DBCRFUN" => DbcrfunHolds(c, p, t)
  /\ c.prog = "UPDACC" => UpdaccHolds(c, p, t)
  /\ c.prog = "DELACC" => DelaccHolds(c, p, t)
  /\ c.prog = "UPDCUST" => UpdcustHolds(c, p, t)
  /\ c.prog = "DELCUS" => DelcusHolds(c, p, t)
  /\ c.prog = "CREACC" => CreaccHolds(c, p, t)
  /\ c.prog = "CRECUST" => CrecustHolds(c, p, t)

\* Each request is somewhere its program can bring it, whatever the others do.
EachIsPlaced ==
  \A r \in Requests : Placed(cmd[r], pc[r], attempts[r], tx[r])

LocalInvariant == TypeOK /\ EachIsPlaced

-----------------------------------------------------------------------------
(* What the transactions know of each other and of the tables.             *)

\* The rows a transaction has a version of belong to the customer they belong
\* to in the table; a new account belongs to the customer it was asked for.
KeepsOwners(c, t) ==
  \A a \in DOMAIN t.account :
    IF c.prog = "CREACC" THEN t.account[a].customer = c.customer
    ELSE a \in DOMAIN account /\ t.account[a].customer = account[a].customer

OwnersKept == \A r \in Requests : KeepsOwners(cmd[r], tx[r])

SharedInvariant ==
  LocalInvariant /\ RowsHaveOneWriter /\ OwnersKept /\ ReferentialIntegrity

\* A step of request r in which it takes only free rows, after the rows it
\* already had, and leaves the other transactions alone.
LocksInTurn(r) ==
  /\ \A q \in Requests \ {r} : tx'[q] = tx[q]
  /\ \A k \in tx'[r].held \ tx[r].held :
       Free(r, k) /\ \A h \in tx[r].held : RowBefore(h, k)

\* The same of a step before COMMIT: the tables stay and the rows of the
\* transaction keep their owners.
Orderly(r) ==
  /\ LocksInTurn(r)
  /\ UNCHANGED <<customer, account, cmd>>
  /\ KeepsOwners(cmd[r], tx'[r])
=============================================================================
