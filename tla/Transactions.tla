----------------------------- MODULE Transactions -----------------------------
(***************************************************************************)
(* The ground every banking program of cbsa-rust stands on:                *)
(*   - the four tables of migrations/0001_baseline.sql;                    *)
(*   - one sqlx transaction per attempt of a request, run on CockroachDB   *)
(*     at SERIALIZABLE: a row that a statement locks (SELECT ... FOR       *)
(*     UPDATE) or writes stays with its transaction until it ends, and     *)
(*     what was read without a lock is checked again at COMMIT;            *)
(*   - db::with_retry, which runs the closure of a program again, in a     *)
(*     fresh transaction, after SQLSTATE 40001;                            *)
(*   - the reply a request ends with (error.rs and the Outcome enums).     *)
(* The program modules (Xfrfun, Dbcrfun, ...) add one action per SQL       *)
(* statement; module Cbsa composes them.                                   *)
(***************************************************************************)
EXTENDS Tables

VARIABLES
  cmd,        \* cmd[r]: the command of request r
  pc,         \* pc[r]: the statement request r runs next
  attempts,   \* attempts[r]: runs of the closure that with_retry has started
  tx,         \* tx[r]: the open transaction of request r
  reply,      \* reply[r]: what the client was told
  faults      \* failures injected so far (bounded by MaxFaults)

vars == <<customer, account, control, proctran,
          cmd, pc, attempts, tx, reply, faults>>

-----------------------------------------------------------------------------
(* Locks. Rows are named <<table, key>>.                                   *)

ControlKey == <<0, 0>>
CustomerKey(c) == <<1, c>>
AccountKey(a) == <<2, a>>

LockKeys == {0, 1, 2} \X Nat

KeysOf(table, held) == {k[2] : k \in {h \in held : h[1] = table}}

Free(r, key) == \A q \in Requests \ {r} : key \notin tx[q].held

-----------------------------------------------------------------------------
(* Transactions. tx[r].customer, .account and .control are the values the  *)
(* transaction has for the rows it holds; a held row that is not in        *)
(* .customer or .account is deleted. .list is the account rows the program *)
(* keeps in local variables, .queue the ones it has still to process.      *)

NoControl == [customer_count |-> 0, customer_last |-> 0,
              account_count |-> 0, account_last |-> 0]

NoTx == [held |-> {}, customer |-> EmptyTable, account |-> EmptyTable,
         control |-> NoControl, proctran |-> <<>>,
         list |-> EmptyTable, queue |-> {}]

\* The table once a transaction that holds the keys `held` has installed its
\* own version of those rows.
Merge(base, own, held) ==
  [k \in (DOMAIN base \ held) \cup DOMAIN own |->
     IF k \in DOMAIN own THEN own[k] ELSE base[k]]

-----------------------------------------------------------------------------
(* The life of a request: idle -> (service checks) -> begin -> statements  *)
(* -> commit -> done. "lost" is a request whose handler was dropped.       *)

Running(r) == pc[r] \notin {"idle", "done", "lost"}

Init ==
  /\ \E d \in InitialDatabases :
       /\ customer = d.customer
       /\ account = d.account
       /\ control = d.control
  /\ proctran = <<>>
  /\ cmd \in [Requests -> Commands]
  /\ pc = [r \in Requests |-> "idle"]
  /\ attempts = [r \in Requests |-> 0]
  /\ tx = [r \in Requests |-> NoTx]
  /\ reply = [r \in Requests |-> None]
  /\ faults = 0

\* The request ends with reply rep. Whatever its transaction did is rolled
\* back: sqlx rolls an uncommitted Transaction back when it is dropped.
Answer(r, rep) ==
  /\ pc' = [pc EXCEPT ![r] = "done"]
  /\ tx' = [tx EXCEPT ![r] = NoTx]
  /\ reply' = [reply EXCEPT ![r] = rep]
  /\ UNCHANGED <<tables, cmd, attempts>>

\* A statement that succeeds: the transaction becomes t, the next statement is
\* the one at label `next`.
Statement(r, next, t) ==
  /\ pc' = [pc EXCEPT ![r] = next]
  /\ tx' = [tx EXCEPT ![r] = t]
  /\ UNCHANGED <<tables, cmd, attempts, reply, faults>>

\* The closure, or a check before it, ends with Failure or Abend.
Refuse(r, rep) == Answer(r, rep) /\ UNCHANGED faults

\* The handler takes the request: service-level validation either answers it
\* or passes it on to `next`.
Receive(r, rejection, next) ==
  /\ pc[r] = "idle"
  /\ IF rejection # None THEN Refuse(r, rejection) ELSE Statement(r, next, NoTx)

\* One run of the closure: pool.begin() on a fresh connection.
Begin(r, first) ==
  /\ pc[r] = "begin"
  /\ pc' = [pc EXCEPT ![r] = first]
  /\ attempts' = [attempts EXCEPT ![r] = @ + 1]
  /\ UNCHANGED <<tables, cmd, tx, reply, faults>>

\* Mutant of LockAccount: the row is read as a plain SELECT would, without
\* waiting for the transaction that is about to change it.
ReadAccount(r, next, a, missing) ==
  IF a \in DOMAIN account
    THEN Statement(r, next,
           [tx[r] EXCEPT !.held = @ \cup {AccountKey(a)},
                         !.account = Overlay(@, a, account[a])])
    ELSE Refuse(r, missing)

\* SELECT ... FOR UPDATE of an account row. `missing` answers a request whose
\* account does not exist.
LockAccount(r, next, a, missing) ==
  /\ Free(r, AccountKey(a))
  /\ IF a \in DOMAIN account
       THEN Statement(r, next,
              [tx[r] EXCEPT !.held = @ \cup {AccountKey(a)},
                            !.account = Overlay(@, a, account[a])])
       ELSE Refuse(r, missing)

\* SELECT ... FOR UPDATE of a customer row.
LockCustomer(r, next, c, missing) ==
  /\ Free(r, CustomerKey(c))
  /\ IF c \in DOMAIN customer
       THEN Statement(r, next,
              [tx[r] EXCEPT !.held = @ \cup {CustomerKey(c)},
                            !.customer = Overlay(@, c, customer[c])])
       ELSE Refuse(r, missing)

\* Mutant of ReserveNumber: the control row is read, increased by the program
\* and written back, and nothing holds it in between.
ReadNumber(r, next, bumped) ==
  Statement(r, next, [tx[r] EXCEPT !.held = @ \cup {ControlKey}, !.control = bumped])

\* UPDATE control SET ..._count = ..._count + 1, ..._last = ..._last + 1
\* RETURNING ..._last, where `bumped` is the row with both increased.
ReserveNumber(r, next, bumped) ==
  /\ Free(r, ControlKey)
  /\ Statement(r, next, [tx[r] EXCEPT !.held = @ \cup {ControlKey},
                                     !.control = bumped])

\* INSERT INTO proctran; the last statement of every program.
InsertProctran(r, next, type, amount) ==
  Statement(r, next,
            [tx[r] EXCEPT !.proctran = Append(@, Audit(r, type, amount))])

-----------------------------------------------------------------------------
(* COMMIT and everything that can go wrong.                                *)

\* Mutant of ReadsStillValid: READ COMMITTED instead of SERIALIZABLE.
ReadsNotChecked(r) == TRUE

\* The rows read without a lock must still be what they were: the customer an
\* inserted account refers to exists, and a deleted customer has exactly the
\* accounts that were listed and deleted with it.
ReadsStillValid(r) ==
  LET c == cmd[r].customer IN
  /\ cmd[r].prog = "CREACC" => c \in DOMAIN customer
  /\ cmd[r].prog = "DELCUS" =>
       /\ FirstPage(c) = tx[r].list
       /\ AccountsOf(c) \subseteq KeysOf(2, tx[r].held)

\* What COMMIT makes visible, all at once.
Install(r) ==
  LET t == tx[r] IN
  /\ customer' = Merge(customer, t.customer, KeysOf(1, t.held))
  /\ account' = Merge(account, t.account, KeysOf(2, t.held))
  /\ control' = IF ControlKey \in t.held THEN t.control ELSE control
  /\ proctran' = proctran \o t.proctran

\* Only a Success outcome is committed, and then reported.
Commit(r) ==
  /\ pc[r] = "commit"
  /\ ReadsStillValid(r)
  /\ Install(r)
  /\ pc' = [pc EXCEPT ![r] = "done"]
  /\ tx' = [tx EXCEPT ![r] = NoTx]
  /\ reply' = [reply EXCEPT ![r] = Success]
  /\ UNCHANGED <<cmd, attempts, faults>>

\* Mutants of RetryOrGiveUp: one attempt too many, and a closure that goes on
\* with what the failed attempt left behind.
RetryOnceMore(r) ==
  IF attempts[r] <= MaxAttempts
    THEN Statement(r, "begin", NoTx)
    ELSE Refuse(r, XRTY)

RetryWithLeftovers(r) ==
  IF attempts[r] < MaxAttempts
    THEN Statement(r, "begin", tx[r])
    ELSE Refuse(r, XRTY)

\* with_retry on SQLSTATE 40001: the transaction is gone; run the closure
\* again, or give up once MaxAttempts runs have failed.
RetryOrGiveUp(r) ==
  IF attempts[r] < MaxAttempts
    THEN Statement(r, "begin", NoTx)
    ELSE Refuse(r, XRTY)

\* CockroachDB may answer any statement of an open transaction, and COMMIT,
\* with 40001: contention, a deadlock it broke, a read it cannot refresh.
InTransaction(r) == Running(r) /\ pc[r] # "begin" /\ attempts[r] > 0

SerializationFailure(r) == InTransaction(r) /\ RetryOrGiveUp(r)

\* Mutant of StatementError: the error is ignored and what was done so far is
\* committed.
StatementErrorIgnored(r, errors) ==
  /\ pc[r] \in DOMAIN errors
  /\ attempts[r] > 0
  /\ faults < MaxFaults
  /\ pc' = [pc EXCEPT ![r] = "commit"]
  /\ faults' = faults + 1
  /\ UNCHANGED <<tables, cmd, attempts, tx, reply>>

\* Any other database error at a statement has the reply the program gives it.
StatementError(r, errors) ==
  /\ pc[r] \in DOMAIN errors
  /\ faults < MaxFaults
  /\ \E rep \in errors[pc[r]] : Answer(r, rep)
  /\ faults' = faults + 1

\* pool.begin() fails: no connection within acquire_timeout, database down.
BeginError(r) ==
  /\ pc[r] = "begin"
  /\ faults < MaxFaults
  /\ Answer(r, UNEX)
  /\ faults' = faults + 1

\* Mutant of CommitLost: a broken connection counts as retryable.
CommitLostRetried(r) ==
  /\ pc[r] = "commit"
  /\ faults < MaxFaults
  /\ \/ ReadsStillValid(r) /\ Install(r)
     \/ UNCHANGED tables
  /\ pc' = [pc EXCEPT ![r] = "begin"]
  /\ tx' = [tx EXCEPT ![r] = NoTx]
  /\ faults' = faults + 1
  /\ UNCHANGED <<cmd, attempts, reply>>

\* The connection breaks while COMMIT is under way, or the handler's future is
\* dropped (client gone, process stopped) at that point: COMMIT may have been
\* applied or not, and the client is told UNEX or nothing.
CommitLost(r) ==
  /\ pc[r] = "commit"
  /\ faults < MaxFaults
  /\ \/ ReadsStillValid(r) /\ Install(r)
     \/ UNCHANGED tables
  /\ \/ /\ pc' = [pc EXCEPT ![r] = "done"]
        /\ reply' = [reply EXCEPT ![r] = UNEX]
     \/ /\ pc' = [pc EXCEPT ![r] = "lost"]
        /\ UNCHANGED reply
  /\ tx' = [tx EXCEPT ![r] = NoTx]
  /\ faults' = faults + 1
  /\ UNCHANGED <<cmd, attempts>>

\* The handler's future is dropped before COMMIT: the client disconnected or
\* the process stopped. CockroachDB rolls the transaction back.
Abandon(r) ==
  /\ Running(r)
  /\ pc[r] # "commit"
  /\ faults < MaxFaults
  /\ pc' = [pc EXCEPT ![r] = "lost"]
  /\ tx' = [tx EXCEPT ![r] = NoTx]
  /\ faults' = faults + 1
  /\ UNCHANGED <<tables, cmd, attempts, reply>>
=============================================================================
