# cbsa-rust in TLA+

cbsa-rust is a bank: twelve CICS/COBOL programs of the CBSA sample, ported to
Rust as HTTP handlers (axum) over CockroachDB (sqlx). Its core logic is what
eight of those programs do to four shared tables, and what three inquiries read
from them, when many requests run at once, when CockroachDB refuses some of them
with SQLSTATE 40001, and when connections and processes fail; what the credit
check makes of five agencies that answer when they like; and how replicas bring
up the schema. That is what these modules model and check with TLC; every safety
and action property of the passing runs is also proved with TLAPS, for every value
of the constants.

## 1. Inventory

Every program has the same three layers, called one after the other:
`web/<prog>.rs` (parse and validate the body, shape the reply),
`service/<prog>.rs` (business checks before any database work), and
`repository/<prog>.rs` (one transaction, in a closure handed to
`db::with_retry`; INQCUST alone runs its statements outside). Requests share
nothing in memory but the connection pool; they meet only in the database. Two
programs use others: CREACC calls INQCUST and INQACCCU, CRECUST the agencies of
CRDTAGY. `main` connects, migrates and only then serves.

| component | state | operations | hard behaviour | what makes it correct |
|---|---|---|---|---|
| transactions and retries: `db.rs`, `error.rs`, sqlx, CockroachDB | the transaction of each attempt, locks, attempts, reply | begin, statements, COMMIT, rollback, `with_retry` | interleaving, 40001 at any statement, errors, lost COMMIT, dropped handlers | a reply says what happened; nothing happens twice or in part; everyone is answered |
| tables: `migrations/`, `domain.rs` | `customer`, `account`, `control`, `proctran` | SQL statements of the programs | foreign key, primary keys, NUMERIC(12,2) | types, referential integrity, audit trail agrees with the tables |
| XFRFUN | two account rows | lock both in COBOL order, check funds, debit, credit, audit | deadlock, lost update, overflow of one half | money conserved, never unfunded, one lock order |
| DBCRFUN | one account row | lock, restrictions on payments, post, audit | lost update | balance moves by what the audit row says |
| UPDACC | one account row | lock, rewrite type, rate and overdraft, audit | a stale row overwriting a balance | balances untouched |
| DELACC | one account row | lock, delete, audit the closing balance | posting while closing | closing balance is the last balance |
| UPDCUST | one customer row | title check, lock, blank rules, rewrite, audit | order of the checks | a blank field keeps what is there at that moment |
| DELCUS | customer and account rows | lock customer, list accounts without lock, delete and audit each, delete customer, audit | listing goes stale; 20-row limit | all or nothing, each account audited once |
| CREACC | control and account rows | two inquiries on other connections, reserve number, insert, audit | check then act; customer removed meanwhile; counter at its end | no orphan, numbers once; the limit (it is *not* kept, see 4) |
| CRECUST | control and customer rows | checks, credit check, reserve, insert, audit | counter contention | numbers once |
| connection pool: `db::connect` | connections in use | acquire, release, time out | everyone waiting on everyone | nobody needs a second connection while holding one |
| INQCUST, INQACC, INQACCCU | a snapshot, rows, draws | read one row or a page; random and last modes | two reads of two moments, a stale highest number, 40001 with and without retry | the answer is true of one moment; every inquiry ends; abend codes mean what they say (they do *not*, see 4) |
| CRDTAGY: `crdtagy.rs` | delay and score of each call | draw, sleep, answer; its endpoint with a 5 s timeout | a timeout and a late poll | whoever is accepted gets a score |
| credit check: `evaluate_credit` in CRECUST | a `JoinSet` of tasks, sum, count, deadline | spawn, join within the 3 s window, abort, average | an answer racing the deadline, a handler polled late, failures among answers | the average is of what came in; the check ends with the window |
| migrations: `migrations/`, `db::migrate`, `main` | applied versions, `proctran_counter_seq`, rows | list, apply, record, serve, insert | replicas racing without a lock, a stop in the middle, `setval` beside rows | no service on half a schema; no number twice |
| HTTP, configuration | none | routing, bodies, status codes | none (pure I/O) | out of scope |

The hazards are listed, each with its line and the properties that watch it, in
`PROJECT.json`.

## 2. Modules

    Tables <- Transactions <- Xfrfun ... Crecust <- Cbsa <- CbsaProperties
       ^                                                        |
       +------ Bank <----- INSTANCE (refinement) ---------------+

    Cbsa <- Inquiry <- Inqcust, Inqacc, Inqacccu <- Inquiries <- InquiryProperties <- Pool
                                                                     |
    Tables <- Answers <----------- INSTANCE (refinement) ------------+

    CbsaProperties <- CbsaInvariant <- CbsaKnowledge
                           ^                 ^
                      CbsaProofs <- CbsaSharingProofs <- CbsaBankProofs <- CbsaAuditProofs
                                                              ^
                                                   Pool <- ServiceProofs

    Crdtagy <- CreditCheck <- CreditProperties <- CreditProofs
       ^
       +------ CrdtagyEndpoint <- EndpointProofs        Migrate <- MigrateProofs

`A <- B` says that B extends A. Modules named ...Proofs are for TLAPS.

* **Tables**: rows, replies, constants and their assumptions. A table is a
  function from key to row.
* **Transactions**: what all programs share. `pc[r]` is the statement request
  `r` runs next; `tx[r]` its open transaction: `held` (rows locked or written),
  its own version of those rows, the audit rows it will append, and the local
  variables `list` and `queue` of programs that keep any. `Begin` is
  `pool.begin()` in a new run of the closure, `Statement` a statement that
  succeeds, `Refuse` an early return, `Commit` the COMMIT that makes everything
  visible in one step. `RetryOrGiveUp` is `with_retry` on 40001.
  `SerializationFailure`, `StatementError`, `BeginError`, `CommitLost` and
  `Abandon` are what may go wrong, and in Creacc `CreaccSerializationFailure`.
* **Xfrfun, Dbcrfun, Updacc, Delacc, Updcust, Delcus, Creacc, Crecust**: one
  action per SQL statement of the program, with the early returns that follow
  it, in the order of the code. `<Prog>Rejection` is what the layers above the
  repository refuse, `<Prog>Errors` the reply to a database error at each
  statement.
* **Cbsa**: any number of requests over all programs and all failures.
* **Bank**: the abstract specification. A request takes effect in one step on
  the tables of that step, or is refused for a reason that holds in that step,
  or blames the database. No transactions, locks or retries. If nothing broke, the
  replies that blame it are XRTY, and for CREACC also CVR1 (`Contended`).
* **CbsaProperties**: the properties, and the instance of Bank whose
  specification is the property `ImplementsAtomicBank`.
* **CbsaInvariant**: the strengthened invariants of types and sharing.
  **CbsaKnowledge**: what a transaction has computed at each statement, in terms
  of the tables as they are now.
* **Inquiry**: what inquiries share: where each is (`at`), what it has read
  (`own`), its attempts, its answer (`result`). **Inqcust, Inqacc, Inqacccu**:
  one action per SELECT, INQACCCU's in one transaction whose snapshot is
  `own.view`, INQCUST's draws one by one on one connection.
* **Inquiries**: the whole service, inquiries beside the requests of Cbsa.
* **Answers**: the abstract specification of an inquiry: tables that change as
  they please, and an answer that is true of them at one moment between arrival
  and reply. No statements, no retries. `AnswersAreTrue` in
  **InquiryProperties** instantiates it. It also justifies that Creacc makes
  each of its two inquiry calls in one step.
* **Pool**: the same service when every transaction and every single statement
  needs one of `PoolSize` connections, and a wait for one may time out.
* **Crdtagy**: what an agency may answer and after how long.
  **CreditCheck**: `evaluate_credit`, with a task for each agency on other
  threads, a clock, and a handler that is polled late by at most `Lag`. Crecust's
  credit step is its outcome: a score, or none. **CreditProperties** states what
  CRECUST relies on. **CrdtagyEndpoint**: the endpoint with its timeout.
* **Migrate**: replicas that start, list what is applied, run both migrations
  without a lock, serve, stop and start again; its properties are at its end.
* **MC...**: databases, commands, queries and outcomes for TLC.

### Abstractions

* Money is an integer. The code rounds to two decimals half-even, but accepts
  no request with more, so every value it adds has two decimals already.
* Names and addresses are classes of text (empty, indented, without a known
  title, ordinary); account types are themselves, with one that is not
  supported. An UPDACC type that is blank is `""`.
* The sort code is fixed by the configuration and left out. So are dates,
  rates, descriptions, and scores outside CreditCheck; the `proctran` counter is
  in Migrate only. `tran_ref` is taken
  from the clock once, outside the retried closure; it names the request.
* A row that a statement locks or writes belongs to its transaction until the
  transaction ends; another request that wants it waits. Reads without a lock
  are INQCUST and INQACCCU in CREACC (transactions of their own), DELCUS's
  listing, and the foreign key checks. CockroachDB refreshes them at COMMIT;
  `ReadsStillValid` says what must still be true, and otherwise COMMIT answers
  40001 (`CommitConflict`). DELCUS's foreign key check sees the snapshot of its
  listing, so it may also restart there.
* A read without a lock never waits here. In CockroachDB it waits for a row that
  another transaction has written and not committed, and CREACC's and DELCUS's
  foreign key checks can wait for each other in that way. CockroachDB ends this
  with 40001, which `SerializationFailure` and `CommitConflict` cover; what
  `LockOrder` and `EveryRequestEnds` exclude is a circle of locks and writes.
* 40001 may come at any statement of any attempt (contention, a deadlock that
  CockroachDB breaks, a failed refresh); attempts bound it. It may also come in
  the inquiries CREACC makes before its own transaction
  (`CreaccSerializationFailure`): INQCUST's is reported at once, as CVR1;
  INQACCCU's are retried by INQACCCU, which CREACC does not see, and end in XRTY
  if they do not stop. None of this is a fault; other failures are, and are bounded
  by `MaxFaults`.
* A reservation of a number and the check against the maximum are two steps of
  one transaction, as in the code; a rollback returns the number.
* Inquiries lock nothing and write nothing. A SELECT on its own reads the tables
  of one moment. INQACCCU's two SELECTs read one snapshot unless the read
  timestamp moves, which CockroachDB does only if what was read still holds
  (`CanRefresh`).
* Time in CreditCheck and CrdtagyEndpoint is discrete, `Second` ticks to a
  second, so that an answer can come in one tick before, at or after the
  deadline. `Lag` bounds how long a handler that could go on is not polled. No
  bound is put on the agencies' tasks.
* The first migration fails if its tables are there; the second is idempotent up
  to the row that records it, whose key is taken. `nextval` waits for nobody; an
  insert whose number another open transaction has inserted waits for it.
* Branches the database makes unreachable (an UPDATE of a locked row that
  touches none or two, a stored row the domain types reject, a missing control
  row) have the reply of a database error at that statement when they share it,
  and are left out otherwise (DBCRFUN's code 2).

## 3. Runs

Requests and calls are interchangeable, so runs that check no liveness use
symmetry.

| run | asks | bounds |
|---|---|---|
| `money` | Do balances move exactly as audited, is every debit funded, is every reply true? | 3 requests, any of 7 commands each, 2 attempts, 1 failure |
| `customers` | Does an account always have its customer, is each closing balance audited, is each number issued once? | 3 requests, any of 6 commands, account numbers up to 4, 2 attempts, 1 failure |
| `atomic` | Is the service, with contention but without failures, a bank that handles one request at a time? | 2 requests, any of 46 commands, 2 attempts |
| `breakdown` | Is it still, with a failure? | the same, 1 failure |
| `waiting` | Is there one lock order, and does everyone finish? | 3 requests that want 2 to 4 rows of a cycle |
| `capacity` | Is the limit on accounts kept? (violated) | 3 CREACC requests for one customer |
| `answers` | Is every answer true of one moment, and does every inquiry end? | 1 inquiry of 14, beside 2 requests that remove, open and post; 2 attempts, 1 failure, 2 draws |
| `recoverable` | Is an abend code only for what cannot be retried? (violated) | 1 inquiry, 1 removal |
| `pool` | Does nobody wait for a connection while holding one, and does everyone end on the smallest pool? | 1 connection, 2 requests, 1 inquiry |
| `window` | Which scores count, and when is the check over, even if agencies never answer? | 2 agencies, window of 9 ticks, lag 1, 13 ticks |
| `agency` | Does everyone an agency accepts get a score? | 2 calls, timeout of 10 ticks, 13 ticks |
| `migrate` | Does nobody serve on half a schema and everyone come to serve, and is no number taken twice if replicas migrate one at a time? | 3 replicas, racing or not, 1 stop, numbers to 4 |

Why the bounds are enough to be interesting: two requests show every pairwise
interleaving; the third lets one request change a row between an unlocked read
and a write of a second while another waits, and lets three transfers form a
cycle. Two attempts make both branches of `with_retry` happen (again, and give
up), and a request that reserved a number start over. One failure hits every
statement in turn, including COMMIT. `MaxMoney = 3`, `MaxAccountNumber = 4` (or
6), `PageSize = 2` and `MaxAccountsPerCustomer = 1` bring the edges of
NUMERIC(12,2), of the counter, of the listing and of the limit within reach:
`EveryCommands` has, for every program, each reason to refuse.

Inquiries change nothing, so one inquiry sees all that any number would. Its
database has a customer with a full page of accounts, a gap in the numbers and a
last customer; its queries cover numbers in use, free and out of range and both
special modes; two draws are enough to miss and to give up (the code's limit is
1000). One connection is the smallest pool, and the strongest: whoever would need
a second one waits for himself. Two agencies let every pair of outcomes meet (in
time, late, failed, out of range, silent), with the code's window of three seconds
and delays and scores at the ends of their ranges; a task may start at any time.
Three replicas let two race while a third is down, or one serve while another
fails; databases are empty, at the baseline with rows that leave a gap, or up to
date.

What they show:

* `TypeOK` (MCCbsa): no transaction ever installs a balance or a number out of range; a
  request never makes more than `MaxAttempts` attempts.
* `MoneyIsAudited`: in every step the balances of the accounts that stay change
  by what the audit rows of that step say. It is violated as soon as the row is
  read without `FOR UPDATE`.
* `NoUnfundedDebit`: a transfer or payment debit leaves its account funded by
  the balances and overdraft limit of the moment it commits.
* `ReferentialIntegrity`, `ClosingBalanceIsAudited`: CREACC's early check and
  DELCUS's unlocked listing are harmless under SERIALIZABLE, and the first is
  not under READ COMMITTED (the mutant).
* `NumbersAreIssuedOnce`: no number twice, none skipped, none without its audit
  row, whatever fails after it was reserved.
* `ReplyIsTruthful`: success means applied exactly once; any other reply means
  not at all, except UNEX or silence, which mean at most once.
* `ImplementsAtomicBank`: requests are linearizable: each takes effect in one
  step, and each refusal was justified at one moment. A request is told of a failure
  that contention alone cannot cause only if there was one.
* `LockOrder`, `EveryRequestEnds`: control row, then customers, then accounts,
  each by number; so nobody waits for locks in a circle. The second assumes weak fairness
  of each request's own steps (`Fairness`): tokio polls every task that can go
  on, and CockroachDB answers a statement whose row is free. No fairness is
  asked of failures, nor of CockroachDB breaking circles of locks: 40001 may
  never come, and the requests end all the same.

* `AnswersAreTrue`: an inquiry never mixes two moments, though a request may be
  removing the customer whose accounts it lists, and says "R" only if a number
  that was given out is free. It is violated when INQACCCU's snapshot may move
  past what it has read.
* `EveryInquiryEnds` in `answers`: assumes weak fairness of the
  inquiry's own steps only (`InquiryFairness`), nothing of the requests beside it.
* `PoolIsKept`: no connection leaks and nobody acquires one while holding one; it
  is violated when an audit row is written through the pool.
* `EveryRequestEnds`, `EveryInquiryEnds` on one connection: a request and an
  inquiry that can get a connection and keep wanting it get one (`PoolFairness`;
  sqlx serves waiters in order); `acquire_timeout` need never fire. So the
  timeout is for load, and never what breaks a deadlock.
* `ScoreIsAverage`, `ScoreIsValid`: failures, panics and answers out of range are
  neither summed nor counted; the average fits the CHECK of `credit_score`.
* `PromptAnswersCount`, `AtMostOneLateScore`, `EndsWithWindow`: an answer in the
  window counts, unless the handler is so late that it cannot get to it;
  `timeout` polls `join_next` before its timer, so one late answer may count, not
  two; the check is over at the deadline plus twice the lag.
* `CheckEnds`: assumes that the handler is polled and time goes on (`Fairness`).
  Nothing is asked of the agencies.
* `AcceptedIsScored`: delays are shorter than the endpoint's timeout, and a poll
  that comes after both takes the score: PLOP is not reachable with the system's
  own generator.
* `DefaultIsFresh`, `SchemaBeforeService`, `EveryReplicaServes`: the promises of
  `migrations/0002` and of `db::migrate`, whatever stops in the middle.
  `serialized` is the rule `db::migrate`'s comment gives to deployments, and
  `DefaultIsFresh` is asked under it only. `Fairness` is that of an orchestrator: a
  replica that is down is started again.

Deadlock is checked in every run; `Idle` is the service with nothing to do.

## 4. Findings

`capacity` is violated. CREACC compares the number of accounts with
`MAX_ACCOUNTS_PER_CUSTOMER` (9) in `service/creacc.rs:240`, on a connection of
its own; the transaction that inserts the account (`repository/creacc.rs`)
reads no account of the customer, so SERIALIZABLE finds no conflict. The test
is `>`, so one after the other ten accounts can be opened; two requests that both
count before either inserts open more. `CapacityRespected` grants the tenth and is still
violated. Accounts beyond the twentieth have a second effect, which
`Bank!RemoveCustomerRefused` records: DELCUS lists at most 20 accounts, the
foreign key then refuses to delete the customer, and every DELCUS of that
customer abends with WPV7.

`recoverable` is violated. `docs/translation-rules.md:148` keeps program abend
codes such as CVR1 for "genuinely unrecoverable errors"; INQCUST does not run
its statements under `with_retry`, so its first 40001 ends in CVR1
(`service/inqcust.rs:205`). INQACC and INQACCCU try again, and report XRTY when
they have tried enough. CREACC's call of INQCUST (`service/creacc.rs:208`) has the
same fate: in run `atomic`, where nothing breaks, CREACC ends with CVR1, and `Bank`
has to allow it.

## 5. Proofs

`tlapm` proves each theorem below for every value of the constants that satisfies
the assumptions named. Every safety and action property of a passing run is among
them.

### The requests

`CbsaProofs`, `CbsaSharingProofs`, `CbsaBankProofs`, `CbsaAuditProofs`: any set of
requests and commands, any initial database, any bounds (`BoundsAssumption`,
`DatabasesAssumption`, `CommandsAssumption`: the commands are commands of the eight
programs; the rows are rows of the schema).

| theorem | states |
|---|---|
| `RequestsArePlaced` | `Spec => []LocalInvariant` |
| `TypeCorrect` | `Spec => []TypeOK` |
| `SharingIsSound` | `Spec => []SharedInvariant` |
| `OneWriter` | `Spec => []RowsHaveOneWriter` |
| `IntegrityKept` | `Spec => []ReferentialIntegrity` |
| `LocksAreOrdered` | `Spec => LockOrder` |
| `ComputationsStayCurrent` | `Spec => []BankInvariant` |
| `ServiceIsABank` | `Spec => ImplementsAtomicBank` |
| `MoneyAudited` | `Spec => MoneyIsAudited` |
| `ClosingBalancesAudited` | `Spec => ClosingBalanceIsAudited` |
| `NumbersIssuedOnce` | `Spec => NumbersAreIssuedOnce` |
| `DebitsFunded` | `Spec => NoUnfundedDebit` |
| `RepliesAreTruthful` | `Spec => []ReplyIsTruthful` |

*Types.* `TypeOK` is not inductive: XFRFUN's credit needs to know that
the transaction has a version of the row it credits, CREACC's audit step that
the number was within range. `Placed(c, p, n, t)` says of one request what it
has locked, which rows it has a version of and how many attempts it has made,
at each label of its program. `LocalInvariant` (`TypeOK` and `Placed` for every
request) is inductive and says nothing about two requests at once, so a step of
`r` needs only facts about `r`: the generic lemmas (`StatementKeeps`,
`EndingKeeps`, `LockAccountKeeps`, ...) cover the building blocks, one lemma per
program (`XfrfunKeeps`, ...) goes through its actions, and `CommitKeeps`,
`TroubleKeeps` cover the rest.

*Sharing.* Each step is `Orderly`, or installs a COMMIT
(`StepIsOrderly`): it takes only free rows that come after the rows it has, and
keeps the owner of every account it has a version of. So no row has two writers
(`TurnsKeepOneWriter`); so a version a transaction has of a row belongs to the
customer the table says (`InstallKeepsOwners`); so a COMMIT leaves no account
without its customer (`InstallKeepsIntegrity`): CREACC's customer is still
there and DELCUS has deleted every account of the customer, by
`ReadsStillValid`, and nobody else changes the owner of an account.

*The bank.* `SharedInvariant` says who holds a row and not what is in it.
`BankInvariant` adds `Knows`, for each program and label: what the transaction has
computed is a function of the tables *as they are now*. For rows it holds this
lasts because a row has one writer; for what was read without a lock, DELCUS's list,
only what cannot be undone is claimed: a listed account that is gone stays gone,
because its number has been issued (`NumbersWereIssued`). Three arguments follow.
Every statement moves a request to what it should know next, or refuses for a
reason the bank has (`XfrfunBanks` ... `CrecustBanks`, `DatabaseErrorBanks`,
`ContentionBanks`, joined in `StepBanks`). Every COMMIT that is applied is the bank's effect of the command
on the tables of that moment (`TransferTakesEffect` ... `RemoveCustomerTakesEffect`,
joined in `CommitTakesEffect`), and spares what everybody else knows
(`CommitSparesOthers`, `SparedXfrfun` ...). So a step maps to one step of `Bank`
or to a stutter (`StepIsTheBanks`), which is the refinement.

*The audit trail.* The tables change only when a command takes effect, and then
exactly as the bank says; the audit properties are read off from that effect, program
by program. They speak of positions in `proctran` (which rows a step appended, which
are of a request), so no sum over a set is needed: a step books at most one row on an
account that stays, and `ClosesAsAudited` names the row of the n-th account that was
closed.

One proof did not go through and corrected the model: with overdraft limits of
any size a transfer could be funded and still not fit NUMERIC(12,2), a refusal that
the bank does not know. The column `overdraft_limit` is NUMERIC(12,2) too, which
`Overdrafts` now says.

### Inquiries and the pool

`ServiceProofs`: in addition any set of inquirers and queries, any
`RandomRetryLimit`, any pool size (`RandomAssumption`, `QueriesAssumption`,
`PoolAssumption`).

| theorem | states |
|---|---|
| `InquiriesAreAware` | `ServiceSpec => []ServiceInvariant` |
| `InquiriesTyped` | `ServiceSpec => []InquiryTypeOK` |
| `AnswersKept` | `ServiceSpec => AnswersAreTrue` |
| `ServiceStaysABank` | `ServiceSpec => ImplementsAtomicBank` |
| `PoolLeavesService` | `PoolSpec => []ServiceInvariant` |
| `PoolKeepsPromises` | `MaxFaults > 0` gives `PoolSpec => ImplementsAtomicBank /\ AnswersAreTrue` |
| `PoolHolds` | `PoolSpec => []PoolIsKept` |

`Aware` says what an inquiry may take for granted at each SELECT: the mode it was
asked for, and that what INQACCCU has kept is of the one moment in its snapshot.
`ServiceInvariant` joins it with `BankInvariant`: inquiries need the
requests' invariant (numbers are given out and never taken back, so the highest
number of the random mode stays one that was given out), and requests do not notice
inquiries (`InquiriesAreUnseen`). A page of 20 accounts is the first 20 because the
minimal one left out would have a smaller one than all listed (`FirstOnes`, by
well-foundedness of the naturals). A step then keeps the promise by looking, starting
again, answering from the present or the kept moment, or giving up.

`PoolSteps` splits a step of the pool into one of the service and a wait that timed
out; a time-out is a refusal that blames the database (`TimeoutBlames`,
`InquiryTimeoutBlames`), which the abstract specifications allow only if the
database may fail at all: hence `MaxFaults > 0`. For `PoolIsKept` the invariant
counts those who have a connection (`Busy`, `Reading`, both finite); a request joins
them only at `begin` (`RequestConnects`, from `Placed`: no attempt was counted
before), an inquiry only where it acquires (`InquiryConnects`).

### The credit check and its agencies

`CreditProofs`: any finite set of agencies, any delays and answers,
any window and any lag (`AgenciesAssumption`, `TimesAssumption`).

| theorem | states |
|---|---|
| `CreditIsKept` | `Spec => []CreditInvariant` |
| `CreditTyped` | `Spec => []TypeOK` |
| `ScoresAreValid` | `Spec => []ScoreIsValid` |
| `ScoresAreAverages` | `Spec => []ScoreIsAverage` |
| `WindowEndsTheCheck` | `Spec => []EndsWithWindow` |
| `OneLateScore` | `Spec => []AtMostOneLateScore` |
| `PromptAnswersAreCounted` | `Steps * Lag < Window => (Spec => []PromptAnswersCount)` |

`CreditInvariant` adds to the types how late the handler may be at each point
(`Timely`: it waits only from before the deadline, so what it joins first after
the deadline is the last), that `returned` counts the tasks counted and `total`
lies between that and 998 times that (`Tallied`: all that the range of the average
needs), and that a task is counted after it finished and no two after the deadline
(`Punctual`). `AverageOfScores` is the arithmetic.

`ScoreIsAverage` folds over a set. That a sum does not depend on the order is proved
from the definition of the fold, by a counterexample of least size
(`FoldInAnyOrder`); induction over data is not needed.

`PromptAnswersCount` fails without its hypothesis (TLC: 2 agencies, window 9, lag 3): a
handler that may be late at every step, `Steps` of them, can take as long as the
window for the answers of others. With five agencies that is nine polls in three
seconds.

`EndpointProofs`: any set of calls, any clock (`CallsAssumption`, and
`AnswersInTime`: the endpoint asks the agencies of this repository, which draw a
delay of 1 or 2 seconds, below the timeout of 5).

| theorem | states |
|---|---|
| `EndpointIsKept` | `Spec => []EndpointInvariant` |
| `EndpointTyped` | `Spec => []TypeOK` |
| `AcceptedAreScored` | `Spec => []AcceptedIsScored` |

### Start-up

`MigrateProofs`: any number of replicas and stops, and any
rows that are there (`MigrateAssumption`).

| theorem | states |
|---|---|
| `SchemaIsKept` | `Spec => []SchemaInvariant` |
| `StartUpTyped` | `Spec => []TypeOK` |
| `NoEarlyService` | `Spec => []SchemaBeforeService` |
| `NumbersAreFresh` | `Spec => []DefaultIsFresh` |

The first three hold however many replicas race: what a migrator has listed stays
applied. The last is about deployments that serialize migrations; it needs that nothing a migrator read changes under it
(`OneMigrates`: only migrators change what is applied, and rows are added only
once all is applied) and that the sequence is past every number in use
(`PastTheRows`). `LastNumber` shows that `max(counter) + 1` is past every row, from
the well-foundedness of the naturals.

### Only model-checked

Liveness under fairness is out of the prover's reach: `EveryRequestEnds`,
`EveryInquiryEnds`, `CheckEnds` and `EveryReplicaServes` rest on the runs. So do the
two findings, `CapacityRespected` and `AbendIsUnrecoverable`, which are violated.

## 6. Not modelled

* HTTP bodies, status codes, configuration, logging: pure I/O.
* The date of birth rules, half-even rounding and the audit descriptions: pure
  functions; a command carries the verdict (`birth`), a call of an agency whether
  its body is valid.
* The generators' distributions (`Lcg64`, the random customer): any value of
  their range may come out.
* Which of several waiters gets a connection, and how long `acquire_timeout` is.
* CRECUST's credit check and CRECUST's transaction are composed by their
  interface, a score or none: the agencies touch no table, and the transaction
  begins after the check has ended.
* A binary without migration 0002 serving beside one that applies it: its own
  code for the counter is not in the repository.
* That a lowered overdraft limit may leave an account beyond it: no document of
  the repository says whether that is wrong.

## 7. Plan

Done: the core (Tables, Transactions, the eight updating programs, Cbsa), the
abstract Bank and its refinement; the inquiries and their abstract specification
Answers; the pool; the credit check and the agencies; start-up and migrations.
Proved: every safety and action property of the passing runs, the refinements of Bank
and Answers among them, with inquiries and the pool beside the requests.

Next, in order:

1. That waits cannot go in a circle, as an invariant: with `LockOrder`, whenever
   someone waits for a row, someone who waits for none can go on. It is the safe half
   of `EveryRequestEnds`, and within the prover's reach.
2. That attempts and statements bound the steps of a request (a measure that every
   step lowers), the other half.
3. CRECUST's credit step as the outcome of CreditCheck, by refinement and no longer
   by interface.
4. The audit properties for `ServiceSpec` and `PoolSpec`, from the same lemmas.
