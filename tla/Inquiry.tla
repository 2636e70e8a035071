-------------------------------- MODULE Inquiry --------------------------------
(***************************************************************************)
(* What the three inquiry programs INQCUST, INQACC and INQACCCU share: they *)
(* read the tables the updating programs of Cbsa change and write nothing.  *)
(* A plain SELECT sees committed rows only and waits for no row lock.       *)
(***************************************************************************)
EXTENDS Cbsa

CONSTANTS
  Inquirers,         \* HTTP requests to an inquiry program
  Queries,           \* what they may ask
  RandomRetryLimit   \* RANDOM_RETRY_LIMIT of service/inqcust.rs (1000)

ASSUME RandomAssumption == RandomRetryLimit \in Nat \ {0}

VARIABLES
  query,    \* query[i]: what inquiry i asks
  at,       \* at[i]: the statement it runs next
  tries,    \* tries[i]: runs of its closure that ended with 40001
  own,      \* own[i]: the local variables of its handler
  result    \* result[i]: what the client was told

inquiryVars == <<query, at, tries, own, result>>

InquiryPrograms == {"INQCUST", "INQACC", "INQACCCU"}

ASSUME QueriesAssumption == Queries \subseteq [prog : InquiryPrograms, number : Int]

\* The rows of both tables at one moment.
Moment == [customer |-> customer, account |-> account]

NoMoment == [customer |-> EmptyTable, account |-> EmptyTable]

\* view: what the snapshot of its transaction shows; rows: account rows read;
\* highest, draws: of the random mode.
NoOwn == [view |-> NoMoment, rows |-> EmptyTable, highest |-> 0, draws |-> 0]

\* A reply and the rows it carries.
Told(rep, rows) == [reply |-> rep, rows |-> rows]
Untold == Told(None, EmptyTable)

NotFound == Told(Fail("1"), EmptyTable)
RowOf(table, n) == [k \in {n} |-> table[n]]

\* ORDER BY ..._number DESC LIMIT 1
IsLast(table, n) == n \in DOMAIN table /\ \A m \in DOMAIN table : m <= n

InquiryInit ==
  /\ query \in [Inquirers -> Queries]
  /\ at = [i \in Inquirers |-> "idle"]
  /\ tries = [i \in Inquirers |-> 0]
  /\ own = [i \in Inquirers |-> NoOwn]
  /\ result = [i \in Inquirers |-> Untold]

Open(i) == at[i] \notin {"idle", "done", "lost"}

\* The next statement is the one at label `next`, with local variables o.
GoOn(i, next, o) ==
  /\ at' = [at EXCEPT ![i] = next]
  /\ own' = [own EXCEPT ![i] = o]
  /\ UNCHANGED <<query, tries, result>>

\* The inquiry ends, and tells the client `told`.
Tell(i, told) ==
  /\ at' = [at EXCEPT ![i] = "done"]
  /\ own' = [own EXCEPT ![i] = NoOwn]
  /\ result' = [result EXCEPT ![i] = told]
  /\ UNCHANGED <<query, tries>>

\* What a SELECT of row n of a table answers.
TellRow(i, table, n) ==
  Tell(i, IF n \in DOMAIN table THEN Told(Success, RowOf(table, n)) ELSE NotFound)

\* What a SELECT of the row with the highest number answers.
TellLast(i, table) ==
  \/ table = EmptyTable /\ Tell(i, NotFound)
  \/ \E n \in DOMAIN table : IsLast(table, n) /\ TellRow(i, table, n)

\* The services check the number; `first` is the first statement.
Take(i, prog, highest, first) ==
  /\ at[i] = "idle"
  /\ query[i].prog = prog
  /\ IF query[i].number \in 0 .. highest
       THEN GoOn(i, first, NoOwn)
       ELSE Tell(i, Told(Invalid, EmptyTable))

\* with_retry on 40001: the closure starts again at `first`, or XRTY.
RunAgain(i, first) ==
  IF tries[i] + 1 < MaxAttempts
    THEN /\ at' = [at EXCEPT ![i] = first]
         /\ tries' = [tries EXCEPT ![i] = @ + 1]
         /\ own' = [own EXCEPT ![i] = NoOwn]
         /\ UNCHANGED <<query, result>>
    ELSE Tell(i, Told(XRTY, EmptyTable))

\* A database error other than 40001 ends the inquiry with the abend code of
\* its statement.
ReadError(i, codes) ==
  /\ at[i] \in DOMAIN codes
  /\ faults < MaxFaults
  /\ faults' = faults + 1
  /\ Tell(i, Told(Abend(codes[at[i]]), EmptyTable))

\* The handler's future is dropped.
AbandonInquiry(i) ==
  /\ Open(i)
  /\ faults < MaxFaults
  /\ faults' = faults + 1
  /\ at' = [at EXCEPT ![i] = "lost"]
  /\ own' = [own EXCEPT ![i] = NoOwn]
  /\ UNCHANGED <<query, tries, result>>
=============================================================================
