------------------------------ MODULE ServiceProofs ----------------------------
(***************************************************************************)
(* The whole service. What an inquiry has read is all of one moment, so    *)
(* its answer is true of the tables at that moment, and no inquiry         *)
(* disturbs the requests; a connection pool that runs dry takes nothing    *)
(* of this away.                                                           *)
(***************************************************************************)
EXTENDS Pool, CbsaBankProofs, WellFoundedInduction

\* Labels at which INQACCCU keeps a moment in mind.
Viewing == {"inqacccu_list", "inqacccu_found", "inqacccu_missing"}

Outside == {"idle", "done", "lost"}

\* What the statement at label p may take for granted: the mode that was asked
\* for, and what the statements before it have read.
Aware(q, p, o) ==
  /\ p \notin Outside =>
       q.number \in 0 .. IF q.prog = "INQACC" THEN MaxAccountNumber ELSE MaxCustomerNumber
  /\ p = "inqcust_exact" => q.number \notin {0, MaxCustomerNumber}
  /\ p = "inqcust_last" => q.number = MaxCustomerNumber
  /\ p \in {"inqcust_highest", "inqcust_draw"} => q.number = 0
  /\ p = "inqacc_exact" => q.number # MaxAccountNumber
  /\ p = "inqacc_last" => q.number = MaxAccountNumber
  /\ p = "inqacccu_reserved" => q.number \in {0, MaxCustomerNumber}
  /\ p \in DOMAIN InqacccuCodes => q.number \notin {0, MaxCustomerNumber}
  /\ p \in Viewing => IsFiniteSet(DOMAIN o.view.account)
  /\ p \in {"inqacccu_list", "inqacccu_found"} => q.number \in DOMAIN o.view.customer
  /\ p = "inqacccu_missing" => q.number \notin DOMAIN o.view.customer
  /\ p = "inqacccu_found" => o.rows = PageIn(o.view.account, q.number)

EachIsAware == \A i \in Inquirers : Aware(query[i], at[i], own[i])

\* Why the answers are true.
InquiryInvariant == InquiryTypeOK /\ EachIsAware

ServiceInvariant == BankInvariant /\ InquiryInvariant

-----------------------------------------------------------------------------
(* How an inquiry goes on.                                                 *)

\* What an inquiry has kept has the right types, `last` being the highest
\* customer number that was given out.
OwnTyped(o, last) ==
  /\ DOMAIN o = DOMAIN NoOwn
  /\ IsCustomerTable(o.view.customer)
  /\ IsAccountTable(o.view.account)
  /\ IsAccountTable(o.rows)
  /\ o.highest \in 0 .. last
  /\ o.draws \in 0 .. RandomRetryLimit - 1

LEMMA NoOwnTyped ==
  ASSUME NEW n \in Nat
  PROVE  OwnTyped(NoOwn, n)
BY EmptyTableTyped, RandomAssumption DEF OwnTyped, NoOwn, NoMoment

\* The tables have rows of the right types, numbered from 1.
LEMMA TablesTyped ==
  ASSUME BankInvariant
  PROVE  /\ LocalInvariant
         /\ IsCustomerTable(customer) /\ IsAccountTable(account)
         /\ control.customer_last \in Nat
         /\ DOMAIN customer \subseteq 1 .. control.customer_last
         /\ IsFiniteSet(DOMAIN account)
         /\ faults \in Nat
<1>1. /\ LocalInvariant /\ NumbersWereIssued
      /\ DOMAIN account \subseteq 1 .. MaxAccountNumber
      /\ IsCustomerTable(customer) /\ IsAccountTable(account)
      /\ control \in Control /\ faults \in 0 .. MaxFaults
  BY DEF BankInvariant, SharedInvariant, LocalInvariant, TypeOK
<1>2. IsFiniteSet(DOMAIN account)
  <2>1. IsFiniteSet(1 .. MaxAccountNumber)
    BY FS_Interval, BoundsAssumption
  <2>2. QED
    BY <1>1, <2>1, FS_Subset
<1>3. QED
  BY <1>1, <1>2, BoundsAssumption DEF NumbersWereIssued, Control

\* The invariant, inquiry by inquiry.
LEMMA OneInquiry ==
  ASSUME InquiryInvariant, NEW i \in Inquirers
  PROVE  /\ query[i] \in Queries /\ query[i].number \in Int
         /\ query[i].prog \in InquiryPrograms
         /\ at[i] \in InquiryLabels[query[i].prog] \cup Outside
         /\ tries[i] \in 0 .. MaxAttempts - 1
         /\ OwnTyped(own[i], control.customer_last)
         /\ Aware(query[i], at[i], own[i])
         /\ DOMAIN at = Inquirers /\ DOMAIN own = Inquirers
         /\ DOMAIN tries = Inquirers /\ DOMAIN result = Inquirers
<1>1. query[i] \in Queries
  BY DEF InquiryInvariant, InquiryTypeOK
<1>2. query[i] \in [prog : InquiryPrograms, number : Int]
  BY <1>1, QueriesAssumption
<1>3. QED
  BY <1>1, <1>2 DEF InquiryInvariant, InquiryTypeOK, EachIsAware, OwnTyped, Outside

\* What the next state has to show.
LEMMA InvariantOfEach ==
  ASSUME InquiryInvariant, query' = query, control' = control,
         DOMAIN at' = Inquirers, DOMAIN own' = Inquirers, DOMAIN result' = Inquirers,
         tries' \in [Inquirers -> 0 .. MaxAttempts - 1],
         \A i \in Inquirers :
           /\ at'[i] \in InquiryLabels[query[i].prog] \cup Outside
           /\ OwnTyped(own'[i], control.customer_last)
           /\ Aware(query[i], at'[i], own'[i])
           /\ result'[i].reply \in InquiryReplies /\ IsRows(result'[i].rows)
  PROVE  InquiryInvariant'
<1>1. InquiryTypeOK'
  BY Zenon DEF InquiryInvariant, InquiryTypeOK, OwnTyped, Outside
<1>2. EachIsAware'
  BY Zenon DEF EachIsAware
<1>3. QED
  BY <1>1, <1>2 DEF InquiryInvariant

\* An inquiry at rest has nothing to be aware of.
LEMMA AtRest ==
  ASSUME NEW q, NEW p \in Outside, NEW o
  PROVE  Aware(q, p, o)
BY DEF Aware, Outside, Viewing, InqacccuCodes

\* The other inquiries stay as they are.
LEMMA GoOnKeeps ==
  ASSUME BankInvariant, InquiryInvariant, control' = control, NEW i \in Inquirers, NEW p, NEW o,
         GoOn(i, p, o), p \in InquiryLabels[query[i].prog] \cup Outside,
         OwnTyped(o, control.customer_last), Aware(query[i], p, o)
  PROVE  InquiryInvariant'
<1>1. /\ DOMAIN at = Inquirers /\ DOMAIN own = Inquirers /\ DOMAIN result = Inquirers
      /\ tries \in [Inquirers -> 0 .. MaxAttempts - 1]
      /\ \A j \in Inquirers : result[j].reply \in InquiryReplies /\ IsRows(result[j].rows)
  BY DEF InquiryInvariant, InquiryTypeOK
<1>2. ASSUME NEW j \in Inquirers
      PROVE  /\ at'[j] \in InquiryLabels[query[j].prog] \cup Outside
             /\ OwnTyped(own'[j], control.customer_last)
             /\ Aware(query[j], at'[j], own'[j])
             /\ result'[j].reply \in InquiryReplies /\ IsRows(result'[j].rows)
  <2>1. CASE j = i
    BY <1>1, <2>1 DEF GoOn
  <2>2. CASE j # i
    BY <1>1, <2>2, OneInquiry DEF GoOn
  <2>3. QED
    BY <2>1, <2>2
<1>3. QED
  BY <1>1, <1>2, InvariantOfEach DEF GoOn

LEMMA TellKeeps ==
  ASSUME BankInvariant, InquiryInvariant, control' = control, NEW i \in Inquirers, NEW told,
         Tell(i, told), told.reply \in InquiryReplies, IsRows(told.rows)
  PROVE  InquiryInvariant'
<1>1. /\ DOMAIN at = Inquirers /\ DOMAIN own = Inquirers /\ DOMAIN result = Inquirers
      /\ tries \in [Inquirers -> 0 .. MaxAttempts - 1]
      /\ \A j \in Inquirers : result[j].reply \in InquiryReplies /\ IsRows(result[j].rows)
  BY DEF InquiryInvariant, InquiryTypeOK
<1>2. OwnTyped(NoOwn, control.customer_last)
  BY TablesTyped, NoOwnTyped
<1>3. ASSUME NEW j \in Inquirers
      PROVE  /\ at'[j] \in InquiryLabels[query[j].prog] \cup Outside
             /\ OwnTyped(own'[j], control.customer_last)
             /\ Aware(query[j], at'[j], own'[j])
             /\ result'[j].reply \in InquiryReplies /\ IsRows(result'[j].rows)
  <2>1. CASE j = i
    <3>1. at'[j] = "done" /\ own'[j] = NoOwn /\ result'[j] = told
      BY <1>1, <2>1 DEF Tell
    <3>2. Aware(query[j], "done", NoOwn)
      BY AtRest DEF Outside
    <3>3. QED
      BY <1>2, <3>1, <3>2 DEF Outside
  <2>2. CASE j # i
    BY <1>1, <2>2, OneInquiry DEF Tell
  <2>3. QED
    BY <2>1, <2>2
<1>4. QED
  BY <1>1, <1>3, InvariantOfEach DEF Tell

\* Requests change the tables; numbers are given out and never taken back.
LEMMA UpdateKeeps ==
  ASSUME BankInvariant, InquiryInvariant, [Next]_vars, UNCHANGED inquiryVars
  PROVE  InquiryInvariant'
<1>1. control.customer_last \in Nat /\ control'.customer_last \in Nat
      /\ control.customer_last <= control'.customer_last
  <2>1. control.customer_last \in Nat /\ control'.customer_last \in Nat
    <3>1. BankInvariant'
      BY BankInvariantKept
    <3>2. control \in Control /\ control' \in Control
      BY <3>1 DEF BankInvariant, SharedInvariant, LocalInvariant, TypeOK
    <3>3. QED
      BY <3>2 DEF Control
  <2>2. CASE UNCHANGED vars
    BY <2>1, <2>2 DEF vars
  <2>3. ASSUME NEW r \in Requests, Progress(r) \/ Trouble(r)
        PROVE  control' = control \/ Installs(r)
    BY <2>3, StepBanks DEF Banks, Moves, AnswersTruly, Answer, Drops, Commits, tables
  <2>4. ASSUME NEW r \in Requests, Installs(r)
        PROVE  control.customer_last <= control'.customer_last
    BY <2>4, CommitIssuesNumbers
  <2>5. QED
    BY <2>1, <2>2, <2>3, <2>4 DEF Next, Idle
<1>2. UNCHANGED <<query, at, tries, own, result>>
  BY DEF inquiryVars
<1>3. \A i \in Inquirers : own[i].highest \in 0 .. control'.customer_last
  BY <1>1 DEF InquiryInvariant, InquiryTypeOK
<1>4. InquiryTypeOK'
  BY <1>2, <1>3 DEF InquiryInvariant, InquiryTypeOK
<1>5. EachIsAware'
  BY <1>2 DEF InquiryInvariant, EachIsAware
<1>6. QED
  BY <1>4, <1>5 DEF InquiryInvariant

-----------------------------------------------------------------------------
(* True answers.                                                           *)

\* The moment an inquiry has in mind.
Views(i) == IF at[i] \in Viewing THEN {own[i].view} ELSE {}

\* What the promise allows inquiry i to say now.
Rightly(i, told) ==
  \/ /\ at[i] \notin Outside
     /\ \E moment \in Views(i) \cup {Moment} : Promise!TrueOf(moment, query[i], told)
  \/ at[i] \notin {"done", "lost"} /\ Promise!NoAnswer(query[i], told)

\* A step before the reply: the inquiry has the present in mind, or what it had.
Proceeds(i) ==
  \E p, o : /\ at[i] \notin {"done", "lost"} /\ GoOn(i, p, o)
            /\ p \in InquiryLabels[query[i].prog]
            /\ OwnTyped(o, control.customer_last) /\ Aware(query[i], p, o)
            /\ p \in Viewing => at[i] # "idle" /\ o.view \in Views(i) \cup {Moment}

Tells(i) ==
  \E told : /\ Tell(i, told) /\ Rightly(i, told)
            /\ told.reply \in InquiryReplies /\ IsRows(told.rows)

Inquires(i) == Proceeds(i) \/ Tells(i)

\* The values of the promise are those of the service.
LEMMA SameAnswers ==
  /\ Promise!Success = Success /\ Promise!Invalid = Invalid /\ Promise!XRTY = XRTY
  /\ Promise!None = None /\ Promise!EmptyTable = EmptyTable /\ Promise!Present = Moment
  /\ \A code : Promise!Fail(code) = Fail(code) /\ Promise!Abend(code) = Abend(code)
  /\ \A rep, rows : Promise!Told(rep, rows) = Told(rep, rows)
  /\ \A S : Promise!Cardinality(S) = Cardinality(S)
<1>1. \A S : Promise!Cardinality(S) = Cardinality(S)
  BY DEF Cardinality, Promise!Cardinality
<1>2. QED
  BY <1>1 DEF Promise!Success, Success, Promise!Invalid, Invalid, Promise!XRTY, XRTY,
     Promise!Abend, Abend, Promise!None, None, Promise!EmptyTable, EmptyTable,
     Promise!Present, Moment, Promise!Fail, Fail, Promise!Told, Told

\* One row of a table is a table.
LEMMA RowTyped ==
  ASSUME NEW table, NEW n \in DOMAIN table, IsCustomerTable(table) \/ IsAccountTable(table)
  PROVE  IsRows(RowOf(table, n))
BY DEF IsRows, RowOf, IsCustomerTable, IsAccountTable

LEMMA PlainAnswersTyped ==
  /\ NotFound.reply \in InquiryReplies /\ IsRows(NotFound.rows)
  /\ \A rep \in InquiryReplies : Told(rep, EmptyTable).reply \in InquiryReplies
                                 /\ IsRows(Told(rep, EmptyTable).rows)
BY EmptyTableTyped DEF NotFound, Told, InquiryReplies, IsRows

\* The row that was asked for.
LEMMA TellRowIsTrue ==
  ASSUME NEW i, NEW table, NEW n, NEW last, TellRow(i, table, n), n # last,
         IsCustomerTable(table) \/ IsAccountTable(table)
  PROVE  \E told : /\ Tell(i, told) /\ Promise!TrueOfRow(table, n, last, told)
                   /\ told.reply \in InquiryReplies /\ IsRows(told.rows)
<1> DEFINE row == Told(Success, RowOf(table, n))
<1>1. CASE n \in DOMAIN table
  <2>1. Tell(i, row)
    BY <1>1 DEF TellRow
  <2>2. Promise!TrueOfRow(table, n, last, row)
    BY <1>1, SameAnswers DEF Promise!TrueOfRow, Promise!Only, RowOf
  <2>3. row.reply \in InquiryReplies /\ IsRows(row.rows)
    BY <1>1, RowTyped DEF Told, InquiryReplies
  <2>4. QED
    BY <2>1, <2>2, <2>3
<1>2. CASE n \notin DOMAIN table
  <2>1. Tell(i, NotFound)
    BY <1>2 DEF TellRow
  <2>2. Promise!TrueOfRow(table, n, last, NotFound)
    BY <1>2, SameAnswers DEF Promise!TrueOfRow, Promise!Nobody, NotFound
  <2>3. QED
    BY <2>1, <2>2, PlainAnswersTyped
<1>3. QED
  BY <1>1, <1>2

\* The last row.
LEMMA TellLastIsTrue ==
  ASSUME NEW i, NEW table, NEW last, TellLast(i, table),
         IsCustomerTable(table) \/ IsAccountTable(table)
  PROVE  \E told : /\ Tell(i, told) /\ Promise!TrueOfRow(table, last, last, told)
                   /\ told.reply \in InquiryReplies /\ IsRows(told.rows)
<1>1. CASE table = EmptyTable /\ Tell(i, NotFound)
  <2>1. Promise!TrueOfRow(table, last, last, NotFound)
    BY <1>1, SameAnswers, EmptyTableTyped DEF Promise!TrueOfRow, Promise!Nobody, NotFound
  <2>2. QED
    BY <1>1, <2>1, PlainAnswersTyped
<1>2. ASSUME NEW n \in DOMAIN table, IsLast(table, n), TellRow(i, table, n)
      PROVE  \E told : /\ Tell(i, told) /\ Promise!TrueOfRow(table, last, last, told)
                       /\ told.reply \in InquiryReplies /\ IsRows(told.rows)
  <2> DEFINE row == Told(Success, RowOf(table, n))
  <2>1. Tell(i, row)
    BY <1>2 DEF TellRow
  <2>2. Promise!TrueOfRow(table, last, last, row)
    BY <1>2, SameAnswers DEF Promise!TrueOfRow, Promise!Only, Promise!Greatest, IsLast, RowOf
  <2>3. row.reply \in InquiryReplies /\ IsRows(row.rows)
    BY RowTyped DEF Told, InquiryReplies
  <2>4. QED
    BY <2>1, <2>2, <2>3
<1>3. QED
  BY <1>1, <1>2 DEF TellLast

\* An answer from the tables as they are.
LEMMA PresentIsRight ==
  ASSUME NEW i, at[i] \notin Outside, NEW told, Promise!TrueOf(Moment, query[i], told)
  PROVE  Rightly(i, told)
BY DEF Rightly

\* A number out of range is refused, any other begins the inquiry.
LEMMA TakeInquires ==
  ASSUME BankInvariant, InquiryInvariant, NEW i \in Inquirers, NEW prog, NEW p,
         Take(i, prog, IF prog = "INQACC" THEN MaxAccountNumber ELSE MaxCustomerNumber, p),
         p \in InquiryLabels[prog] \ Viewing,
         query[i].number \in 0 .. (IF prog = "INQACC" THEN MaxAccountNumber
                                                      ELSE MaxCustomerNumber)
           => Aware(query[i], p, NoOwn)
  PROVE  Inquires(i)
<1> DEFINE highest == IF prog = "INQACC" THEN MaxAccountNumber ELSE MaxCustomerNumber
<1>1. at[i] = "idle" /\ query[i].prog = prog
  BY DEF Take
<1>2. CASE query[i].number \in 0 .. highest
  <2>1. GoOn(i, p, NoOwn) /\ Aware(query[i], p, NoOwn)
    BY <1>2 DEF Take
  <2>2. OwnTyped(NoOwn, control.customer_last)
    BY TablesTyped, NoOwnTyped
  <2>3. Proceeds(i)
    BY <1>1, <2>1, <2>2 DEF Proceeds
  <2>4. QED
    BY <2>3 DEF Inquires
<1>3. CASE query[i].number \notin 0 .. highest
  <2> DEFINE told == Told(Invalid, EmptyTable)
  <2>1. Tell(i, told)
    BY <1>3 DEF Take
  <2>2. Promise!NoAnswer(query[i], told)
    BY <1>1, <1>3, SameAnswers DEF Promise!NoAnswer, Promise!Limit
  <2>3. Rightly(i, told)
    BY <1>1, <2>2 DEF Rightly
  <2>4. told.reply \in InquiryReplies /\ IsRows(told.rows)
    BY PlainAnswersTyped DEF InquiryReplies
  <2>5. QED
    BY <2>1, <2>3, <2>4 DEF Inquires, Tells
<1>4. QED
  BY <1>2, <1>3

-----------------------------------------------------------------------------
(* INQCUST and INQACC.                                                     *)

LEMMA InqcustInquires ==
  ASSUME BankInvariant, InquiryInvariant, NEW i \in Inquirers, InqcustStep(i)
  PROVE  Inquires(i)
<1> DEFINE q == query[i]
<1>1. /\ q.number \in Int /\ q.prog \in InquiryPrograms
      /\ at[i] \in InquiryLabels[q.prog] \cup Outside
      /\ OwnTyped(own[i], control.customer_last) /\ Aware(q, at[i], own[i])
  BY OneInquiry
<1>2. /\ IsCustomerTable(customer) /\ control.customer_last \in Nat
      /\ DOMAIN customer \subseteq 1 .. control.customer_last
  BY TablesTyped
<1>3. ASSUME at[i] \in DOMAIN InqcustCodes
      PROVE  q.prog = "INQCUST" /\ at[i] \notin Outside
  BY <1>1, <1>3 DEF InqcustCodes, InqaccCodes, InqacccuCodes, InquiryLabels, Outside,
     InquiryPrograms
<1>4. CASE InqcustTake(i)
  <2>1. InqcustFirst(q.number) \in InquiryLabels["INQCUST"] \ Viewing
    BY DEF InqcustFirst, InquiryLabels, InqcustCodes, Viewing
  <2>2. ASSUME q.prog = "INQCUST", q.number \in 0 .. MaxCustomerNumber
        PROVE  Aware(q, InqcustFirst(q.number), NoOwn)
    BY <2>2, BoundsAssumption DEF Aware, InqcustFirst, Viewing, InqacccuCodes, Outside
  <2>3. QED
    BY <1>4, <2>1, <2>2, TakeInquires DEF InqcustTake, Take
<1>5. ASSUME at[i] \in DOMAIN InqcustCodes, q.number # 0,
             NEW told, Tell(i, told),
             Promise!TrueOfRow(customer, q.number, MaxCustomerNumber, told),
             told.reply \in InquiryReplies, IsRows(told.rows)
      PROVE  Inquires(i)
  <2>1. Promise!TrueOf(Moment, q, told)
    BY <1>3, <1>5 DEF Promise!TrueOf, Moment
  <2>2. QED
    BY <1>3, <1>5, <2>1, PresentIsRight DEF Inquires, Tells
<1>6. CASE InqcustExact(i)
  <2>1. at[i] \in DOMAIN InqcustCodes /\ q.number # 0 /\ q.number # MaxCustomerNumber
    BY <1>1, <1>6 DEF InqcustExact, InqcustCodes, Aware
  <2>2. QED
    BY <1>2, <1>5, <1>6, <2>1, TellRowIsTrue DEF InqcustExact
<1>7. CASE InqcustLast(i)
  <2>1. at[i] \in DOMAIN InqcustCodes /\ q.number # 0 /\ q.number = MaxCustomerNumber
    BY <1>1, <1>7, BoundsAssumption DEF InqcustLast, InqcustCodes, Aware
  <2>2. QED
    BY <1>2, <1>5, <1>7, <2>1, TellLastIsTrue DEF InqcustLast
<1>8. ASSUME at[i] \in DOMAIN InqcustCodes, q.number = 0,
             NEW told, Tell(i, told), Promise!TrueOfRandom(customer, told),
             told.reply \in InquiryReplies, IsRows(told.rows)
      PROVE  Inquires(i)
  <2>1. Promise!TrueOf(Moment, q, told)
    BY <1>3, <1>8 DEF Promise!TrueOf, Moment
  <2>2. QED
    BY <1>3, <1>8, <2>1, PresentIsRight DEF Inquires, Tells
<1>9. CASE InqcustHighest(i)
  <2>1. at[i] \in DOMAIN InqcustCodes /\ q.number = 0
    BY <1>1, <1>9 DEF InqcustHighest, InqcustCodes, Aware
  <2>2. CASE customer = EmptyTable /\ Tell(i, NotFound)
    <3>1. Promise!TrueOfRandom(customer, NotFound)
      BY <2>2, SameAnswers, EmptyTableTyped DEF Promise!TrueOfRandom, Promise!Nobody, NotFound
    <3>2. QED
      BY <1>8, <2>1, <2>2, <3>1, PlainAnswersTyped
  <2>3. ASSUME NEW n \in DOMAIN customer,
               GoOn(i, "inqcust_draw", [NoOwn EXCEPT !.highest = n])
        PROVE  Inquires(i)
    <3> DEFINE o == [NoOwn EXCEPT !.highest = n]
    <3>1. OwnTyped(NoOwn, control.customer_last)
      BY <1>2, NoOwnTyped
    <3>2. OwnTyped(o, control.customer_last)
      BY <1>2, <3>1 DEF OwnTyped, NoOwn
    <3>3. Aware(q, "inqcust_draw", o) /\ "inqcust_draw" \in InquiryLabels[q.prog] \ Viewing
      BY <1>1, <1>3, <2>1, BoundsAssumption
      DEF Aware, Outside, Viewing, InqacccuCodes, InquiryLabels, InqcustCodes
    <3>4. Proceeds(i)
      BY <1>3, <2>1, <2>3, <3>2, <3>3 DEF Proceeds, Outside
    <3>5. QED
      BY <3>4 DEF Inquires
  <2>4. QED
    BY <1>9, <2>2, <2>3 DEF InqcustHighest
<1>10. CASE InqcustDraw(i)
  <2>1. at[i] \in DOMAIN InqcustCodes /\ q.number = 0 /\ at[i] = "inqcust_draw"
    BY <1>1, <1>10 DEF InqcustDraw, InqcustCodes, Aware
  <2>2. PICK n \in 1 .. own[i].highest : Draw(i, n)
    BY <1>10 DEF InqcustDraw
  <2>3. n \in 1 .. control.customer_last
    BY <1>1, <1>2 DEF OwnTyped
  <2>4. CASE n \in DOMAIN customer /\ Tell(i, Told(Success, RowOf(customer, n)))
    <3> DEFINE row == Told(Success, RowOf(customer, n))
    <3>1. Promise!TrueOfRandom(customer, row)
      BY <2>4, SameAnswers DEF Promise!TrueOfRandom, Promise!Only, RowOf
    <3>2. row.reply \in InquiryReplies /\ IsRows(row.rows)
      BY <1>2, <2>4, RowTyped DEF Told, InquiryReplies
    <3>3. QED
      BY <1>8, <2>1, <2>4, <3>1, <3>2
  <2>5. CASE /\ own[i].draws + 1 < RandomRetryLimit
             /\ GoOn(i, "inqcust_draw", [own[i] EXCEPT !.draws = @ + 1])
    <3> DEFINE o == [own[i] EXCEPT !.draws = @ + 1]
    <3>1. /\ DOMAIN own[i] = DOMAIN NoOwn /\ own[i].draws \in 0 .. RandomRetryLimit - 1
          /\ OwnTyped(own[i], control.customer_last)
      BY <1>1 DEF OwnTyped
    <3>2. OwnTyped(o, control.customer_last)
      BY <2>5, <3>1, RandomAssumption DEF OwnTyped, NoOwn
    <3>3. Aware(q, "inqcust_draw", o) /\ "inqcust_draw" \in InquiryLabels[q.prog] \ Viewing
      BY <1>1, <1>3, <2>1, BoundsAssumption
      DEF Aware, Outside, Viewing, InqacccuCodes, InquiryLabels, InqcustCodes
    <3>4. Proceeds(i)
      BY <1>3, <2>1, <2>5, <3>2, <3>3 DEF Proceeds, Outside
    <3>5. QED
      BY <3>4 DEF Inquires
  <2>6. CASE n \notin DOMAIN customer /\ Tell(i, Told(Fail("R"), EmptyTable))
    <3>1. Promise!TrueOfRandom(customer, Told(Fail("R"), EmptyTable))
      BY <2>3, <2>6, SameAnswers DEF Promise!TrueOfRandom
    <3>2. Fail("R") \in InquiryReplies
      BY DEF InquiryReplies
    <3>3. QED
      BY <1>8, <2>1, <2>6, <3>1, <3>2, PlainAnswersTyped
  <2>7. QED
    BY <2>2, <2>4, <2>5, <2>6 DEF Draw
<1>11. QED
  BY <1>4, <1>6, <1>7, <1>9, <1>10 DEF InqcustStep

LEMMA InqaccInquires ==
  ASSUME BankInvariant, InquiryInvariant, NEW i \in Inquirers, InqaccStep(i)
  PROVE  Inquires(i)
<1> DEFINE q == query[i]
<1>1. /\ q.number \in Int /\ q.prog \in InquiryPrograms
      /\ at[i] \in InquiryLabels[q.prog] \cup Outside /\ Aware(q, at[i], own[i])
      /\ IsAccountTable(account)
  BY OneInquiry, TablesTyped
<1>2. ASSUME at[i] \in DOMAIN InqaccCodes
      PROVE  q.prog = "INQACC" /\ at[i] \notin Outside
  BY <1>1, <1>2 DEF InqcustCodes, InqaccCodes, InqacccuCodes, InquiryLabels, Outside,
     InquiryPrograms
<1>3. CASE InqaccTake(i)
  <2>1. InqaccFirst(q.number) \in InquiryLabels["INQACC"] \ Viewing
    BY DEF InqaccFirst, InquiryLabels, InqaccCodes, Viewing
  <2>2. ASSUME q.prog = "INQACC", q.number \in 0 .. MaxAccountNumber
        PROVE  Aware(q, InqaccFirst(q.number), NoOwn)
    BY <2>2, BoundsAssumption DEF Aware, InqaccFirst, Viewing, InqacccuCodes, Outside
  <2>3. QED
    BY <1>3, <2>1, <2>2, TakeInquires DEF InqaccTake, Take
<1>4. ASSUME at[i] \in DOMAIN InqaccCodes, NEW told, Tell(i, told),
             Promise!TrueOfRow(account, q.number, MaxAccountNumber, told),
             told.reply \in InquiryReplies, IsRows(told.rows)
      PROVE  Inquires(i)
  <2>1. Promise!TrueOf(Moment, q, told)
    BY <1>2, <1>4 DEF Promise!TrueOf, Moment
  <2>2. QED
    BY <1>2, <1>4, <2>1, PresentIsRight DEF Inquires, Tells
<1>5. CASE InqaccExact(i)
  <2>1. at[i] \in DOMAIN InqaccCodes /\ q.number # MaxAccountNumber
    BY <1>1, <1>5 DEF InqaccExact, InqaccCodes, Aware
  <2>2. QED
    BY <1>1, <1>4, <1>5, <2>1, TellRowIsTrue DEF InqaccExact
<1>6. CASE InqaccLast(i)
  <2>1. at[i] \in DOMAIN InqaccCodes /\ q.number = MaxAccountNumber
    BY <1>1, <1>6 DEF InqaccLast, InqaccCodes, Aware
  <2>2. QED
    BY <1>1, <1>4, <1>6, <2>1, TellLastIsTrue DEF InqaccLast
<1>7. QED
  BY <1>3, <1>5, <1>6 DEF InqaccStep

-----------------------------------------------------------------------------
(* INQACCCU.                                                               *)

LEMMA LeastOf ==
  ASSUME NEW S, S \subseteq Nat, S # {}
  PROVE  \E n \in S : \A m \in S : n <= m
<1>1. PICK n \in S : \A m \in S : <<m, n>> \notin OpToRel(<, Nat)
  BY NatLessThanWellFounded, WFMin
<1>2. \A m \in S : ~(m < n)
  BY <1>1 DEF OpToRel
<1>3. QED
  BY <1>2

\* The elements of S with fewer than n elements below them.
FirstFew(S, n) == {a \in S : Cardinality({b \in S : b < a}) < n}

\* They are the first n, or all.
LEMMA FirstOnes ==
  ASSUME NEW S, S \subseteq Nat, IsFiniteSet(S), NEW n \in Nat
  PROVE  /\ \A a \in FirstFew(S, n), b \in S \ FirstFew(S, n) : a < b
         /\ Cardinality(FirstFew(S, n)) <= n
         /\ Cardinality(FirstFew(S, n)) = n \/ FirstFew(S, n) = S
<1> DEFINE P == FirstFew(S, n)
           below(a) == {b \in S : b < a}
<1>1. /\ P \subseteq S
      /\ \A a \in S : a \in P <=> Cardinality(below(a)) < n
  BY DEF FirstFew
<1> HIDE DEF P
<1>2. P \subseteq S /\ IsFiniteSet(P) /\ Cardinality(P) \in Nat
  BY <1>1, FS_Subset, FS_CardinalityType
<1>3. ASSUME NEW a \in S
      PROVE  IsFiniteSet(below(a)) /\ Cardinality(below(a)) \in Nat
  <2>1. IsFiniteSet(below(a))
    BY FS_Subset
  <2>2. QED
    BY <2>1, FS_CardinalityType
<1>4. ASSUME NEW a \in P, NEW b \in S \ P
      PROVE  a < b
  <2>1. a \in S /\ b \in S /\ a \in Nat /\ b \in Nat
    BY <1>2
  <2>2. SUFFICES ASSUME b <= a PROVE FALSE
    BY <2>1
  <2>3. \A x \in below(b) : x \in S /\ x < b /\ x \in Nat
    OBVIOUS
  <2>4. below(b) \subseteq below(a)
    <3>1. \A x \in below(b) : x < a
      BY <2>1, <2>2, <2>3
    <3>2. QED
      BY <2>3, <3>1
  <2>5. /\ Cardinality(below(b)) <= Cardinality(below(a))
        /\ Cardinality(below(a)) \in Nat /\ Cardinality(below(b)) \in Nat
    BY <1>3, <2>1, <2>4, FS_Subset
  <2>6. Cardinality(below(a)) < n /\ ~(Cardinality(below(b)) < n)
    BY <1>1, <2>1
  <2> HIDE DEF below
  <2>7. QED
    BY <2>5, <2>6
<1>5. Cardinality(P) <= n
  <2> DEFINE rank == [a \in P |-> Cardinality(below(a))]
  <2>1. ASSUME NEW a \in P
        PROVE  Cardinality(below(a)) \in 0 .. n - 1
    <3>1. a \in S /\ Cardinality(below(a)) < n
      BY <1>1, <1>2
    <3>2. Cardinality(below(a)) \in Nat
      BY <1>3, <3>1
    <3> HIDE DEF below
    <3>3. QED
      BY <3>1, <3>2
  <2>2. ASSUME NEW a \in P, NEW b \in P, rank[a] = rank[b]
        PROVE  a = b
    <3>1. a \in S /\ b \in S /\ S \subseteq Int
      BY <1>2
    <3>2. Cardinality({x \in S : x < a}) = Cardinality({x \in S : x < b})
      BY <2>2
    <3>3. \A x, y \in S : Cardinality({z \in S : z < x}) = Cardinality({z \in S : z < y})
                          => x = y
      BY <1>2, <3>1, SameRank
    <3>4. QED
      BY <3>1, <3>2, <3>3, Zenon
  <2>3. rank \in Injection(P, 0 .. n - 1)
    <3>1. rank \in [P -> 0 .. n - 1]
      BY <2>1
    <3> HIDE DEF rank
    <3>2. QED
      BY <2>2, <3>1 DEF Injection, IsInjective
  <2>4. IsFiniteSet(0 .. n - 1) /\ Cardinality(0 .. n - 1) = n
    BY FS_Interval
  <2>5. QED
    BY <2>3, <2>4, FS_Injection
<1>6. ASSUME P # S
      PROVE  n <= Cardinality(P)
  <2>1. S \ P \subseteq Nat /\ S \ P # {}
    BY <1>2, <1>6
  <2>2. PICK a \in S \ P : \A b \in S \ P : a <= b
    BY <2>1, LeastOf
  <2>3. below(a) \subseteq P
    <3>1. SUFFICES ASSUME NEW b \in S, b < a, b \notin P PROVE FALSE
      OBVIOUS
    <3>2. a <= b /\ a \in Nat /\ b \in Nat
      BY <2>2, <3>1
    <3>3. QED
      BY <3>1, <3>2
  <2>4. n <= Cardinality(below(a))
    BY <1>1, <1>3, <2>2
  <2>5. Cardinality(below(a)) <= Cardinality(P)
    BY <1>2, <2>3, FS_Subset
  <2>6. QED
    BY <1>2, <1>3, <2>2, <2>4, <2>5
<1>7. QED
  BY <1>2, <1>4, <1>5, <1>6 DEF P

\* A page is a true answer about the moment it was read from.
LEMMA PageIsTrue ==
  ASSUME NEW moment, NEW c, IsAccountTable(moment.account),
         IsFiniteSet(DOMAIN moment.account),
         c \in DOMAIN moment.customer, c # MaxCustomerNumber
  PROVE  Promise!TrueOfAccounts(moment, c, Told(Success, PageIn(moment.account, c)))
<1> DEFINE table == moment.account
           owned == {a \in DOMAIN table : table[a].customer = c}
           page == {a \in owned : Cardinality({b \in owned : b < a}) < PageSize}
           told == Told(Success, PageIn(table, c))
<1>1. owned \subseteq Nat /\ IsFiniteSet(owned)
  <2>1. owned \subseteq DOMAIN table
    OBVIOUS
  <2>2. QED
    BY <2>1, FS_Subset DEF IsAccountTable
<1>2. PageSize \in Nat
  BY BoundsAssumption
<1>3. /\ told.reply = Success /\ DOMAIN told.rows = page
      /\ \A a \in page : told.rows[a] = table[a]
  BY DEF Told, PageIn
<1>4. page \subseteq owned
  OBVIOUS
<1>5. /\ \A a \in page, b \in owned \ page : a < b
      /\ Cardinality(page) <= PageSize
      /\ Cardinality(page) = PageSize \/ page = owned
  <2>1. page = FirstFew(owned, PageSize)
    BY DEF FirstFew
  <2> HIDE DEF page, owned
  <2>2. QED
    BY <1>1, <1>2, <2>1, FirstOnes
<1>6. /\ Promise!Cardinality(DOMAIN told.rows) = Cardinality(page)
      /\ told.reply = Promise!Success
  BY <1>3, SameAnswers, Zenon
<1> HIDE DEF page, told, table
<1>7. /\ DOMAIN told.rows \subseteq owned
      /\ \A a \in DOMAIN told.rows : told.rows[a] = table[a]
      /\ \A a \in DOMAIN told.rows, b \in owned \ DOMAIN told.rows : a < b
      /\ \/ Promise!Cardinality(DOMAIN told.rows) = PageSize
         \/ DOMAIN told.rows = owned
      /\ Promise!Cardinality(DOMAIN told.rows) <= PageSize
  <2> HIDE DEF owned
  <2>1. QED
    BY <1>3, <1>4, <1>5, <1>6
<1>8. QED
  BY <1>6, <1>7, Zenon DEF Promise!TrueOfAccounts, table, told

\* It is also a table of accounts.
LEMMA PageTyped ==
  ASSUME NEW table, NEW c, IsAccountTable(table)
  PROVE  IsAccountTable(PageIn(table, c))
BY DEF PageIn, IsAccountTable

LEMMA InqacccuInquires ==
  ASSUME BankInvariant, InquiryInvariant, NEW i \in Inquirers, InqacccuStep(i)
  PROVE  Inquires(i)
<1> DEFINE q == query[i]
           o == own[i]
           last == control.customer_last
<1>1. /\ q.number \in Int /\ q.prog \in InquiryPrograms
      /\ at[i] \in InquiryLabels[q.prog] \cup Outside
      /\ OwnTyped(o, last) /\ Aware(q, at[i], o)
  BY OneInquiry
<1>2. /\ IsCustomerTable(customer) /\ IsAccountTable(account) /\ last \in Nat
      /\ DOMAIN customer \subseteq 1 .. last /\ IsFiniteSet(DOMAIN account)
  BY TablesTyped
<1>3. ASSUME at[i] \in InquiryLabels.INQACCCU
      PROVE  q.prog = "INQACCCU" /\ at[i] \notin Outside
  BY <1>1, <1>3 DEF InqcustCodes, InqaccCodes, InqacccuCodes, InquiryLabels, Outside,
     InquiryPrograms
<1>4. Moment.customer = customer /\ Moment.account = account
  BY DEF Moment
<1>5. CASE InqacccuTake(i)
  <2>1. InqacccuFirst(q.number) \in InquiryLabels["INQACCCU"] \ Viewing
    BY DEF InqacccuFirst, InquiryLabels, InqacccuCodes, Viewing
  <2>2. ASSUME q.prog = "INQACCCU", q.number \in 0 .. MaxCustomerNumber
        PROVE  Aware(q, InqacccuFirst(q.number), NoOwn)
    BY <2>2 DEF Aware, InqacccuFirst, Viewing, InqacccuCodes, Outside
  <2>3. QED
    BY <1>5, <2>1, <2>2, TakeInquires DEF InqacccuTake, Take
<1>6. ASSUME at[i] \in InquiryLabels.INQACCCU, NEW told, Tell(i, told),
             NEW moment \in Views(i) \cup {Moment},
             Promise!TrueOfAccounts(moment, q.number, told),
             told.reply \in InquiryReplies, IsRows(told.rows)
      PROVE  Inquires(i)
  <2>1. Promise!TrueOf(moment, q, told)
    BY <1>3, <1>6 DEF Promise!TrueOf
  <2>2. QED
    BY <1>3, <1>6, <2>1 DEF Inquires, Tells, Rightly
<1>7. ASSUME at[i] \in InquiryLabels.INQACCCU, Tell(i, NotFound),
             NEW moment \in Views(i) \cup {Moment},
             q.number \notin DOMAIN moment.customer \ {MaxCustomerNumber}
      PROVE  Inquires(i)
  <2>1. Promise!TrueOfAccounts(moment, q.number, NotFound)
    BY <1>7, SameAnswers DEF Promise!TrueOfAccounts, Promise!Nobody, NotFound
  <2>2. QED
    BY <1>6, <1>7, <2>1, PlainAnswersTyped
<1>8. ASSUME at[i] \in DOMAIN InqacccuCodes, NEW p \in DOMAIN InqacccuCodes, NEW t, GoOn(i, p, t),
             OwnTyped(t, last),
             p \in Viewing => /\ t.view \in Views(i) \cup {Moment}
                              /\ IsFiniteSet(DOMAIN t.view.account),
             p \in {"inqacccu_list", "inqacccu_found"} => q.number \in DOMAIN t.view.customer,
             p = "inqacccu_missing" => q.number \notin DOMAIN t.view.customer,
             p = "inqacccu_found" => t.rows = PageIn(t.view.account, q.number)
      PROVE  Inquires(i)
  <2>1. q.prog = "INQACCCU" /\ at[i] \notin Outside
    BY <1>3, <1>8 DEF InquiryLabels
  <2>2. q.number \in 0 .. MaxCustomerNumber /\ q.number \notin {0, MaxCustomerNumber}
    BY <1>1, <1>8, <2>1 DEF Aware
  <2>3. Aware(q, p, t)
    BY <1>8, <2>1, <2>2 DEF Aware, InqacccuCodes
  <2>4. Proceeds(i)
    BY <1>8, <2>1, <2>3 DEF Proceeds, Outside, InquiryLabels
  <2>5. QED
    BY <2>4 DEF Inquires
<1>9. CASE InqacccuReserved(i)
  <2>1. at[i] \in InquiryLabels.INQACCCU /\ q.number \in {0, MaxCustomerNumber}
    BY <1>1, <1>9 DEF InqacccuReserved, InquiryLabels, Aware
  <2>2. q.number \notin DOMAIN customer \ {MaxCustomerNumber}
    BY <1>2, <2>1
  <2>3. QED
    BY <1>4, <1>7, <1>9, <2>1, <2>2 DEF InqacccuReserved
<1>10. CASE InqacccuBegin(i)
  <2>1. at[i] \in DOMAIN InqacccuCodes /\ GoOn(i, "inqacccu_exists", NoOwn)
    BY <1>10 DEF InqacccuBegin, InqacccuCodes
  <2>2. OwnTyped(NoOwn, last)
    BY <1>2, NoOwnTyped
  <2>3. QED
    BY <1>8, <2>1, <2>2 DEF InqacccuCodes, Viewing
<1>11. CASE InqacccuExists(i)
  <2> DEFINE p == IF q.number \in DOMAIN customer THEN "inqacccu_list" ELSE "inqacccu_missing"
             t == [o EXCEPT !.view = Moment]
  <2>1. at[i] \in DOMAIN InqacccuCodes /\ GoOn(i, p, t)
    BY <1>11 DEF InqacccuExists, InqacccuCodes
  <2>2. p \in DOMAIN InqacccuCodes /\ p \in Viewing /\ p # "inqacccu_found"
    BY DEF InqacccuCodes, Viewing
  <2>3. DOMAIN o = DOMAIN NoOwn
    BY <1>1 DEF OwnTyped
  <2>4. t.view = Moment /\ OwnTyped(t, last)
    BY <1>1, <1>2, <1>4, <2>3 DEF OwnTyped, NoOwn
  <2>5. /\ p = "inqacccu_list" => q.number \in DOMAIN customer
        /\ p = "inqacccu_missing" => q.number \notin DOMAIN customer
    OBVIOUS
  <2> HIDE DEF p, t
  <2>6. QED
    BY <1>2, <1>4, <1>8, <2>1, <2>2, <2>4, <2>5
<1>12. CASE InqacccuList(i)
  <2>1. PICK moment \in {o.view, Moment} :
          /\ moment = o.view \/ CanRefresh(i)
          /\ GoOn(i, "inqacccu_found",
                  [o EXCEPT !.view = moment, !.rows = PageIn(moment.account, q.number)])
    BY <1>12 DEF InqacccuList
  <2> DEFINE t == [o EXCEPT !.view = moment, !.rows = PageIn(moment.account, q.number)]
  <2>2. at[i] = "inqacccu_list" /\ at[i] \in DOMAIN InqacccuCodes /\ Views(i) = {o.view}
    BY <1>12 DEF InqacccuList, InqacccuCodes, Views, Viewing
  <2>3. /\ IsCustomerTable(o.view.customer) /\ IsAccountTable(o.view.account)
        /\ q.number \in DOMAIN o.view.customer /\ IsFiniteSet(DOMAIN o.view.account)
        /\ DOMAIN o = DOMAIN NoOwn
    BY <1>1, <2>2 DEF OwnTyped, Aware, Viewing
  <2>4. /\ IsCustomerTable(moment.customer) /\ IsAccountTable(moment.account)
        /\ q.number \in DOMAIN moment.customer /\ IsFiniteSet(DOMAIN moment.account)
    BY <1>2, <1>4, <2>1, <2>3 DEF CanRefresh
  <2>5. IsAccountTable(PageIn(moment.account, q.number))
    BY <2>4, PageTyped
  <2>6. t.view = moment /\ t.rows = PageIn(moment.account, q.number) /\ OwnTyped(t, last)
    BY <1>1, <2>3, <2>4, <2>5 DEF OwnTyped, NoOwn
  <2>7. GoOn(i, "inqacccu_found", t) /\ moment \in Views(i) \cup {Moment}
    BY <2>1, <2>2
  <2> HIDE DEF t
  <2>8. "inqacccu_found" \in DOMAIN InqacccuCodes
    BY DEF InqacccuCodes
  <2>9. QED
    BY <1>8, <2>2, <2>4, <2>6, <2>7, <2>8
<1>13. CASE InqacccuFound(i)
  <2>1. at[i] \in InquiryLabels.INQACCCU /\ at[i] \in Viewing /\ Views(i) = {o.view}
    BY <1>13 DEF InqacccuFound, InquiryLabels, InqacccuCodes, Views, Viewing
  <2>2. /\ IsAccountTable(o.view.account) /\ IsFiniteSet(DOMAIN o.view.account)
        /\ q.number \in DOMAIN o.view.customer /\ q.number # MaxCustomerNumber
        /\ o.rows = PageIn(o.view.account, q.number) /\ IsAccountTable(o.rows)
    BY <1>1, <1>13, <2>1 DEF InqacccuFound, OwnTyped, Aware, InqacccuCodes
  <2> DEFINE told == Told(Success, o.rows)
  <2>3. Promise!TrueOfAccounts(o.view, q.number, told)
    BY <2>2, PageIsTrue
  <2>4. told.reply \in InquiryReplies /\ IsRows(told.rows)
    BY <2>2 DEF Told, InquiryReplies, IsRows
  <2>5. Tell(i, told)
    BY <1>13 DEF InqacccuFound
  <2> HIDE DEF told
  <2>6. QED
    BY <1>6, <2>1, <2>3, <2>4, <2>5
<1>14. CASE InqacccuMissing(i)
  <2>1. at[i] \in InquiryLabels.INQACCCU /\ Views(i) = {o.view}
    BY <1>14 DEF InqacccuMissing, InquiryLabels, InqacccuCodes, Views, Viewing
  <2>2. q.number \notin DOMAIN o.view.customer
    BY <1>1, <1>14 DEF InqacccuMissing, Aware
  <2>3. QED
    BY <1>7, <1>14, <2>1, <2>2 DEF InqacccuMissing
<1>15. QED
  BY <1>5, <1>9, <1>10, <1>11, <1>12, <1>13, <1>14 DEF InqacccuStep

-----------------------------------------------------------------------------
(* Interrupted inquiries.                                                  *)

\* 40001 starts the statements over, with nothing in mind.
StartsOver(i) ==
  \E p : /\ at[i] \notin Outside
         /\ at' = [at EXCEPT ![i] = p] /\ own' = [own EXCEPT ![i] = NoOwn]
         /\ tries' = [tries EXCEPT ![i] = @ + 1] /\ tries[i] + 1 < MaxAttempts
         /\ UNCHANGED <<query, result>>
         /\ p \in InquiryLabels[query[i].prog] \ Viewing /\ Aware(query[i], p, NoOwn)

\* An answer that blames the database.
LEMMA BlameIsRight ==
  ASSUME NEW i, at[i] \notin Outside, NEW rep \in InquiryReplies,
         Tell(i, Told(rep, EmptyTable)), Promise!NoAnswer(query[i], Told(rep, EmptyTable))
  PROVE  Tells(i)
BY PlainAnswersTyped DEF Tells, Rightly, Outside

LEMMA FailureInquires ==
  ASSUME BankInvariant, InquiryInvariant, NEW i \in Inquirers,
         InquirySerializationFailure(i)
  PROVE  Tells(i) \/ StartsOver(i)
<1> DEFINE q == query[i]
<1>1. /\ q.prog \in InquiryPrograms
      /\ at[i] \in InquiryLabels[q.prog] \cup Outside /\ Aware(q, at[i], own[i])
  BY OneInquiry
<1>2. /\ at[i] \in DOMAIN InqcustCodes => q.prog = "INQCUST" /\ at[i] \notin Outside
      /\ at[i] \in DOMAIN InqaccCodes => q.prog = "INQACC" /\ at[i] \notin Outside
      /\ at[i] \in DOMAIN InqacccuCodes => q.prog = "INQACCCU" /\ at[i] \notin Outside
  BY <1>1 DEF InqcustCodes, InqaccCodes, InqacccuCodes, InquiryLabels, Outside,
     InquiryPrograms
<1>3. CASE InqcustSerializationFailure(i)
  <2>1. at[i] \in DOMAIN InqcustCodes /\ Tell(i, Told(Abend("CVR1"), EmptyTable))
    BY <1>3 DEF InqcustSerializationFailure, InqcustCodes
  <2>2. Promise!NoAnswer(q, Told(Abend("CVR1"), EmptyTable))
    BY <1>2, <2>1, SameAnswers DEF Promise!NoAnswer
  <2>3. QED
    BY <1>2, <2>1, <2>2, BlameIsRight DEF InquiryReplies
<1>4. ASSUME at[i] \notin Outside, q.prog # "INQCUST", NEW p, RunAgain(i, p),
             p \in InquiryLabels[q.prog] \ Viewing, Aware(q, p, NoOwn)
      PROVE  Tells(i) \/ StartsOver(i)
  <2>1. CASE tries[i] + 1 < MaxAttempts
    BY <1>4, <2>1 DEF RunAgain, StartsOver
  <2>2. CASE ~(tries[i] + 1 < MaxAttempts)
    <3>1. Tell(i, Told(XRTY, EmptyTable))
      BY <1>4, <2>2 DEF RunAgain
    <3>2. Promise!NoAnswer(q, Told(XRTY, EmptyTable))
      BY <1>4, SameAnswers DEF Promise!NoAnswer
    <3>3. QED
      BY <1>4, <3>1, <3>2, BlameIsRight DEF InquiryReplies
  <2>3. QED
    BY <2>1, <2>2
<1>5. CASE InqaccSerializationFailure(i)
  <2>1. at[i] \in DOMAIN InqaccCodes /\ RunAgain(i, at[i])
    BY <1>5 DEF InqaccSerializationFailure
  <2>2. at[i] \in InquiryLabels[q.prog] \ Viewing /\ Aware(q, at[i], NoOwn)
    BY <1>1, <1>2, <2>1 DEF InqaccCodes, InquiryLabels, Viewing, Aware
  <2>3. QED
    BY <1>2, <1>4, <2>1, <2>2
<1>6. CASE InqacccuSerializationFailure(i)
  <2>1. at[i] \in DOMAIN InqacccuCodes /\ RunAgain(i, "inqacccu_begin")
    BY <1>6 DEF InqacccuSerializationFailure
  <2>2. "inqacccu_begin" \in InquiryLabels[q.prog] \ Viewing
    BY <1>2, <2>1 DEF InqacccuCodes, InquiryLabels, Viewing
  <2>3. Aware(q, "inqacccu_begin", NoOwn)
    BY <1>1, <1>2, <2>1 DEF InqacccuCodes, Viewing, Aware, Outside
  <2>4. QED
    BY <1>2, <1>4, <2>1, <2>2, <2>3
<1>7. QED
  BY <1>3, <1>5, <1>6 DEF InquirySerializationFailure

\* The reply to a database error, or to a wait for a connection that was too long.
LEMMA ReadBlames ==
  ASSUME BankInvariant, InquiryInvariant, NEW i \in Inquirers,
         NEW codes \in {InqcustCodes, InqaccCodes, InqacccuCodes}, at[i] \in DOMAIN codes
  PROVE  /\ at[i] \notin Outside /\ Abend(codes[at[i]]) \in InquiryReplies
         /\ MaxFaults > 0
              => Promise!NoAnswer(query[i], Told(Abend(codes[at[i]]), EmptyTable))
<1> DEFINE q == query[i]
<1>1. /\ q.prog \in InquiryPrograms
      /\ at[i] \in InquiryLabels[q.prog] \cup Outside /\ Aware(q, at[i], own[i])
  BY OneInquiry
<1>2. CASE codes = InqcustCodes
  <2>1. q.prog = "INQCUST" /\ at[i] \notin Outside /\ codes[at[i]] = "CVR1"
    BY <1>1, <1>2 DEF InqcustCodes, InqaccCodes, InqacccuCodes, InquiryLabels, Outside,
       InquiryPrograms
  <2>2. Promise!NoAnswer(q, Told(Abend("CVR1"), EmptyTable))
    BY <2>1, SameAnswers DEF Promise!NoAnswer
  <2>3. QED
    BY <2>1, <2>2 DEF InquiryReplies
<1>3. CASE codes = InqaccCodes
  <2> DEFINE code == IF q.number = MaxAccountNumber THEN "HNCS" ELSE "HRAC"
  <2>1. q.prog = "INQACC" /\ at[i] \notin Outside /\ codes[at[i]] = code
    BY <1>1, <1>3 DEF InqcustCodes, InqaccCodes, InqacccuCodes, InquiryLabels, Outside,
       InquiryPrograms, Aware
  <2>2. MaxFaults > 0 => Promise!NoAnswer(q, Told(Abend(code), EmptyTable))
    BY <2>1, SameAnswers DEF Promise!NoAnswer
  <2>3. QED
    BY <2>1, <2>2 DEF InquiryReplies
<1>4. CASE codes = InqacccuCodes
  <2>1. q.prog = "INQACCCU" /\ at[i] \notin Outside /\ codes[at[i]] = "HACU"
    BY <1>1, <1>4 DEF InqcustCodes, InqaccCodes, InqacccuCodes, InquiryLabels, Outside,
       InquiryPrograms
  <2>2. MaxFaults > 0 => Promise!NoAnswer(q, Told(Abend("HACU"), EmptyTable))
    BY <2>1, SameAnswers DEF Promise!NoAnswer
  <2>3. QED
    BY <2>1, <2>2 DEF InquiryReplies
<1>5. QED
  BY <1>2, <1>3, <1>4

LEMMA FaultInquires ==
  ASSUME BankInvariant, InquiryInvariant, NEW i \in Inquirers, InquiryFault(i)
  PROVE  /\ Tells(i) \/ AbandonInquiry(i)
         /\ MaxFaults > 0 /\ faults' \in 0 .. MaxFaults
<1>1. faults < MaxFaults /\ faults' = faults + 1
  BY DEF InquiryFault, ReadError, AbandonInquiry
<1>2. MaxFaults > 0 /\ faults' \in 0 .. MaxFaults
  BY <1>1, TablesTyped, BoundsAssumption
<1>3. ASSUME NEW codes \in {InqcustCodes, InqaccCodes, InqacccuCodes}, ReadError(i, codes)
      PROVE  Tells(i)
  <2>1. at[i] \in DOMAIN codes /\ Tell(i, Told(Abend(codes[at[i]]), EmptyTable))
    BY <1>3 DEF ReadError
  <2>2. QED
    BY <1>2, <2>1, ReadBlames, BlameIsRight
<1>4. QED
  BY <1>2, <1>3 DEF InquiryFault

-----------------------------------------------------------------------------
(* Every step keeps the invariant.                                         *)

LEMMA InquiresKeeps ==
  ASSUME BankInvariant, InquiryInvariant, control' = control, NEW i \in Inquirers,
         Inquires(i)
  PROVE  InquiryInvariant'
BY GoOnKeeps, TellKeeps DEF Inquires, Proceeds, Tells

\* A step that ends one inquiry without an answer, or starts it over.
LEMMA RestartKeeps ==
  ASSUME BankInvariant, InquiryInvariant, control' = control, NEW i \in Inquirers, NEW p,
         p \in InquiryLabels[query[i].prog] \cup Outside, Aware(query[i], p, NoOwn),
         at' = [at EXCEPT ![i] = p], own' = [own EXCEPT ![i] = NoOwn],
         UNCHANGED <<query, result>>, tries' \in [Inquirers -> 0 .. MaxAttempts - 1]
  PROVE  InquiryInvariant'
<1>1. /\ DOMAIN at = Inquirers /\ DOMAIN own = Inquirers /\ DOMAIN result = Inquirers
      /\ \A j \in Inquirers : result[j].reply \in InquiryReplies /\ IsRows(result[j].rows)
  BY DEF InquiryInvariant, InquiryTypeOK
<1>2. OwnTyped(NoOwn, control.customer_last)
  BY TablesTyped, NoOwnTyped
<1>3. ASSUME NEW j \in Inquirers
      PROVE  /\ at'[j] \in InquiryLabels[query[j].prog] \cup Outside
             /\ OwnTyped(own'[j], control.customer_last)
             /\ Aware(query[j], at'[j], own'[j])
             /\ result'[j].reply \in InquiryReplies /\ IsRows(result'[j].rows)
  <2>1. CASE j = i
    BY <1>1, <1>2, <2>1
  <2>2. CASE j # i
    BY <1>1, <2>2, OneInquiry
  <2>3. QED
    BY <2>1, <2>2
<1>4. QED
  BY <1>1, <1>3, InvariantOfEach

LEMMA StartsOverKeeps ==
  ASSUME BankInvariant, InquiryInvariant, control' = control, NEW i \in Inquirers,
         StartsOver(i)
  PROVE  InquiryInvariant'
<1>1. PICK p : /\ at' = [at EXCEPT ![i] = p] /\ own' = [own EXCEPT ![i] = NoOwn]
               /\ tries' = [tries EXCEPT ![i] = @ + 1] /\ tries[i] + 1 < MaxAttempts
               /\ UNCHANGED <<query, result>>
               /\ p \in InquiryLabels[query[i].prog] /\ Aware(query[i], p, NoOwn)
  BY DEF StartsOver
<1>2. tries' \in [Inquirers -> 0 .. MaxAttempts - 1]
  <2>1. tries \in [Inquirers -> 0 .. MaxAttempts - 1]
    BY DEF InquiryInvariant, InquiryTypeOK
  <2>2. tries[i] + 1 \in 0 .. MaxAttempts - 1
    BY <1>1, <2>1, BoundsAssumption
  <2>3. QED
    BY <1>1, <2>1, <2>2
<1>3. QED
  BY <1>1, <1>2, RestartKeeps

LEMMA AbandonInquiryKeeps ==
  ASSUME BankInvariant, InquiryInvariant, control' = control, NEW i \in Inquirers,
         AbandonInquiry(i)
  PROVE  InquiryInvariant'
<1>1. Aware(query[i], "lost", NoOwn) /\ "lost" \in Outside
  BY AtRest DEF Outside
<1>2. tries \in [Inquirers -> 0 .. MaxAttempts - 1]
  BY DEF InquiryInvariant, InquiryTypeOK
<1>3. QED
  BY <1>1, <1>2, RestartKeeps DEF AbandonInquiry

\* Requests do not notice inquiries.
LEMMA InquiriesAreUnseen ==
  ASSUME BankInvariant, UNCHANGED <<tables, cmd, pc, attempts, tx, reply>>,
         faults' \in 0 .. MaxFaults
  PROVE  BankInvariant'
<1>1. UNCHANGED <<customer, account, control, proctran, cmd, pc, attempts, tx, reply>>
  BY DEF tables
<1>2. TypeOK'
  <2>1. TypeOK
    BY DEF BankInvariant, SharedInvariant, LocalInvariant
  <2>2. QED
    BY <1>1, <2>1 DEF TypeOK
<1>3. EachIsPlaced'
  BY <1>1 DEF BankInvariant, SharedInvariant, LocalInvariant, EachIsPlaced
<1>4. RowsHaveOneWriter' /\ OwnersKept' /\ ReferentialIntegrity'
  BY <1>1 DEF BankInvariant, SharedInvariant, RowsHaveOneWriter, OwnersKept, KeepsOwners,
     ReferentialIntegrity
<1>5. EachKnows'
  <2>1. SUFFICES ASSUME NEW r \in Requests
                 PROVE  Knows(r, cmd[r], pc[r], tx[r])'
    BY DEF EachKnows
  <2>2. Knows(r, cmd[r], pc[r], tx[r])
    BY DEF BankInvariant, EachKnows
  <2>3. QED
    BY <1>1, <2>2, KnowsKept
<1>6. NumbersWereIssued' /\ RepliesComeLast'
  BY <1>1 DEF BankInvariant, NumbersWereIssued, RepliesComeLast
<1>7. QED
  BY <1>2, <1>3, <1>4, <1>5, <1>6 DEF BankInvariant, SharedInvariant, LocalInvariant

\* What a step of the service is, for the inquiries.
StepOf(i) == Inquires(i) \/ StartsOver(i) \/ (MaxFaults > 0 /\ AbandonInquiry(i))

LEMMA ServiceSteps ==
  ASSUME ServiceInvariant, [ServiceNext]_serviceVars
  PROVE  \/ [Next]_vars /\ UNCHANGED inquiryVars
         \/ \E i \in Inquirers : /\ UNCHANGED <<tables, cmd, pc, attempts, tx, reply>>
                                 /\ faults' \in 0 .. MaxFaults
                                 /\ StepOf(i)
<1>1. BankInvariant /\ InquiryInvariant
  BY DEF ServiceInvariant
<1>2. CASE UNCHANGED serviceVars \/ Update \/ ServiceIdle
  BY <1>2 DEF serviceVars, Update, ServiceIdle, Next
<1>3. ASSUME UNCHANGED vars
      PROVE  /\ UNCHANGED <<tables, cmd, pc, attempts, tx, reply>>
             /\ faults' \in 0 .. MaxFaults
  <2>1. faults \in 0 .. MaxFaults
    BY <1>1 DEF BankInvariant, SharedInvariant, LocalInvariant, TypeOK
  <2>2. QED
    BY <1>3, <2>1 DEF vars, tables
<1>4. ASSUME NEW i \in Inquirers, InquiryStep(i)
      PROVE  UNCHANGED vars /\ StepOf(i)
  BY <1>1, <1>4, InqcustInquires, InqaccInquires, InqacccuInquires DEF InquiryStep, StepOf
<1>5. ASSUME NEW i \in Inquirers, InquirySerializationFailure(i)
      PROVE  UNCHANGED vars /\ StepOf(i)
  <2>1. Tells(i) \/ StartsOver(i)
    BY <1>1, <1>5, FailureInquires
  <2>2. QED
    BY <1>5, <2>1 DEF InquirySerializationFailure, StepOf, Inquires
<1>6. ASSUME NEW i \in Inquirers, InquiryFault(i)
      PROVE  /\ UNCHANGED <<tables, cmd, pc, attempts, tx, reply>>
             /\ faults' \in 0 .. MaxFaults /\ StepOf(i)
  <2>1. (Tells(i) \/ AbandonInquiry(i)) /\ MaxFaults > 0 /\ faults' \in 0 .. MaxFaults
    BY <1>1, <1>6, FaultInquires
  <2>2. QED
    BY <1>6, <2>1 DEF InquiryFault, StepOf, Inquires
<1>7. QED
  BY <1>2, <1>3, <1>4, <1>5, <1>6 DEF ServiceNext

LEMMA ServiceInvariantKept ==
  ASSUME ServiceInvariant, [ServiceNext]_serviceVars
  PROVE  ServiceInvariant'
<1>1. BankInvariant /\ InquiryInvariant
  BY DEF ServiceInvariant
<1>2. CASE [Next]_vars /\ UNCHANGED inquiryVars
  BY <1>1, <1>2, BankInvariantKept, UpdateKeeps DEF ServiceInvariant
<1>3. ASSUME NEW i \in Inquirers, UNCHANGED <<tables, cmd, pc, attempts, tx, reply>>,
             faults' \in 0 .. MaxFaults, StepOf(i)
      PROVE  ServiceInvariant'
  <2>1. BankInvariant' /\ control' = control
    BY <1>1, <1>3, InquiriesAreUnseen DEF tables
  <2>2. InquiryInvariant'
    BY <1>1, <1>3, <2>1, InquiresKeeps, StartsOverKeeps, AbandonInquiryKeeps DEF StepOf
  <2>3. QED
    BY <2>1, <2>2 DEF ServiceInvariant
<1>4. QED
  BY <1>2, <1>3, ServiceSteps

LEMMA InitiallyNothingAsked ==
  ASSUME ServiceInit
  PROVE  ServiceInvariant
<1>1. BankInvariant /\ InquiryInit
  BY InitiallyKnown DEF ServiceInit
<1>2. \A i \in Inquirers : /\ at[i] = "idle" /\ own[i] = NoOwn /\ tries[i] = 0
                           /\ result[i] = Told(None, EmptyTable)
  BY <1>1 DEF InquiryInit, Untold
<1>3. OwnTyped(NoOwn, control.customer_last)
  BY <1>1, TablesTyped, NoOwnTyped
<1>4. InquiryTypeOK
  <2>1. Told(None, EmptyTable).reply \in InquiryReplies /\ IsRows(Told(None, EmptyTable).rows)
    BY PlainAnswersTyped DEF InquiryReplies
  <2>2. /\ query \in [Inquirers -> Queries] /\ tries \in [Inquirers -> 0 .. MaxAttempts - 1]
        /\ DOMAIN at = Inquirers /\ DOMAIN own = Inquirers /\ DOMAIN result = Inquirers
    BY <1>1, BoundsAssumption DEF InquiryInit
  <2>3. QED
    BY <1>2, <1>3, <2>1, <2>2 DEF InquiryTypeOK, OwnTyped
<1>5. EachIsAware
  BY <1>2, AtRest DEF EachIsAware, Outside
<1>6. QED
  BY <1>1, <1>4, <1>5 DEF ServiceInvariant, InquiryInvariant

\* An inquiry knows what it may take for granted at every statement, and the
\* requests beside it lose nothing of their own invariant.
THEOREM InquiriesAreAware == ServiceSpec => []ServiceInvariant
<1>1. ServiceInit => ServiceInvariant
  BY InitiallyNothingAsked
<1>2. ServiceInvariant /\ [ServiceNext]_serviceVars => ServiceInvariant'
  BY ServiceInvariantKept
<1>3. QED
  BY <1>1, <1>2, PTL DEF ServiceSpec

\* An inquiry is at a statement of its own program, draws numbers that have
\* been given out, and keeps rows of the tables, whatever changes them.
THEOREM InquiriesTyped == ServiceSpec => []InquiryTypeOK
<1>1. ServiceInvariant => InquiryTypeOK
  BY DEF ServiceInvariant, InquiryInvariant
<1>2. QED
  BY <1>1, InquiriesAreAware, PTL

-----------------------------------------------------------------------------
(* Every step is allowed by the promise.                                   *)

\* The refinement mapping.
Phase == [i \in Inquirers |-> IF at[i] \in {"idle", "done", "lost"} THEN at[i] ELSE "open"]
Seen == [i \in Inquirers |->
           IF at[i] \in {"inqacccu_list", "inqacccu_found", "inqacccu_missing"}
             THEN {own[i].view} ELSE {}]

\* A step of inquiry i maps to a step of the same inquiry.
LEMMA MappedStep ==
  ASSUME InquiryInvariant, NEW i \in Inquirers, NEW p, NEW o,
         at' = [at EXCEPT ![i] = p], own' = [own EXCEPT ![i] = o]
  PROVE  /\ Phase[i] = (IF at[i] \in Outside THEN at[i] ELSE "open")
         /\ Phase' = [Phase EXCEPT ![i] = IF p \in Outside THEN p ELSE "open"]
         /\ Seen[i] = Views(i)
         /\ Seen' = [Seen EXCEPT ![i] = IF p \in Viewing THEN {o.view} ELSE {}]
<1>1. DOMAIN at = Inquirers /\ DOMAIN own = Inquirers
  BY DEF InquiryInvariant, InquiryTypeOK
<1>2. \A j \in Inquirers : /\ at'[j] = (IF j = i THEN p ELSE at[j])
                           /\ own'[j] = (IF j = i THEN o ELSE own[j])
  BY <1>1
<1>3. /\ Phase[i] = (IF at[i] \in Outside THEN at[i] ELSE "open")
      /\ Phase' = [Phase EXCEPT ![i] = IF p \in Outside THEN p ELSE "open"]
  BY <1>2 DEF Phase, Outside
<1>4. /\ Seen[i] = Views(i)
      /\ Seen' = [Seen EXCEPT ![i] = IF p \in Viewing THEN {o.view} ELSE {}]
  <2>1. Seen[i] = Views(i)
    BY DEF Seen, Views, Viewing
  <2>2. \A j \in Inquirers :
          (IF at'[j] \in Viewing THEN {own'[j].view} ELSE {})
            = (IF j = i THEN IF p \in Viewing THEN {o.view} ELSE {} ELSE Seen[j])
    BY <1>2 DEF Seen, Viewing
  <2>3. Seen' = [j \in Inquirers |-> IF at'[j] \in Viewing THEN {own'[j].view} ELSE {}]
    BY DEF Seen, Viewing
  <2>4. DOMAIN Seen = Inquirers
    BY DEF Seen
  <2>5. [Seen EXCEPT ![i] = IF p \in Viewing THEN {o.view} ELSE {}]
          = [j \in Inquirers |->
               IF j = i THEN IF p \in Viewing THEN {o.view} ELSE {} ELSE Seen[j]]
    BY <2>4
  <2>6. QED
    BY <2>1, <2>2, <2>3, <2>5
<1>5. QED
  BY <1>3, <1>4

LEMMA ProceedsAsPromised ==
  ASSUME InquiryInvariant, UNCHANGED tables, NEW i \in Inquirers, Proceeds(i)
  PROVE  Promise!AnswerStep(i) \/ UNCHANGED Promise!answerVars
<1>1. PICK p, o : /\ at[i] \notin {"done", "lost"} /\ GoOn(i, p, o)
                  /\ p \in InquiryLabels[query[i].prog]
                  /\ p \in Viewing => at[i] # "idle" /\ o.view \in Views(i) \cup {Moment}
  BY DEF Proceeds
<1>2. p \notin Outside
  BY <1>1, OneInquiry
  DEF InquiryLabels, InquiryPrograms, InqcustCodes, InqaccCodes, InqacccuCodes, Outside
<1>3. /\ Phase[i] = (IF at[i] = "idle" THEN "idle" ELSE "open")
      /\ Phase' = [Phase EXCEPT ![i] = "open"]
      /\ Seen[i] = Views(i)
      /\ Seen' = [Seen EXCEPT ![i] = IF p \in Viewing THEN {o.view} ELSE {}]
      /\ UNCHANGED <<query, result>>
  BY <1>1, <1>2, MappedStep DEF GoOn, Outside
<1>4. Phase = [j \in Inquirers |-> Phase[j]] /\ Seen = [j \in Inquirers |-> Seen[j]]
  BY DEF Phase, Seen
<1>5. UNCHANGED Promise!tables
  BY DEF tables, Promise!tables
<1>6. CASE at[i] = "idle"
  <2>1. p \notin Viewing /\ Views(i) = {}
    BY <1>1, <1>6 DEF Views, Viewing
  <2>2. Seen' = Seen
    BY <1>3, <1>4, <2>1
  <2>3. Promise!Arrive(i)
    BY <1>3, <1>6, <2>2 DEF Promise!Arrive, Phase, Seen
  <2>4. QED
    BY <1>5, <2>3 DEF Promise!AnswerStep
<1>7. CASE at[i] # "idle"
  <2>1. Phase[i] = "open" /\ Phase' = Phase
    BY <1>3, <1>4, <1>7
  <2>2. CASE p \in Viewing /\ o.view = Moment
    <3>1. Seen' = [Seen EXCEPT ![i] = {Promise!Present}]
      BY <1>3, <2>2, SameAnswers
    <3>2. Promise!Look(i)
      BY <1>3, <2>1, <3>1 DEF Promise!Look, Phase, Seen
    <3>3. QED
      BY <1>5, <3>2 DEF Promise!AnswerStep
  <2>3. CASE p \notin Viewing
    <3>1. Promise!Look(i)
      BY <1>3, <2>1, <2>3 DEF Promise!Look, Phase, Seen
    <3>2. QED
      BY <1>5, <3>1 DEF Promise!AnswerStep
  <2>4. CASE p \in Viewing /\ o.view \in Views(i)
    <3>1. Views(i) = {o.view}
      BY <2>4 DEF Views
    <3>2. Seen' = Seen
      BY <1>3, <1>4, <2>4, <3>1
    <3>3. QED
      BY <1>3, <2>1, <3>2 DEF Promise!answerVars, Phase, Seen
  <2>5. QED
    BY <1>1, <2>2, <2>3, <2>4
<1>8. QED
  BY <1>6, <1>7

LEMMA TellsAsPromised ==
  ASSUME InquiryInvariant, UNCHANGED tables, NEW i \in Inquirers, Tells(i)
  PROVE  Promise!AnswerStep(i)
<1>1. PICK told : Tell(i, told) /\ Rightly(i, told)
  BY DEF Tells
<1>2. /\ Phase[i] = (IF at[i] \in Outside THEN at[i] ELSE "open")
      /\ Phase' = [Phase EXCEPT ![i] = "done"]
      /\ Seen[i] = Views(i)
      /\ Seen' = [Seen EXCEPT ![i] = {}]
      /\ result' = [result EXCEPT ![i] = told] /\ UNCHANGED query
  BY <1>1, MappedStep DEF Tell, Outside, Viewing
<1>3. result'[i] = told
  BY <1>2 DEF InquiryInvariant, InquiryTypeOK
<1>4. UNCHANGED Promise!tables
  BY DEF tables, Promise!tables
<1>5. Promise!Leave(i, "done") /\ result' = [result EXCEPT ![i] = result'[i]]
  BY <1>2, <1>3 DEF Promise!Leave, Phase, Seen
<1>6. CASE at[i] \notin Outside
           /\ \E moment \in Views(i) \cup {Moment} : Promise!TrueOf(moment, query[i], told)
  <2>1. \E moment \in Seen[i] \cup {Promise!Present} :
          Promise!TrueOf(moment, query[i], result'[i])
    BY <1>2, <1>3, <1>6, SameAnswers, Zenon
  <2>2. Phase[i] = "open"
    BY <1>2, <1>6
  <2>3. Promise!Reply(i)
    BY <1>5, <2>1, <2>2, Zenon DEF Promise!Reply, Phase, Seen
  <2>4. QED
    BY <1>4, <2>3 DEF Promise!AnswerStep
<1>7. CASE at[i] \notin {"done", "lost"} /\ Promise!NoAnswer(query[i], told)
  <2>1. Phase[i] \in {"idle", "open"}
    BY <1>2, <1>7 DEF Outside
  <2>2. Promise!NoAnswer(query[i], result'[i])
    BY <1>3, <1>7
  <2>3. Promise!GiveUp(i)
    BY <1>5, <2>1, <2>2, Zenon DEF Promise!GiveUp, Phase, Seen
  <2>4. QED
    BY <1>4, <2>3 DEF Promise!AnswerStep
<1>8. QED
  BY <1>1, <1>6, <1>7 DEF Rightly

LEMMA StartsOverAsPromised ==
  ASSUME InquiryInvariant, UNCHANGED tables, NEW i \in Inquirers, StartsOver(i)
  PROVE  Promise!AnswerStep(i)
<1>1. PICK p : /\ at[i] \notin Outside /\ p \in InquiryLabels[query[i].prog] \ Viewing
               /\ at' = [at EXCEPT ![i] = p] /\ own' = [own EXCEPT ![i] = NoOwn]
               /\ UNCHANGED <<query, result>>
  BY DEF StartsOver
<1>2. p \notin Outside
  BY <1>1, OneInquiry
  DEF InquiryLabels, InquiryPrograms, InqcustCodes, InqaccCodes, InqacccuCodes, Outside
<1>3. /\ Phase[i] = "open" /\ Phase' = [Phase EXCEPT ![i] = "open"]
      /\ Seen' = [Seen EXCEPT ![i] = {}]
  BY <1>1, <1>2, MappedStep
<1>4. Phase = [j \in Inquirers |-> Phase[j]]
  BY DEF Phase
<1>5. Phase' = Phase
  BY <1>3, <1>4
<1>6. Promise!Look(i) /\ UNCHANGED Promise!tables
  BY <1>1, <1>3, <1>5 DEF Promise!Look, Phase, Seen, tables, Promise!tables
<1>7. QED
  BY <1>6 DEF Promise!AnswerStep

LEMMA AbandonedAsPromised ==
  ASSUME InquiryInvariant, UNCHANGED tables, MaxFaults > 0, NEW i \in Inquirers,
         AbandonInquiry(i)
  PROVE  Promise!AnswerStep(i)
<1>1. /\ at[i] \notin Outside /\ UNCHANGED <<query, result>>
      /\ at' = [at EXCEPT ![i] = "lost"] /\ own' = [own EXCEPT ![i] = NoOwn]
  BY DEF AbandonInquiry, Open, Outside
<1>2. /\ Phase[i] = "open" /\ Phase' = [Phase EXCEPT ![i] = "lost"]
      /\ Seen' = [Seen EXCEPT ![i] = {}]
  BY <1>1, MappedStep DEF Outside, Viewing
<1>3. Promise!Lose(i) /\ UNCHANGED Promise!tables
  BY <1>1, <1>2 DEF Promise!Lose, Promise!Leave, Phase, Seen, tables, Promise!tables
<1>4. QED
  BY <1>3 DEF Promise!AnswerStep

LEMMA InitiallyPromised ==
  ASSUME ServiceInit
  PROVE  Promise!Init
<1>1. /\ Phase = [i \in Inquirers |-> "idle"] /\ Seen = [i \in Inquirers |-> {}]
      /\ query \in [Inquirers -> Queries]
  BY DEF ServiceInit, InquiryInit, Phase, Seen
<1>2. result = [i \in Inquirers |-> Promise!Told(Promise!None, Promise!EmptyTable)]
  BY SameAnswers, Zenon DEF ServiceInit, InquiryInit, Untold
<1>3. QED
  BY <1>1, <1>2 DEF Promise!Init, Phase, Seen

LEMMA NextIsPromised ==
  ASSUME ServiceInvariant, [ServiceNext]_serviceVars
  PROVE  [Promise!Next]_<<Promise!tables, Promise!answerVars>>
<1>1. CASE UNCHANGED inquiryVars
  BY <1>1 DEF inquiryVars, Promise!answerVars, Promise!Next
<1>2. ASSUME NEW i \in Inquirers, UNCHANGED tables, StepOf(i)
      PROVE  Promise!AnswerStep(i) \/ UNCHANGED Promise!answerVars
  BY <1>2, ProceedsAsPromised, TellsAsPromised, StartsOverAsPromised, AbandonedAsPromised
  DEF ServiceInvariant, StepOf, Inquires
<1>3. QED
  BY <1>1, <1>2, ServiceSteps DEF Promise!Next

\* Every answer to an inquiry is true of the tables at one moment after it
\* arrived, for any number of inquiries and requests, any tables and any bounds.
THEOREM AnswersKept == ServiceSpec => AnswersAreTrue
<1>1. ServiceInit => Promise!Init
  BY InitiallyPromised
<1>2. ServiceInvariant /\ [ServiceNext]_serviceVars
        => [Promise!Next]_<<Promise!tables, Promise!answerVars>>
  BY NextIsPromised
<1>3. QED
  BY <1>1, <1>2, InquiriesAreAware, PTL DEF ServiceSpec, AnswersAreTrue, Promise!Spec

-----------------------------------------------------------------------------
(* The pool. A request or an inquiry that has waited too long ends with a   *)
(* reply that blames the database; all else is a step of the service.      *)

\* The service is the bank whatever is asked of it.
THEOREM ServiceStaysABank == ServiceSpec => ImplementsAtomicBank
<1>1. ServiceInit => AtomicBank!Init
  BY InitiallyABank DEF ServiceInit
<1>2. ASSUME ServiceInvariant, [ServiceNext]_serviceVars
      PROVE  [AtomicBank!Next]_AtomicBank!bankVars
  <2>1. CASE [Next]_vars
    BY <1>2, <2>1, NextIsTheBanks DEF ServiceInvariant
  <2>2. CASE UNCHANGED <<tables, cmd, pc, attempts, tx, reply>>
    BY <2>2 DEF tables, AtomicBank!bankVars
  <2>3. QED
    BY <1>2, <2>1, <2>2, ServiceSteps
<1>3. QED
  BY <1>1, <1>2, InquiriesAreAware, PTL DEF ServiceSpec, ImplementsAtomicBank, AtomicBank!Spec

LEMMA PoolSteps ==
  ASSUME [PoolNext]_serviceVars
  PROVE  \/ [ServiceNext]_serviceVars
         \/ \E r \in Requests : RequestTimesOut(r)
         \/ \E i \in Inquirers : InquiryTimesOut(i)
BY DEF PoolNext, Serve, Inquire, ServiceNext, Update

LEMMA TimeoutReplies ==
  ASSUME NEW p \in DOMAIN TimeoutReply
  PROVE  TimeoutReply[p] \in Replies
<1>1. UNEX \in Replies /\ Abend("CVR1") \in Replies /\ Abend("HACU") \in Replies
  BY ErrorReplies
<1>2. TimeoutReply[p] \in {UNEX, Abend("CVR1"), Abend("HACU")}
  BY DEF TimeoutReply
<1>3. QED
  BY <1>1, <1>2

\* What a request is told that found no connection in time.
LEMMA TimeoutBlames ==
  ASSUME BankInvariant, NEW r \in Requests, RequestTimesOut(r)
  PROVE  /\ Ends(r) /\ Refuse(r, TimeoutReply[pc[r]])
         /\ MaxFaults > 0 => AnswersTruly(r)
<1> DEFINE rep == TimeoutReply[pc[r]]
<1>1. /\ pc[r] \in {"begin", "creacc_inqcust", "creacc_inqacccu"}
      /\ Refuse(r, rep) /\ Answer(r, rep)
  BY DEF RequestTimesOut, TimeoutReply, Refuse
<1>2. rep \in Replies /\ pc[r] \notin Ended
  BY <1>1, TimeoutReplies DEF TimeoutReply, Ended
<1>3. ASSUME MaxFaults > 0
      PROVE  Justified(r, rep)
  <2>1. CASE pc[r] = "begin"
    BY <1>3, <2>1, BlamesJustified DEF TimeoutReply
  <2>2. CASE pc[r] \in {"creacc_inqcust", "creacc_inqacccu"}
    <3>1. cmd[r].prog = "CREACC"
      BY <2>2, AtLabel DEF BankInvariant, SharedInvariant, LabelsOf, CreaccErrors
    <3>2. rep \in AtomicBank!Breakdowns["CREACC"]
      BY <2>2 DEF TimeoutReply, AtomicBank!Breakdowns, AtomicBank!Abend, Abend
    <3>3. QED
      BY <1>3, <3>1, <3>2, BlamesJustified
  <2>3. QED
    BY <1>1, <2>1, <2>2
<1>4. QED
  BY <1>1, <1>2, <1>3 DEF Ends, AnswersTruly

LEMMA TimeoutKeeps ==
  ASSUME ServiceInvariant, NEW r \in Requests, RequestTimesOut(r)
  PROVE  ServiceInvariant'
<1>1. BankInvariant /\ SharedInvariant /\ LocalInvariant /\ InquiryInvariant
  BY DEF ServiceInvariant, BankInvariant, SharedInvariant
<1>2. PICK rep \in Replies : Refuse(r, rep)
  <2>1. TimeoutReply[pc[r]] \in Replies
    BY TimeoutReplies DEF RequestTimesOut
  <2>2. QED
    BY <1>1, <2>1, TimeoutBlames
<1>3. LocalInvariant' /\ Orderly(r)
  BY <1>1, <1>2, RefuseKeeps, RefuseIsOrderly
<1>4. SharedInvariant'
  BY <1>1, <1>3, TurnsKeepOneWriter, OrderKeepsTables DEF SharedInvariant, Orderly
<1>5. BankInvariant'
  BY <1>1, <1>4, TimeoutBlames, StepKeepsKnowledge, StepKeepsNumbers, StepKeepsReplies
  DEF BankInvariant
<1>6. UNCHANGED <<control, query, at, tries, own, result>>
  BY <1>2 DEF RequestTimesOut, Refuse, Answer, tables, inquiryVars
<1>7. InquiryInvariant'
  BY <1>1, <1>6 DEF InquiryInvariant, InquiryTypeOK, EachIsAware
<1>8. QED
  BY <1>5, <1>7 DEF ServiceInvariant

\* What an inquiry is told that found none.
LEMMA InquiryTimeoutBlames ==
  ASSUME ServiceInvariant, NEW i \in Inquirers, InquiryTimesOut(i)
  PROVE  \E rep \in InquiryReplies :
           /\ at[i] \notin Outside /\ Tell(i, Told(rep, EmptyTable)) /\ UNCHANGED vars
           /\ MaxFaults > 0 => Promise!NoAnswer(query[i], Told(rep, EmptyTable))
<1>1. PICK codes \in {InqcustCodes, InqaccCodes, InqacccuCodes} :
        at[i] \in DOMAIN codes /\ Tell(i, Told(Abend(codes[at[i]]), EmptyTable))
  BY DEF InquiryTimesOut
<1>2. UNCHANGED vars
  BY DEF InquiryTimesOut
<1>3. QED
  BY <1>1, <1>2, ReadBlames DEF ServiceInvariant

LEMMA InquiryTimeoutKeeps ==
  ASSUME ServiceInvariant, NEW i \in Inquirers, InquiryTimesOut(i)
  PROVE  ServiceInvariant'
<1>1. PICK rep \in InquiryReplies : Tell(i, Told(rep, EmptyTable)) /\ UNCHANGED vars
  BY InquiryTimeoutBlames
<1>2. BankInvariant /\ InquiryInvariant
  BY DEF ServiceInvariant
<1>3. BankInvariant' /\ control' = control
  BY <1>1, <1>2, BankInvariantKept DEF vars
<1>4. InquiryInvariant'
  BY <1>1, <1>2, <1>3, TellKeeps, PlainAnswersTyped
<1>5. QED
  BY <1>3, <1>4 DEF ServiceInvariant

LEMMA PoolKeepsService ==
  ASSUME ServiceInvariant, [PoolNext]_serviceVars
  PROVE  ServiceInvariant'
BY PoolSteps, ServiceInvariantKept, TimeoutKeeps, InquiryTimeoutKeeps

\* A pool of any size, and waits that time out, leave requests and inquiries
\* everything they know.
THEOREM PoolLeavesService == PoolSpec => []ServiceInvariant
<1>1. ServiceInit => ServiceInvariant
  BY InitiallyNothingAsked
<1>2. ServiceInvariant /\ [PoolNext]_serviceVars => ServiceInvariant'
  BY PoolKeepsService
<1>3. QED
  BY <1>1, <1>2, PTL DEF PoolSpec

\* To the bank a request that timed out is one the database failed.
LEMMA PoolIsTheBanks ==
  ASSUME MaxFaults > 0, ServiceInvariant, [PoolNext]_serviceVars
  PROVE  [AtomicBank!Next]_AtomicBank!bankVars
<1>1. BankInvariant
  BY DEF ServiceInvariant
<1>2. CASE [ServiceNext]_serviceVars
  <2>1. CASE [Next]_vars
    BY <1>1, <2>1, NextIsTheBanks
  <2>2. CASE UNCHANGED <<tables, cmd, pc, attempts, tx, reply>>
    BY <2>2 DEF tables, AtomicBank!bankVars
  <2>3. QED
    BY <1>2, <2>1, <2>2, ServiceSteps
<1>3. ASSUME NEW r \in Requests, RequestTimesOut(r)
      PROVE  [AtomicBank!Next]_AtomicBank!bankVars
  BY <1>1, <1>3, TimeoutBlames, StepIsTheBanks DEF Banks
<1>4. ASSUME NEW i \in Inquirers, InquiryTimesOut(i)
      PROVE  [AtomicBank!Next]_AtomicBank!bankVars
  BY <1>4 DEF InquiryTimesOut, vars, AtomicBank!bankVars
<1>5. QED
  BY <1>2, <1>3, <1>4, PoolSteps

LEMMA PoolIsPromised ==
  ASSUME MaxFaults > 0, ServiceInvariant, [PoolNext]_serviceVars
  PROVE  [Promise!Next]_<<Promise!tables, Promise!answerVars>>
<1>1. CASE [ServiceNext]_serviceVars
  BY <1>1, NextIsPromised
<1>2. ASSUME NEW r \in Requests, RequestTimesOut(r)
      PROVE  [Promise!Next]_<<Promise!tables, Promise!answerVars>>
  BY <1>2 DEF RequestTimesOut, inquiryVars, Promise!answerVars, Promise!Next
<1>3. ASSUME NEW i \in Inquirers, InquiryTimesOut(i)
      PROVE  [Promise!Next]_<<Promise!tables, Promise!answerVars>>
  <2>1. PICK rep \in InquiryReplies :
          /\ at[i] \notin Outside /\ Tell(i, Told(rep, EmptyTable)) /\ UNCHANGED vars
          /\ Promise!NoAnswer(query[i], Told(rep, EmptyTable))
    BY <1>3, InquiryTimeoutBlames
  <2>2. Tells(i) /\ UNCHANGED tables
    BY <2>1, BlameIsRight DEF vars, tables
  <2>3. Promise!AnswerStep(i)
    BY <2>2, TellsAsPromised DEF ServiceInvariant
  <2>4. QED
    BY <2>3 DEF Promise!Next
<1>4. QED
  BY <1>1, <1>2, <1>3, PoolSteps

\* Where the bank and the promise allow a broken database at all, running out
\* of connections is nothing worse: whatever the size of the pool, the service
\* is still the bank and its inquiries still tell the truth.
THEOREM PoolKeepsPromises ==
  ASSUME MaxFaults > 0
  PROVE  PoolSpec => ImplementsAtomicBank /\ AnswersAreTrue
<1>1. ServiceInit => AtomicBank!Init /\ Promise!Init
  BY InitiallyABank, InitiallyPromised DEF ServiceInit
<1>2. ServiceInvariant /\ [PoolNext]_serviceVars => [AtomicBank!Next]_AtomicBank!bankVars
  BY PoolIsTheBanks
<1>3. ServiceInvariant /\ [PoolNext]_serviceVars
        => [Promise!Next]_<<Promise!tables, Promise!answerVars>>
  BY PoolIsPromised
<1>4. QED
  BY <1>1, <1>2, <1>3, PoolLeavesService, PTL
  DEF PoolSpec, ImplementsAtomicBank, AtomicBank!Spec, AnswersAreTrue, Promise!Spec

-----------------------------------------------------------------------------
(* How many connections are in use.                                        *)

\* Only opening a transaction counts an attempt.
Counts(r) ==
  \/ attempts' = attempts
  \/ pc[r] = "begin" /\ attempts' = [attempts EXCEPT ![r] = @ + 1]

LEMMA LocksCount ==
  ASSUME NEW r, NEW next, NEW key, NEW missing,
         LockAccount(r, next, key, missing) \/ LockCustomer(r, next, key, missing)
  PROVE  attempts' = attempts
BY DEF LockAccount, LockCustomer, Statement, Refuse, Answer

LEMMA ReceiveCounts ==
  ASSUME NEW r, NEW rejection, NEW next, Receive(r, rejection, next)
  PROVE  attempts' = attempts
BY DEF Receive, Statement, Refuse, Answer

LEMMA RetryCounts ==
  ASSUME NEW r, RetryOrGiveUp(r)
  PROVE  attempts' = attempts
BY DEF RetryOrGiveUp, Statement, Refuse, Answer

LEMMA BeginCounts ==
  ASSUME NEW r, NEW first, Begin(r, first)
  PROVE  Counts(r)
BY DEF Begin, Counts

LEMMA AuditCounts ==
  ASSUME NEW r, NEW next, NEW type, NEW amount, InsertProctran(r, next, type, amount)
  PROVE  attempts' = attempts
BY DEF InsertProctran, Statement

LEMMA ProgramsCount ==
  ASSUME NEW r, ProgramStep(r)
  PROVE  Counts(r)
<1>1. CASE XfrfunStep(r)
  BY <1>1, LocksCount, ReceiveCounts, BeginCounts, AuditCounts
  DEF XfrfunStep, XfrfunReceive, XfrfunBegin, XfrfunLockFrom, XfrfunLockTo, XfrfunDebit,
      XfrfunCredit, XfrfunProctran, Statement, Refuse, Answer, Counts
<1>2. CASE DbcrfunStep(r)
  BY <1>2, LocksCount, ReceiveCounts, BeginCounts, AuditCounts
  DEF DbcrfunStep, DbcrfunReceive, DbcrfunBegin, DbcrfunLock, DbcrfunUpdate,
      DbcrfunProctran, Statement, Refuse, Answer, Counts
<1>3. CASE UpdaccStep(r)
  BY <1>3, LocksCount, ReceiveCounts, BeginCounts, AuditCounts
  DEF UpdaccStep, UpdaccReceive, UpdaccBegin, UpdaccLock, UpdaccUpdate, UpdaccProctran,
      Statement, Counts
<1>4. CASE DelaccStep(r)
  BY <1>4, LocksCount, ReceiveCounts, BeginCounts, AuditCounts
  DEF DelaccStep, DelaccReceive, DelaccBegin, DelaccLock, DelaccDelete, DelaccProctran,
      Statement, Counts
<1>5. CASE UpdcustStep(r)
  BY <1>5, LocksCount, ReceiveCounts, BeginCounts, AuditCounts
  DEF UpdcustStep, UpdcustReceive, UpdcustBegin, UpdcustLock, UpdcustUpdate,
      UpdcustProctran, Statement, Refuse, Answer, Counts
<1>6. CASE DelcusStep(r)
  BY <1>6, LocksCount, ReceiveCounts, BeginCounts, AuditCounts, RetryCounts
  DEF DelcusStep, DelcusReceive, DelcusBegin, DelcusLock, DelcusList, DelcusDeleteAccount,
      DelcusAuditAccount, DelcusDeleteCustomer, DelcusProctran, Statement, Refuse, Answer,
      Counts
<1>7. CASE CreaccStep(r)
  BY <1>7, ReceiveCounts, BeginCounts, AuditCounts
  DEF CreaccStep, CreaccReceive, CreaccInqcust, CreaccInqacccu, CreaccBegin, CreaccReserve,
      CreaccInsert, CreaccProctran, ReserveNumber, Statement, Refuse, Answer, Counts
<1>8. CASE CrecustStep(r)
  BY <1>8, ReceiveCounts, BeginCounts, AuditCounts
  DEF CrecustStep, CrecustReceive, CrecustCredit, CrecustBegin, CrecustReserve,
      CrecustInsert, CrecustProctran, ReserveNumber, Statement, Refuse, Answer, Counts
<1>9. QED
  BY <1>1, <1>2, <1>3, <1>4, <1>5, <1>6, <1>7, <1>8 DEF ProgramStep

LEMMA StepsCount ==
  ASSUME NEW r, Progress(r) \/ Trouble(r)
  PROVE  Counts(r) /\ (Trouble(r) => attempts' = attempts)
<1>1. ProgramStep(r) => Counts(r)
  BY ProgramsCount
<1>2. Commit(r) \/ CommitConflict(r) => attempts' = attempts
  BY RetryCounts DEF Commit, CommitConflict
<1>3. SerializationFailure(r) \/ BeginError(r) \/ CommitLost(r) \/ Abandon(r)
        => attempts' = attempts
  BY RetryCounts DEF SerializationFailure, BeginError, Answer, CommitLost, Abandon
<1>4. DatabaseError(r) \/ CreaccSerializationFailure(r) => attempts' = attempts
  BY DEF DatabaseError, StatementError, CreaccSerializationFailure, Refuse, Answer
<1>5. QED
  BY <1>1, <1>2, <1>3, <1>4 DEF Progress, Trouble, Counts

\* Those who have a connection.
Busy == {r \in Requests : InTransaction(r)}
Reading == {i \in Inquirers : HeldByInquiry(i)}

\* Why the pool holds: those who have a connection can be counted.
PoolInvariant ==
  /\ ServiceInvariant
  /\ IsFiniteSet(Busy) /\ IsFiniteSet(Reading)
  /\ InUse <= PoolSize

LEMMA OneMore ==
  ASSUME NEW S, IsFiniteSet(S), NEW x, NEW T, T \subseteq S \cup {x}
  PROVE  /\ IsFiniteSet(T) /\ Cardinality(T) \in Nat /\ Cardinality(S) \in Nat
         /\ Cardinality(T) <= Cardinality(S) + 1
         /\ T \subseteq S => Cardinality(T) <= Cardinality(S)
<1>1. /\ IsFiniteSet(S \cup {x}) /\ Cardinality(S \cup {x}) <= Cardinality(S) + 1
      /\ Cardinality(S) \in Nat /\ Cardinality(S \cup {x}) \in Nat
  BY FS_AddElement, FS_CardinalityType
<1>2. /\ IsFiniteSet(T) /\ Cardinality(T) <= Cardinality(S \cup {x})
      /\ Cardinality(T) \in Nat
  BY <1>1, FS_Subset, FS_CardinalityType
<1>3. T \subseteq S => Cardinality(T) <= Cardinality(S)
  BY FS_Subset
<1>4. QED
  BY <1>1, <1>2, <1>3

\* A step of a request leaves the others where they are.
LEMMA OthersStay ==
  ASSUME BankInvariant, NEW r \in Requests, Banks(r) \/ Ends(r) \/ Drops(r) \/ Commits(r)
  PROVE  pc[r] \notin Ended /\ \A q \in Requests \ {r} : pc'[q] = pc[q]
<1>1. DOMAIN pc = Requests
  BY DEF BankInvariant, SharedInvariant, LocalInvariant, TypeOK
<1>2. QED
  BY <1>1 DEF Banks, Moves, MovesTo, AnswersTruly, Ends, Answer, Drops, Commits, Installs,
     Ended

\* A request connects when it opens its transaction, and at no other statement.
LEMMA RequestConnects ==
  ASSUME BankInvariant, NEW r \in Requests, Progress(r)
  PROVE  Busy' \subseteq Busy \cup {r} /\ (pc[r] # "begin" => Busy' \subseteq Busy)
<1>1. /\ attempts \in [Requests -> 0 .. MaxAttempts] /\ Counts(r)
      /\ Placed(cmd[r], pc[r], attempts[r], tx[r])
  BY StepsCount, Facts DEF BankInvariant, SharedInvariant, LocalInvariant, TypeOK, EachIsPlaced
<1>2. pc[r] \notin Ended /\ \A q \in Requests \ {r} : pc'[q] = pc[q]
  BY StepBanks, OthersStay
<1>3. \A q \in Requests \ {r} : attempts'[q] = attempts[q]
  BY <1>1 DEF Counts
<1>4. Busy' \subseteq Busy \cup {r}
  BY <1>2, <1>3 DEF Busy, InTransaction, Running
<1>5. ASSUME pc[r] # "begin", r \in Busy'
      PROVE  r \in Busy
  <2>1. attempts[r] > 0
    BY <1>1, <1>5 DEF Counts, Busy, InTransaction
  <2>2. pc[r] # "idle"
    BY <1>1, <2>1 DEF Placed, Unstarted
  <2>3. QED
    BY <1>2, <1>5, <2>1, <2>2 DEF Busy, InTransaction, Running, Ended
<1>6. QED
  BY <1>4, <1>5

\* A request that ends, or starts over, gives its connection back.
LEMMA RequestDisconnects ==
  ASSUME BankInvariant, NEW r \in Requests, Trouble(r) \/ RequestTimesOut(r)
  PROVE  Busy' \subseteq Busy
<1>1. DOMAIN pc = Requests
  BY DEF BankInvariant, SharedInvariant, LocalInvariant, TypeOK
<1>2. \A q \in Requests \ {r} : pc'[q] = pc[q] /\ attempts'[q] = attempts[q]
  BY StepBanks, TimeoutBlames, OthersStay, StepsCount DEF Refuse, Answer
<1>3. \A rep : Answer(r, rep) => pc'[r] = "done"
  BY <1>1 DEF Answer
<1>4. RetryOrGiveUp(r) => pc'[r] \in {"begin", "done"}
  BY <1>1, <1>3 DEF RetryOrGiveUp, Statement, Refuse
<1>5. pc'[r] \in {"begin", "done", "lost"}
  BY <1>1, <1>3, <1>4 DEF Trouble, SerializationFailure, CreaccSerializationFailure,
     DatabaseError, StatementError, BeginError, CommitLost, Abandon, RequestTimesOut, Refuse
<1>6. QED
  BY <1>2, <1>5 DEF Busy, InTransaction, Running

\* An inquiry connects where it acquires a connection.
LEMMA InquiryConnects ==
  ASSUME InquiryInvariant, NEW i \in Inquirers, InquiryStep(i)
  PROVE  /\ Reading' \subseteq Reading \cup {i}
         /\ at[i] \notin InquiryAcquirePoints => Reading' \subseteq Reading
<1>1. DOMAIN at = Inquirers
  BY DEF InquiryInvariant, InquiryTypeOK
<1>2. \A told : Tell(i, told) => at' = [at EXCEPT ![i] = "done"]
  BY DEF Tell
<1>3. \A p, o : GoOn(i, p, o) => at' = [at EXCEPT ![i] = p]
  BY DEF GoOn
<1>4. PICK p : /\ at' = [at EXCEPT ![i] = p]
               /\ at[i] \notin InquiryAcquirePoints /\ at[i] # "inqcust_draw"
                  /\ at[i] \notin {"inqacccu_exists", "inqacccu_list"}
                    => p \in {"done", "inqcust_highest", "inqcust_last", "inqcust_exact",
                              "inqacc_last", "inqacc_exact", "inqacccu_reserved",
                              "inqacccu_begin"}
  <2>1. CASE InqcustStep(i)
    BY <1>2, <1>3, <2>1 DEF InqcustStep, InqcustTake, Take, InqcustFirst, InqcustExact,
       InqcustLast, InqcustHighest, InqcustDraw, Draw, TellRow, TellLast, InquiryAcquirePoints
  <2>2. CASE InqaccStep(i)
    BY <1>2, <1>3, <2>2 DEF InqaccStep, InqaccTake, Take, InqaccFirst, InqaccExact,
       InqaccLast, TellRow, TellLast, InquiryAcquirePoints
  <2>3. CASE InqacccuStep(i)
    BY <1>2, <1>3, <2>3 DEF InqacccuStep, InqacccuTake, Take, InqacccuFirst,
       InqacccuReserved, InqacccuBegin, InqacccuExists, InqacccuList, InqacccuFound,
       InqacccuMissing, InquiryAcquirePoints
  <2>4. QED
    BY <2>1, <2>2, <2>3 DEF InquiryStep
<1>5. QED
  BY <1>1, <1>4 DEF Reading, HeldByInquiry, InquiryAcquirePoints

LEMMA InquiryDisconnects ==
  ASSUME InquiryInvariant, NEW i \in Inquirers,
         InquirySerializationFailure(i) \/ InquiryFault(i) \/ InquiryTimesOut(i)
  PROVE  Reading' \subseteq Reading
<1>1. DOMAIN at = Inquirers
  BY DEF InquiryInvariant, InquiryTypeOK
<1>2. \A told : Tell(i, told) => at' = [at EXCEPT ![i] = "done"]
  BY DEF Tell
<1>3. \A p : RunAgain(i, p) => \E q \in {p, "done"} : at' = [at EXCEPT ![i] = q]
  BY <1>2 DEF RunAgain
<1>4. \E p \in {"done", "lost", "inqacc_exact", "inqacc_last", "inqacccu_begin"} :
        at' = [at EXCEPT ![i] = p]
  BY <1>2, <1>3 DEF InquirySerializationFailure, InqcustSerializationFailure,
     InqaccSerializationFailure, InqaccCodes, InqacccuSerializationFailure, InquiryFault,
     ReadError, AbandonInquiry, InquiryTimesOut
<1>5. QED
  BY <1>1, <1>4 DEF Reading, HeldByInquiry

\* Nobody joins beyond the size of the pool.
LEMMA NobodyJoins ==
  ASSUME PoolInvariant, Busy' \subseteq Busy, Reading' \subseteq Reading
  PROVE  IsFiniteSet(Busy') /\ IsFiniteSet(Reading') /\ InUse' <= PoolSize
<1>1. /\ Cardinality(Busy') \in Nat /\ Cardinality(Busy') <= Cardinality(Busy)
      /\ Cardinality(Reading') \in Nat /\ Cardinality(Reading') <= Cardinality(Reading)
      /\ Cardinality(Busy) \in Nat /\ Cardinality(Reading) \in Nat
      /\ IsFiniteSet(Busy') /\ IsFiniteSet(Reading')
  BY OneMore, FS_Subset, FS_CardinalityType DEF PoolInvariant
<1>2. InUse = Cardinality(Busy) + Cardinality(Reading)
      /\ InUse' = Cardinality(Busy') + Cardinality(Reading')
  BY DEF InUse, Busy, Reading
<1>3. QED
  BY <1>1, <1>2, PoolAssumption DEF PoolInvariant

LEMMA OneJoins ==
  ASSUME PoolInvariant, InUse < PoolSize, NEW x,
         \/ Busy' \subseteq Busy \cup {x} /\ Reading' \subseteq Reading
         \/ Busy' \subseteq Busy /\ Reading' \subseteq Reading \cup {x}
  PROVE  IsFiniteSet(Busy') /\ IsFiniteSet(Reading') /\ InUse' <= PoolSize
<1>1. IsFiniteSet(Busy) /\ IsFiniteSet(Reading)
  BY DEF PoolInvariant
<1>2. Busy' \subseteq Busy \cup {x} /\ Reading' \subseteq Reading \cup {x}
  OBVIOUS
<1>3. /\ Cardinality(Busy) \in Nat /\ Cardinality(Busy') \in Nat
      /\ Cardinality(Busy') <= Cardinality(Busy) + 1 /\ IsFiniteSet(Busy')
      /\ Busy' \subseteq Busy => Cardinality(Busy') <= Cardinality(Busy)
  BY <1>1, <1>2, OneMore
<1>4. /\ Cardinality(Reading) \in Nat /\ Cardinality(Reading') \in Nat
      /\ Cardinality(Reading') <= Cardinality(Reading) + 1 /\ IsFiniteSet(Reading')
      /\ Reading' \subseteq Reading => Cardinality(Reading') <= Cardinality(Reading)
  BY <1>1, <1>2, OneMore
<1>5. InUse = Cardinality(Busy) + Cardinality(Reading)
      /\ InUse' = Cardinality(Busy') + Cardinality(Reading')
  BY DEF InUse, Busy, Reading
<1>6. QED
  BY <1>3, <1>4, <1>5, PoolAssumption

LEMMA PoolInvariantKept ==
  ASSUME PoolInvariant, [PoolNext]_serviceVars
  PROVE  PoolInvariant'
<1>1. ServiceInvariant /\ BankInvariant /\ InquiryInvariant /\ ServiceInvariant'
  BY PoolKeepsService DEF PoolInvariant, ServiceInvariant
<1>2. UNCHANGED <<pc, attempts>> => Busy' = Busy
  BY DEF Busy, InTransaction, Running
<1>3. UNCHANGED inquiryVars => Reading' = Reading
  BY DEF Reading, HeldByInquiry, inquiryVars
<1>4. UNCHANGED vars => Busy' = Busy
  BY <1>2 DEF vars
<1>5. SUFFICES IsFiniteSet(Busy') /\ IsFiniteSet(Reading') /\ InUse' <= PoolSize
  BY <1>1 DEF PoolInvariant
<1>6. CASE UNCHANGED serviceVars \/ ServiceIdle
  <2>1. Busy' = Busy /\ Reading' = Reading
    BY <1>3, <1>4, <1>6 DEF serviceVars, ServiceIdle
  <2>2. QED
    BY <2>1, NobodyJoins
<1>7. ASSUME NEW r \in Requests, Serve(r)
      PROVE  IsFiniteSet(Busy') /\ IsFiniteSet(Reading') /\ InUse' <= PoolSize
  <2>1. /\ Busy' \subseteq Busy \cup {r} /\ Reading' = Reading
        /\ pc[r] # "begin" => Busy' \subseteq Busy
    BY <1>1, <1>3, <1>7, RequestConnects DEF Serve
  <2>2. pc[r] = "begin" => InUse < PoolSize
    BY <1>7 DEF Serve, AcquirePoints
  <2>3. QED
    BY <2>1, <2>2, NobodyJoins, OneJoins
<1>8. ASSUME NEW r \in Requests, RequestTimesOut(r) \/ (Trouble(r) /\ UNCHANGED inquiryVars)
      PROVE  IsFiniteSet(Busy') /\ IsFiniteSet(Reading') /\ InUse' <= PoolSize
  <2>1. Busy' \subseteq Busy /\ Reading' = Reading
    BY <1>1, <1>3, <1>8, RequestDisconnects DEF RequestTimesOut
  <2>2. QED
    BY <2>1, NobodyJoins
<1>9. ASSUME NEW i \in Inquirers, Inquire(i)
      PROVE  IsFiniteSet(Busy') /\ IsFiniteSet(Reading') /\ InUse' <= PoolSize
  <2>1. /\ Reading' \subseteq Reading \cup {i} /\ Busy' = Busy
        /\ at[i] \notin InquiryAcquirePoints => Reading' \subseteq Reading
    BY <1>1, <1>4, <1>9, InquiryConnects DEF Inquire, InquiryStep
  <2>2. at[i] \in InquiryAcquirePoints => InUse < PoolSize
    BY <1>9 DEF Inquire
  <2>3. QED
    BY <2>1, <2>2, NobodyJoins, OneJoins
<1>10. ASSUME NEW i \in Inquirers,
              InquirySerializationFailure(i) \/ InquiryFault(i) \/ InquiryTimesOut(i)
       PROVE  IsFiniteSet(Busy') /\ IsFiniteSet(Reading') /\ InUse' <= PoolSize
  <2>1. Busy' = Busy
    BY <1>2, <1>4, <1>10 DEF InquirySerializationFailure, InquiryFault, InquiryTimesOut
  <2>2. Reading' \subseteq Reading
    BY <1>1, <1>10, InquiryDisconnects
  <2>3. QED
    BY <2>1, <2>2, NobodyJoins
<1>11. QED
  BY <1>6, <1>7, <1>8, <1>9, <1>10 DEF PoolNext

LEMMA InitiallyUnused ==
  ASSUME ServiceInit
  PROVE  PoolInvariant
<1>1. Busy = {} /\ Reading = {}
  BY DEF ServiceInit, Init, InquiryInit, Busy, Reading, InTransaction, Running, HeldByInquiry
<1>2. IsFiniteSet({}) /\ Cardinality({}) = 0
  BY FS_EmptySet
<1>3. InUse = 0
  BY <1>1, <1>2 DEF InUse, Busy, Reading
<1>4. QED
  BY <1>1, <1>2, <1>3, InitiallyNothingAsked, PoolAssumption DEF PoolInvariant

\* No more connections are in use than the pool has, and nobody waits for one
\* while holding another, so no wait for a connection goes in a circle.
THEOREM PoolHolds == PoolSpec => []PoolIsKept
<1>1. ServiceInit => PoolInvariant
  BY InitiallyUnused
<1>2. PoolInvariant /\ [PoolNext]_serviceVars => PoolInvariant'
  BY PoolInvariantKept
<1>3. ASSUME PoolInvariant
      PROVE  PoolIsKept
  <2>1. ASSUME NEW r \in Requests, pc[r] \in AcquirePoints
        PROVE  ~InTransaction(r)
    <3>1. Placed(cmd[r], pc[r], attempts[r], tx[r])
      BY <1>3 DEF PoolInvariant, ServiceInvariant, BankInvariant, SharedInvariant,
         LocalInvariant, EachIsPlaced
    <3>2. QED
      BY <2>1, <3>1 DEF AcquirePoints, InTransaction, Placed, Unstarted
  <2>2. \A i \in Inquirers : at[i] \in InquiryAcquirePoints => ~HeldByInquiry(i)
    BY DEF InquiryAcquirePoints, HeldByInquiry
  <2>3. QED
    BY <1>3, <2>1, <2>2 DEF PoolInvariant, PoolIsKept
<1>4. QED
  BY <1>1, <1>2, <1>3, PTL DEF PoolSpec
=============================================================================
