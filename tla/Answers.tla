-------------------------------- MODULE Answers --------------------------------
(***************************************************************************)
(* What an inquiry promises: its answer is true, as a whole, of the tables  *)
(* at one moment between its arrival and its reply, while the tables change *)
(* as they please. There are no statements, snapshots or retries here.      *)
(***************************************************************************)
EXTENDS Tables

CONSTANTS Inquirers, Queries

VARIABLES
  query,    \* query[i]: what inquiry i asks
  phase,    \* phase[i]: "idle", "open", "done" or "lost"
  seen,     \* seen[i]: moments it may answer from
  result    \* result[i]: what the client was told

answerVars == <<query, phase, seen, result>>

Present == [customer |-> customer, account |-> account]
Told(rep, rows) == [reply |-> rep, rows |-> rows]

Init ==
  /\ query \in [Inquirers -> Queries]
  /\ phase = [i \in Inquirers |-> "idle"]
  /\ seen = [i \in Inquirers |-> {}]
  /\ result = [i \in Inquirers |-> Told(None, EmptyTable)]

-----------------------------------------------------------------------------
(* True answers.                                                           *)

\* The row with number n and nothing else.
Only(told, table, n) ==
  /\ n \in DOMAIN table
  /\ told = Told(Success, [k \in {n} |-> table[n]])

Nobody(told) == told = Told(Fail("1"), EmptyTable)

Greatest(table, n) == \A m \in DOMAIN table : m <= n

\* By number, or the last one.
TrueOfRow(table, n, last, told) ==
  \/ n # last /\ Only(told, table, n)
  \/ n # last /\ n \notin DOMAIN table /\ Nobody(told)
  \/ n = last /\ \E m \in DOMAIN table : Greatest(table, m) /\ Only(told, table, m)
  \/ n = last /\ DOMAIN table = {} /\ Nobody(told)

\* Any customer, or nobody; "R" only if a number that was given out is free.
TrueOfRandom(table, told) ==
  \/ \E m \in DOMAIN table : Only(told, table, m)
  \/ DOMAIN table = {} /\ Nobody(told)
  \/ /\ DOMAIN table # 1 .. control.customer_last
     /\ told = Told(Fail("R"), EmptyTable)

\* The customer's accounts, all of them or the first PageSize.
TrueOfAccounts(moment, c, told) ==
  LET owned == {a \in DOMAIN moment.account : moment.account[a].customer = c}
      told_of == DOMAIN told.rows
  IN
  \/ /\ c \in DOMAIN moment.customer \ {MaxCustomerNumber}
     /\ told.reply = Success
     /\ told_of \subseteq owned
     /\ \A a \in told_of : told.rows[a] = moment.account[a]
     /\ \A a \in told_of, b \in owned \ told_of : a < b
     /\ Cardinality(told_of) = PageSize \/ told_of = owned
     /\ Cardinality(told_of) <= PageSize
  \/ c \notin DOMAIN moment.customer \ {MaxCustomerNumber} /\ Nobody(told)

TrueOf(moment, q, told) ==
  CASE q.prog = "INQACC" -> TrueOfRow(moment.account, q.number, MaxAccountNumber, told)
    [] q.prog = "INQACCCU" -> TrueOfAccounts(moment, q.number, told)
    [] q.prog = "INQCUST" /\ q.number = 0 -> TrueOfRandom(moment.customer, told)
    [] OTHER -> TrueOfRow(moment.customer, q.number, MaxCustomerNumber, told)

\* No answer: the number is out of range, or the database is blamed.
Limit(q) == IF q.prog = "INQACC" THEN MaxAccountNumber ELSE MaxCustomerNumber

NoAnswer(q, told) ==
  \/ told = Told(Invalid, EmptyTable) /\ q.number \notin 0 .. Limit(q)
  \/ told = Told(Abend("CVR1"), EmptyTable) /\ q.prog = "INQCUST"
  \/ told = Told(XRTY, EmptyTable) /\ q.prog # "INQCUST"
  \/ /\ MaxFaults > 0
     /\ \/ /\ q.prog = "INQACC"
           /\ told = Told(Abend(IF q.number = MaxAccountNumber THEN "HNCS" ELSE "HRAC"),
                          EmptyTable)
        \/ told = Told(Abend("HACU"), EmptyTable) /\ q.prog = "INQACCCU"

-----------------------------------------------------------------------------
Arrive(i) ==
  /\ phase[i] = "idle"
  /\ phase' = [phase EXCEPT ![i] = "open"]
  /\ UNCHANGED <<query, seen, result>>

\* The inquiry keeps the present in mind, or starts again without it.
Look(i) ==
  /\ phase[i] = "open"
  /\ seen' = [seen EXCEPT ![i] = {Present}] \/ seen' = [seen EXCEPT ![i] = {}]
  /\ UNCHANGED <<query, phase, result>>

Leave(i, p) ==
  /\ phase' = [phase EXCEPT ![i] = p]
  /\ seen' = [seen EXCEPT ![i] = {}]
  /\ UNCHANGED query

\* The answer is true of the present or of the moment kept in mind.
Reply(i) ==
  /\ phase[i] = "open"
  /\ \E moment \in seen[i] \cup {Present} : TrueOf(moment, query[i], result'[i])
  /\ result' = [result EXCEPT ![i] = result'[i]]
  /\ Leave(i, "done")

GiveUp(i) ==
  /\ phase[i] \in {"idle", "open"}
  /\ NoAnswer(query[i], result'[i])
  /\ result' = [result EXCEPT ![i] = result'[i]]
  /\ Leave(i, "done")

Lose(i) ==
  /\ phase[i] = "open"
  /\ MaxFaults > 0
  /\ Leave(i, "lost")
  /\ UNCHANGED result

AnswerStep(i) ==
  /\ Arrive(i) \/ Look(i) \/ Reply(i) \/ GiveUp(i) \/ Lose(i)
  /\ UNCHANGED tables

Next == (\E i \in Inquirers : AnswerStep(i)) \/ UNCHANGED answerVars

Spec == Init /\ [][Next]_<<tables, answerVars>>
=============================================================================
