---------------------------------- MODULE Bank ---------------------------------
(***************************************************************************)
(* What the service promises: a bank that handles one request at a time.   *)
(* Each request either takes effect as a whole, in one step, on the tables *)
(* as they are at that moment, or leaves them alone and is given a reply   *)
(* that is true of them at that moment (or names a failure of the          *)
(* database). There are no transactions, locks or retries here.            *)
(***************************************************************************)
EXTENDS Tables

VARIABLES
  cmd,     \* cmd[r]: the command of request r
  phase,   \* phase[r]: "open", "done", or "lost" (nobody waits any more)
  reply    \* reply[r]: what the client was told

bankVars == <<customer, account, control, proctran, cmd, phase, reply>>

Init ==
  /\ \E d \in InitialDatabases :
       /\ customer = d.customer
       /\ account = d.account
       /\ control = d.control
  /\ proctran = <<>>
  /\ cmd \in [Requests -> Commands]
  /\ phase = [r \in Requests |-> "open"]
  /\ reply = [r \in Requests |-> None]

Record(r, rows) == proctran' = proctran \o rows
Entry(r, type, amount) == <<Audit(r, type, amount)>>

-----------------------------------------------------------------------------
(* What each command does when it succeeds.                                *)

Transfer(r, c) ==
  /\ c.prog = "XFRFUN"
  /\ c.amount > 0
  /\ c.from # c.to
  /\ {c.from, c.to} \subseteq DOMAIN account
  /\ account' = [account EXCEPT ![c.from] = Moved(@, -c.amount),
                                ![c.to] = Moved(@, c.amount)]
  /\ account'[c.from].available >= 0
  /\ account'[c.from].actual >= -account[c.from].overdraft
  /\ Representable(account'[c.to])
  /\ Record(r, Entry(r, "TFR", c.amount))
  /\ UNCHANGED <<customer, control>>

Post(r, c) ==
  /\ c.prog = "DBCRFUN"
  /\ c.account \in DOMAIN account
  /\ account' = [account EXCEPT ![c.account] = Moved(@, c.amount)]
  /\ Representable(account'[c.account])
  /\ c.payment => /\ account[c.account].type \notin {"MORTGAGE", "LOAN"}
                  /\ c.amount < 0 => account'[c.account].available >= 0
  /\ Record(r, Entry(r, IF c.amount < 0 THEN IF c.payment THEN "PDR" ELSE "DEB"
                                        ELSE IF c.payment THEN "PCR" ELSE "CRE",
                     c.amount))
  /\ UNCHANGED <<customer, control>>

UpdateAccount(r, c) ==
  /\ c.prog = "UPDACC"
  /\ c.type # ""
  /\ c.account \in DOMAIN account
  /\ account' = [account EXCEPT ![c.account].type = c.type,
                                ![c.account].overdraft = c.overdraft]
  /\ Record(r, Entry(r, "OUA", 0))
  /\ UNCHANGED <<customer, control>>

CloseAccount(r, c) ==
  /\ c.prog = "DELACC"
  /\ c.account \in DOMAIN account
  /\ account' = Without(account, c.account)
  /\ Record(r, Entry(r, "ODA", account[c.account].actual))
  /\ UNCHANGED <<customer, control>>

UpdateCustomer(r, c) ==
  /\ c.prog = "UPDCUST"
  /\ c.customer \in DOMAIN customer
  /\ ~({c.name, c.address} \subseteq BlankishTexts)
  /\ customer' =
       [customer EXCEPT
          ![c.customer].name = IF c.name \in BlankishTexts THEN @ ELSE c.name,
          ![c.customer].address = IF c.address \in BlankishTexts THEN @
                                                             ELSE c.address]
  /\ Record(r, Entry(r, "OUC", 0))
  /\ UNCHANGED <<account, control>>

\* The n-th account of a customer, by ascending number.
NthAccount(c, n) ==
  CHOOSE a \in AccountsOf(c) : Cardinality({b \in AccountsOf(c) : b < a}) = n - 1

\* The customer goes together with every account, each closed with its balance.
RemoveCustomer(r, c) ==
  /\ c.prog = "DELCUS"
  /\ c.customer \in DOMAIN customer
  /\ Cardinality(AccountsOf(c.customer)) <= PageSize
  /\ customer' = Without(customer, c.customer)
  /\ account' = [a \in DOMAIN account \ AccountsOf(c.customer) |-> account[a]]
  /\ Record(r, [n \in 1 .. Cardinality(AccountsOf(c.customer)) |->
                  Audit(r, "ODA", account[NthAccount(c.customer, n)].actual)]
               \o Entry(r, "ODC", 0))
  /\ UNCHANGED control

\* Nothing here keeps a customer below MaxAccountsPerCustomer: CREACC looks at
\* the number of accounts before, not while, it opens one.
OpenAccount(r, c) ==
  /\ c.prog = "CREACC"
  /\ c.customer \in DOMAIN customer \ {0, MaxCustomerNumber}
  /\ control.account_last < MaxAccountNumber
  /\ control' = [control EXCEPT !.account_count = @ + 1, !.account_last = @ + 1]
  /\ account' = Overlay(account, control'.account_last,
                  [customer |-> c.customer, type |-> c.type,
                   overdraft |-> c.overdraft, available |-> c.available,
                   actual |-> c.actual])
  /\ Record(r, Entry(r, "OCA", 0))
  /\ UNCHANGED customer

AddCustomer(r, c) ==
  /\ c.prog = "CRECUST"
  /\ control.customer_last < MaxCustomerNumber
  /\ control' = [control EXCEPT !.customer_count = @ + 1, !.customer_last = @ + 1]
  /\ customer' = Overlay(customer, control'.customer_last,
                         [name |-> c.name, address |-> c.address])
  /\ Record(r, Entry(r, "OCC", 0))
  /\ UNCHANGED account

Effect(r, c) ==
  \/ Transfer(r, c)
  \/ Post(r, c)
  \/ UpdateAccount(r, c)
  \/ CloseAccount(r, c)
  \/ UpdateCustomer(r, c)
  \/ RemoveCustomer(r, c)
  \/ OpenAccount(r, c)
  \/ AddCustomer(r, c)

-----------------------------------------------------------------------------
(* When a command may be refused, and with which reply.                    *)

Account(a) == a \in 0 .. MaxAccountNumber
Existing(a) == a \in DOMAIN account

TransferRefused(c, rep) ==
  \/ rep = Invalid /\ ~(Account(c.from) /\ Account(c.to) /\ c.amount \in Money)
  \/ rep = Fail("4") /\ c.amount <= 0
  \/ rep = Abend("SAME") /\ c.from = c.to
  \/ rep = Fail("1") /\ ~Existing(c.from)
  \/ rep = Fail("2") /\ ~Existing(c.to)
  \/ /\ rep = Fail("3")
     /\ Existing(c.from)
     /\ \/ account[c.from].available < c.amount
        \/ account[c.from].actual + account[c.from].overdraft < c.amount
  \/ /\ rep = Abend("TO  ")
     /\ Existing(c.to) /\ ~Representable(Moved(account[c.to], c.amount))

PostRefused(c, rep) ==
  \/ rep = Invalid /\ ~(Account(c.account) /\ c.amount \in Money)
  \/ rep = Fail("1") /\ ~Existing(c.account)
  \/ /\ rep = Fail("4")
     /\ c.payment /\ Existing(c.account)
     /\ account[c.account].type \in {"MORTGAGE", "LOAN"}
  \/ /\ rep = Fail("3")
     /\ c.payment /\ c.amount < 0 /\ Existing(c.account)
     /\ account[c.account].available + c.amount < 0
  \/ /\ rep = Abend("HUAC")
     /\ Existing(c.account) /\ ~Representable(Moved(account[c.account], c.amount))

UpdateAccountRefused(c, rep) ==
  \/ rep = Invalid /\ ~Account(c.account)
  \/ rep = Fail("2") /\ c.type = ""
  \/ rep = Fail("1") /\ ~Existing(c.account)

CloseAccountRefused(c, rep) ==
  \/ rep = Invalid /\ ~Account(c.account)
  \/ rep = Fail("1") /\ ~Existing(c.account)

UpdateCustomerRefused(c, rep) ==
  \/ rep = Invalid /\ c.customer \notin 0 .. MaxCustomerNumber
  \/ rep = Fail("T") /\ c.name \in UntitledTexts
  \/ rep = Fail("1") /\ c.customer \notin DOMAIN customer
  \/ rep = Fail("4") /\ {c.name, c.address} \subseteq BlankishTexts

\* A customer with more accounts than one page cannot be removed.
RemoveCustomerRefused(c, rep) ==
  \/ rep = Invalid /\ c.customer \notin 1 .. MaxCustomerNumber
  \/ rep = Fail("1") /\ c.customer \notin DOMAIN customer
  \/ rep = Abend("WPV7") /\ Cardinality(AccountsOf(c.customer)) > PageSize

OpenAccountRefused(c, rep) ==
  \/ rep = Invalid /\ ~(c.customer \in 0 .. MaxCustomerNumber /\ Representable(c))
  \/ rep = Fail("A") /\ c.type \notin {"ISA", "MORTGAGE", "SAVING", "CURRENT", "LOAN"}
  \/ rep = Fail("1") /\ c.customer \notin DOMAIN customer \ {0, MaxCustomerNumber}
  \/ /\ rep = Fail("8")
     /\ Cardinality(AccountsOf(c.customer)) > MaxAccountsPerCustomer
  \/ rep = Fail("7") /\ c.customer \notin DOMAIN customer
  \/ rep = Abend("HNCS") /\ control.account_last >= MaxAccountNumber

\* "G", no credit agency answered, depends on the agencies alone.
AddCustomerRefused(c, rep) ==
  \/ rep = Invalid /\ c.name \in EmptyTexts
  \/ rep = Fail("T") /\ c.name \in UntitledTexts
  \/ rep = Fail(c.birth) /\ c.birth # "valid"
  \/ rep = Fail("G")
  \/ rep = Fail("4") /\ control.customer_last >= MaxCustomerNumber

Refused(c, rep) ==
  CASE c.prog = "XFRFUN" -> TransferRefused(c, rep)
    [] c.prog = "DBCRFUN" -> PostRefused(c, rep)
    [] c.prog = "UPDACC" -> UpdateAccountRefused(c, rep)
    [] c.prog = "DELACC" -> CloseAccountRefused(c, rep)
    [] c.prog = "UPDCUST" -> UpdateCustomerRefused(c, rep)
    [] c.prog = "DELCUS" -> RemoveCustomerRefused(c, rep)
    [] c.prog = "CREACC" -> OpenAccountRefused(c, rep)
    [] c.prog = "CRECUST" -> AddCustomerRefused(c, rep)

\* Replies that blame the database and say nothing about the tables.
\*
\* Contention alone, when nothing broke, has a request told XRTY once it lost
\* every one of its attempts. CREACC has only one attempt to see its customer,
\* and is told CVR1 if it loses that.
Contended(c, rep) ==
  \/ rep = XRTY
  \/ c.prog = "CREACC" /\ rep = Abend("CVR1")

\* The replies each command has for what breaks.
Breakdowns ==
  [XFRFUN |-> {Abend("FROM"), Abend("TO  ")},
   DBCRFUN |-> {Abend("HRAC"), Abend("HUAC")},
   UPDACC |-> {Abend("HRAC"), Abend("HUAC")},
   DELACC |-> {Abend("HRAC"), Fail("3")},
   UPDCUST |-> {Fail("2"), Fail("3")},
   DELCUS |-> {Abend("WPV6"), Abend("WPV7")},
   CREACC |-> {Abend("CVR1"), Abend("HACU"), Abend("HNCS"), Fail("7")},
   CRECUST |-> {Fail("3"), Fail("1")}]

Breakable == MaxFaults > 0

BlamesDatabase(c, rep) ==
  \/ Contended(c, rep)
  \/ Breakable /\ rep \in Breakdowns[c.prog] \cup {HWPT, UNEX}

-----------------------------------------------------------------------------
Close(r, p, rep) ==
  /\ phase[r] = "open"
  /\ phase' = [phase EXCEPT ![r] = p]
  /\ reply' = [reply EXCEPT ![r] = rep]
  /\ UNCHANGED cmd

\* The request takes effect. If the connection breaks during COMMIT the client
\* is told UNEX, or nothing, all the same.
Apply(r) ==
  /\ Effect(r, cmd[r])
  /\ \/ Close(r, "done", Success)
     \/ Breakable /\ (Close(r, "done", UNEX) \/ Close(r, "lost", None))

Refuse(r) ==
  /\ \E rep \in Replies :
       /\ Refused(cmd[r], rep) \/ BlamesDatabase(cmd[r], rep)
       /\ Close(r, "done", rep)
  /\ UNCHANGED tables

Lose(r) == Breakable /\ Close(r, "lost", None) /\ UNCHANGED tables

Next == \E r \in Requests : Apply(r) \/ Refuse(r) \/ Lose(r)

Spec == Init /\ [][Next]_bankVars
=============================================================================
