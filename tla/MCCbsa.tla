--------------------------------- MODULE MCCbsa --------------------------------
(***************************************************************************)
(* Small instances of Cbsa for TLC: the rows a run starts from and the     *)
(* commands its requests may carry. Amounts count whole units.             *)
(***************************************************************************)
EXTENDS CbsaInvariant, TLC

\* Requests are interchangeable: Init and Next treat them alike.
Symmetry == Permutations(Requests)

MCAccountTypes == {"CURRENT", "LOAN", "GOLD"}

\* "blank" is empty, "indented" starts with a space, "untitled" has no title.
MCTexts == {"mr a", "mrs b", "untitled", "indented", "blank"}
MCEmptyTexts == {"blank"}
MCBlankishTexts == {"blank", "indented"}
MCUntitledTexts == {"untitled"}

-----------------------------------------------------------------------------
(* Rows and commands.                                                      *)

Person(n) == [name |-> n, address |-> "mr a"]

Owned(c, type, overdraft, balance) ==
  [customer |-> c, type |-> type, overdraft |-> overdraft,
   available |-> balance, actual |-> balance]

Database(customers, accounts, customer_last, account_last) ==
  [customer |-> customers, account |-> accounts,
   control |-> [customer_count |-> customer_last, customer_last |-> customer_last,
                account_count |-> account_last, account_last |-> account_last]]

Xfrfun(from, to, amount) ==
  [prog |-> "XFRFUN", from |-> from, to |-> to, amount |-> amount]

Dbcrfun(a, amount, payment) ==
  [prog |-> "DBCRFUN", account |-> a, amount |-> amount, payment |-> payment]

Updacc(a, type, overdraft) ==
  [prog |-> "UPDACC", account |-> a, type |-> type, overdraft |-> overdraft]

Delacc(a) == [prog |-> "DELACC", account |-> a]

Updcust(c, name, address) ==
  [prog |-> "UPDCUST", customer |-> c, name |-> name, address |-> address]

Delcus(c) == [prog |-> "DELCUS", customer |-> c]

Creacc(c, type, balance) ==
  [prog |-> "CREACC", customer |-> c, type |-> type, overdraft |-> 0,
   available |-> balance, actual |-> balance]

Crecust(name, birth) ==
  [prog |-> "CRECUST", name |-> name, address |-> "mr a", birth |-> birth]

-----------------------------------------------------------------------------
(* Money: two accounts that transfers cross, a teller, a payment, a closer. *)

MoneyDatabases ==
  {Database(1 :> Person("mr a"),
            1 :> Owned(1, "CURRENT", 1, 2) @@ 2 :> Owned(1, "LOAN", 0, 1), 1, 2)}

MoneyCommands ==
  {Xfrfun(1, 2, 2), Xfrfun(2, 1, 1), Dbcrfun(1, -1, FALSE), Dbcrfun(1, -1, TRUE),
   Dbcrfun(2, 2, FALSE), Updacc(1, "CURRENT", 0), Delacc(2)}

-----------------------------------------------------------------------------
(* Customers: one account each and room for one more before the limit; all *)
(* three requests may be opening an account of customer 1, or removing it. *)

CustomerDatabases ==
  {Database(1 :> Person("mr a") @@ 2 :> Person("mrs b"),
            1 :> Owned(1, "CURRENT", 0, 1) @@ 2 :> Owned(2, "CURRENT", 0, 2), 2, 2)}

CustomerCommands ==
  {Delcus(1), Creacc(1, "CURRENT", 1), Delacc(1), Xfrfun(2, 1, 1),
   Updcust(1, "mrs b", "indented"), Crecust("mr a", "valid")}

-----------------------------------------------------------------------------
(* Every program, with every way a request can be refused: numbers out of   *)
(* range, rows that are missing, texts that do not do, balances that do not *)
(* fit, a customer at the limit and one beyond a page, counters at their    *)
(* maximum.                                                                 *)

EveryDatabases ==
  {Database(1 :> Person("mr a") @@ 2 :> Person("mrs b") @@ 3 :> Person("mr a"),
            1 :> Owned(1, "CURRENT", 1, 2) @@ 2 :> Owned(1, "LOAN", 0, -2)
              @@ 3 :> Owned(3, "CURRENT", 0, 0) @@ 4 :> Owned(3, "CURRENT", 0, 1)
              @@ 5 :> Owned(3, "CURRENT", 0, 3), 3, 5)}

EveryCommands ==
  {Xfrfun(1, 2, 2), Xfrfun(2, 1, 1), Xfrfun(1, 5, 1), Xfrfun(1, 7, 1),
   Xfrfun(7, 1, 1), Xfrfun(1, 1, 1), Xfrfun(1, 2, 0), Xfrfun(1, 8, 1),
   Dbcrfun(1, -2, FALSE), Dbcrfun(1, -2, TRUE), Dbcrfun(1, 1, TRUE),
   Dbcrfun(2, -2, FALSE), Dbcrfun(2, 1, TRUE), Dbcrfun(7, 1, FALSE),
   Dbcrfun(8, 1, FALSE),
   Updacc(1, "LOAN", 0), Updacc(1, "", 0), Updacc(7, "LOAN", 0), Updacc(8, "LOAN", 0),
   Delacc(1), Delacc(7), Delacc(8),
   Updcust(1, "mrs b", "indented"), Updcust(1, "untitled", "mr a"),
   Updcust(1, "blank", "indented"), Updcust(6, "mr a", "mr a"), Updcust(5, "mr a", "mr a"),
   Delcus(0), Delcus(1), Delcus(2), Delcus(3), Delcus(5), Delcus(6),
   Creacc(2, "CURRENT", 1), Creacc(2, "GOLD", 1), Creacc(2, "CURRENT", 4),
   Creacc(1, "CURRENT", 1), Creacc(0, "CURRENT", 1), Creacc(4, "CURRENT", 1),
   Creacc(5, "CURRENT", 1), Creacc(6, "CURRENT", 1),
   Crecust("mr a", "valid"), Crecust("mr a", "Y"), Crecust("untitled", "valid"),
   Crecust("blank", "valid"), Crecust("indented", "valid")}

-----------------------------------------------------------------------------
(* Waiting: requests that lock several rows each, and each other's.         *)

WaitingDatabases ==
  {Database(1 :> Person("mr a"), [a \in 1 .. 3 |-> Owned(1, "CURRENT", 0, 1)], 1, 3)}

WaitingCommands ==
  {Xfrfun(1, 2, 1), Xfrfun(2, 3, 1), Xfrfun(3, 1, 1), Delcus(1)}

-----------------------------------------------------------------------------
(* Capacity: one customer with as many accounts as the limit says.          *)

CapacityDatabases ==
  {Database(1 :> Person("mr a"), 1 :> Owned(1, "CURRENT", 0, 1), 1, 1)}

CapacityCommands == {Creacc(1, "CURRENT", 0)}
=============================================================================
