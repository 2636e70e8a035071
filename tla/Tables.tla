--------------------------------- MODULE Tables --------------------------------
(***************************************************************************)
(* The data of cbsa-rust: the tables of migrations/0001_baseline.sql, what *)
(* the commands and their replies carry, and the constants that bound      *)
(* them. Both the detailed specification (Transactions and the program     *)
(* modules) and the abstract one (Bank) are written over this module.      *)
(***************************************************************************)
EXTENDS Integers, Sequences, FiniteSets

CONSTANTS
  Requests,              \* HTTP requests; each is served by one tokio task
  Commands,              \* the commands a request may carry
  InitialDatabases,      \* database contents a run may start from
  AccountTypes,          \* values of account.account_type
  Texts,                 \* values of customer.name and customer.address
  EmptyTexts,            \* those of them that are blank
  BlankishTexts,         \* those that are empty or start with a space
  UntitledTexts,         \* those whose first word is not a known title
  MaxCustomerNumber,     \* 9_999_999_999, also the "last customer" sentinel
  MaxAccountNumber,      \* 99_999_999, also the "last account" sentinel
  MaxMoney,              \* 9_999_999_999.99, the range of NUMERIC(12,2)
  PageSize,              \* the LIMIT of the account list queries (20)
  MaxAccountsPerCustomer, \* the limit CREACC compares with (9)
  MaxAttempts,           \* db::DEFAULT_RETRY_ATTEMPTS (5)
  MaxFaults              \* bound: database and process failures in a behaviour

ASSUME BoundsAssumption ==
  /\ EmptyTexts \subseteq BlankishTexts
  /\ BlankishTexts \subseteq Texts
  /\ UntitledTexts \subseteq Texts
  /\ MaxCustomerNumber \in Nat \ {0}
  /\ MaxAccountNumber \in Nat \ {0}
  /\ MaxMoney \in Nat
  /\ PageSize \in Nat \ {0}
  /\ MaxAccountsPerCustomer \in Nat
  /\ MaxAttempts \in Nat \ {0}
  /\ MaxFaults \in Nat

VARIABLES
  customer,   \* table customer: customer number -> row
  account,    \* table account: account number -> row
  control,    \* the row 'GLOBAL' of table control
  proctran    \* the rows the requests added to table proctran, in commit order

tables == <<customer, account, control, proctran>>

-----------------------------------------------------------------------------
(* Rows.                                                                   *)

CustomerRow == [name : Texts, address : Texts]

Money == -MaxMoney .. MaxMoney

\* overdraft_limit is NUMERIC(12,2) as well; no service lets a negative one in.
Overdrafts == 0 .. MaxMoney

AccountRow == [customer : Nat, type : AccountTypes, overdraft : Overdrafts,
               available : Money, actual : Money]

\* Both balances of an account row move together.
Moved(row, amount) == [row EXCEPT !.available = @ + amount, !.actual = @ + amount]

\* NUMERIC(12,2) holds both balances.
Representable(row) == row.available \in Money /\ row.actual \in Money

Control == [customer_count : Nat, customer_last : Nat,
            account_count : Nat, account_last : Nat]

TranTypes == {"TFR", "DEB", "PDR", "CRE", "PCR",
              "OCA", "ODA", "OUA", "OCC", "ODC", "OUC"}

\* tran_ref is taken from the clock once per request, before any retry, so it
\* names the request.
AuditRow == [ref : Requests, type : TranTypes, amount : Money]

Audit(r, type, amount) == [ref |-> r, type |-> type, amount |-> amount]

\* A table with one row written, and with one row removed.
Overlay(base, key, row) ==
  [k \in DOMAIN base \cup {key} |-> IF k = key THEN row ELSE base[k]]

Without(base, key) == [k \in DOMAIN base \ {key} |-> base[k]]

EmptyTable == [n \in {} |-> 0]

IsCustomerTable(t) == DOMAIN t \subseteq Nat /\ t \in [DOMAIN t -> CustomerRow]
IsAccountTable(t) == DOMAIN t \subseteq Nat /\ t \in [DOMAIN t -> AccountRow]

\* What a run starts from: rows the schema allows, numbered by the control row,
\* every account with its customer.
IsDatabase(d) ==
  /\ IsCustomerTable(d.customer) /\ IsAccountTable(d.account)
  /\ d.control \in Control
  /\ DOMAIN d.customer \subseteq 1 .. d.control.customer_last
  /\ d.control.customer_last <= MaxCustomerNumber
  /\ DOMAIN d.account \subseteq 1 .. d.control.account_last
  /\ d.control.account_last <= MaxAccountNumber
  /\ \A a \in DOMAIN d.account : d.account[a].customer \in DOMAIN d.customer

ASSUME DatabasesAssumption == \A d \in InitialDatabases : IsDatabase(d)

AccountsOf(c) == {a \in DOMAIN account : account[a].customer = c}

\* SELECT ... FROM account WHERE customer_number = c
\* ORDER BY account_number LIMIT 20
FirstPage(c) ==
  LET page == {a \in AccountsOf(c) :
                 Cardinality({b \in AccountsOf(c) : b < a}) < PageSize}
  IN  [a \in page |-> account[a]]

-----------------------------------------------------------------------------
(* Replies.                                                                *)

None == [kind |-> "none", code |-> ""]
Success == [kind |-> "ok", code |-> "0"]
Fail(code) == [kind |-> "fail", code |-> code]
Abend(code) == [kind |-> "abend", code |-> code]
Invalid == [kind |-> "validation", code |-> ""]

FailCodes == {"1", "2", "3", "4", "7", "8", "A", "G", "O", "T", "Y", "Z"}
AbendCodes == {"CVR1", "FROM", "HACU", "HNCS", "HRAC", "HUAC", "HWPT", "SAME",
               "TO  ", "UNEX", "WPV6", "WPV7", "XRTY"}

Replies == {None, Success, Invalid} \cup {Fail(code) : code \in FailCodes}
                                   \cup {Abend(code) : code \in AbendCodes}

HWPT == Abend("HWPT")  \* the audit row could not be written
XRTY == Abend("XRTY")  \* every attempt ended with 40001
UNEX == Abend("UNEX")  \* any other database error that reached the handler
=============================================================================
