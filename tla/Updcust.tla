-------------------------------- MODULE Updcust -------------------------------
(***************************************************************************)
(* UPDCUST: change the name, the address or both of a customer. A field    *)
(* that is empty or starts with a space means "leave it as it is".         *)
(***************************************************************************)
EXTENDS Transactions

UpdcustCommands ==
  [prog : {"UPDCUST"}, customer : Nat, name : Texts, address : Texts]

UpdcustErrors ==
  [updcust_lock |-> {Fail("2")}, updcust_update |-> {Fail("3")},
   updcust_proctran |-> {HWPT}]

\* The title is what precedes the first space, so a name that is empty or
\* starts with a space has the blank title, which is accepted.
UpdcustRejection(c) ==
  IF c.customer \in 0 .. MaxCustomerNumber
    THEN IF c.name \in UntitledTexts \ BlankishTexts THEN Fail("T") ELSE None
    ELSE Invalid

UpdcustReceive(r) ==
  /\ cmd[r].prog = "UPDCUST"
  /\ Receive(r, UpdcustRejection(cmd[r]), "begin")

UpdcustBegin(r) == cmd[r].prog = "UPDCUST" /\ Begin(r, "updcust_lock")

UpdcustLock(r) ==
  /\ pc[r] = "updcust_lock"
  /\ LockCustomer(r, "updcust_update", cmd[r].customer, Fail("1"))

\* Mutant of ResolvedFields: only an empty field keeps what is there.
ResolvedUnlessEmpty(existing, c) ==
  [name |-> IF c.name \in EmptyTexts THEN existing.name ELSE c.name,
   address |-> IF c.address \in EmptyTexts THEN existing.address ELSE c.address]

ResolvedFields(existing, c) ==
  [name |-> IF c.name \in BlankishTexts THEN existing.name ELSE c.name,
   address |-> IF c.address \in BlankishTexts THEN existing.address
                                              ELSE c.address]

UpdcustUpdate(r) ==
  /\ pc[r] = "updcust_update"
  /\ LET c == cmd[r] IN
     IF {c.name, c.address} \subseteq BlankishTexts
       THEN Refuse(r, Fail("4"))
       ELSE Statement(r, "updcust_proctran",
              [tx[r] EXCEPT !.customer =
                 Overlay(@, c.customer, ResolvedFields(@[c.customer], c))])

UpdcustProctran(r) ==
  /\ pc[r] = "updcust_proctran"
  /\ InsertProctran(r, "commit", "OUC", 0)

UpdcustStep(r) ==
  \/ UpdcustReceive(r)
  \/ UpdcustBegin(r)
  \/ UpdcustLock(r)
  \/ UpdcustUpdate(r)
  \/ UpdcustProctran(r)
=============================================================================
