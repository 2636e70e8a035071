------------------------------ MODULE MCInquiries ------------------------------
(***************************************************************************)
(* Small instances of the inquiries for TLC. Inquiries write nothing, so    *)
(* one of them sees all there is to see; the requests beside it remove,     *)
(* open and change what it asks for.                                        *)
(***************************************************************************)
EXTENDS MCCbsa, InquiryProperties

\* Customer 1 has a full page of accounts, customer 3 is the last one.
InquiryDatabases ==
  {Database(1 :> Person("mr a") @@ 3 :> Person("mrs b"),
            1 :> Owned(1, "CURRENT", 0, 1) @@ 2 :> Owned(1, "CURRENT", 0, 2), 3, 2)}

InquiryCommands ==
  {Delcus(1), Delcus(3), Creacc(1, "CURRENT", 1), Dbcrfun(2, 1, FALSE)}

Ask(prog, numbers) == [prog : {prog}, number : numbers]

\* Numbers in use, free, out of range, and the random and last modes.
MCQueries ==
  Ask("INQCUST", {-1, 0, 1, 2, MaxCustomerNumber, MaxCustomerNumber + 1})
    \cup Ask("INQACC", {1, 3, MaxAccountNumber, MaxAccountNumber + 1})
    \cup Ask("INQACCCU", {0, 1, 2, MaxCustomerNumber + 1})

\* The inquiries that take several statements.
LongQueries == Ask("INQCUST", {0}) \cup Ask("INQACCCU", {1})

RemovalCommands == {Delcus(1), Delcus(3)}
=============================================================================
