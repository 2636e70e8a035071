---------------------------------- MODULE Pool ----------------------------------
(***************************************************************************)
(* The service with its connection pool (db::connect): every transaction    *)
(* and every statement outside one needs a connection, there are PoolSize   *)
(* of them, and who finds none waits until one is free or acquire_timeout   *)
(* has passed.                                                              *)
(***************************************************************************)
EXTENDS InquiryProperties

CONSTANT PoolSize   \* database.max_connections

ASSUME PoolAssumption == PoolSize \in Nat \ {0}

\* Mutant of AcquirePoints: an audit row is written through the pool instead of
\* the open transaction.
AcquirePointsAudit ==
  {"begin", "creacc_inqcust", "creacc_inqacccu", "xfr_proctran", "delcus_proctran"}

\* Statements of a request that take a connection from the pool: pool.begin(),
\* and the two inquiries of CREACC, which give it back at once.
AcquirePoints == {"begin", "creacc_inqcust", "creacc_inqacccu"}

InquiryAcquirePoints ==
  {"inqcust_exact", "inqcust_last", "inqcust_highest", "inqacc_exact", "inqacc_last",
   "inqacccu_begin"}

\* Mutant of HeldByInquiry: INQCUST does not give its connection back.
HeldByInquiryLeaked(i) ==
  \/ at[i] \in {"inqcust_draw", "inqacccu_exists", "inqacccu_list", "inqacccu_found",
                "inqacccu_missing"}
  \/ at[i] = "done" /\ query[i].prog = "INQCUST"

\* INQCUST draws on the connection it acquired first, INQACCCU has a
\* transaction.
HeldByInquiry(i) ==
  at[i] \in {"inqcust_draw", "inqacccu_exists", "inqacccu_list", "inqacccu_found",
             "inqacccu_missing"}

InUse ==
  Cardinality({r \in Requests : InTransaction(r)})
    + Cardinality({i \in Inquirers : HeldByInquiry(i)})

Serve(r) ==
  /\ pc[r] \in AcquirePoints => InUse < PoolSize
  /\ Progress(r)
  /\ UNCHANGED inquiryVars

Inquire(i) ==
  /\ at[i] \in InquiryAcquirePoints => InUse < PoolSize
  /\ InquiryStep(i)

\* The reply when no connection came free in time.
TimeoutReply ==
  [begin |-> UNEX, creacc_inqcust |-> Abend("CVR1"), creacc_inqacccu |-> Abend("HACU")]

RequestTimesOut(r) ==
  /\ pc[r] \in DOMAIN TimeoutReply
  /\ InUse >= PoolSize
  /\ Refuse(r, TimeoutReply[pc[r]])
  /\ UNCHANGED inquiryVars

InquiryTimesOut(i) ==
  /\ at[i] \in InquiryAcquirePoints
  /\ InUse >= PoolSize
  /\ \E codes \in {InqcustCodes, InqaccCodes, InqacccuCodes} :
       at[i] \in DOMAIN codes /\ Tell(i, Told(Abend(codes[at[i]]), EmptyTable))
  /\ UNCHANGED vars

PoolNext ==
  \/ \E r \in Requests : Serve(r) \/ RequestTimesOut(r)
  \/ (\E r \in Requests : Trouble(r)) /\ UNCHANGED inquiryVars
  \/ \E i \in Inquirers : Inquire(i) \/ InquiryTimesOut(i)
  \/ \E i \in Inquirers : InquirySerializationFailure(i) \/ InquiryFault(i)
  \/ ServiceIdle

\* No more connections are in use than there are, and who waits for one holds
\* none: the pool may run dry, but nobody waits in a circle.
PoolIsKept ==
  /\ InUse <= PoolSize
  /\ \A r \in Requests : pc[r] \in AcquirePoints => ~InTransaction(r)
  /\ \A i \in Inquirers : at[i] \in InquiryAcquirePoints => ~HeldByInquiry(i)

\* Nothing is asked of acquire_timeout: it need never be what ends a wait.
PoolFairness ==
  /\ \A r \in Requests : WF_serviceVars(Serve(r))
  /\ \A i \in Inquirers : WF_serviceVars(Inquire(i))

PoolSpec == ServiceInit /\ [][PoolNext]_serviceVars /\ PoolFairness
=============================================================================
