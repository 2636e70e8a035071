----------------------------- MODULE EndpointProofs ----------------------------
(***************************************************************************)
(* Theorems about POST /api/v1/crdtagy/:agency_number, for any number of    *)
(* calls, any interleaving of them, and handlers polled as late as may be.  *)
(***************************************************************************)
EXTENDS CrdtagyEndpoint, TLAPS

Scored == {Answered(s) : s \in ValidScores}

\* Calls that sleep were accepted, wake up before their timer fires, and have a
\* score; calls that were answered got it, or were refused.
InTime ==
  \A c \in Calls :
    pc[c] = "sleeping" =>
      /\ Acceptable(body[c])
      /\ wake[c] <= timer[c]
      /\ score[c] \in ValidScores

EndpointInvariant == TypeOK /\ InTime /\ AcceptedIsScored

\* What the generator draws fits a reply.
LEMMA OutcomesAreScores ==
  \A o \in Outcomes :
    o.delay \in Nat /\ o.answer \in Nat /\ o.answer \in ValidScores /\ o.delay <= Timeout
BY AgenciesAssumption, AnswersInTime DEF FollowsGenerator

LEMMA EndpointInit == Init => EndpointInvariant
BY CallsAssumption
DEF Init, EndpointInvariant, TypeOK, InTime, AcceptedIsScored, Failure

\* A reply that says what became of the call.
LEMMA ReplyKept ==
  ASSUME EndpointInvariant, NEW c \in Calls, NEW rep, Reply(c, rep),
         IF Acceptable(body[c]) THEN rep \in Scored ELSE rep = Invalid
  PROVE  EndpointInvariant'
<1>1. rep \in {NoReply, Invalid, Plop} \cup Scored
  OBVIOUS
<1>2. TypeOK'
  BY <1>1 DEF Reply, EndpointInvariant, TypeOK, Scored
<1>3. InTime'
  BY DEF Reply, EndpointInvariant, TypeOK, InTime
<1>4. AcceptedIsScored'
  <2>1. \A d \in Calls \ {c} : pc'[d] = pc[d] /\ reply'[d] = reply[d]
    BY DEF Reply, EndpointInvariant, TypeOK
  <2>2. reply'[c] = rep /\ body' = body
    BY DEF Reply, EndpointInvariant, TypeOK
  <2>3. QED
    BY <2>1, <2>2 DEF EndpointInvariant, AcceptedIsScored, Scored
<1>5. QED
  BY <1>2, <1>3, <1>4 DEF EndpointInvariant

LEMMA AskKept ==
  ASSUME EndpointInvariant, NEW c \in Calls, Ask(c)
  PROVE  EndpointInvariant'
<1>1. PICK o \in Outcomes : /\ wake' = [wake EXCEPT ![c] = now + o.delay]
                            /\ score' = [score EXCEPT ![c] = o.answer]
  BY DEF Ask
<1>2. /\ o.delay \in Nat /\ o.answer \in Nat /\ o.answer \in ValidScores
      /\ o.delay <= Timeout /\ Timeout \in Nat /\ MaxTime \in Nat
  BY OutcomesAreScores, CallsAssumption
<1>3. now \in Nat /\ now + o.delay \in Nat /\ now + Timeout \in Nat
      /\ now + o.delay <= now + Timeout
  BY <1>2 DEF EndpointInvariant, TypeOK
<1>4. TypeOK'
  BY <1>1, <1>2, <1>3 DEF Ask, EndpointInvariant, TypeOK
<1>5. InTime'
  BY <1>1, <1>2, <1>3 DEF Ask, EndpointInvariant, TypeOK, InTime
<1>6. AcceptedIsScored'
  BY DEF Ask, EndpointInvariant, TypeOK, AcceptedIsScored
<1>7. QED
  BY <1>4, <1>5, <1>6 DEF EndpointInvariant

\* The agency is awake whenever the timer has fired, so its score is taken.
LEMMA PollKept ==
  ASSUME EndpointInvariant, NEW c \in Calls, Poll(c)
  PROVE  EndpointInvariant'
<1>1. /\ Acceptable(body[c]) /\ wake[c] <= timer[c] /\ score[c] \in ValidScores
      /\ now \in Nat /\ wake[c] \in Nat /\ timer[c] \in Nat
  BY CallsAssumption DEF Poll, EndpointInvariant, TypeOK, InTime
<1>2. Reply(c, Answered(score[c]))
  BY <1>1 DEF Poll
<1>3. Answered(score[c]) \in Scored
  BY <1>1 DEF Scored
<1>4. QED
  BY <1>1, <1>2, <1>3, ReplyKept

LEMMA EndpointKept ==
  ASSUME EndpointInvariant, [Next]_vars
  PROVE  EndpointInvariant'
<1>1. ASSUME NEW c \in Calls, Refuse(c) PROVE EndpointInvariant'
  BY <1>1, ReplyKept DEF Refuse
<1>2. CASE Tick
  BY <1>2, CallsAssumption DEF Tick, EndpointInvariant, TypeOK, InTime, AcceptedIsScored
<1>3. CASE UNCHANGED vars
  BY <1>3 DEF vars, EndpointInvariant, TypeOK, InTime, AcceptedIsScored
<1>4. QED
  BY <1>1, <1>2, <1>3, AskKept, PollKept DEF Next, Step, Idle

\* The inductive invariant of the endpoint.
THEOREM EndpointIsKept == Spec => []EndpointInvariant
BY EndpointInit, EndpointKept, PTL DEF Spec

\* Every value a client is sent has the type the reply gives it.
THEOREM EndpointTyped == Spec => []TypeOK
<1>1. EndpointInvariant => TypeOK
  BY DEF EndpointInvariant
<1>2. QED
  BY EndpointIsKept, <1>1, PTL

\* No accepted call is told PLOP, however late its handler is polled.
THEOREM AcceptedAreScored == Spec => []AcceptedIsScored
<1>1. EndpointInvariant => AcceptedIsScored
  BY DEF EndpointInvariant
<1>2. QED
  BY EndpointIsKept, <1>1, PTL
=============================================================================
