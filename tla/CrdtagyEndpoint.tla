--------------------------- MODULE CrdtagyEndpoint ----------------------------
(***************************************************************************)
(* POST /api/v1/crdtagy/:agency_number (web/crdtagy.rs): a client asks one *)
(* agency directly. The handler waits at most CREDIT_AGENCY_TIMEOUT for    *)
(* the answer; it may be polled late. Each call is a task of its own.      *)
(***************************************************************************)
EXTENDS Crdtagy

CONSTANTS
  Calls,      \* the requests
  Bodies,     \* what they carry: an agency number and a body that is valid or not
  Timeout,    \* CREDIT_AGENCY_TIMEOUT
  MaxTime     \* bound: the clock stops here

ASSUME CallsAssumption ==
  /\ Timeout \in Nat
  /\ MaxTime \in Nat
  /\ Bodies \subseteq [agency : Nat, valid : BOOLEAN]

\* The endpoint asks the simulated agencies themselves, and CREDIT_AGENCY_TIMEOUT
\* is no shorter than the longest of their delays.
ASSUME AnswersInTime ==
  \A o \in Outcomes : FollowsGenerator(o) /\ o.delay <= Timeout

VARIABLES
  now,        \* the clock
  body,       \* body[c]: the path and JSON body of call c
  pc,         \* pc[c]: "arrived", "sleeping" or "replied"
  wake,       \* wake[c]: when the agency's sleep ends
  timer,      \* timer[c]: when the timeout fires
  score,      \* score[c]: what the agency drew
  reply       \* reply[c]: what the client was told

vars == <<now, body, pc, wake, timer, score, reply>>

NoReply == [kind |-> "none", value |-> 0]
Answered(s) == [kind |-> "ok", value |-> s]
Invalid == [kind |-> "validation", value |-> 0]
Plop == [kind |-> "PLOP", value |-> 0]

Init ==
  /\ now = 0
  /\ body \in [Calls -> Bodies]
  /\ pc = [c \in Calls |-> "arrived"]
  /\ wake = [c \in Calls |-> 0]
  /\ timer = [c \in Calls |-> 0]
  /\ score = [c \in Calls |-> Failure]
  /\ reply = [c \in Calls |-> NoReply]

Reply(c, rep) ==
  /\ pc' = [pc EXCEPT ![c] = "replied"]
  /\ reply' = [reply EXCEPT ![c] = rep]
  /\ UNCHANGED <<now, body, wake, timer, score>>

\* A body that lacks a field, whose name is blank or too long, whose address is
\* too long or whose date of birth is out of range, and an agency that does not
\* exist, are refused before anything sleeps.
Acceptable(b) == b.valid /\ b.agency \in 1 .. 5

Refuse(c) ==
  /\ pc[c] = "arrived"
  /\ ~Acceptable(body[c])
  /\ Reply(c, Invalid)

\* The agency draws its delay and score, and sleeps; the timeout starts.
Ask(c) ==
  /\ pc[c] = "arrived"
  /\ Acceptable(body[c])
  /\ now + Timeout <= MaxTime
  /\ \E o \in Outcomes :
       /\ wake' = [wake EXCEPT ![c] = now + o.delay]
       /\ score' = [score EXCEPT ![c] = o.answer]
  /\ timer' = [timer EXCEPT ![c] = now + Timeout]
  /\ pc' = [pc EXCEPT ![c] = "sleeping"]
  /\ UNCHANGED <<now, body, reply>>

\* Mutant of Poll: the timer is looked at before the agency.
PollTimerFirst(c) ==
  /\ pc[c] = "sleeping"
  /\ \/ now >= timer[c] /\ Reply(c, Plop)
     \/ now < timer[c] /\ wake[c] <= now /\ Reply(c, Answered(score[c]))

\* The task is polled: timeout polls the agency before its timer.
Poll(c) ==
  /\ pc[c] = "sleeping"
  /\ \/ wake[c] <= now /\ Reply(c, Answered(score[c]))
     \/ wake[c] > now /\ now >= timer[c] /\ Reply(c, Plop)

Step(c) == Refuse(c) \/ Ask(c) \/ Poll(c)

Tick ==
  /\ now < MaxTime
  /\ now' = now + 1
  /\ UNCHANGED <<body, pc, wake, timer, score, reply>>

\* The clock has stopped; calls that came too late for it stay unanswered.
Idle ==
  /\ now = MaxTime
  /\ \A c \in Calls : pc[c] # "sleeping"
  /\ UNCHANGED vars

Next == (\E c \in Calls : Step(c)) \/ Tick \/ Idle

Spec == Init /\ [][Next]_vars

-----------------------------------------------------------------------------

TypeOK ==
  /\ now \in 0 .. MaxTime
  /\ body \in [Calls -> Bodies]
  /\ pc \in [Calls -> {"arrived", "sleeping", "replied"}]
  /\ wake \in [Calls -> Nat]
  /\ timer \in [Calls -> Nat]
  /\ score \in [Calls -> Nat]
  /\ reply \in [Calls -> {NoReply, Invalid, Plop} \cup {Answered(s) : s \in ValidScores}]

\* A request that an agency accepts ends with a score of the range customers
\* have, never with PLOP: the agency's delay is shorter than the timeout, and
\* even a handler polled after both have passed takes the score.
AcceptedIsScored ==
  \A c \in Calls :
    pc[c] = "replied" =>
      IF Acceptable(body[c]) THEN reply[c] \in {Answered(s) : s \in ValidScores}
                             ELSE reply[c] = Invalid
=============================================================================
