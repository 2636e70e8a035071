------------------------------ MODULE CreditCheck ------------------------------
(***************************************************************************)
(* evaluate_credit of service/crecust.rs: CRECUST asks every agency in a   *)
(* task of its own, waits for the answers until the reply window closes,   *)
(* and takes the average of the scores that came in. The tasks run on      *)
(* other threads; the handler may be scheduled late, by at most Lag.       *)
(***************************************************************************)
EXTENDS Crdtagy

CONSTANTS
  Window,     \* CREDIT_REPLY_WINDOW
  Lag,        \* bound: how long the handler stays ready without being polled
  MaxTime     \* bound: the clock stops here

ASSUME TimesAssumption ==
  /\ Window \in Nat
  /\ Lag \in Nat
  /\ MaxTime \in Nat

VARIABLES
  now,        \* the clock
  task,       \* task[a]: where the task of agency a in the JoinSet is
  at,         \* at[a]: when a's sleep ends, then when its task finished
  answer,     \* answer[a]: what it will answer
  pc,         \* where the handler is
  since,      \* when it got there
  deadline,   \* end of the reply window
  total,      \* total_score
  returned    \* returned_scores

vars == <<now, task, at, answer, pc, since, deadline, total, returned>>

Init ==
  /\ now = 0
  /\ task = [a \in Agencies |-> "spawned"]
  /\ at = [a \in Agencies |-> 0]
  /\ answer = [a \in Agencies |-> Failure]
  /\ pc = "spawned"
  /\ since = 0
  /\ deadline = 0
  /\ total = 0
  /\ returned = 0

Ended == pc \in {"scored", "refused", "dropped"}

Running(a) == task[a] \in {"spawned", "sleeping"}
Finished == {a \in Agencies : task[a] = "finished"}
Counted == {a \in Agencies : task[a] = "counted"}

\* No task is left in the JoinSet.
AllJoined == \A a \in Agencies : task[a] \in {"counted", "ignored"}

-----------------------------------------------------------------------------
(* The agencies' tasks.                                                    *)

\* A worker thread polls the task for the first time: the request is checked,
\* delay and score are drawn, the sleep begins.
Start(a) ==
  /\ task[a] = "spawned"
  /\ \E o \in Outcomes :
       /\ at' = [at EXCEPT ![a] = now + o.delay]
       /\ answer' = [answer EXCEPT ![a] = o.answer]
  /\ task' = [task EXCEPT ![a] = "sleeping"]
  /\ UNCHANGED <<now, pc, since, deadline, total, returned>>

\* The sleep is over and the task is polled again.
Finish(a) ==
  /\ task[a] = "sleeping"
  /\ at[a] <= now
  /\ task' = [task EXCEPT ![a] = "finished"]
  /\ at' = [at EXCEPT ![a] = now]
  /\ UNCHANGED <<now, answer, pc, since, deadline, total, returned>>

-----------------------------------------------------------------------------
(* The handler.                                                            *)

\* The handler goes on to `next`, and is there from now on.
Goto(next) == pc' = next /\ since' = now

\* let deadline = Instant::now() + CREDIT_REPLY_WINDOW, after the tasks were
\* spawned.
OpenWindow ==
  /\ pc = "spawned"
  /\ deadline' = now + Window
  /\ Goto("loop")
  /\ UNCHANGED <<now, task, at, answer, total, returned>>

\* abort_all: tasks that have not finished never will.
AbortAll ==
  task' = [a \in Agencies |-> IF Running(a) THEN "aborted" ELSE task[a]]

\* What follows the loop: no score, no decision; else the average.
Conclude == Goto(IF returned = 0 THEN "refused" ELSE "scored")

\* credit_score of the decision: integer division.
Score == total \div returned

\* while !join_set.is_empty()
LeaveLoop ==
  /\ pc = "loop"
  /\ AllJoined
  /\ Conclude
  /\ UNCHANGED <<now, task, at, answer, deadline, total, returned>>

\* Mutant of WindowClosed: the time that remains is not looked at again.
WindowNeverClosed == FALSE

\* remaining.is_zero()
WindowClosed == now >= deadline

CloseWindow ==
  /\ pc = "loop"
  /\ ~AllJoined
  /\ WindowClosed
  /\ AbortAll
  /\ Conclude
  /\ UNCHANGED <<now, at, answer, deadline, total, returned>>

\* timeout(remaining, join_set.join_next()): the timer fires at the deadline.
Await ==
  /\ pc = "loop"
  /\ ~AllJoined
  /\ ~WindowClosed
  /\ Goto("waiting")
  /\ UNCHANGED <<now, task, at, answer, deadline, total, returned>>

\* Mutants of JoinNext: a task stays in the set once it was joined; any answer
\* is taken for a score; a task that failed ends the loop.
JoinNextKept(a) ==
  /\ pc = "waiting"
  /\ task[a] = "finished"
  /\ answer[a] \in ValidScores
  /\ total' = total + answer[a]
  /\ returned' = returned + 1
  /\ Goto("loop")
  /\ UNCHANGED <<now, task, at, answer, deadline>>

JoinNextUnchecked(a) ==
  /\ pc = "waiting"
  /\ task[a] = "finished"
  /\ task' = [task EXCEPT ![a] = "counted"]
  /\ total' = total + answer[a]
  /\ returned' = returned + 1
  /\ Goto("loop")
  /\ UNCHANGED <<now, at, answer, deadline>>

JoinNextOrStop(a) ==
  /\ pc = "waiting"
  /\ task[a] = "finished"
  /\ IF answer[a] \in ValidScores
       THEN /\ task' = [task EXCEPT ![a] = "counted"]
            /\ total' = total + answer[a]
            /\ returned' = returned + 1
            /\ Goto("loop")
       ELSE AbortAll /\ Conclude /\ UNCHANGED <<total, returned>>
  /\ UNCHANGED <<now, at, answer, deadline>>

\* A finished task is joined; timeout polls join_next before its timer. Only a
\* score in range counts, everything else is passed over.
JoinNext(a) ==
  /\ pc = "waiting"
  /\ task[a] = "finished"
  /\ IF answer[a] \in ValidScores
       THEN /\ task' = [task EXCEPT ![a] = "counted"]
            /\ total' = total + answer[a]
            /\ returned' = returned + 1
       ELSE /\ task' = [task EXCEPT ![a] = "ignored"]
            /\ UNCHANGED <<total, returned>>
  /\ Goto("loop")
  /\ UNCHANGED <<now, at, answer, deadline>>

\* Mutant of Elapsed: join_next without a timeout.
ElapsedNever ==
  /\ FALSE
  /\ UNCHANGED vars

\* The timer fires while no task has finished.
Elapsed ==
  /\ pc = "waiting"
  /\ Finished = {}
  /\ now >= deadline
  /\ AbortAll
  /\ Conclude
  /\ UNCHANGED <<now, at, answer, deadline, total, returned>>

\* The client is gone: the handler's future is dropped, and its JoinSet, which
\* aborts what still runs.
Drop ==
  /\ ~Ended
  /\ AbortAll
  /\ Goto("dropped")
  /\ UNCHANGED <<now, at, answer, deadline, total, returned>>

HandlerStep ==
  \/ OpenWindow
  \/ LeaveLoop
  \/ CloseWindow
  \/ Await
  \/ \E a \in Agencies : JoinNext(a)
  \/ Elapsed

-----------------------------------------------------------------------------
(* Time.                                                                   *)

\* The handler has been ready for Lag: it is running or about to be polled,
\* or what it waits for happened that long ago.
Overdue ==
  /\ now >= since + Lag
  /\ \/ pc \in {"spawned", "loop"}
     \/ /\ pc = "waiting"
        /\ \/ now >= deadline + Lag
           \/ \E a \in Finished : now >= at[a] + Lag

Tick ==
  /\ now < MaxTime
  /\ ~Ended
  /\ ~Overdue
  /\ now' = now + 1
  /\ UNCHANGED <<task, at, answer, pc, since, deadline, total, returned>>

\* The check is over, or the clock has stopped.
Idle == Ended /\ UNCHANGED vars

Next ==
  \/ \E a \in Agencies : Start(a) \/ Finish(a)
  \/ HandlerStep
  \/ Drop
  \/ Tick
  \/ Idle

\* The handler is polled again and again, and time goes on. Nothing is asked of
\* the agencies: they may never answer.
Fairness == WF_vars(HandlerStep) /\ WF_vars(Tick)

Spec == Init /\ [][Next]_vars
FairSpec == Spec /\ Fairness
=============================================================================
