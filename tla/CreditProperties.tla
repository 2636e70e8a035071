--------------------------- MODULE CreditProperties ----------------------------
(***************************************************************************)
(* What CRECUST relies on when it takes a score from the credit check, and *)
(* what the reply window promises to agencies and to the client.           *)
(***************************************************************************)
EXTENDS CreditCheck, FiniteSetsExt

Time == 0 .. MaxTime

\* Every variable has its type; the two counters of the loop never exceed what
\* the tasks can have contributed.
TypeOK ==
  /\ now \in Time
  /\ task \in [Agencies -> {"spawned", "sleeping", "finished", "counted",
                            "ignored", "aborted"}]
  /\ at \in [Agencies -> Nat]
  /\ answer \in [Agencies -> Nat]
  /\ pc \in {"spawned", "loop", "waiting", "scored", "refused", "dropped"}
  /\ since \in Time
  /\ deadline \in Nat
  /\ total \in Nat
  /\ returned \in 0 .. Cardinality(Agencies)

\* The score CRECUST stores is the integer average of valid scores of distinct
\* agencies, and the check is refused (fail code G) only if there was none:
\* failures, panics and answers out of range are neither summed nor counted.
ScoreIsAverage ==
  /\ pc = "scored" =>
       /\ Counted # {}
       /\ \A a \in Counted : answer[a] \in ValidScores
       /\ Score = FoldSet(LAMBDA a, sum : answer[a] + sum, 0, Counted)
                    \div Cardinality(Counted)
  /\ pc = "refused" => Counted = {}

\* The average is a score itself, so it fits customer_credit_score_chk and the
\* u16 it is cast to; returned_scores is never 0 when it divides.
ScoreIsValid == pc = "scored" => Score \in ValidScores

\* An answer that comes in while the window is open is not lost, whatever the
\* other agencies do, unless it comes so late that the handler may not get to
\* it any more: it may have to take the answers of all others before, in two
\* steps each, and be up to Lag late at every step. (If those steps could take
\* as long as the window, even an answer from before it could be cut off.)
PromptAnswersCount ==
  pc \in {"scored", "refused"} =>
    \A a \in Finished : at[a] + (2 * Cardinality(Agencies) - 1) * Lag >= deadline

\* At most one score that came in at the deadline or later counts: timeout
\* looks at join_next before its timer, but the loop then sees the time.
AtMostOneLateScore == Cardinality({a \in Counted : at[a] >= deadline}) <= 1

\* However slow the agencies are, the check is over soon after the window: the
\* handler is waiting or has one answer more to take when it closes.
EndsWithWindow ==
  pc # "spawned" /\ now > deadline + 2 * Lag => Ended

\* The check ends even if no agency ever answers.
CheckEnds == <>Ended
=============================================================================
