-------------------------------- MODULE Crdtagy --------------------------------
(***************************************************************************)
(* CRDTAGY1 to CRDTAGY5: the credit agencies, as service/crdtagy.rs        *)
(* simulates them. An agency checks its request, draws a delay and a score *)
(* from a 64-bit linear congruential generator, sleeps, and answers.       *)
(***************************************************************************)
EXTENDS Integers, FiniteSets

CONSTANTS
  Second,     \* ticks of the clock in a second
  Agencies,   \* CreditAgency::ALL
  Outcomes    \* what an agency may do: sleep for .delay, then answer .answer

\* An answer that is not a score: CbsaError, or a task that panicked.
Failure == 0

\* The scores CRECUST accepts, and those the generator draws.
ValidScores == 1 .. 998

ASSUME AgenciesAssumption ==
  /\ Second \in Nat \ {0}
  /\ IsFiniteSet(Agencies)
  /\ Outcomes \subseteq [delay : Nat, answer : Nat]

\* MIN_DELAY_SECONDS and MAX_DELAY_SECONDS_EXCLUSIVE.
SystemDelays == {s * Second : s \in 1 .. 2}

\* Mutant of FollowsGenerator: scores up to MAX_CREDIT_SCORE_EXCLUSIVE itself.
FollowsGeneratorInclusive(outcome) ==
  /\ outcome.delay \in SystemDelays
  /\ outcome.answer \in 1 .. 999

\* Multiplier and increment of the generator are odd and 998 is even, so the
\* lowest bits of two numbers drawn in a row differ: an agency that sleeps one
\* second has an even score, one that sleeps two has an odd one.
FollowsGenerator(outcome) ==
  /\ outcome.delay \in SystemDelays
  /\ outcome.answer \in ValidScores
  /\ outcome.delay = Second <=> outcome.answer % 2 = 0
=============================================================================
