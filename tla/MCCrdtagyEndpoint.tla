--------------------------- MODULE MCCrdtagyEndpoint ---------------------------
(***************************************************************************)
(* A small instance of the agency endpoint for TLC, with its delays and    *)
(* its timeout of five seconds.                                            *)
(***************************************************************************)
EXTENDS CrdtagyEndpoint, TLC

Symmetry == Permutations(Calls)

MCTimeout == 5 * Second

\* What the generator of the code can draw at both ends of the range.
SystemOutcomes ==
  {o \in [delay : 0 .. 3 * Second, answer : {1, 2, 997, 998, 999}] : FollowsGenerator(o)}

\* Agency 6 does not exist.
MCBodies == [agency : {1, 6}, valid : BOOLEAN]
=============================================================================
