----------------------------- MODULE MCCreditCheck -----------------------------
(***************************************************************************)
(* Small instances of the credit check for TLC, with the window and the    *)
(* delays of the code.                                                     *)
(***************************************************************************)
EXTENDS CreditProperties

MCWindow == 3 * Second

\* The lowest and the highest score, each with the delay it comes with.
SystemOutcomes == {o \in [delay : 0 .. 3 * Second, answer : {1, 998}] : FollowsGenerator(o)}

\* A client injected by create_with_test_dependencies may also fail at once,
\* answer out of range, or take longer than the window.
AnyOutcomes ==
  SystemOutcomes \cup {[delay |-> 0, answer |-> Failure], [delay |-> Second, answer |-> 999],
                       [delay |-> 3 * Second + 1, answer |-> 500]}
=============================================================================
