---------------------------------- MODULE Cbsa ---------------------------------
(***************************************************************************)
(* The service as a whole: any number of requests, each running one of the *)
(* eight updating programs statement by statement against the shared       *)
(* tables, with CockroachDB refusing, failing or losing any of them.       *)
(***************************************************************************)
EXTENDS Xfrfun, Dbcrfun, Updacc, Delacc, Updcust, Delcus, Creacc, Crecust

AllCommands ==
  XfrfunCommands \cup DbcrfunCommands \cup UpdaccCommands \cup DelaccCommands
    \cup UpdcustCommands \cup DelcusCommands \cup CreaccCommands
    \cup CrecustCommands

ASSUME CommandsAssumption == \A c \in Commands : c \in AllCommands

ProgramStep(r) ==
  \/ XfrfunStep(r)
  \/ DbcrfunStep(r)
  \/ UpdaccStep(r)
  \/ DelaccStep(r)
  \/ UpdcustStep(r)
  \/ DelcusStep(r)
  \/ CreaccStep(r)
  \/ CrecustStep(r)

\* COMMIT answers 40001 when a row read without a lock has changed.
CommitConflict(r) ==
  /\ pc[r] = "commit"
  /\ ~ReadsStillValid(r)
  /\ RetryOrGiveUp(r)

Progress(r) == ProgramStep(r) \/ Commit(r) \/ CommitConflict(r)

DatabaseError(r) ==
  \/ StatementError(r, XfrfunErrors)
  \/ StatementError(r, DbcrfunErrors)
  \/ StatementError(r, UpdaccErrors)
  \/ StatementError(r, DelaccErrors)
  \/ StatementError(r, UpdcustErrors)
  \/ StatementError(r, DelcusErrors)
  \/ StatementError(r, CreaccErrors)
  \/ StatementError(r, CrecustErrors)

Trouble(r) ==
  \/ SerializationFailure(r)
  \/ CreaccSerializationFailure(r)
  \/ DatabaseError(r)
  \/ BeginError(r)
  \/ CommitLost(r)
  \/ Abandon(r)

Finished == \A r \in Requests : pc[r] \in {"done", "lost"}

\* The service has answered every request it was sent and waits for more.
Idle == Finished /\ UNCHANGED vars

Next == (\E r \in Requests : Progress(r) \/ Trouble(r)) \/ Idle

\* tokio polls every task that can go on and CockroachDB answers every
\* statement whose row is free, so each request makes progress while it can.
Fairness == \A r \in Requests : WF_vars(Progress(r))

Spec == Init /\ [][Next]_vars
FairSpec == Spec /\ Fairness
=============================================================================
