--------------------------------- MODULE Migrate ---------------------------------
(***************************************************************************)
(* Start-up and migrations: every replica of the service connects, applies  *)
(* the migrations the database does not have yet, with sqlx's locking       *)
(* disabled, and serves. Served requests write audit rows whose key comes   *)
(* from the sequence that migration 0002 creates and positions.             *)
(* A replica that fails exits, and is started again.                        *)
(***************************************************************************)
EXTENDS Integers, FiniteSets, FiniteSetsExt

CONSTANTS
  Replicas,
  OldRows,      \* proctran counters that may be there before migration 0002
  MaxCounter,   \* bound: numbers that are there or handed out
  MaxCrashes    \* bound: replicas stopped while they run

ASSUME MigrateAssumption ==
  /\ MaxCounter \in Nat
  /\ OldRows \subseteq SUBSET (0 .. MaxCounter)
  /\ MaxCrashes \in Nat

VARIABLES
  serialized, \* the deployment lets one replica migrate at a time
  applied,    \* rows of _sqlx_migrations
  counters,   \* keys of the committed rows of proctran
  sequence,   \* proctran_counter_seq: what nextval returns next
  at,         \* where replica p is
  view,       \* what p's migrator or transaction read
  pending,    \* counter of the row p's open transaction inserted, or 0
  collided,   \* an insert met a key that was there
  crashes     \* stops so far

vars == <<serialized, applied, counters, sequence, at, view, pending, collided,
          crashes>>

NoView == [applied |-> {}, counters |-> {}, creates |-> FALSE]

\* An empty database, one that only has the baseline schema and rows, and one
\* that is up to date.
Init ==
  /\ serialized \in BOOLEAN
  /\ applied \in {{}, {1}, {1, 2}}
  /\ counters \in (IF applied = {} THEN {{}} ELSE OldRows)
  /\ sequence = IF 2 \in applied THEN Max({0} \cup counters) + 1 ELSE 0
  /\ at = [p \in Replicas |-> "down"]
  /\ view = [p \in Replicas |-> NoView]
  /\ pending = [p \in Replicas |-> 0]
  /\ collided = FALSE
  /\ crashes = 0

Migrating(p) ==
  at[p] \in {"list", "next", "baseline", "created", "positioned"}

Goto(p, label) == at' = [at EXCEPT ![p] = label]

\* An error ends main, and with it what the replica had not committed.
Exit(p) ==
  /\ Goto(p, "down")
  /\ view' = [view EXCEPT ![p] = NoView]
  /\ pending' = [pending EXCEPT ![p] = 0]

-----------------------------------------------------------------------------
(* main and the migrator.                                                  *)

\* main: connect, then migrate. In a deployment that serializes migrations nobody
\* starts while another replica migrates.
Start(p) ==
  /\ at[p] = "down"
  /\ serialized => \A q \in Replicas : ~Migrating(q)
  /\ Goto(p, "list")
  /\ UNCHANGED <<applied, counters, sequence, view, pending, collided, crashes>>

\* The migrator lists what is applied, once.
List(p) ==
  /\ at[p] = "list"
  /\ view' = [view EXCEPT ![p].applied = applied]
  /\ Goto(p, "next")
  /\ UNCHANGED <<applied, counters, sequence, pending, collided, crashes>>

\* Everything in the bundle is applied: the replica serves.
Serve(p) ==
  /\ at[p] = "next"
  /\ view[p].applied = {1, 2}
  /\ Goto(p, "serving")
  /\ view' = [view EXCEPT ![p] = NoView]
  /\ UNCHANGED <<applied, counters, sequence, pending, collided, crashes>>

\* BEGIN and the script of 0001, whose CREATE TABLE has no IF NOT EXISTS.
ApplyBaseline(p) ==
  /\ at[p] = "next"
  /\ 1 \notin view[p].applied
  /\ IF 1 \in applied
       THEN Exit(p)
       ELSE Goto(p, "baseline") /\ UNCHANGED <<view, pending>>
  /\ UNCHANGED <<applied, counters, sequence, collided, crashes>>

\* Mutants of Recorded: a replica that cannot record a version serves all the
\* same, or waits for whoever recorded it.
RecordedOrServe(p, version, label) ==
  IF version \in applied
    THEN Goto(p, "serving") /\ UNCHANGED <<view, pending, applied>>
    ELSE /\ Goto(p, label)
         /\ view' = [view EXCEPT ![p].applied = @ \cup {version}]
         /\ applied' = applied \cup {version}
         /\ UNCHANGED pending

RecordedOrWait(p, version, label) ==
  IF version \in applied
    THEN UNCHANGED <<at, view, pending, applied>>
    ELSE /\ Goto(p, label)
         /\ view' = [view EXCEPT ![p].applied = @ \cup {version}]
         /\ applied' = applied \cup {version}
         /\ UNCHANGED pending

\* The migration's row and COMMIT: the version is the primary key, and the same
\* objects were created by whoever was first.
Recorded(p, version, label) ==
  IF version \in applied
    THEN Exit(p) /\ UNCHANGED applied
    ELSE /\ Goto(p, label)
         /\ view' = [view EXCEPT ![p].applied = @ \cup {version}]
         /\ applied' = applied \cup {version}
         /\ UNCHANGED pending

RecordBaseline(p) ==
  /\ at[p] = "baseline"
  /\ Recorded(p, 1, "next")
  /\ UNCHANGED <<counters, sequence, collided, crashes>>

\* Mutant of ApplyCounter: the position does not look at the rows.
ApplyCounterBlindly(p) ==
  /\ at[p] = "next"
  /\ view[p].applied = {1}
  /\ view' = [view EXCEPT ![p].creates = 2 \notin applied]
  /\ Goto(p, "created")
  /\ UNCHANGED <<applied, counters, sequence, pending, collided, crashes>>

\* BEGIN, CREATE SEQUENCE IF NOT EXISTS and ALTER TABLE of 0002; its snapshot
\* shows the committed rows of proctran.
ApplyCounter(p) ==
  /\ at[p] = "next"
  /\ view[p].applied = {1}
  /\ view' = [view EXCEPT ![p] = [applied |-> {1}, counters |-> counters,
                                   creates |-> 2 \notin applied]]
  /\ Goto(p, "created")
  /\ UNCHANGED <<applied, counters, sequence, pending, collided, crashes>>

\* Mutant of NextFree: without + 1.
NextFreeLast(rows) == Max({0} \cup rows)

\* GREATEST(1, COALESCE(max(counter), 0) + 1), returned by the next nextval.
NextFree(rows) == Max({0} \cup rows) + 1

\* SELECT setval(max(counter) + 1): part of the transaction if that created the
\* sequence, otherwise at once and for good.
PositionCounter(p) ==
  /\ at[p] = "created"
  /\ sequence' = IF view[p].creates THEN sequence ELSE NextFree(view[p].counters)
  /\ Goto(p, "positioned")
  /\ UNCHANGED <<applied, counters, view, pending, collided, crashes>>

RecordCounter(p) ==
  /\ at[p] = "positioned"
  /\ Recorded(p, 2, "next")
  /\ sequence' = IF view[p].creates /\ 2 \notin applied
                   THEN NextFree(view[p].counters) ELSE sequence
  /\ UNCHANGED <<counters, collided, crashes>>

MigrateStep(p) ==
  /\ \/ Start(p)
     \/ List(p)
     \/ Serve(p)
     \/ ApplyBaseline(p)
     \/ RecordBaseline(p)
     \/ ApplyCounter(p)
     \/ PositionCounter(p)
     \/ RecordCounter(p)
  /\ UNCHANGED serialized

-----------------------------------------------------------------------------
(* Serving: INSERT INTO proctran without a counter, then COMMIT.           *)

Insert(p) ==
  /\ at[p] = "serving"
  /\ pending[p] = 0
  /\ sequence <= MaxCounter
  /\ sequence \notin {pending[q] : q \in Replicas}
  /\ sequence' = sequence + 1
  /\ IF sequence \in counters
       THEN collided' = TRUE /\ UNCHANGED pending
       ELSE pending' = [pending EXCEPT ![p] = sequence] /\ UNCHANGED collided
  /\ UNCHANGED <<serialized, applied, counters, at, view, crashes>>

\* COMMIT or ROLLBACK; the number is used up all the same.
Settle(p) ==
  /\ pending[p] # 0
  /\ counters' \in {counters, counters \cup {pending[p]}}
  /\ pending' = [pending EXCEPT ![p] = 0]
  /\ UNCHANGED <<serialized, applied, sequence, at, view, collided, crashes>>

\* A replica stops anywhere.
Crash(p) ==
  /\ at[p] # "down"
  /\ crashes < MaxCrashes
  /\ crashes' = crashes + 1
  /\ Exit(p)
  /\ UNCHANGED <<serialized, applied, counters, sequence, collided>>

\* The service is up and the numbers of the bound are used.
Idle == (\A p \in Replicas : at[p] = "serving") /\ UNCHANGED vars

Next ==
  \/ \E p \in Replicas : MigrateStep(p) \/ Insert(p) \/ Settle(p) \/ Crash(p)
  \/ Idle

\* Replicas that are down are started again, and those that run go on.
Fairness == \A p \in Replicas : WF_vars(MigrateStep(p))

Spec == Init /\ [][Next]_vars
FairSpec == Spec /\ Fairness

-----------------------------------------------------------------------------
(* Properties.                                                             *)

Counters == 0 .. MaxCounter + 1

\* Every variable has its type; once 0002 is applied the sequence has a position
\* setval accepts.
TypeOK ==
  /\ serialized \in BOOLEAN
  /\ applied \in SUBSET {1, 2}
  /\ counters \subseteq Counters
  /\ sequence \in (IF 2 \in applied THEN Nat \ {0} ELSE {0})
  /\ at \in [Replicas -> {"down", "list", "next", "baseline", "created",
                          "positioned", "serving"}]
  /\ view \in [Replicas -> [applied : SUBSET {1, 2}, counters : SUBSET Counters,
                            creates : BOOLEAN]]
  /\ pending \in [Replicas -> Counters]
  /\ collided \in BOOLEAN
  /\ crashes \in 0 .. MaxCrashes

\* 0002: "the DEFAULT cannot collide with existing primary keys when this
\* migration is applied to a non-empty database". It does not, whatever stops
\* in the middle of it, as long as one replica migrates at a time.
DefaultIsFresh == serialized => ~collided

\* No replica serves before the whole schema is there, even if others applied
\* parts of it, or failed to, in the meantime.
SchemaBeforeService ==
  \A p \in Replicas : at[p] = "serving" => applied = {1, 2}

\* Two replicas that migrate at once do not block each other for good: one of
\* them fails, is started again, and every replica comes to serve.
EveryReplicaServes == \A p \in Replicas : <>(at[p] = "serving")
=============================================================================
