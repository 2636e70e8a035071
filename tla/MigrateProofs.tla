------------------------------ MODULE MigrateProofs -----------------------------
(***************************************************************************)
(* Theorems about start-up, for any number of replicas, any rows that are  *)
(* there before 0002, and any number of stops.                             *)
(***************************************************************************)
EXTENDS Migrate, WellFoundedInduction, TLAPS

Labels == {"down", "list", "next", "baseline", "created", "positioned", "serving"}

\* There is a last number.
Bounded(rows) == \E last \in Nat : \A c \in rows : c <= last

Views == [applied : SUBSET {1, 2}, counters : {rows \in SUBSET Nat : Bounded(rows)},
          creates : BOOLEAN]

\* What the theorems need to know of types.
Placed ==
  /\ applied \in SUBSET {1, 2}
  /\ counters \in SUBSET Nat
  /\ Bounded(counters)
  /\ sequence \in Nat
  /\ at \in [Replicas -> Labels]
  /\ view \in [Replicas -> Views]
  /\ pending \in [Replicas -> Nat]

\* What a migrator listed is applied, and stays so. Nobody serves before the
\* whole schema is there.
Applied ==
  /\ \A p \in Replicas : view[p].applied \subseteq applied
  /\ SchemaBeforeService

SchemaInvariant == Placed /\ Applied

\* One replica migrates at a time, so what it read still holds.
OneMigrates ==
  /\ \A p, q \in Replicas : Migrating(p) /\ Migrating(q) => p = q
  /\ \A p \in Replicas :
       /\ at[p] \in {"next", "baseline", "created", "positioned"}
            => view[p].applied = applied
       /\ at[p] \in {"created", "positioned"} =>
            /\ 2 \notin applied
            /\ view[p].creates
            /\ view[p].counters = counters

\* The sequence is past every number that is used, and only replicas that serve
\* use numbers.
PastTheRows ==
  /\ 2 \in applied =>
       /\ \A c \in counters : c < sequence
       /\ \A p \in Replicas : pending[p] < sequence
  /\ \A p \in Replicas : pending[p] # 0 => at[p] = "serving"

CounterInvariant == SchemaInvariant /\ OneMigrates /\ PastTheRows /\ ~collided

-----------------------------------------------------------------------------
(* The last number of a table.                                             *)

\* Numbers that are bounded and include 0 have a maximum: the smallest bound.
LEMMA LastNumber ==
  ASSUME NEW rows \in SUBSET Nat, Bounded(rows)
  PROVE  /\ NextFree(rows) \in Nat
         /\ \A c \in rows : c < NextFree(rows)
<1> DEFINE S == {0} \cup rows
<1> DEFINE Bounds == {n \in Nat : \A c \in S : c <= n}
<1>1. S \in SUBSET Nat /\ 0 \in S
  OBVIOUS
<1>2. PICK b \in Nat : \A c \in rows : c <= b
  BY DEF Bounded
<1>3. b \in Bounds
  BY <1>2
<1>4. PICK m \in Bounds : \A k \in Bounds : m <= k
  <2>1. Bounds \subseteq Nat /\ Bounds # {}
    BY <1>3
  <2> HIDE DEF Bounds
  <2>2. PICK m \in Bounds : \A k \in Bounds : <<k, m>> \notin OpToRel(<, Nat)
    BY <2>1, NatLessThanWellFounded, WFMin
  <2>3. \A k \in Bounds : ~(k < m)
    BY <2>1, <2>2 DEF OpToRel
  <2>4. QED
    BY <2>1, <2>3
<1>5. m \in S
  <2>1. SUFFICES ASSUME m \notin S PROVE FALSE
    OBVIOUS
  <2>2. m # 0 /\ m - 1 \in Nat /\ \A c \in S : c <= m - 1
    BY <1>1, <1>4, <2>1
  <2>3. m - 1 \in Bounds
    BY <2>2
  <2>4. QED
    BY <1>4, <2>3
<1>6. \A c \in S : m >= c
  BY <1>1, <1>4
<1>7. Max(S) \in S /\ \A c \in S : Max(S) >= c
  BY <1>5, <1>6 DEF Max
<1>8. NextFree(rows) = Max(S) + 1
  BY DEF NextFree
<1>9. \A c \in rows : c \in Nat /\ c \in S
  OBVIOUS
<1>10. Max(S) \in Nat
  BY <1>1, <1>7
<1>11. \A c \in rows : c <= Max(S)
  BY <1>7, <1>9, <1>10
<1> HIDE DEF S
<1>12. QED
  BY <1>8, <1>9, <1>10, <1>11

\* Numbers start at 1.
LEMMA FreeIsPositive ==
  ASSUME NEW rows \in SUBSET Nat, Bounded(rows)
  PROVE  NextFree(rows) > 0
<1>1. CASE rows = {}
  <2>1. NextFree({0}) = NextFree(rows)
    <3>1. {0} \cup {0} = {0} \cup rows
      BY <1>1
    <3>2. QED
      BY <3>1 DEF NextFree
  <2>2. Bounded({0})
    BY DEF Bounded
  <2>3. NextFree({0}) \in Nat /\ 0 < NextFree({0})
    BY <2>2, LastNumber
  <2>4. QED
    BY <2>1, <2>3
<1>2. CASE rows # {}
  <2>1. PICK c \in rows : c \in Nat
    BY <1>2
  <2>2. NextFree(rows) \in Nat /\ c < NextFree(rows)
    BY <2>1, LastNumber
  <2>3. QED
    BY <2>1, <2>2
<1>3. QED
  BY <1>1, <1>2

-----------------------------------------------------------------------------
(* The schema: kept whether or not replicas migrate one at a time.         *)

LEMMA SchemaInit == Init => SchemaInvariant
<1> SUFFICES ASSUME Init PROVE SchemaInvariant
  OBVIOUS
<1>1. counters \in SUBSET Nat /\ Bounded(counters)
  <2>1. counters \in SUBSET (0 .. MaxCounter)
    BY MigrateAssumption DEF Init
  <2>2. QED
    BY MigrateAssumption, <2>1 DEF Bounded
<1>2. sequence \in Nat
  <2>1. NextFree(counters) \in Nat
    BY <1>1, LastNumber
  <2>2. QED
    BY <2>1 DEF Init, NextFree
<1>3. Bounded({})
  BY DEF Bounded
<1>4. QED
  BY <1>1, <1>2, <1>3 DEF Init, SchemaInvariant, Placed, Applied, SchemaBeforeService,
                    Labels, Views, NoView

LEMMA ViewsKept ==
  ASSUME Placed, [Next]_vars
  PROVE  view' \in [Replicas -> Views]
<1>1. /\ view \in [Replicas -> Views] /\ applied \in SUBSET {1, 2}
      /\ counters \in SUBSET Nat /\ Bounded(counters)
  BY DEF Placed
<1>2. ASSUME NEW p \in Replicas, view' = [view EXCEPT ![p] = NoView]
      PROVE  view' \in [Replicas -> Views]
  <2>1. Bounded({})
    BY DEF Bounded
  <2>2. QED
    BY <1>1, <1>2, <2>1 DEF NoView, Views
<1>3. ASSUME NEW p \in Replicas, List(p) PROVE view' \in [Replicas -> Views]
  BY <1>1, <1>3 DEF List, Views
<1>4. ASSUME NEW p \in Replicas, ApplyCounter(p)
      PROVE  view' \in [Replicas -> Views]
  BY <1>1, <1>4 DEF ApplyCounter, Views
<1>5. ASSUME NEW p \in Replicas, NEW v \in {1, 2}, NEW l, Recorded(p, v, l)
      PROVE  view' \in [Replicas -> Views]
  <2>1. CASE v \in applied
    BY <1>2, <1>5, <2>1 DEF Recorded, Exit
  <2>2. CASE v \notin applied
    BY <1>1, <1>5, <2>2 DEF Recorded, Views
  <2>3. QED
    BY <2>1, <2>2
<1>6. ASSUME NEW p \in Replicas, MigrateStep(p)
      PROVE  view' \in [Replicas -> Views]
  BY <1>1, <1>2, <1>3, <1>4, <1>5, <1>6
  DEF MigrateStep, Start, Serve, ApplyBaseline, RecordBaseline, PositionCounter,
      RecordCounter, Exit
<1>7. QED
  BY <1>1, <1>2, <1>6 DEF Next, Insert, Settle, Crash, Exit, Idle, vars

LEMMA PlacedKept ==
  ASSUME Placed, [Next]_vars
  PROVE  Placed'
<1>1. view' \in [Replicas -> Views]
  BY ViewsKept
<1>2. applied' \in SUBSET {1, 2}
  BY DEF Placed, Next, MigrateStep, Start, List, Serve, ApplyBaseline, RecordBaseline,
     ApplyCounter, PositionCounter, RecordCounter, Recorded, Insert, Settle, Crash,
     Idle, vars
<1>3. at' \in [Replicas -> Labels]
  BY DEF Placed, Labels, Next, MigrateStep, Start, List, Serve, ApplyBaseline,
     RecordBaseline, ApplyCounter, PositionCounter, RecordCounter, Recorded, Insert,
     Settle, Crash, Exit, Goto, Idle, vars
<1>4. pending' \in [Replicas -> Nat]
  BY DEF Placed, Next, MigrateStep, Start, List, Serve, ApplyBaseline,
     RecordBaseline, ApplyCounter, PositionCounter, RecordCounter, Recorded, Insert,
     Settle, Crash, Exit, Idle, vars
<1>5. sequence' \in Nat
  <2>1. \A p \in Replicas :
          view[p].counters \in SUBSET Nat /\ Bounded(view[p].counters)
    BY DEF Placed, Views
  <2>2. \A p \in Replicas : NextFree(view[p].counters) \in Nat
    BY <2>1, LastNumber
  <2>3. QED
    BY <2>2 DEF Placed, Next, MigrateStep, Start, List, Serve, ApplyBaseline,
       RecordBaseline, ApplyCounter, PositionCounter, RecordCounter, Insert, Settle,
       Crash, Idle, vars
<1>6. counters' \in SUBSET Nat /\ Bounded(counters')
  <2>1. counters \in SUBSET Nat /\ Bounded(counters) /\ pending \in [Replicas -> Nat]
    BY DEF Placed
  <2>2. ASSUME NEW p \in Replicas, Settle(p)
        PROVE  counters' \in SUBSET Nat /\ Bounded(counters')
    <3>1. PICK last \in Nat : \A c \in counters : c <= last
      BY <2>1 DEF Bounded
    <3>2. PICK most \in {last, pending[p]} : last <= most /\ pending[p] <= most
      BY <2>1, <3>1
    <3>3. most \in Nat /\ \A c \in counters' : c \in Nat /\ c <= most
      BY <2>1, <2>2, <3>1, <3>2 DEF Settle
    <3>4. QED
      BY <3>3 DEF Bounded
  <2>3. QED
    BY <2>1, <2>2 DEF Next, MigrateStep, Start, List, Serve, ApplyBaseline,
       RecordBaseline, ApplyCounter, PositionCounter, RecordCounter, Insert, Crash,
       Idle, vars
<1>7. QED
  BY <1>1, <1>2, <1>3, <1>4, <1>5, <1>6 DEF Placed

\* What is applied stays applied; a migrator's view stays below it.
LEMMA AppliedKept ==
  ASSUME SchemaInvariant, [Next]_vars
  PROVE  Applied'
<1>1. Placed /\ Applied
  BY DEF SchemaInvariant
<1>2. /\ at \in [Replicas -> Labels] /\ applied \in SUBSET {1, 2}
      /\ view \in [Replicas -> Views]
  BY <1>1 DEF Placed
<1>3. applied \subseteq applied' /\ applied' \in SUBSET {1, 2}
  BY <1>2 DEF Next, MigrateStep, Start, List, Serve, ApplyBaseline, RecordBaseline,
     ApplyCounter, PositionCounter, RecordCounter, Recorded, Insert, Settle, Crash,
     Idle, vars
<1>4. \A q \in Replicas : view'[q].applied \subseteq applied'
  <2>1. ASSUME NEW q \in Replicas, view'[q] \in {view[q], NoView}
        PROVE  view'[q].applied \subseteq applied'
    <3>1. view[q].applied \subseteq applied /\ NoView.applied = {}
      BY <1>1 DEF Applied, NoView
    <3>2. QED
      BY <1>3, <2>1, <3>1
  <2>2. ASSUME NEW p \in Replicas, List(p) \/ ApplyCounter(p), NEW q \in Replicas
        PROVE  view'[q].applied \subseteq applied'
    BY <1>1, <1>2, <2>2 DEF Applied, Views, List, ApplyCounter
  <2>3. ASSUME NEW p \in Replicas, NEW v \in {1, 2}, NEW l, Recorded(p, v, l),
               NEW q \in Replicas
        PROVE  view'[q].applied \subseteq applied'
    <3>1. CASE v \in applied
      BY <1>2, <2>1, <2>3, <3>1 DEF Recorded, Exit
    <3>2. CASE v \notin applied
      BY <1>1, <1>2, <2>3, <3>2 DEF Applied, Views, Recorded
    <3>3. QED
      BY <3>1, <3>2
  <2>4. ASSUME NEW p \in Replicas, MigrateStep(p), NEW q \in Replicas
        PROVE  view'[q].applied \subseteq applied'
    BY <1>2, <2>1, <2>2, <2>3, <2>4
    DEF MigrateStep, Start, Serve, ApplyBaseline, RecordBaseline, PositionCounter,
        RecordCounter, Exit
  <2>5. QED
    BY <1>2, <2>1, <2>4 DEF Next, Insert, Settle, Crash, Exit, Idle, vars
<1>5. ASSUME NEW q \in Replicas, at'[q] = "serving" PROVE applied' = {1, 2}
  <2>1. CASE at[q] = "serving"
    BY <1>1, <1>3, <2>1 DEF Applied, SchemaBeforeService
  <2>2. CASE at[q] # "serving"
    <3>1. Serve(q)
      BY <1>2, <1>5, <2>2 DEF Next, MigrateStep, Start, List, Serve, ApplyBaseline,
         RecordBaseline, ApplyCounter, PositionCounter, RecordCounter, Recorded,
         Insert, Settle, Crash, Exit, Goto, Idle, vars
    <3>2. QED
      BY <1>1, <1>2, <3>1 DEF Applied, Serve
  <2>3. QED
    BY <2>1, <2>2
<1>6. QED
  BY <1>4, <1>5 DEF Applied, SchemaBeforeService

\* The invariant of start-up that holds however many replicas migrate at once.
THEOREM SchemaIsKept == Spec => []SchemaInvariant
<1>1. SchemaInvariant /\ [Next]_vars => SchemaInvariant'
  BY PlacedKept, AppliedKept DEF SchemaInvariant
<1>2. QED
  BY SchemaInit, <1>1, PTL DEF Spec

\* No replica ever serves on half a schema, even if others migrate at the same
\* time, fail and stop.
THEOREM NoEarlyService == Spec => []SchemaBeforeService
<1>1. SchemaInvariant => SchemaBeforeService
  BY DEF SchemaInvariant, Applied
<1>2. QED
  BY SchemaIsKept, <1>1, PTL

-----------------------------------------------------------------------------
(* The numbers: kept if the deployment lets one replica migrate at a time. *)

LEMMA CounterInit == Init => CounterInvariant
<1> SUFFICES ASSUME Init PROVE CounterInvariant
  OBVIOUS
<1>1. SchemaInvariant
  BY SchemaInit
<1>2. OneMigrates
  BY DEF Init, OneMigrates, Migrating
<1>3. PastTheRows
  <2>1. 2 \in applied => sequence = NextFree(counters)
    BY DEF Init, NextFree
  <2>2. NextFree(counters) \in Nat /\ \A c \in counters : c < NextFree(counters)
    BY <1>1, LastNumber DEF SchemaInvariant, Placed
  <2>3. NextFree(counters) > 0
    BY <1>1, FreeIsPositive DEF SchemaInvariant, Placed
  <2>4. QED
    BY <2>1, <2>2, <2>3 DEF Init, PastTheRows
<1>4. QED
  BY <1>1, <1>2, <1>3 DEF Init, CounterInvariant

\* Nothing that a migrator read changes under it: only replicas that migrate
\* change `applied`, and rows are only added once 0002 is applied.
LEMMA OneMigratesKept ==
  ASSUME serialized, CounterInvariant, [Next]_vars
  PROVE  OneMigrates'
<1>1. OneMigrates /\ SchemaBeforeService
  BY DEF CounterInvariant, SchemaInvariant, Applied
<1>2. /\ at \in [Replicas -> Labels] /\ applied \in SUBSET {1, 2}
      /\ view \in [Replicas -> Views]
  BY DEF CounterInvariant, SchemaInvariant, Placed
<1>3. ASSUME NEW p \in Replicas, Start(p) PROVE OneMigrates'
  BY <1>1, <1>2, <1>3 DEF Start, Goto, OneMigrates, Migrating, Labels
<1>4. ASSUME NEW p \in Replicas, List(p) PROVE OneMigrates'
  BY <1>1, <1>2, <1>4 DEF List, Goto, OneMigrates, Migrating, Labels, Views
<1>5. ASSUME NEW p \in Replicas, Serve(p) PROVE OneMigrates'
  BY <1>1, <1>2, <1>5 DEF Serve, Goto, OneMigrates, Migrating, Labels
<1>6. ASSUME NEW p \in Replicas, ApplyBaseline(p) PROVE OneMigrates'
  BY <1>1, <1>2, <1>6 DEF ApplyBaseline, Exit, Goto, OneMigrates, Migrating, Labels
<1>7. ASSUME NEW p \in Replicas, NEW v \in {1, 2}, Recorded(p, v, "next"), Migrating(p),
             at[p] # "list", UNCHANGED counters
      PROVE  OneMigrates'
  <2>1. \A q \in Replicas : Migrating(q) => q = p
    BY <1>1, <1>7 DEF OneMigrates
  <2>2. CASE v \in applied
    BY <1>1, <1>2, <1>7, <2>2 DEF Recorded, Exit, Goto, OneMigrates, Migrating, Labels
  <2>3. CASE v \notin applied
    <3>1. at' = [at EXCEPT ![p] = "next"] /\ applied' = applied \cup {v}
      BY <1>7, <2>3 DEF Recorded, Goto
    <3>2. view[p].applied = applied
      BY <1>1, <1>2, <1>7 DEF OneMigrates, Migrating
    <3>3. view'[p].applied = applied'
      BY <1>2, <1>7, <2>3, <3>1, <3>2 DEF Recorded, Views
    <3>4. at'[p] = "next" /\ \A q \in Replicas : Migrating(q)' => q = p
      BY <1>2, <2>1, <3>1 DEF Migrating
    <3>5. QED
      BY <3>3, <3>4 DEF OneMigrates, Migrating
  <2>4. QED
    BY <2>2, <2>3
<1>8. ASSUME NEW p \in Replicas, ApplyCounter(p) PROVE OneMigrates'
  <2>1. applied = {1} /\ \A q \in Replicas : Migrating(q) => q = p
    BY <1>1, <1>8 DEF ApplyCounter, OneMigrates, Migrating
  <2>2. at'[p] = "created" /\ \A q \in Replicas : Migrating(q)' => q = p
    BY <1>2, <1>8, <2>1 DEF ApplyCounter, Goto, Migrating
  <2>3. /\ view'[p].applied = applied /\ view'[p].creates
        /\ view'[p].counters = counters
        /\ applied' = applied /\ counters' = counters
    <3>1. /\ view'[p] = [applied |-> {1}, counters |-> counters,
                         creates |-> 2 \notin applied]
          /\ applied' = applied /\ counters' = counters
      BY <1>2, <1>8 DEF ApplyCounter
    <3>2. view'[p].creates
      <4>1. (2 \notin applied) = TRUE
        BY <2>1
      <4>2. view'[p].creates = (2 \notin applied)
        BY <3>1
      <4>3. QED
        BY <4>1, <4>2, Zenon
    <3>3. view'[p].applied = {1} /\ view'[p].counters = counters
      BY <3>1
    <3>4. QED
      BY <2>1, <3>1, <3>2, <3>3
  <2>4. QED
    BY <2>1, <2>2, <2>3 DEF OneMigrates, Migrating
<1>9. ASSUME NEW p \in Replicas, PositionCounter(p) PROVE OneMigrates'
  BY <1>1, <1>2, <1>9 DEF PositionCounter, Goto, OneMigrates, Migrating, Labels
<1>10. ASSUME NEW p \in Replicas, RecordBaseline(p) \/ RecordCounter(p)
       PROVE  OneMigrates'
  BY <1>7, <1>10 DEF RecordBaseline, RecordCounter, Migrating
<1>11. ASSUME NEW p \in Replicas, Insert(p) PROVE OneMigrates'
  BY <1>1, <1>11 DEF Insert, OneMigrates, Migrating
<1>12. ASSUME NEW p \in Replicas, Settle(p) PROVE OneMigrates'
  <2>1. at[p] = "serving"
    BY <1>12 DEF Settle, CounterInvariant, PastTheRows
  <2>2. 2 \in applied
    BY <1>1, <2>1 DEF SchemaBeforeService
  <2>3. QED
    BY <1>1, <1>12, <2>2 DEF Settle, OneMigrates, Migrating
<1>13. ASSUME NEW p \in Replicas, Crash(p) PROVE OneMigrates'
  BY <1>1, <1>2, <1>13 DEF Crash, Exit, Goto, OneMigrates, Migrating, Labels
<1>14. CASE UNCHANGED vars
  BY <1>1, <1>14 DEF vars, OneMigrates, Migrating
<1>15. QED
  BY <1>3, <1>4, <1>5, <1>6, <1>8, <1>9, <1>10, <1>11, <1>12, <1>13, <1>14
  DEF Next, MigrateStep, Idle

\* 0002 positions the sequence past the rows that are there, while nobody adds
\* any; from then on numbers come from the sequence.
LEMMA PastTheRowsKept ==
  ASSUME CounterInvariant, [Next]_vars
  PROVE  PastTheRows'
<1>1. PastTheRows /\ SchemaBeforeService /\ OneMigrates
  BY DEF CounterInvariant, SchemaInvariant, Applied
<1>2. /\ at \in [Replicas -> Labels] /\ applied \in SUBSET {1, 2}
      /\ counters \in SUBSET Nat /\ Bounded(counters)
      /\ sequence \in Nat /\ pending \in [Replicas -> Nat]
  BY DEF CounterInvariant, SchemaInvariant, Placed
<1>3. ASSUME NEW p \in Replicas, Exit(p), UNCHANGED <<applied, counters, sequence>>
      PROVE  PastTheRows'
  BY <1>1, <1>2, <1>3 DEF Exit, Goto, PastTheRows
<1>4. ASSUME NEW p \in Replicas, at[p] # "serving", NEW l \in Labels, Goto(p, l),
             UNCHANGED <<counters, sequence, pending>>, 2 \in applied' => 2 \in applied
      PROVE  PastTheRows'
  BY <1>1, <1>2, <1>4 DEF Goto, PastTheRows
<1>5. ASSUME NEW p \in Replicas,
             Start(p) \/ List(p) \/ Serve(p) \/ ApplyBaseline(p) \/ ApplyCounter(p)
      PROVE  PastTheRows'
  BY <1>3, <1>4, <1>5
  DEF Start, List, Serve, ApplyBaseline, ApplyCounter, Labels
<1>6. ASSUME NEW p \in Replicas, RecordBaseline(p) PROVE PastTheRows'
  BY <1>3, <1>4, <1>6 DEF RecordBaseline, Recorded, Labels
<1>7. ASSUME NEW p \in Replicas, PositionCounter(p) PROVE PastTheRows'
  <2>1. view[p].creates
    BY <1>1, <1>7 DEF PositionCounter, OneMigrates
  <2>2. QED
    BY <1>4, <1>7, <2>1 DEF PositionCounter, Labels
<1>8. ASSUME NEW p \in Replicas, RecordCounter(p) PROVE PastTheRows'
  <2>1. 2 \notin applied /\ view[p].creates /\ view[p].counters = counters
    BY <1>1, <1>8 DEF RecordCounter, OneMigrates
  <2>2. \A q \in Replicas : at[q] # "serving" /\ pending[q] = 0
    BY <1>1, <2>1 DEF SchemaBeforeService, PastTheRows
  <2>3. sequence' = NextFree(counters) /\ counters' = counters /\ pending' = pending
    BY <1>8, <2>1 DEF RecordCounter, Recorded
  <2>4. NextFree(counters) \in Nat /\ \A c \in counters : c < NextFree(counters)
    BY <1>2, LastNumber
  <2>5. NextFree(counters) > 0
    BY <1>2, FreeIsPositive
  <2>6. QED
    BY <1>2, <2>2, <2>3, <2>4, <2>5 DEF PastTheRows
<1>9. ASSUME NEW p \in Replicas, Insert(p) PROVE PastTheRows'
  BY <1>1, <1>2, <1>9 DEF Insert, PastTheRows
<1>10. ASSUME NEW p \in Replicas, Settle(p) PROVE PastTheRows'
  BY <1>1, <1>2, <1>10 DEF Settle, PastTheRows
<1>11. ASSUME NEW p \in Replicas, Crash(p) PROVE PastTheRows'
  BY <1>3, <1>11 DEF Crash
<1>12. CASE UNCHANGED vars
  BY <1>1, <1>12 DEF vars, PastTheRows
<1>13. QED
  BY <1>5, <1>6, <1>7, <1>8, <1>9, <1>10, <1>11, <1>12 DEF Next, MigrateStep, Idle

LEMMA FreshKept ==
  ASSUME CounterInvariant, [Next]_vars
  PROVE  ~collided'
<1>1. ~collided
  BY DEF CounterInvariant
<1>2. ASSUME NEW p \in Replicas, Insert(p) PROVE ~collided'
  <2>1. 2 \in applied
    BY <1>2 DEF Insert, CounterInvariant, SchemaInvariant, Applied, SchemaBeforeService
  <2>2. sequence \notin counters
    BY <2>1 DEF CounterInvariant, SchemaInvariant, Placed, PastTheRows
  <2>3. QED
    BY <1>1, <1>2, <2>2 DEF Insert
<1>3. QED
  BY <1>1, <1>2 DEF Next, MigrateStep, Start, List, Serve,
     ApplyBaseline, RecordBaseline, ApplyCounter, PositionCounter, RecordCounter,
     Settle, Crash, Idle, vars

\* As long as deployments apply migrations from one replica at a time, the
\* default of proctran.counter never meets a number that is taken, however many
\* replicas there are, whatever rows were there and wherever replicas stop.
THEOREM NumbersAreFresh == Spec => []DefaultIsFresh
<1>1. Spec => [](serialized => CounterInvariant)
  <2>1. [Next]_vars => serialized' = serialized
    BY DEF Next, MigrateStep, Insert, Settle, Crash, Idle, vars
  <2>2. (serialized => CounterInvariant) /\ [Next]_vars
          => (serialized => CounterInvariant)'
    BY <2>1, PlacedKept, AppliedKept, OneMigratesKept, PastTheRowsKept, FreshKept
    DEF CounterInvariant, SchemaInvariant
  <2>3. QED
    BY CounterInit, <2>2, PTL DEF Spec
<1>2. (serialized => CounterInvariant) => DefaultIsFresh
  BY DEF CounterInvariant, DefaultIsFresh
<1>3. QED
  BY <1>1, <1>2, PTL

-----------------------------------------------------------------------------
(* Types.                                                                  *)

\* A migrator that did not create the sequence found 0002 applied.
Positioning ==
  \A p \in Replicas :
    at[p] \in {"created", "positioned"} /\ ~view[p].creates => 2 \in applied

MigrateInvariant == SchemaInvariant /\ TypeOK /\ Positioning

LEMMA MigrateInit == Init => MigrateInvariant
<1> SUFFICES ASSUME Init PROVE MigrateInvariant
  OBVIOUS
<1>1. SchemaInvariant
  BY SchemaInit
<1>2. counters \in SUBSET Nat /\ Bounded(counters) /\ counters \subseteq Counters
  <2>1. counters \in SUBSET (0 .. MaxCounter)
    BY MigrateAssumption DEF Init
  <2>2. QED
    BY <1>1, <2>1, MigrateAssumption DEF SchemaInvariant, Placed, Counters
<1>3. NextFree(counters) \in Nat /\ NextFree(counters) > 0
  BY <1>2, LastNumber, FreeIsPositive
<1>4. sequence \in (IF 2 \in applied THEN Nat \ {0} ELSE {0})
  BY <1>3 DEF Init, NextFree
<1>5. NoView \in [applied : SUBSET {1, 2}, counters : SUBSET Counters, creates : BOOLEAN]
  BY DEF NoView
<1>6. TypeOK
  <2>1. applied \in SUBSET {1, 2} /\ serialized \in BOOLEAN /\ collided \in BOOLEAN
    BY DEF Init
  <2>2. 0 \in Counters /\ 0 \in 0 .. MaxCrashes
    BY MigrateAssumption DEF Counters
  <2>3. view \in [Replicas -> [applied : SUBSET {1, 2}, counters : SUBSET Counters,
                               creates : BOOLEAN]]
    BY <1>5 DEF Init
  <2>4. QED
    BY <1>2, <1>4, <2>1, <2>2, <2>3 DEF Init, TypeOK
<1>7. QED
  BY <1>1, <1>6 DEF Init, MigrateInvariant, Positioning

\* The sequence is positioned by whoever applies 0002, and never loses its
\* position again.
LEMMA SequenceKept ==
  ASSUME MigrateInvariant, [Next]_vars
  PROVE  sequence' \in (IF 2 \in applied' THEN Nat \ {0} ELSE {0})
<1>1. /\ sequence \in (IF 2 \in applied THEN Nat \ {0} ELSE {0})
      /\ Positioning /\ SchemaBeforeService
  BY DEF MigrateInvariant, TypeOK, SchemaInvariant, Applied
<1>2. \A p \in Replicas :
        NextFree(view[p].counters) \in Nat /\ NextFree(view[p].counters) > 0
  <2>1. \A p \in Replicas : view[p].counters \in SUBSET Nat /\ Bounded(view[p].counters)
    BY DEF MigrateInvariant, SchemaInvariant, Placed, Views
  <2>2. QED
    BY <2>1, LastNumber, FreeIsPositive
<1>3. ASSUME NEW p \in Replicas, RecordBaseline(p)
      PROVE  sequence' \in (IF 2 \in applied' THEN Nat \ {0} ELSE {0})
  BY <1>1, <1>3 DEF RecordBaseline, Recorded
<1>4. ASSUME NEW p \in Replicas, PositionCounter(p)
      PROVE  sequence' \in (IF 2 \in applied' THEN Nat \ {0} ELSE {0})
  BY <1>1, <1>2, <1>4 DEF PositionCounter, Positioning
<1>5. ASSUME NEW p \in Replicas, RecordCounter(p)
      PROVE  sequence' \in (IF 2 \in applied' THEN Nat \ {0} ELSE {0})
  <2>1. CASE 2 \in applied
    BY <1>1, <1>5, <2>1 DEF RecordCounter, Recorded
  <2>2. CASE 2 \notin applied
    <3>1. view[p].creates
      BY <1>1, <1>5, <2>2 DEF RecordCounter, Positioning
    <3>2. sequence' = NextFree(view[p].counters)
      BY <1>5, <2>2, <3>1 DEF RecordCounter
    <3>3. 2 \in applied'
      BY <1>5, <2>2 DEF RecordCounter, Recorded
    <3>4. QED
      BY <1>2, <3>2, <3>3
  <2>3. QED
    BY <2>1, <2>2
<1>6. ASSUME NEW p \in Replicas, Insert(p)
      PROVE  sequence' \in (IF 2 \in applied' THEN Nat \ {0} ELSE {0})
  <2>1. 2 \in applied /\ applied' = applied /\ sequence' = sequence + 1
    BY <1>1, <1>6 DEF Insert, SchemaBeforeService
  <2>2. QED
    BY <1>1, <2>1
<1>7. QED
  BY <1>1, <1>3, <1>4, <1>5, <1>6 DEF Next, MigrateStep, Start, List, Serve,
     ApplyBaseline, ApplyCounter, Settle, Crash, Idle, vars

LEMMA PositioningKept ==
  ASSUME MigrateInvariant, [Next]_vars
  PROVE  Positioning'
<1>1. Positioning /\ applied \in SUBSET {1, 2} /\ at \in [Replicas -> Labels]
      /\ view \in [Replicas -> Views]
  BY DEF MigrateInvariant, SchemaInvariant, Placed
<1>2. applied \subseteq applied'
  BY <1>1 DEF Next, MigrateStep, Start, List, Serve, ApplyBaseline, RecordBaseline,
     ApplyCounter, PositionCounter, RecordCounter, Recorded, Insert, Settle, Crash,
     Idle, vars
<1>3. ASSUME NEW p \in Replicas, ApplyCounter(p)
      PROVE  Positioning'
  <2>1. ~view'[p].creates => 2 \in applied'
    <3>1. view'[p].creates = (2 \notin applied) /\ applied' = applied
      BY <1>1, <1>3 DEF ApplyCounter
    <3>2. QED
      BY <3>1, Zenon
  <2>2. \A q \in Replicas \ {p} : view'[q] = view[q] /\ at'[q] = at[q]
    BY <1>1, <1>3 DEF ApplyCounter, Goto
  <2>3. QED
    BY <1>1, <1>2, <2>1, <2>2 DEF Positioning
<1>4. ASSUME NEW q \in Replicas, at'[q] \in {"created", "positioned"},
             at[q] \in {"created", "positioned"}, view'[q].creates = view[q].creates
      PROVE  ~view'[q].creates => 2 \in applied'
  BY <1>1, <1>2, <1>4 DEF Positioning
<1>5. ASSUME NEW p \in Replicas, ~ApplyCounter(p), MigrateStep(p) \/ Crash(p), NEW q \in Replicas,
             at'[q] \in {"created", "positioned"}
      PROVE  at[q] \in {"created", "positioned"} /\ view'[q] = view[q]
  BY <1>1, <1>5 DEF MigrateStep, Start, List, Serve, ApplyBaseline, RecordBaseline,
     PositionCounter, RecordCounter, Recorded, Crash, Exit, Goto
<1>6. ASSUME NEW p \in Replicas, MigrateStep(p) \/ Crash(p) PROVE Positioning'
  BY <1>3, <1>4, <1>5, <1>6 DEF Positioning
<1>7. CASE UNCHANGED <<at, view>>
  BY <1>1, <1>2, <1>7 DEF Positioning
<1>8. QED
  BY <1>6, <1>7 DEF Next, Insert, Settle, Idle, vars

LEMMA MigrateTypeKept ==
  ASSUME MigrateInvariant, [Next]_vars
  PROVE  TypeOK'
<1> USE MigrateAssumption
<1>1. TypeOK /\ SchemaInvariant /\ MaxCounter \in Nat
  BY DEF MigrateInvariant
<1>2. Placed'
  BY PlacedKept DEF MigrateInvariant, SchemaInvariant
<1>3. applied' \in SUBSET {1, 2} /\ at' \in [Replicas -> Labels]
  BY <1>2 DEF Placed
<1>4. sequence' \in (IF 2 \in applied' THEN Nat \ {0} ELSE {0})
  BY SequenceKept
<1>5. pending' \in [Replicas -> Counters]
  <2>1. pending \in [Replicas -> Counters] /\ sequence \in Nat /\ 0 \in Counters
    BY <1>1 DEF TypeOK, SchemaInvariant, Placed, Counters
  <2>2. ASSUME NEW p \in Replicas, Insert(p) PROVE pending' \in [Replicas -> Counters]
    <3>1. sequence \in Counters
      BY <2>1, <2>2 DEF Insert, Counters
    <3>2. QED
      BY <2>1, <2>2, <3>1 DEF Insert
  <2>3. QED
    BY <2>1, <2>2 DEF Next, MigrateStep, Start, List, Serve, ApplyBaseline,
       RecordBaseline, ApplyCounter, PositionCounter, RecordCounter, Recorded, Settle,
       Crash, Exit, Idle, vars
<1>6. counters' \subseteq Counters
  BY <1>1 DEF TypeOK, Next, MigrateStep, Start, List, Serve, ApplyBaseline,
     RecordBaseline, ApplyCounter, PositionCounter, RecordCounter, Insert, Settle,
     Crash, Idle, vars
<1>7. view' \in [Replicas -> [applied : SUBSET {1, 2}, counters : SUBSET Counters,
                              creates : BOOLEAN]]
  <2> DEFINE V == [applied : SUBSET {1, 2}, counters : SUBSET Counters, creates : BOOLEAN]
  <2>1. view \in [Replicas -> V] /\ applied \in SUBSET {1, 2} /\ counters \in SUBSET Counters
    BY <1>1 DEF TypeOK
  <2>2. NoView \in V
    BY DEF NoView
  <2>3. ASSUME NEW p \in Replicas, List(p) PROVE view' \in [Replicas -> V]
    BY <2>1, <2>3 DEF List
  <2>4. ASSUME NEW p \in Replicas, ApplyCounter(p) PROVE view' \in [Replicas -> V]
    <3>1. [applied |-> {1}, counters |-> counters, creates |-> 2 \notin applied] \in V
      BY <2>1
    <3>2. QED
      BY <2>1, <2>4, <3>1 DEF ApplyCounter
  <2>5. ASSUME NEW p \in Replicas, NEW v \in {1, 2}, NEW l, Recorded(p, v, l)
        PROVE  view' \in [Replicas -> V]
    <3>1. CASE v \in applied
      BY <2>1, <2>2, <2>5, <3>1 DEF Recorded, Exit
    <3>2. CASE v \notin applied
      BY <2>1, <2>5, <3>2 DEF Recorded
    <3>3. QED
      BY <3>1, <3>2
  <2> HIDE DEF V
  <2>6. ASSUME NEW p \in Replicas, MigrateStep(p) PROVE view' \in [Replicas -> V]
    BY <2>1, <2>2, <2>3, <2>4, <2>5, <2>6
    DEF MigrateStep, Start, Serve, ApplyBaseline, RecordBaseline, PositionCounter,
        RecordCounter, Exit
  <2>7. view' \in [Replicas -> V]
    BY <2>1, <2>2, <2>6 DEF Next, Insert, Settle, Crash, Exit, Idle, vars
  <2>8. QED
    BY <2>7 DEF V
<1>8. crashes' \in 0 .. MaxCrashes
  BY <1>1 DEF TypeOK, Next, MigrateStep, Start, List, Serve, ApplyBaseline,
     RecordBaseline, ApplyCounter, PositionCounter, RecordCounter, Insert, Settle,
     Crash, Idle, vars
<1>9. serialized' \in BOOLEAN /\ collided' \in BOOLEAN
  BY <1>1 DEF TypeOK, Next, MigrateStep, Start, List, Serve, ApplyBaseline,
     RecordBaseline, ApplyCounter, PositionCounter, RecordCounter, Insert, Settle,
     Crash, Idle, vars
<1>10. QED
  BY <1>3, <1>4, <1>5, <1>6, <1>7, <1>8, <1>9 DEF TypeOK, Labels

\* Types, for any number of replicas that migrate at once: setval is never given
\* a position below 1, and no migration leaves the sequence without one.
THEOREM StartUpTyped == Spec => []TypeOK
<1>1. MigrateInvariant /\ [Next]_vars => MigrateInvariant'
  BY PlacedKept, AppliedKept, MigrateTypeKept, PositioningKept
  DEF MigrateInvariant, SchemaInvariant
<1>2. MigrateInvariant => TypeOK
  BY DEF MigrateInvariant
<1>3. QED
  BY MigrateInit, <1>1, <1>2, PTL DEF Spec
=============================================================================
