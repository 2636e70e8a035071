------------------------------ MODULE CreditProofs -----------------------------
(***************************************************************************)
(* Theorems about the credit check, for any number of agencies, any delays *)
(* and answers, any window and any lateness of the handler.                *)
(***************************************************************************)
EXTENDS CreditProperties, FiniteSetTheorems, WellFoundedInduction, TLAPS

\* The window is never overrun by much: the handler waits only while it is
\* open, and is not late by more than Lag.
Timely ==
  /\ since <= now
  /\ pc = "loop" => now <= since + Lag /\ since <= deadline + Lag
  /\ pc = "waiting" => since < deadline /\ now <= deadline + Lag

\* The two counters are the count of the tasks counted, and a sum of that many
\* valid scores.
Tallied ==
  /\ returned = Cardinality(Counted)
  /\ returned <= total /\ total <= 998 * returned
  /\ pc = "scored" => returned # 0

\* Tasks are counted after they finished, and after a late one no more is.
Punctual ==
  /\ pc = "spawned" => Counted = {}
  /\ \A a \in Agencies : task[a] = "finished" => at[a] <= now
  /\ pc \in {"loop", "waiting"} => \A a \in Counted : at[a] <= since
  /\ \A a, b \in Counted : at[a] >= deadline /\ at[b] >= deadline => a = b

CreditInvariant == TypeOK /\ Timely /\ Tallied /\ Punctual

-----------------------------------------------------------------------------
(* Arithmetic and counting.                                                *)

\* The integer average of valid scores is a valid score.
LEMMA AverageOfScores ==
  ASSUME NEW n \in Nat, n # 0, NEW t \in Nat, n <= t, t <= 998 * n
  PROVE  t \div n \in 1 .. 998
<1> DEFINE q == t \div n
<1>1. q \in Int /\ n * q <= t /\ t < n * q + n
  OBVIOUS
<1>2. q >= 1
  <2>1. SUFFICES ASSUME q <= 0 PROVE FALSE
    BY <1>1
  <2>2. n * q <= 0
    BY <1>1, <2>1
  <2>3. QED
    BY <1>1, <2>2
<1>3. q <= 998
  <2>1. SUFFICES ASSUME q >= 999 PROVE FALSE
    BY <1>1
  <2>2. n * q >= n * 999
    BY <1>1, <2>1
  <2>3. QED
    BY <1>1, <2>2
<1>4. QED
  BY <1>1, <1>2, <1>3

\* The tasks counted are finitely many, at most as many as there are agencies.
LEMMA CountedIsFinite ==
  IsFiniteSet(Counted) /\ Cardinality(Counted) \in 0 .. Cardinality(Agencies)
<1>1. Counted \subseteq Agencies
  BY DEF Counted
<1>2. IsFiniteSet(Agencies)
  BY AgenciesAssumption
<1>3. QED
  BY <1>1, <1>2, FS_Subset, FS_CardinalityType

\* One task more is counted: the count grows by one.
LEMMA OneMoreCounted ==
  ASSUME TypeOK, NEW a \in Agencies, task[a] = "finished",
         task' = [task EXCEPT ![a] = "counted"]
  PROVE  Counted' = Counted \cup {a} /\ Cardinality(Counted') = Cardinality(Counted) + 1
<1>1. Counted' = Counted \cup {a} /\ a \notin Counted
  BY DEF TypeOK, Counted
<1>2. QED
  BY <1>1, CountedIsFinite, FS_AddElement

-----------------------------------------------------------------------------
(* The invariant is inductive.                                             *)

LEMMA CreditInit == Init => CreditInvariant
<1> SUFFICES ASSUME Init PROVE CreditInvariant
  OBVIOUS
<1> USE TimesAssumption, AgenciesAssumption DEF Init
<1>1. Counted = {}
  BY DEF Counted
<1>2. Cardinality(Counted) = 0
  BY <1>1, FS_EmptySet
<1>3. Cardinality(Agencies) \in Nat
  BY FS_CardinalityType
<1>4. TypeOK
  BY <1>3 DEF TypeOK, Time, Failure
<1>5. QED
  BY <1>1, <1>2, <1>4 DEF CreditInvariant, Timely, Tallied, Punctual

\* Tasks that are aborted were not counted, and no task finishes by it.
LEMMA AbortKeepsCounted ==
  ASSUME TypeOK, AbortAll
  PROVE  /\ Counted' = Counted
         /\ task' \in [Agencies -> {"spawned", "sleeping", "finished", "counted",
                                    "ignored", "aborted"}]
         /\ \A a \in Agencies : task'[a] = "finished" => task[a] = "finished"
BY DEF TypeOK, AbortAll, Counted, Running

LEMMA TypeKept ==
  ASSUME CreditInvariant, [Next]_vars
  PROVE  TypeOK'
<1> USE TimesAssumption, AgenciesAssumption
<1>1. TypeOK /\ returned = Cardinality(Counted)
  BY DEF CreditInvariant, Tallied
<1>2. ASSUME NEW a \in Agencies, Start(a) PROVE TypeOK'
  <2>1. PICK o \in Outcomes : /\ at' = [at EXCEPT ![a] = now + o.delay]
                              /\ answer' = [answer EXCEPT ![a] = o.answer]
    BY <1>2 DEF Start
  <2>2. o.delay \in Nat /\ o.answer \in Nat
    BY <2>1
  <2>3. QED
    BY <1>1, <1>2, <2>1, <2>2 DEF Start, TypeOK, Time
<1>3. ASSUME NEW a \in Agencies, Finish(a) PROVE TypeOK'
  BY <1>1, <1>3 DEF Finish, TypeOK, Time
<1>4. CASE OpenWindow
  BY <1>1, <1>4 DEF OpenWindow, Goto, TypeOK, Time
<1>5. CASE LeaveLoop
  BY <1>1, <1>5 DEF LeaveLoop, Conclude, Goto, TypeOK, Time
<1>6. CASE CloseWindow \/ Elapsed \/ Drop
  BY <1>1, <1>6, AbortKeepsCounted
  DEF CloseWindow, Elapsed, Drop, Conclude, Goto, TypeOK, Time
<1>7. CASE Await
  BY <1>1, <1>7 DEF Await, Goto, TypeOK, Time
<1>8. ASSUME NEW a \in Agencies, JoinNext(a) PROVE TypeOK'
  <2>1. CASE answer[a] \in ValidScores
    <3>1. returned' = Cardinality(Counted')
      BY <1>1, <1>8, <2>1, OneMoreCounted, CountedIsFinite DEF JoinNext, TypeOK
    <3>2. returned + 1 \in 0 .. Cardinality(Agencies)
      <4>1. Counted' \subseteq Agencies
        BY DEF Counted
      <4>2. Cardinality(Counted') \in 0 .. Cardinality(Agencies)
        BY <4>1, FS_Subset, FS_CardinalityType
      <4>3. QED
        BY <1>8, <2>1, <3>1, <4>2 DEF JoinNext
    <3>3. QED
      BY <1>1, <1>8, <2>1, <3>2 DEF JoinNext, Goto, TypeOK, Time, ValidScores
  <2>2. CASE answer[a] \notin ValidScores
    BY <1>1, <1>8, <2>2 DEF JoinNext, Goto, TypeOK, Time
  <2>3. QED
    BY <2>1, <2>2
<1>9. CASE Tick
  BY <1>1, <1>9 DEF Tick, TypeOK, Time
<1>10. CASE UNCHANGED vars
  BY <1>1, <1>10 DEF vars, TypeOK, Time
<1>11. QED
  BY <1>2, <1>3, <1>4, <1>5, <1>6, <1>7, <1>8, <1>9, <1>10
  DEF Next, HandlerStep, Idle

LEMMA TimelyKept ==
  ASSUME CreditInvariant, [Next]_vars
  PROVE  Timely'
<1> USE TimesAssumption
<1>1. /\ now \in Nat /\ since \in Nat /\ deadline \in Nat
      /\ at \in [Agencies -> Nat] /\ Lag \in Nat /\ Window \in Nat
  BY DEF CreditInvariant, TypeOK, Time
<1>2. Timely
  BY DEF CreditInvariant
<1>3. ASSUME NEW a \in Agencies, Start(a) \/ Finish(a) PROVE Timely'
  BY <1>2, <1>3 DEF Start, Finish, Timely
<1>4. CASE OpenWindow
  BY <1>1, <1>4 DEF OpenWindow, Goto, Timely
<1>5. CASE LeaveLoop \/ CloseWindow \/ Elapsed \/ Drop
  BY <1>1, <1>5 DEF LeaveLoop, CloseWindow, Elapsed, Drop, Conclude, Goto, Timely
<1>6. CASE Await
  BY <1>1, <1>6 DEF Await, WindowClosed, Goto, Timely
<1>7. ASSUME NEW a \in Agencies, JoinNext(a) PROVE Timely'
  BY <1>1, <1>2, <1>7 DEF JoinNext, Goto, Timely
<1>8. CASE Tick
  BY <1>1, <1>2, <1>8 DEF Tick, Overdue, Timely
<1>9. CASE UNCHANGED vars
  BY <1>2, <1>9 DEF vars, Timely
<1>10. QED
  BY <1>3, <1>4, <1>5, <1>6, <1>7, <1>8, <1>9 DEF Next, HandlerStep, Idle

LEMMA TalliedKept ==
  ASSUME CreditInvariant, [Next]_vars
  PROVE  Tallied'
<1>1. TypeOK /\ Tallied /\ Cardinality(Counted) \in Nat
  BY CountedIsFinite DEF CreditInvariant
<1>2. ASSUME NEW a \in Agencies, Start(a) \/ Finish(a) PROVE Tallied'
  <2>1. Counted' = Counted
    BY <1>1, <1>2 DEF Start, Finish, TypeOK, Counted
  <2>2. QED
    BY <1>1, <1>2, <2>1 DEF Start, Finish, Tallied
<1>3. CASE OpenWindow \/ Await \/ Tick \/ UNCHANGED vars
  <2>1. Counted' = Counted
    BY <1>3 DEF OpenWindow, Await, Tick, vars, Counted
  <2>2. QED
    BY <1>1, <1>3, <2>1 DEF OpenWindow, Await, Tick, vars, Goto, Tallied
<1>4. CASE LeaveLoop
  <2>1. Counted' = Counted
    BY <1>4 DEF LeaveLoop, Counted
  <2>2. QED
    BY <1>1, <1>4, <2>1 DEF LeaveLoop, Conclude, Goto, Tallied
<1>5. CASE CloseWindow \/ Elapsed \/ Drop
  <2>1. Counted' = Counted
    BY <1>1, <1>5, AbortKeepsCounted DEF CloseWindow, Elapsed, Drop
  <2>2. QED
    BY <1>1, <1>5, <2>1 DEF CloseWindow, Elapsed, Drop, Conclude, Goto, Tallied
<1>6. ASSUME NEW a \in Agencies, JoinNext(a) PROVE Tallied'
  <2>1. CASE answer[a] \in ValidScores
    <3>1. Cardinality(Counted') = Cardinality(Counted) + 1
      BY <1>1, <1>6, <2>1, OneMoreCounted DEF JoinNext
    <3>2. total' = total + answer[a] /\ returned' = returned + 1 /\ pc' = "loop"
      BY <1>6, <2>1 DEF JoinNext, Goto
    <3>3. /\ total \in Nat /\ returned \in Nat /\ returned = Cardinality(Counted)
          /\ returned <= total /\ total <= 998 * returned
      BY <1>1 DEF Tallied, TypeOK
    <3>4. returned' <= total' /\ total' <= 998 * returned'
      <4> DEFINE score == answer[a]
      <4>1. score \in Nat /\ score >= 1 /\ score <= 998
        <5>1. score \in ValidScores
          BY <2>1
        <5> HIDE DEF score
        <5>2. QED
          BY <5>1 DEF ValidScores
      <4>2. returned + 1 <= total + answer[a]
        BY <3>3, <4>1
      <4>3. total + answer[a] <= 998 * (returned + 1)
        BY <3>3, <4>1
      <4>4. QED
        BY <3>2, <4>2, <4>3
    <3>5. QED
      BY <3>1, <3>2, <3>3, <3>4 DEF Tallied
  <2>2. CASE answer[a] \notin ValidScores
    <3>1. Counted' = Counted
      BY <1>1, <1>6, <2>2 DEF JoinNext, TypeOK, Counted
    <3>2. QED
      BY <1>1, <1>6, <2>2, <3>1 DEF JoinNext, Goto, Tallied
  <2>3. QED
    BY <2>1, <2>2
<1>7. QED
  BY <1>2, <1>3, <1>4, <1>5, <1>6 DEF Next, HandlerStep, Idle

LEMMA PunctualKept ==
  ASSUME CreditInvariant, [Next]_vars
  PROVE  Punctual'
<1> USE TimesAssumption
<1>1. TypeOK /\ Punctual /\ Timely
  BY DEF CreditInvariant
<1>2. /\ now \in Nat /\ since \in Nat /\ deadline \in Nat
      /\ at \in [Agencies -> Nat]
      /\ task \in [Agencies -> {"spawned", "sleeping", "finished", "counted",
                               "ignored", "aborted"}]
  BY <1>1 DEF TypeOK, Time
<1>3. \A a \in Counted : a \in Agencies /\ at[a] \in Nat
  BY <1>2 DEF Counted
<1>4. ASSUME NEW a \in Agencies, Start(a) PROVE Punctual'
  <2>1. Counted' = Counted /\ \A b \in Counted : at'[b] = at[b]
    BY <1>2, <1>4 DEF Start, Counted
  <2>2. QED
    BY <1>1, <1>2, <1>4, <2>1 DEF Start, Punctual
<1>5. ASSUME NEW a \in Agencies, Finish(a) PROVE Punctual'
  <2>1. Counted' = Counted /\ \A b \in Counted : at'[b] = at[b]
    BY <1>2, <1>5 DEF Finish, Counted
  <2>2. QED
    BY <1>1, <1>2, <1>5, <2>1 DEF Finish, Punctual
<1>6. CASE OpenWindow
  <2>1. Counted' = {}
    BY <1>1, <1>6 DEF OpenWindow, Punctual, Counted
  <2>2. QED
    BY <1>1, <1>6, <2>1 DEF OpenWindow, Goto, Punctual
<1>7. CASE LeaveLoop \/ Await
  <2>1. Counted' = Counted
    BY <1>7 DEF LeaveLoop, Await, Counted
  <2>2. QED
    BY <1>1, <1>2, <1>3, <1>7, <2>1
    DEF LeaveLoop, Await, Conclude, Goto, Punctual, Timely
<1>8. CASE CloseWindow \/ Elapsed \/ Drop
  <2>1. Counted' = Counted /\ \A a \in Agencies : task'[a] = "finished" => task[a] = "finished"
    BY <1>1, <1>8, AbortKeepsCounted DEF CloseWindow, Elapsed, Drop
  <2>2. QED
    BY <1>1, <1>8, <2>1 DEF CloseWindow, Elapsed, Drop, Conclude, Goto, Punctual
<1>9. ASSUME NEW a \in Agencies, JoinNext(a) PROVE Punctual'
  <2>1. Counted' \subseteq Counted \cup {a}
    BY <1>2, <1>9 DEF JoinNext, Counted
  <2>2. \A b \in Counted : at[b] < deadline
    BY <1>1, <1>2, <1>3, <1>9 DEF JoinNext, Punctual, Timely
  <2>3. at[a] <= now
    BY <1>1, <1>9 DEF JoinNext, Punctual
  <2>4. \A b \in Counted : at[b] <= now
    BY <1>1, <1>2, <1>3, <1>9 DEF JoinNext, Punctual, Timely
  <2>5. \A b \in Agencies : task'[b] = "finished" => at[b] <= now
    BY <1>1, <1>2, <1>9 DEF JoinNext, Punctual
  <2>6. QED
    BY <1>2, <1>3, <1>9, <2>1, <2>2, <2>3, <2>4, <2>5 DEF JoinNext, Goto, Punctual
<1>10. CASE Tick
  <2>1. Counted' = Counted
    BY <1>10 DEF Tick, Counted
  <2>2. QED
    BY <1>1, <1>2, <1>10, <2>1 DEF Tick, Punctual
<1>11. CASE UNCHANGED vars
  <2>1. Counted' = Counted
    BY <1>11 DEF vars, Counted
  <2>2. QED
    BY <1>1, <1>11, <2>1 DEF vars, Punctual
<1>12. QED
  BY <1>4, <1>5, <1>6, <1>7, <1>8, <1>9, <1>10, <1>11 DEF Next, HandlerStep, Idle

-----------------------------------------------------------------------------
(* Theorems.                                                               *)

\* The inductive invariant of evaluate_credit: how late the handler may be at
\* each point, what its two counters count, and which tasks it has counted.
THEOREM CreditIsKept == Spec => []CreditInvariant
<1>1. CreditInvariant /\ [Next]_vars => CreditInvariant'
  BY TypeKept, TimelyKept, TalliedKept, PunctualKept DEF CreditInvariant
<1>2. QED
  BY CreditInit, <1>1, PTL DEF Spec

\* Whatever the agencies answer, the score CRECUST stores is a valid score and
\* the division is never by zero.
THEOREM ScoresAreValid == Spec => []ScoreIsValid
<1>1. CreditInvariant => ScoreIsValid
  <2> SUFFICES ASSUME CreditInvariant, pc = "scored" PROVE Score \in ValidScores
    BY DEF ScoreIsValid
  <2>1. /\ returned \in Nat /\ returned # 0 /\ total \in Nat
        /\ returned <= total /\ total <= 998 * returned
    BY CountedIsFinite DEF CreditInvariant, Tallied, TypeOK
  <2>2. QED
    BY <2>1, AverageOfScores DEF Score, ValidScores
<1>2. QED
  BY CreditIsKept, <1>1, PTL

\* Whatever the agencies do, the check is over by the end of the window and
\* twice the lateness of the handler.
THEOREM WindowEndsTheCheck == Spec => []EndsWithWindow
<1>1. CreditInvariant => EndsWithWindow
  <2> SUFFICES ASSUME CreditInvariant, pc # "spawned", now > deadline + 2 * Lag
               PROVE  Ended
    BY DEF EndsWithWindow
  <2>1. now \in Nat /\ since \in Nat /\ deadline \in Nat /\ Lag \in Nat
    BY TimesAssumption DEF CreditInvariant, TypeOK, Time
  <2>2. pc \notin {"loop", "waiting"}
    BY <2>1 DEF CreditInvariant, Timely
  <2>3. QED
    BY <2>2 DEF CreditInvariant, TypeOK, Ended
<1>2. QED
  BY CreditIsKept, <1>1, PTL

\* However many agencies answer late, at most one of those scores counts.
THEOREM OneLateScore == Spec => []AtMostOneLateScore
<1>1. CreditInvariant => AtMostOneLateScore
  <2> SUFFICES ASSUME CreditInvariant PROVE AtMostOneLateScore
    OBVIOUS
  <2> DEFINE Late == {a \in Counted : at[a] >= deadline}
  <2>1. CASE Late = {}
    <3>1. Cardinality(Late) = 0
      BY <2>1, FS_EmptySet
    <3>2. QED
      BY <3>1 DEF AtMostOneLateScore
  <2>2. CASE Late # {}
    <3>1. PICK a \in Late : TRUE
      BY <2>2
    <3>2. Late = {a}
      BY <3>1 DEF CreditInvariant, Punctual
    <3>3. Cardinality(Late) = 1
      BY <3>2, FS_Singleton
    <3>4. QED
      BY <3>3 DEF AtMostOneLateScore
  <2>3. QED
    BY <2>1, <2>2
<1>2. QED
  BY CreditIsKept, <1>1, PTL

-----------------------------------------------------------------------------
(* Sums over finite sets.                                                  *)

\* The sum of f[a] over S, as the properties write it.
SumOver(f, S) == FoldSet(LAMBDA a, sum : f[a] + sum, 0, S)

\* The element the fold takes first.
First(s) == CHOOSE x \in s : TRUE

\* g is the recursive function that folds f over the subsets of S; and what that
\* says of its values.
IsFold(g, f, S) ==
  g = [s \in SUBSET S |-> IF s = {} THEN 0 ELSE f[First(s)] + g[s \ {First(s)}]]

FoldsOver(g, f, S) ==
  \A s \in SUBSET S : g[s] = IF s = {} THEN 0 ELSE f[First(s)] + g[s \ {First(s)}]

\* Subsets of a finite set, and what is left when an element is taken.
LEMMA FirstLeavesLess ==
  ASSUME NEW S, IsFiniteSet(S), NEW s \in SUBSET S, NEW x \in s
  PROVE  /\ First(s) \in s
         /\ s \ {x} \in SUBSET S
         /\ Cardinality(s) \in Nat /\ Cardinality(s \ {x}) \in Nat
         /\ Cardinality(s \ {x}) < Cardinality(s)
<1>1. IsFiniteSet(s) /\ IsFiniteSet(s \ {x})
  BY FS_Subset
<1>2. Cardinality(s \ {x}) = Cardinality(s) - 1
  BY <1>1, FS_RemoveElement
<1>3. Cardinality(s) \in Nat /\ Cardinality(s \ {x}) \in Nat
  BY <1>1, FS_CardinalityType
<1>4. First(s) \in s
  BY DEF First
<1>5. QED
  BY <1>2, <1>3, <1>4

\* Of some subsets of a finite set one has no smaller one among them.
LEMMA SmallestSubset ==
  ASSUME NEW S, IsFiniteSet(S), NEW B \in SUBSET (SUBSET S), B # {}
  PROVE  \E s \in B : \A t \in B : ~(Cardinality(t) < Cardinality(s))
<1> DEFINE N == {Cardinality(s) : s \in B}
<1>1. N \subseteq Nat /\ N # {}
  <2>1. \A s \in B : IsFiniteSet(s)
    BY FS_Subset
  <2>2. QED
    BY <2>1, FS_CardinalityType
<1> HIDE DEF N
<1>2. PICK n \in N : \A m \in N : <<m, n>> \notin OpToRel(<, Nat)
  BY <1>1, NatLessThanWellFounded, WFMin
<1>3. \A m \in N : ~(m < n)
  BY <1>1, <1>2 DEF OpToRel
<1>4. QED
  BY <1>3 DEF N

\* All folds agree.
LEMMA FoldsAgree ==
  ASSUME NEW S, IsFiniteSet(S), NEW T, NEW f, NEW e, NEW g, NEW h,
         FoldsOver(g, f, S), FoldsOver(h, e, T),
         NEW s \in (SUBSET S) \cap (SUBSET T), \A a \in s : e[a] = f[a]
  PROVE  g[s] = h[s]
<1> DEFINE B == {t \in SUBSET s : g[t] # h[t]}
<1>1. SUFFICES ASSUME B # {} PROVE FALSE
  OBVIOUS
<1>2. B \in SUBSET (SUBSET S)
  OBVIOUS
<1> HIDE DEF B
<1>3. PICK t \in B : \A u \in B : ~(Cardinality(u) < Cardinality(t))
  BY <1>1, <1>2, SmallestSubset
<1>4. t \in SUBSET s /\ g[t] # h[t] /\ t \in SUBSET S /\ t \in SUBSET T
  BY <1>3 DEF B
<1>5. t # {}
  BY <1>4 DEF FoldsOver
<1> DEFINE x == First(t)
<1>6. x \in t /\ t \ {x} \in SUBSET s /\ Cardinality(t \ {x}) < Cardinality(t)
  <2>1. x \in t
    BY <1>5 DEF First
  <2>2. QED
    BY <1>4, <2>1, FirstLeavesLess
<1>7. g[t \ {x}] = h[t \ {x}]
  BY <1>3, <1>6 DEF B
<1>8. g[t] = f[x] + g[t \ {x}] /\ h[t] = e[x] + h[t \ {x}]
  BY <1>4, <1>5 DEF FoldsOver
<1>9. e[x] = f[x]
  BY <1>4, <1>6
<1>10. QED
  BY <1>4, <1>7, <1>8, <1>9

\* There is a fold: it is built up by the size of the subsets.
LEMMA FoldExists ==
  ASSUME NEW S, IsFiniteSet(S), NEW f
  PROVE  \E g : IsFold(g, f, S)
<1> DEFINE Upto(g, n) ==
             \A s \in SUBSET S :
               Cardinality(s) <= n =>
                 g[s] = IF s = {} THEN 0 ELSE f[First(s)] + g[s \ {First(s)}]
           Bad == {n \in Nat : ~ \E g : Upto(g, n)}
<1>1. Bad = {}
  <2>1. SUFFICES ASSUME Bad # {} PROVE FALSE
    OBVIOUS
  <2>2. PICK n \in Bad : \A m \in Bad : <<m, n>> \notin OpToRel(<, Nat)
    <3>1. Bad \subseteq Nat
      OBVIOUS
    <3> HIDE DEF Bad
    <3>2. QED
      BY <2>1, <3>1, NatLessThanWellFounded, WFMin
  <2>3. n \in Nat /\ ~ \E g : Upto(g, n)
    OBVIOUS
  <2>4. CASE n = 0
    <3>1. \A s \in SUBSET S : Cardinality(s) <= 0 => s = {}
      <4>1. \A s \in SUBSET S : IsFiniteSet(s)
        BY FS_Subset
      <4>2. \A s \in SUBSET S : Cardinality(s) \in Nat
        BY <4>1, FS_CardinalityType
      <4>3. \A s \in SUBSET S : Cardinality(s) = 0 => s = {}
        BY <4>1, FS_EmptySet
      <4>4. QED
        BY <4>2, <4>3
    <3>2. Upto([s \in SUBSET S |-> 0], 0)
      BY <3>1
    <3>3. QED
      BY <2>3, <2>4, <3>2
  <2>5. CASE n # 0
    <3>1. n - 1 \in Nat /\ n - 1 < n
      BY <2>3, <2>5
    <3>2. n - 1 \notin Bad
      BY <2>2, <2>3, <3>1 DEF OpToRel
    <3>3. PICK g : Upto(g, n - 1)
      BY <3>1, <3>2
    <3> DEFINE h == [s \in SUBSET S |-> IF s = {} THEN 0 ELSE f[First(s)] + g[s \ {First(s)}]]
    <3>4. ASSUME NEW s \in SUBSET S, Cardinality(s) <= n, s # {}
          PROVE  h[s] = f[First(s)] + h[s \ {First(s)}]
      <4> DEFINE x == First(s)
      <4>1. x \in s
        BY <3>4 DEF First
      <4>2. /\ s \ {x} \in SUBSET S /\ Cardinality(s) \in Nat
            /\ Cardinality(s \ {x}) \in Nat /\ Cardinality(s \ {x}) < Cardinality(s)
        BY <4>1, FirstLeavesLess
      <4>3. Cardinality(s \ {x}) <= n - 1
        BY <2>3, <3>4, <4>2
      <4>4. g[s \ {x}] = h[s \ {x}]
        BY <3>3, <4>2, <4>3
      <4>5. h[s] = f[x] + g[s \ {x}]
        BY <3>4
      <4>6. QED
        BY <4>4, <4>5
    <3>5. h[{}] = 0
      OBVIOUS
    <3> HIDE DEF h
    <3>6. Upto(h, n)
      BY <3>4, <3>5
    <3>7. QED
      BY <2>3, <3>6
  <2>6. QED
    BY <2>4, <2>5
<1>2. Cardinality(S) \in Nat /\ \A s \in SUBSET S : Cardinality(s) <= Cardinality(S)
  BY FS_CardinalityType, FS_Subset
<1>3. PICK g : Upto(g, Cardinality(S))
  BY <1>1, <1>2
<1> DEFINE G == [s \in SUBSET S |-> g[s]]
<1>4. ASSUME NEW s \in SUBSET S
      PROVE  G[s] = IF s = {} THEN 0 ELSE f[First(s)] + G[s \ {First(s)}]
  <2>1. g[s] = IF s = {} THEN 0 ELSE f[First(s)] + g[s \ {First(s)}]
    BY <1>2, <1>3
  <2>2. s \ {First(s)} \in SUBSET S
    OBVIOUS
  <2>3. QED
    BY <2>1, <2>2
<1>5. IsFold(G, f, S)
  <2>1. DOMAIN G = SUBSET S /\ G = [s \in SUBSET S |-> G[s]]
    OBVIOUS
  <2> HIDE DEF G
  <2>2. QED
    BY <1>4, <2>1 DEF IsFold
<1>6. QED
  BY <1>5

\* The sum is the value of a fold.
LEMMA SumIsFold ==
  ASSUME NEW S, IsFiniteSet(S), NEW f
  PROVE  \E g : FoldsOver(g, f, S) /\ SumOver(f, S) = g[S]
<1> DEFINE G == CHOOSE g : IsFold(g, f, S)
<1>1. IsFold(G, f, S)
  BY FoldExists
<1>2. SumOver(f, S) = G[S]
  BY DEF SumOver, FoldSet, MapThenFoldSet, First, IsFold
<1> HIDE DEF G
<1>3. FoldsOver(G, f, S)
  BY <1>1 DEF FoldsOver, IsFold
<1>4. QED
  BY <1>2, <1>3

\* Folds of natural numbers are natural numbers.
LEMMA FoldIsNat ==
  ASSUME NEW S, IsFiniteSet(S), NEW f, NEW g, FoldsOver(g, f, S),
         \A a \in S : f[a] \in Nat
  PROVE  \A s \in SUBSET S : g[s] \in Nat
<1> DEFINE B == {s \in SUBSET S : g[s] \notin Nat}
<1>1. SUFFICES ASSUME B # {} PROVE FALSE
  OBVIOUS
<1>2. B \in SUBSET (SUBSET S)
  OBVIOUS
<1> HIDE DEF B
<1>3. PICK s \in B : \A t \in B : ~(Cardinality(t) < Cardinality(s))
  BY <1>1, <1>2, SmallestSubset
<1>4. s \in SUBSET S /\ g[s] \notin Nat
  BY <1>3 DEF B
<1>5. s # {}
  <2>1. g[{}] = 0
    BY DEF FoldsOver
  <2>2. QED
    BY <1>4, <2>1
<1> DEFINE x == First(s)
<1>6. x \in s /\ s \ {x} \in SUBSET S /\ Cardinality(s \ {x}) < Cardinality(s)
  <2>1. x \in s
    BY <1>5 DEF First
  <2>2. QED
    BY <1>4, <2>1, FirstLeavesLess
<1>7. g[s \ {x}] \in Nat
  BY <1>3, <1>6 DEF B
<1>8. g[s] = f[x] + g[s \ {x}]
  BY <1>4, <1>5 DEF FoldsOver
<1>9. f[x] \in Nat
  BY <1>4, <1>6
<1>10. QED
  BY <1>4, <1>7, <1>8, <1>9

\* It does not matter which element is taken first.
LEMMA FoldInAnyOrder ==
  ASSUME NEW S, IsFiniteSet(S), NEW f, NEW g, FoldsOver(g, f, S),
         \A a \in S : f[a] \in Nat
  PROVE  \A s \in SUBSET S : \A a \in s : g[s] = f[a] + g[s \ {a}]
<1> DEFINE Holds(s) == \A a \in s : g[s] = f[a] + g[s \ {a}]
           B == {s \in SUBSET S : ~Holds(s)}
<1>1. SUFFICES ASSUME B # {} PROVE FALSE
  OBVIOUS
<1>2. B \in SUBSET (SUBSET S)
  OBVIOUS
<1>3. PICK s \in B : \A t \in B : ~(Cardinality(t) < Cardinality(s))
  <2> HIDE DEF B
  <2>1. QED
    BY <1>1, <1>2, SmallestSubset
<1>4. s \in SUBSET S /\ ~Holds(s)
  OBVIOUS
<1>5. PICK a \in s : g[s] # f[a] + g[s \ {a}]
  BY <1>4
<1> DEFINE x == First(s)
<1>6. x \in s /\ g[s] = f[x] + g[s \ {x}]
  <2>1. x \in s
    BY <1>5 DEF First
  <2>2. QED
    BY <1>4, <2>1 DEF FoldsOver
<1>7. x # a
  BY <1>5, <1>6
<1>8. /\ s \ {x} \in SUBSET S /\ Cardinality(s \ {x}) < Cardinality(s)
      /\ s \ {a} \in SUBSET S /\ Cardinality(s \ {a}) < Cardinality(s)
  BY <1>4, <1>5, <1>6, FirstLeavesLess
<1>9. Holds(s \ {x}) /\ Holds(s \ {a})
  BY <1>3, <1>8
<1>10. g[s \ {x}] = f[a] + g[(s \ {x}) \ {a}] /\ g[s \ {a}] = f[x] + g[(s \ {a}) \ {x}]
  BY <1>5, <1>6, <1>7, <1>9
<1>11. (s \ {x}) \ {a} = (s \ {a}) \ {x}
  OBVIOUS
<1>12. f[a] \in Nat /\ f[x] \in Nat /\ g[(s \ {a}) \ {x}] \in Nat
  BY <1>4, <1>5, <1>6, FoldIsNat
<1>13. g[s] = f[x] + (f[a] + g[(s \ {a}) \ {x}])
  BY <1>6, <1>10, <1>11
<1>14. f[a] + g[s \ {a}] = f[a] + (f[x] + g[(s \ {a}) \ {x}])
  BY <1>10
<1>15. QED
  BY <1>5, <1>12, <1>13, <1>14

LEMMA SumOfNothing == ASSUME NEW f PROVE SumOver(f, {}) = 0
<1>1. PICK g : FoldsOver(g, f, {}) /\ SumOver(f, {}) = g[{}]
  BY SumIsFold, FS_EmptySet
<1>2. QED
  BY <1>1 DEF FoldsOver

\* One element more.
LEMMA SumOfOneMore ==
  ASSUME NEW S, IsFiniteSet(S), NEW f, NEW a, a \notin S, f[a] \in Nat,
         \A b \in S : f[b] \in Nat
  PROVE  SumOver(f, S \cup {a}) = SumOver(f, S) + f[a]
<1> DEFINE T == S \cup {a}
<1>1. IsFiniteSet(T) /\ T \ {a} = S /\ a \in T /\ \A b \in T : f[b] \in Nat
  BY FS_AddElement
<1> HIDE DEF T
<1>2. PICK g : FoldsOver(g, f, S) /\ SumOver(f, S) = g[S]
  BY SumIsFold
<1>3. PICK h : FoldsOver(h, f, T) /\ SumOver(f, T) = h[T]
  BY <1>1, SumIsFold
<1>4. h[T] = f[a] + h[S]
  BY <1>1, <1>3, FoldInAnyOrder
<1>5. g[S] = h[S]
  <2>1. S \in (SUBSET S) \cap (SUBSET T)
    BY <1>1
  <2>2. QED
    BY <1>2, <1>3, <2>1, FoldsAgree
<1>6. g[S] \in Nat
  BY <1>2, FoldIsNat
<1>7. QED
  BY <1>2, <1>3, <1>4, <1>5, <1>6 DEF T

\* Only what is read counts.
LEMMA SumReadsOnlyS ==
  ASSUME NEW S, IsFiniteSet(S), NEW f, NEW e, \A a \in S : e[a] = f[a]
  PROVE  SumOver(e, S) = SumOver(f, S)
<1>1. PICK g : FoldsOver(g, f, S) /\ SumOver(f, S) = g[S]
  BY SumIsFold
<1>2. PICK h : FoldsOver(h, e, S) /\ SumOver(e, S) = h[S]
  BY SumIsFold
<1>3. S \in (SUBSET S) \cap (SUBSET S)
  OBVIOUS
<1>4. g[S] = h[S]
  BY <1>1, <1>2, <1>3, FoldsAgree
<1>5. QED
  BY <1>1, <1>2, <1>4

-----------------------------------------------------------------------------
(* Types and the score.                                                    *)

\* Types, for any number of agencies; returned never exceeds that number.
THEOREM CreditTyped == Spec => []TypeOK
<1>1. CreditInvariant => TypeOK
  BY DEF CreditInvariant
<1>2. QED
  BY CreditIsKept, <1>1, PTL

\* The total is the sum of the scores of the tasks counted, each a valid score.
Summed ==
  /\ total = SumOver(answer, Counted)
  /\ \A a \in Counted : answer[a] \in ValidScores
  /\ pc = "refused" => returned = 0

LEMMA SummedKept ==
  ASSUME CreditInvariant, Summed, [Next]_vars
  PROVE  Summed'
<1>1. TypeOK /\ Tallied /\ IsFiniteSet(Counted)
  BY CountedIsFinite DEF CreditInvariant
<1>2. ASSUME Counted' = Counted, \A a \in Counted : answer'[a] = answer[a],
             UNCHANGED <<total, returned>>, pc' = "refused" => returned = 0
      PROVE  Summed'
  <2>1. SumOver(answer', Counted) = SumOver(answer, Counted)
    BY <1>1, <1>2, SumReadsOnlyS
  <2>2. SumOver(answer, Counted)' = SumOver(answer, Counted)
    <3>1. SumOver(answer', Counted') = SumOver(answer', Counted)
      BY <1>2
    <3>2. QED
      BY <2>1, <3>1
  <2>3. QED
    BY <1>2, <2>2 DEF Summed
<1>3. ASSUME NEW a \in Agencies, Start(a) \/ Finish(a) PROVE Summed'
  <2>1. Counted' = Counted /\ \A b \in Counted : answer'[b] = answer[b]
    BY <1>1, <1>3 DEF Start, Finish, TypeOK, Counted
  <2>2. QED
    BY <1>2, <1>3, <2>1 DEF Start, Finish, Summed
<1>4. CASE OpenWindow \/ Await \/ Tick \/ UNCHANGED vars
  <2>1. Counted' = Counted
    BY <1>4 DEF OpenWindow, Await, Tick, vars, Counted
  <2>2. QED
    BY <1>2, <1>4, <2>1 DEF OpenWindow, Await, Tick, vars, Goto, Summed
<1>5. CASE LeaveLoop
  <2>1. Counted' = Counted
    BY <1>5 DEF LeaveLoop, Counted
  <2>2. QED
    BY <1>2, <1>5, <2>1 DEF LeaveLoop, Conclude, Goto
<1>6. CASE CloseWindow \/ Elapsed \/ Drop
  <2>1. Counted' = Counted
    BY <1>1, <1>6, AbortKeepsCounted DEF CloseWindow, Elapsed, Drop
  <2>2. QED
    BY <1>2, <1>6, <2>1 DEF CloseWindow, Elapsed, Drop, Conclude, Goto
<1>7. ASSUME NEW a \in Agencies, JoinNext(a) PROVE Summed'
  <2>1. CASE answer[a] \in ValidScores
    <3>1. Counted' = Counted \cup {a} /\ a \notin Counted
      BY <1>1, <1>7, <2>1, OneMoreCounted DEF JoinNext, Counted
    <3>2. total \in Nat /\ answer[a] \in Nat /\ answer' = answer /\ total' = total + answer[a]
          /\ pc' = "loop"
      BY <1>1, <1>7, <2>1 DEF JoinNext, Goto, TypeOK
    <3>3. \A b \in Counted : answer[b] \in Nat
      BY <1>1 DEF TypeOK, Counted
    <3>4. SumOver(answer, Counted \cup {a}) = total + answer[a]
      <4>1. SumOver(answer, Counted \cup {a}) = SumOver(answer, Counted) + answer[a]
        BY <1>1, <3>1, <3>2, <3>3, SumOfOneMore
      <4>2. QED
        BY <4>1, Zenon DEF Summed
    <3>5. SumOver(answer, Counted)' = SumOver(answer, Counted \cup {a})
      BY <3>1, <3>2
    <3>6. QED
      BY <2>1, <3>1, <3>2, <3>4, <3>5 DEF Summed
  <2>2. CASE answer[a] \notin ValidScores
    <3>1. Counted' = Counted
      BY <1>1, <1>7, <2>2 DEF JoinNext, TypeOK, Counted
    <3>2. QED
      BY <1>2, <1>7, <2>2, <3>1 DEF JoinNext, Goto
  <2>3. QED
    BY <2>1, <2>2
<1>8. QED
  BY <1>3, <1>4, <1>5, <1>6, <1>7 DEF Next, HandlerStep, Idle

\* The score CRECUST stores is the average of the valid scores that came in, for
\* any number of agencies, in whichever order they answer, fail or are cut off.
THEOREM ScoresAreAverages == Spec => []ScoreIsAverage
<1>1. Init => Summed
  <2>1. Init => Counted = {}
    BY DEF Init, Counted
  <2>2. QED
    BY <2>1, SumOfNothing DEF Init, Summed
<1>2. CreditInvariant /\ Summed /\ [Next]_vars => Summed'
  BY SummedKept
<1>3. CreditInvariant /\ Summed => ScoreIsAverage
  <2> SUFFICES ASSUME CreditInvariant, Summed
               PROVE  ScoreIsAverage
    OBVIOUS
  <2>1. IsFiniteSet(Counted) /\ returned = Cardinality(Counted)
    BY CountedIsFinite DEF CreditInvariant, Tallied
  <2>2. returned = 0 <=> Counted = {}
    BY <2>1, FS_EmptySet
  <2>3. total = FoldSet(LAMBDA a, sum : answer[a] + sum, 0, Counted)
    BY DEF Summed, SumOver
  <2>4. Score = FoldSet(LAMBDA a, sum : answer[a] + sum, 0, Counted) \div Cardinality(Counted)
    BY <2>1, <2>3, Zenon DEF Score
  <2>5. pc = "scored" => Counted # {}
    BY <2>2 DEF CreditInvariant, Tallied
  <2>6. QED
    BY <2>2, <2>4, <2>5, Zenon DEF ScoreIsAverage, Summed
<1>4. QED
  BY CreditIsKept, <1>1, <1>2, <1>3, PTL DEF Spec

-----------------------------------------------------------------------------
(* Answers that come in early enough.                                      *)

\* The tasks the handler has taken out of the JoinSet.
Joined == {a \in Agencies : task[a] \in {"counted", "ignored"}}

\* The handler is no more than n steps, each late by Lag, behind the answer of
\* task a, or behind the opening of the window if that came later.
Behind(time, n, a) ==
  \/ time <= at[a] + n * Lag
  \/ time + Window <= deadline + n * Lag

\* Steps the handler may take while an answer waits: at most all others are
\* joined before it, in two steps each, and one step more is late.
Steps == 2 * Cardinality(Agencies) - 1

\* While the answer of task a waits, every two steps join another task. When the
\* check is over no task runs any more.
Prompt ==
  /\ \A a \in Finished :
       /\ pc = "loop" => Behind(since, 2 * Cardinality(Joined), a)
       /\ pc = "waiting" =>
            /\ Behind(since, 2 * Cardinality(Joined) + 1, a)
            /\ now <= since + Lag \/ now <= at[a] + Lag
       /\ pc \in {"scored", "refused"} => Behind(deadline, Steps, a)
  /\ pc \in {"scored", "refused"} => \A a \in Agencies : ~Running(a)

\* One step more, and bounds that only grow.
LEMMA OneStepBehind ==
  ASSUME TypeOK, NEW n \in Nat, NEW a \in Agencies, NEW t \in Nat, NEW u \in Nat,
         \/ Behind(t, n, a) /\ u <= t + Lag
         \/ u <= at[a] + Lag
  PROVE  Behind(u, n + 1, a)
<1>1. /\ (n + 1) * Lag = n * Lag + Lag /\ n * Lag \in Nat /\ Lag \in Nat
      /\ Window \in Nat /\ deadline \in Nat /\ at[a] \in Nat
  BY TimesAssumption DEF TypeOK
<1> DEFINE P == n * Lag
           Q == (n + 1) * Lag
<1>2. Q = P + Lag /\ P \in Nat
  BY <1>1
<1>3. Behind(t, n, a) <=> t <= at[a] + P \/ t + Window <= deadline + P
  BY DEF Behind
<1>4. Behind(u, n + 1, a) <=> u <= at[a] + Q \/ u + Window <= deadline + Q
  BY DEF Behind
<1> HIDE DEF P, Q
<1>5. QED
  BY <1>1, <1>2, <1>3, <1>4

LEMMA FurtherBehind ==
  ASSUME TypeOK, NEW m \in Nat, NEW n \in Nat, m <= n, NEW a \in Agencies,
         NEW t \in Nat, NEW u \in Nat, u <= t, Behind(t, m, a)
  PROVE  Behind(u, n, a)
<1>1. /\ m * Lag <= n * Lag /\ m * Lag \in Nat /\ n * Lag \in Nat
      /\ Window \in Nat /\ deadline \in Nat /\ at[a] \in Nat
  <2>1. Lag \in Nat /\ n - m \in Nat
    BY TimesAssumption
  <2>2. (n - m) * Lag \in Nat /\ n * Lag = m * Lag + (n - m) * Lag
    BY <2>1
  <2>3. m * Lag \in Nat /\ n * Lag \in Nat
    BY <2>1
  <2>4. QED
    BY <2>2, <2>3, TimesAssumption DEF TypeOK
<1> DEFINE P == m * Lag
           Q == n * Lag
<1>2. Behind(t, m, a) <=> t <= at[a] + P \/ t + Window <= deadline + P
  BY DEF Behind
<1>3. Behind(u, n, a) <=> u <= at[a] + Q \/ u + Window <= deadline + Q
  BY DEF Behind
<1>4. P <= Q /\ P \in Nat /\ Q \in Nat
  BY <1>1
<1> HIDE DEF P, Q
<1>5. QED
  BY <1>1, <1>2, <1>3, <1>4

\* A task that has finished has not been joined, so not all are.
LEMMA JoinedIsFinite ==
  /\ IsFiniteSet(Joined) /\ Cardinality(Joined) \in Nat /\ Cardinality(Agencies) \in Nat
  /\ \A a \in Finished : Cardinality(Joined) + 1 <= Cardinality(Agencies)
<1>1. IsFiniteSet(Agencies) /\ Joined \subseteq Agencies
  BY AgenciesAssumption DEF Joined
<1>2. IsFiniteSet(Joined)
  BY <1>1, FS_Subset
<1>3. ASSUME NEW a \in Finished
      PROVE  Cardinality(Joined) + 1 <= Cardinality(Agencies)
  <2>1. a \notin Joined /\ Joined \cup {a} \subseteq Agencies
    BY DEF Joined, Finished
  <2>2. Cardinality(Joined \cup {a}) = Cardinality(Joined) + 1
    BY <1>2, <2>1, FS_AddElement
  <2>3. Cardinality(Joined \cup {a}) <= Cardinality(Agencies)
    BY <1>1, <2>1, FS_Subset
  <2>4. QED
    BY <2>2, <2>3
<1>4. QED
  BY <1>1, <1>2, <1>3, FS_CardinalityType

LEMMA OneMoreJoined ==
  ASSUME TypeOK, NEW a \in Agencies, JoinNext(a)
  PROVE  Cardinality(Joined') = Cardinality(Joined) + 1
<1>1. Joined' = Joined \cup {a} /\ a \notin Joined
  BY DEF TypeOK, JoinNext, Joined
<1>2. QED
  BY <1>1, JoinedIsFinite, FS_AddElement

LEMMA PromptKept ==
  ASSUME CreditInvariant, Prompt, [Next]_vars
  PROVE  Prompt'
<1> USE TimesAssumption, AgenciesAssumption
<1> DEFINE j == Cardinality(Joined)
<1>1. TypeOK /\ Timely /\ TypeOK'
  BY TypeKept DEF CreditInvariant
<1>2. /\ now \in Nat /\ since \in Nat /\ deadline \in Nat /\ Lag \in Nat /\ Window \in Nat
      /\ at \in [Agencies -> Nat]
      /\ task \in [Agencies -> {"spawned", "sleeping", "finished", "counted",
                               "ignored", "aborted"}]
  BY <1>1 DEF TypeOK, Time
<1>3. /\ j \in Nat /\ 2 * j \in Nat /\ 2 * j + 1 \in Nat
      /\ 2 * (j + 1) = (2 * j + 1) + 1
  BY JoinedIsFinite
<1>4. \A a \in Finished : a \in Agencies /\ Steps \in Nat /\ 2 * j + 1 <= Steps
  BY JoinedIsFinite DEF Finished, Steps
<1>5. ASSUME NEW a \in Agencies, Start(a) PROVE Prompt'
  <2>1. Joined' = Joined /\ Finished' = Finished
    BY <1>2, <1>5 DEF Start, Joined, Finished
  <2>2. \A b \in Finished : at'[b] = at[b]
    BY <1>2, <1>5 DEF Start, Finished
  <2>3. Running(a) /\ UNCHANGED <<now, pc, since, deadline>>
    BY <1>5 DEF Start, Running
  <2>4. pc \notin {"scored", "refused"}
    BY <2>3 DEF Prompt
  <2>5. QED
    BY <2>1, <2>2, <2>3, <2>4 DEF Prompt, Behind
<1>6. ASSUME NEW a \in Agencies, Finish(a) PROVE Prompt'
  <2>1. Joined' = Joined /\ Finished' = Finished \cup {a} /\ a \notin Finished
    BY <1>2, <1>6 DEF Finish, Joined, Finished
  <2>2. at'[a] = now /\ \A b \in Finished : at'[b] = at[b]
    BY <1>2, <1>6 DEF Finish, Finished
  <2>3. Running(a) /\ UNCHANGED <<now, pc, since, deadline>>
    BY <1>6 DEF Finish, Running
  <2>4. \A n \in Nat : since <= now + n * Lag /\ now <= now + Lag
    BY <1>1, <1>2 DEF Timely
  <2>5. pc \notin {"scored", "refused"}
    BY <2>3 DEF Prompt
  <2>6. QED
    BY <1>3, <2>1, <2>2, <2>3, <2>4, <2>5 DEF Prompt, Behind
<1>7. CASE OpenWindow
  <2>1. Joined' = Joined /\ Finished' = Finished
    BY <1>7 DEF OpenWindow, Joined, Finished
  <2>2. deadline' = now + Window /\ since' = now /\ pc' = "loop"
    BY <1>7 DEF OpenWindow, Goto
  <2>3. \A n \in Nat : since' + Window <= deadline' + n * Lag
    BY <1>2, <2>2
  <2>4. QED
    BY <1>3, <2>1, <2>2, <2>3 DEF Prompt, Behind
<1>8. CASE LeaveLoop
  <2>1. Finished' = {} /\ \A a \in Agencies : ~Running(a)'
    BY <1>8 DEF LeaveLoop, AllJoined, Finished, Running
  <2>2. QED
    BY <2>1 DEF Prompt
<1>9. CASE CloseWindow \/ Elapsed
  <2>1. /\ Finished' = Finished /\ \A a \in Agencies : ~Running(a)'
        /\ UNCHANGED <<now, at, deadline>> /\ pc' \in {"scored", "refused"}
    BY <1>2, <1>9 DEF CloseWindow, Elapsed, AbortAll, Conclude, Goto, Finished, Running
  <2>2. ASSUME NEW a \in Finished PROVE Behind(deadline, Steps, a)
    <3>1. /\ pc = "loop" /\ deadline <= now /\ now <= since + Lag
      BY <1>1, <1>9, <2>2 DEF CloseWindow, Elapsed, WindowClosed, Timely
    <3>2. Behind(since, 2 * j, a)
      BY <2>2, <3>1 DEF Prompt
    <3>3. Behind(now, 2 * j + 1, a)
      BY <1>1, <1>2, <1>3, <1>4, <2>2, <3>1, <3>2, OneStepBehind
    <3>4. QED
      BY <1>1, <1>2, <1>3, <1>4, <2>2, <3>1, <3>3, FurtherBehind
  <2>3. QED
    BY <2>1, <2>2 DEF Prompt, Behind, Steps
<1>10. CASE Drop
  BY <1>10 DEF Drop, Goto, Prompt
<1>11. CASE Await
  <2>1. /\ Joined' = Joined /\ Finished' = Finished
        /\ UNCHANGED <<now, at, deadline>> /\ pc = "loop" /\ pc' = "waiting" /\ since' = now
    BY <1>11 DEF Await, Goto, Joined, Finished
  <2>2. ASSUME NEW a \in Finished PROVE Behind(now, 2 * j + 1, a)
    <3>1. Behind(since, 2 * j, a) /\ now <= since + Lag
      BY <1>1, <2>1, <2>2 DEF Prompt, Timely
    <3>2. QED
      BY <1>1, <1>2, <1>3, <1>4, <2>2, <3>1, OneStepBehind
  <2>3. now <= now + Lag
    BY <1>2
  <2>4. QED
    BY <2>1, <2>2, <2>3 DEF Prompt, Behind
<1>12. ASSUME NEW b \in Agencies, JoinNext(b) PROVE Prompt'
  <2>1. /\ Finished' \subseteq Finished
        /\ UNCHANGED <<now, at, deadline>> /\ pc = "waiting" /\ pc' = "loop" /\ since' = now
    BY <1>2, <1>12 DEF JoinNext, Goto, Finished
  <2>2. Cardinality(Joined') = j + 1
    BY <1>1, <1>12, OneMoreJoined
  <2>3. ASSUME NEW a \in Finished PROVE Behind(now, 2 * (j + 1), a)
    <3>1. Behind(since, 2 * j + 1, a) /\ (now <= since + Lag \/ now <= at[a] + Lag)
      BY <2>1, <2>3 DEF Prompt
    <3>2. Behind(now, (2 * j + 1) + 1, a)
      BY <1>1, <1>2, <1>3, <1>4, <2>3, <3>1, OneStepBehind
    <3>3. QED
      BY <1>3, <3>2, Zenon
  <2> HIDE DEF j
  <2>4. QED
    BY <2>1, <2>2, <2>3 DEF Prompt, Behind
<1>13. CASE Tick
  <2>1. /\ Joined' = Joined /\ Finished' = Finished
        /\ UNCHANGED <<at, deadline, pc, since>> /\ now' = now + 1 /\ ~Overdue
    BY <1>13 DEF Tick, Joined, Finished
  <2>2. ASSUME NEW a \in Finished, pc = "waiting"
        PROVE  now + 1 <= since + Lag \/ now + 1 <= at[a] + Lag
    BY <1>2, <1>4, <2>1, <2>2 DEF Overdue
  <2>3. \A a \in Agencies : Running(a)' <=> Running(a)
    BY <1>13 DEF Tick, Running
  <2>4. QED
    BY <2>1, <2>2, <2>3 DEF Prompt, Behind
<1>14. CASE UNCHANGED vars
  <2>1. Joined' = Joined /\ Finished' = Finished /\ \A a \in Agencies : Running(a)' <=> Running(a)
    BY <1>14 DEF vars, Joined, Finished, Running
  <2>2. QED
    BY <1>14, <2>1 DEF vars, Prompt, Behind
<1>15. QED
  BY <1>5, <1>6, <1>7, <1>8, <1>9, <1>10, <1>11, <1>12, <1>13, <1>14
  DEF Next, HandlerStep, Idle

\* An answer that comes in early enough counts, for any number of agencies, as
\* long as the handler, late at every one of those steps, still needs less time
\* for them than the window has: 3 seconds are far more than the time of nine
\* polls. Without that an answer that waits from before the window was opened
\* can be cut off.
THEOREM PromptAnswersAreCounted ==
  Steps * Lag < Window => (Spec => []PromptAnswersCount)
<1> SUFFICES ASSUME Steps * Lag < Window
             PROVE  Spec => []PromptAnswersCount
  OBVIOUS
<1>1. Init => Prompt
  BY DEF Init, Prompt, Finished
<1>2. CreditInvariant /\ Prompt /\ [Next]_vars => Prompt'
  BY PromptKept
<1>3. CreditInvariant /\ Prompt => PromptAnswersCount
  <2> SUFFICES ASSUME CreditInvariant, Prompt, pc \in {"scored", "refused"}, NEW a \in Finished
               PROVE  at[a] + Steps * Lag >= deadline
    BY DEF PromptAnswersCount, Steps
  <2>1. Behind(deadline, Steps, a)
    BY DEF Prompt
  <2>2. /\ deadline \in Nat /\ at[a] \in Nat /\ Window \in Nat /\ Steps \in Nat /\ Lag \in Nat
    BY TimesAssumption, JoinedIsFinite DEF CreditInvariant, TypeOK, Finished, Steps
  <2> DEFINE P == Steps * Lag
  <2>3. P \in Nat /\ P < Window
    BY <2>2
  <2>4. deadline <= at[a] + P \/ deadline + Window <= deadline + P
    BY <2>1 DEF Behind
  <2> HIDE DEF P
  <2>5. deadline <= at[a] + P
    BY <2>2, <2>3, <2>4
  <2>6. at[a] + P >= deadline
    BY <2>2, <2>3, <2>5
  <2>7. QED
    BY <2>6 DEF P
<1>4. QED
  BY CreditIsKept, <1>1, <1>2, <1>3, PTL DEF Spec
=============================================================================
